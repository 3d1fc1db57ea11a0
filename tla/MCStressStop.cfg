SPECIFICATION FairSpec
CONSTANTS
  N = 1
  Layout <- OneVm
  SigkillAfter = 1
  MaxTerms = 2
  MaxKills = 1
  MaxFaults = 1
PROPERTY TerminateEnds
PROPERTY TimeoutEnds
