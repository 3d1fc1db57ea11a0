SPECIFICATION Spec
CONSTANTS
  N = 2
  Layout <- Mixed
  SigkillAfter = 1
  MaxTerms = 2
  MaxKills = 1
  MaxFaults = 0
INVARIANT StressorLeavesNoChild
INVARIANT ExitLeavesNoStressor
INVARIANT StopReachesAll
INVARIANT CreditedToItsOwn
INVARIANT ExitCodeCoversAll
PROPERTY ImplementsProcess
