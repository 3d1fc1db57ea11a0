SPECIFICATION FairSpec
CONSTANTS
  i2 = i2
  i1 = i1
  NULL = NULL
  IncidentId = {i1, i2}
  Component <- MCComponent
  ServiceUnit <- MCServiceUnit
  whitelist <- MCWhitelist
  confidence_threshold = 75
  AnomalyReport <- MCAnomalyReport
  Reply <- MCReply
  MaxAnomalies = 2
  MaxStarts = 3
INVARIANT TypeOK
INVARIANT GatedEffects
INVARIANT WriteAhead
INVARIANT AtMostOnce
INVARIANT RowMatchesTrail
INVARIANT PendingOnlyIfInterrupted
INVARIANT AnomaliesAccounted
PROPERTY SettledIsPermanent
PROPERTY ImplementsContract
PROPERTY ShutdownCompletes
PROPERTY IncidentSettles
