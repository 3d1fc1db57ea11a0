SPECIFICATION Spec
CONSTANTS
  Metric = {"load_1min", "ce_count", "reallocated_sector_ct"}
  Threshold2 = 1
  MinWindow = 2
  MaxWindow = 5
  MinHistory = 3
  Split = 3
  SmartKeep = 4
  EccKeep = 5
  PerHour = 60
  Pool <- MCPool
  MaxValue = 2
  Gap = {1}
  MaxOwners = 2
INVARIANT TypeOK
INVARIANT SpikeIsRare
INVARIANT NeverBleeds
INVARIANT FaultsOfThePhase
