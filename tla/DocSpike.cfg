SPECIFICATION Spec
CONSTANTS
  Metric = {"load_1min"}
  Threshold2 = 9
  MinWindow = 10
  MaxWindow = 100
  MinHistory = 10
  Split = 20
  SmartKeep = 4320
  EccKeep = 1440
  PerHour = 60
  Pool <- NoPool
  MaxValue = 2
  Gap = {1}
  MaxOwners = 2
INVARIANT FiveSigmaFlagged
