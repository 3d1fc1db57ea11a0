SPECIFICATION Spec
CONSTANTS
  NULL = NULL
  Signal <- MCSignal
  MaxSignals = 2
  DriveModel <- MCDriveModel
  Vendors <- MCVendors
  ComponentMap <- MCComponentMap
INVARIANT UrgencyMonotone
INVARIANT CriticalPointsAtFault
INVARIANT ReportProduced
