SPECIFICATION Spec
CONSTANTS
  Schedule <- TwoFaults
  MaxCampaigns = 1
INVARIANT DiagnosedRunRecorded
