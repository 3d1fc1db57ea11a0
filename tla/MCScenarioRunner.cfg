SPECIFICATION FairSpec
CONSTANTS
  Schedule <- ThreeFaults
  MaxCampaigns = 2
INVARIANT TypeOK
INVARIANT FaultsOwned
INVARIANT RowsFollowSchedule
PROPERTY CampaignEnds
