SPECIFICATION FairSpec
CONSTANTS
  NULL = NULL
  d1 = d1
  d2 = d2
  IncidentId = {d1, d2}
  Hardware = {TRUE, FALSE}
  Outcome = {"success", "escalated"}
  Limit = 2
  MaxEvents = 0
  MaxResets = 0
  MaxQueue = 3
INVARIANT FiguresOfTheRefresh
PROPERTY DetailUpdatesLive
