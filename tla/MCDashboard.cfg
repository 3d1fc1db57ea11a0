SPECIFICATION Spec
CONSTANTS
  NULL = NULL
  d1 = d1
  d2 = d2
  d3 = d3
  IncidentId = {d1, d2, d3}
  Hardware = {FALSE}
  Outcome = {"failed"}
  Limit = 2
  MaxEvents = 2
  MaxResets = 1
  MaxQueue = 3
SYMMETRY Ids
INVARIANT TypeOK
INVARIANT PanelFaithful
INVARIANT DetailFollowsCursor
PROPERTY SelectionKept
