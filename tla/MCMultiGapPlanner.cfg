SPECIFICATION Spec
CONSTANTS
  NoKey = NoKey
  VariousArtists = VariousArtists
  MaxTracksPerGap = 8
  PlanRequests <- MCPlanRequests
INVARIANTS
  PlannerSound
  OnlyFirstTrackFailsLate
  RepairSpendsItsBudget
  WidePlanIsBest
CHECK_DEADLOCK FALSE
