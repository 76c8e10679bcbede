SPECIFICATION Spec
CONSTANTS
  NoKey = NoKey
  VariousArtists = VariousArtists
  SourceRoutes <- MCSourceRoutes
  TrackTables <- MCTrackTables
  WindowChoices <- MCWindowChoices
  Positions <- MCPositions
INVARIANTS
  LowerBound
  Attained
  ComputesRecurrence
CHECK_DEADLOCK FALSE
