SPECIFICATION SearchSpec
CONSTANTS
  NoKey = NoKey
  VariousArtists = VariousArtists
  Requests <- MCRequests
INVARIANTS
  SearchSound
  WideSearchIsExact
  SearchIsAFunction
CHECK_DEADLOCK FALSE
