SPECIFICATION FairSpec
CONSTANTS
  NoKey = ""
  VariousArtists = "various artists"
  RouteRequests <- MCRequests
  GreedyWidth = 2
  Threads = 2
INVARIANTS
  TypeOK
  ProgressIsTrue
  NeverWorseThanStart
  ResultIsSafe
  SourceOrderIsMatched
PROPERTIES SearchEnds
