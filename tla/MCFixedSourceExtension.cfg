SPECIFICATION Spec
CONSTANTS
  Jobs <- NamedJobs
  NoKey = NoKey
  VariousArtists = VariousArtists
  NoMaximum = 99
  DiscoveryMultiplier = 2
  DiscoveryLimit = 3
  DurationTrackLimit = 6
  NodeBudget = 6
  ResultBudget = 3
  MaxWord = 9
INVARIANTS
  ExtensionSound
  SelectionFollowsRelevance
  DurationMembershipsHold
  MembershipSearchIsExact
