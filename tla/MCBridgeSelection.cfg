SPECIFICATION CommandSpec
CONSTANTS
  NoKey = NoKey
  VariousArtists = VariousArtists
  AdaptiveDistance <- MCAdaptiveDistance
  VariationKey <- MCVariationKey
  Jobs <- MCJobs
INVARIANTS
  CommandSound
  ReportedBridgesHold
  WideExactSearchIsBest
