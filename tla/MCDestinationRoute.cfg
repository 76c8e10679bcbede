SPECIFICATION Spec
CONSTANTS
  NoKey = NoKey
  VariousArtists = VariousArtists
  MaxTracksPerGap = 8
  Jobs <- MCJobs
INVARIANTS
  PreflightIsRight
  DestinationSound
  AutomaticOutcome
  WideOptionsAreBest
