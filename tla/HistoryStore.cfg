CONSTANTS
  Hosts = {h1, h2}
  Frames <- PlainFrames
  TierBytes <- Rings
  Limits = {0, 40, 70, 100}
  CheckEvery = 4
  None = None
SPECIFICATION Spec
SYMMETRY AnyHost
INVARIANTS OverIsRecent
PROPERTIES ShedsOnlyWhenOver DegradesUniformly
