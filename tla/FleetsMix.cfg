CONSTANTS
  Servers = {s1, s2}
  Bad = Bad
  None = None
SPECIFICATION Spec
INVARIANT FleetsNeverMix
