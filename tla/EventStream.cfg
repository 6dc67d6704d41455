SPECIFICATION Spec
CONSTANTS
  ChanCap = 1
  RingCap = 1
  WireCap = 6
  MaxEvents = 3
  MaxFaults = 1
INVARIANTS InOrderOnce CutsDoNotMatter NothingLostBetween
PROPERTIES SamplersGoOn CatchesUp
CHECK_DEADLOCK FALSE
