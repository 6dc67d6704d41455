SPECIFICATION Spec
CONSTANTS
  OSes = {"unix", "windows"}
  Intervals = {1, 3}
  EmitEveryMs = 4
  WindowMs = 2
  DfEveryMs = 4
  SlowEveryMs = 2
  RestartEvery = 2
  StepMs = 2
  CapMs = 4
  Boot = 9
  WireCap = 2
  MaxTime = 8
  MaxPass = 1
  MaxEvents = 1
  MaxGlitches = 1
  None = None
INVARIANTS EveryFrameWhole WindowIsAFloor RatesAreTrue NoLoopRunsForever
PROPERTIES ExtrasKeepTheirPace
CHECK_DEADLOCK FALSE
