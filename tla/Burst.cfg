SPECIFICATION Spec
CONSTANTS
  OSes = {"unix", "windows"}
  Intervals = {1, 3}
  EmitEveryMs = 4
  WindowMs = 2
  DfEveryMs = 4
  SlowEveryMs = 2
  RestartEvery = 2
  StepMs = 2
  CapMs = 5
  Boot = 9
  WireCap = 3
  MaxTime = 8
  MaxPass = 0
  MaxEvents = 0
  MaxGlitches = 0
  None = None
INVARIANT RatesAreNotOverstated
CHECK_DEADLOCK FALSE
