CONSTANTS
  Hosts = {h1}
  Window = w
  Clients = {w}
  Offered <- Everything
  Servers = {s1}
  Groups = {g1}
  OSes = {unix, windows}
  Rates = {0, 1, 2}
  MinRate = 1
  MaxRate = 2
  DefaultRate = 1
  Caps = {0, 1, 2}
  MinCap = 1
  MaxCap = 2
  DefaultCap = 1
  Endpoints = {e1}
  Prefs = {p0}
  DefaultPrefs = p0
  FirstFiles <- LeftBehind
  Crashes = TRUE
  None = None
SPECIFICATION Spec
INVARIANTS TypeOK NoStraySampler MeterTellsTheTruth RemovedHostIsForgotten CapIsApplied SamplersMatchFile
PROPERTIES HistoryOutlivesEdits RemoteFallsSilent MeetsContract
