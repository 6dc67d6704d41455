CONSTANTS
  Hosts = {h1}
  Clients = {c1, c2}
  Offered <- Edits
  Servers = {}
  Groups = {}
  OSes = {unix}
  Rates = {1, 2}
  MinRate = 1
  MaxRate = 2
  DefaultRate = 1
  Caps = {1}
  MinCap = 1
  MaxCap = 1
  DefaultCap = 1
  Endpoints = {}
  Prefs = {p0}
  DefaultPrefs = p0
  FirstFiles <- Watching
  Crashes = FALSE
  None = None
SPECIFICATION Spec
INVARIANTS NoTaskOutlivesItsHandle
