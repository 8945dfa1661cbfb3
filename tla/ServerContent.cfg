SPECIFICATION FairSpec
CONSTANTS
  Rebuilders = {r1, r2}
  Handlers = {}
  Loop = Loop
  Main = Main
  None = None
  ConfigKinds = {"config"}
  ContentKinds = {"content", "mass"}
  MayBreak = {FALSE}
  TouchKinds = {}
  EarlyEdits = TRUE
  MaxConfigEdits = 0
  MaxContentEdits = 2
  MaxEdits = 2
  MaxTouches = 0
  MaxSignals = 0
  MaxFailures = 0
  MaxReloads = 2
  r1 = r1
  r2 = r2
PROPERTY ServesLatest
CHECK_DEADLOCK FALSE
