SPECIFICATION FairSpec
CONSTANTS
  Rebuilders = {r1, r2}
  Handlers = {}
  Loop = Loop
  Main = Main
  None = None
  ConfigKinds = {"config"}
  ContentKinds = {"content"}
  MayBreak = {FALSE}
  TouchKinds = {}
  EarlyEdits = TRUE
  MaxConfigEdits = 2
  MaxContentEdits = 0
  MaxEdits = 2
  MaxTouches = 0
  MaxSignals = 0
  MaxFailures = 0
  MaxReloads = 2
  r1 = r1
  r2 = r2
PROPERTY ConfigRebuildStarts
CHECK_DEADLOCK FALSE
