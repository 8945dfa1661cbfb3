SPECIFICATION FairSpec
CONSTANTS
  Rebuilders = {r1}
  Handlers = {h1}
  Loop = Loop
  Main = Main
  None = None
  ConfigKinds = {"config"}
  ContentKinds = {"content", "mass"}
  MayBreak = {FALSE, TRUE}
  TouchKinds = {}
  EarlyEdits = FALSE
  MaxConfigEdits = 2
  MaxContentEdits = 1
  MaxEdits = 2
  MaxTouches = 0
  MaxSignals = 0
  MaxFailures = 1
  MaxReloads = 2
  r1 = r1
  h1 = h1
PROPERTY LoopLetsGo
PROPERTY RebuildEnds
PROPERTY RequestsAnswered
CHECK_DEADLOCK FALSE
