SPECIFICATION Spec
CONSTANTS
  Rebuilders = {r1, r2}
  Handlers = {h1}
  Loop = Loop
  Main = Main
  None = None
  ConfigKinds = {"config", "gomod"}
  ContentKinds = {"content", "mass"}
  MayBreak = {FALSE, TRUE}
  TouchKinds = {"static"}
  EarlyEdits = FALSE
  MaxConfigEdits = 1
  MaxContentEdits = 1
  MaxEdits = 2
  MaxTouches = 1
  MaxSignals = 1
  MaxFailures = 1
  MaxReloads = 2
  r1 = r1
  r2 = r2
  h1 = h1
INVARIANT TypeOK
INVARIANT BuildExclusion
INVARIANT OneFullRebuild
INVARIANT FullRebuildOnCurrent
SYMMETRY Symmetry
CHECK_DEADLOCK FALSE
