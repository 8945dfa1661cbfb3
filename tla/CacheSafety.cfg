SPECIFICATION Spec
CONSTANTS
  Callers = {c1, c2}
  Inner = {n1}
  Sweepers = {}
  Ticker = Ticker
  Keys = {ka, kb}
  Needs <- Chain
  MaxWrappers = 5
  Sizes = {1, 2}
  TimesOut = {n1}
  Watching = FALSE
  Top = Top
  None = None
  ka = ka
  kb = kb
  c1 = c1
  c2 = c2
  n1 = n1
INVARIANT TypeOK
INVARIANT PendingIsCreated
INVARIANT OneCreation
INVARIANT FailuresUndone
INVARIANT SizeBound
SYMMETRY Symmetry
CHECK_DEADLOCK FALSE
