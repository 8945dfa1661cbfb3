SPECIFICATION FairSpec
CONSTANTS
  Callers = {c1}
  Inner = {}
  Sweepers = {}
  Ticker = Ticker
  Keys = {ka}
  Needs <- NoNeeds
  MaxWrappers = 2
  Sizes = {1}
  TimesOut = {}
  Watching = FALSE
  Top = Top
  None = None
  ka = ka
  kb = kb
  c1 = c1
PROPERTY SameError
CHECK_DEADLOCK FALSE
