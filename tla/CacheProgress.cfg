SPECIFICATION PartsSpec
CONSTANTS
  Callers = {c1, c2, c3}
  Inner = {n1}
  Sweepers = {s1}
  Ticker = Ticker
  Keys = {ka, kb, kc, kd}
  Needs <- Itself
  MaxWrappers = 4
  Sizes = {1}
  TimesOut = {c3, n1}
  Watching = TRUE
  Top = Top
  None = None
  ka = ka
  kb = kb
  kc = kc
  kd = kd
  c1 = c1
  c2 = c2
  n1 = n1
  c3 = c3
  s1 = s1
INVARIANT RemovalsNoticed
PROPERTY ImplementsFlight
PROPERTY CallsEnd
CHECK_DEADLOCK FALSE
