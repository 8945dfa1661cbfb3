SPECIFICATION FairSpec
CONSTANTS
  Conns = {c1, c2}
  Rebuilders = {r1}
  Loop = Loop
  Main = Main
  None = None
  Stalled = {c2}
  Buf = 1
  MaxEvents = 1
  MaxReloads = 2
  MaxHellos = 2
  c1 = c1
  c2 = c2
  r1 = r1
INVARIANT TypeOK
INVARIANT HubSendsOnOpen
INVARIANT NothingSkipped
PROPERTY BroadcastsEnd
PROPERTY ReloadsArrive
PROPERTY ConnectionsEnd
CHECK_DEADLOCK FALSE
