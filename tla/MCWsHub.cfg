SPECIFICATION Spec
CONSTANTS
  c1 = c1
  c2 = c2
  e1 = e1
  x = x
  y = y
  Global = Global
  Clients <- MCClients
  Emitters <- MCEmitters
  Scopes <- MCScopes
  SendBuf = 1
  QueueMax = 2
  MaxEvents = 3
SYMMETRY Symm
INVARIANTS
  TypeOK
  StreamHasNoGap
  ChannelClosedOnce
\* The hub stops for good at the first slow client: see the run hub_deadlock.
CHECK_DEADLOCK FALSE
