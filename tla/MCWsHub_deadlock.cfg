SPECIFICATION FairSpec
CONSTANTS
  c1 = c1
  c2 = c2
  e1 = e1
  x = x
  y = y
  Global = Global
  Clients <- MCClients
  Emitters <- MCEmitters
  Scopes <- MCScopes
  SendBuf = 1
  QueueMax = 1
  MaxEvents = 2
PROPERTY SlowClientsLeave
CHECK_DEADLOCK FALSE
