SPECIFICATION Spec
CONSTANTS
  r1 = r1
  r2 = r2
  Reqs <- MCReqs
  Mixes <- MCMixes
  NoReq = NoReq
  WatchBuf = 2
  TunnelBuf = 1
  MaxMsgs = 3
INVARIANT NeverPanics
CHECK_DEADLOCK FALSE
