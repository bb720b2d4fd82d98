SPECIFICATION FairSpec
CONSTANTS
  r1 = r1
  r2 = r2
  Reqs <- MCReqs
  Mixes <- MCMixes
  NoReq = NoReq
  WatchBuf = 2
  TunnelBuf = 1
  MaxMsgs = 3
INVARIANTS
  TypeOK
  OneCloser
  SaturationIsHonest
  NoSlotSurvivesClose
PROPERTIES
  CloseWakesEveryCaller
  KeepsSlotPromise
CHECK_DEADLOCK FALSE
