SPECIFICATION FairSpec
CONSTANTS
  Window = 2
  AgentWindows <- MCAgentWindows
  Sizes <- MCSizes
  SlotBuf = 1
  ReadBuf = 1
  CreditBuf = 1
  InboundBuf = 1
  MaxDown = 3
  MaxUp = 1
INVARIANTS
  TypeOK
  CreditWithinWindow
  NothingLostInSession
PROPERTIES
  KeepsPipePromise
  TeardownReachesBothEnds
CHECK_DEADLOCK FALSE
