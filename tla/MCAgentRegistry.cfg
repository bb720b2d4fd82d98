SPECIFICATION Spec
CONSTANTS
  ds = ds
  old = old
  d1 = d1
  d2 = d2
  o1 = o1
  None = None
  AgentIds <- MCAgentIds
  Sessions <- MCSessions
  AgentOf <- MCAgentOf
  ProxyCapable <- MCProxyCapable
  Undeclared <- MCUndeclared
  MaxRestarts = 1
INVARIANTS
  TypeOK
  RegistryFollowsHandlers
  WelcomeFirst
  LostIsWitnessed
  RecordsSurviveRestarts
  DeletedStaysDeleted
PROPERTY IdentityDurable
