SPECIFICATION Spec
CONSTANTS
  a1 = a1
  k1 = k1
  r1 = r1
  r2 = r2
  r3 = r3
  g1 = g1
  g2 = g2
  NoCtx = NoCtx
  NoRt = NoRt
  PoolMax = 1
  Contexts <- MCContexts
  ProxyContexts <- MCProxyContexts
  Platform <- MCPlatform
  Callers <- MCCallers
  Runtimes <- MCRuntimes
SYMMETRY Symm
INVARIANTS
  TypeOK
  ActiveServesItsContext
  OnlyActiveBroadcasts
  WaiterHasABuilder
\* The process ends with the panic of a connector that is stopped twice.
CHECK_DEADLOCK FALSE
