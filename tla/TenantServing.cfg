SPECIFICATION FairSpec
CONSTANTS
  p1 = p1
  p2 = p2
  p3 = p3
  t1 = t1
  t2 = t2
  t3 = t3
  t4 = t4
  Engines = {"asr", "tts"}
  Pools = {p1, p2, p3}
  EngineOf <- Kinds
  Sizes <- PoolSizes
  Cluster = TRUE
  NodeNum = 3
  TakenPorts = {"tts"}
  Tenants = {t1, t2, t3, t4}
  TenantSize <- Fits
  Scene <- TwoScenes
  Requests = {r1, r2}
  None = None
INVARIANT TenantKeepsSize
INVARIANT TenantsIsolated
 
PROPERTY ComesUp
PROPERTY TenantServes
PROPERTY MetricsReal
