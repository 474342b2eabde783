SPECIFICATION MCSpec
CONSTANTS
  t1 = t1 t2 = t2 i1 = i1 i2 = i2 i3 = i3 e1 = e1 e2 = e2 e3 = e3 f1 = f1 s1 = s1 s2 = s2 c1 = c1 k1 = k1 k2 = k2
  Threads = {t1, t2} StoreOf <- OneStore OpsOf <- AnyOp Inputs = {i1, i2, i3} IdOf <- Id ReqOf <- Req RespOf <- Resp
  None = None NoThread = NoThread MaxAudits = 2 MaxStops = 2
  Events = {e1, e2, e3} Foreign = {f1} Digests = {s1, s2} Refs <- SnapshotsOf Expires <- ExpiryOf KeyOf <- KeyOfEvent
  Procs = {c1} Worlds <- AllWorlds MaxClock = 4 MaxAudit = 3 MaxCuts = 1
INVARIANTS NoFalseAlarm ToldIsDurable MirrorHolds FreshPurgeStands
PROPERTIES ImplementsAppendLog StoreKept PromisesKept
CHECK_DEADLOCK FALSE
