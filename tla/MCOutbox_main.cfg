SPECIFICATION MCSpec
CONSTANTS
  t1 = t1
  t2 = t2
  t3 = t3
  t4 = t4
  k1 = k1
  p1 = p1
  p2 = p2
  Threads = {t1, t2}
  StoreOf <- OneStore
  NameOf <- OwnName
  NoEvent = NoEvent
  NoReceipt = NoReceipt
  NoThread = NoThread
  Torn = Torn
  Keys = {k1}
  Payloads = {p1, p2}
  MaxAttempts = 2
  Lease = 1
  Delays = {1}
  MaxTime = 2
  MaxCrashes = 1
INVARIANT AckedOncePerKey
PROPERTY LeasesKept
PROPERTY LifecycleFollowed
PROPERTY ImplementsWorkQueue
SYMMETRY SymThreads
