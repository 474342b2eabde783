SPECIFICATION MCSpec
CONSTANTS
  c1 = c1 a1 = a1 a2 = a2 a3 = a3 good = good drift = drift k1 = k1 k2 = k2 g1 = g1 g2 = g2 g3 = g3 r1 = r1 r2 = r2 none = none
  p1 = p1 p2 = p2 w1 = w1 w2 = w2 w3 = w3 u1 = u1 u2 = u2
  Callers = {c1} OpsOf <- AnyOp Ids = {a1, a2, a3} None = None MaxDamage = 1 MaxStops = 2
  Generations = {g1, g2, g3} Readers = {r1, r2} NoGen = none MaxLeases = 4
  Packages = {p1, p2} ReadyFor <- AllReady Commands = {k1, k2} MaxClock = 2 MaxHostStops = 1
  Workers = {w1, w2, w3} Updates = {u1, u2} Canaries <- CanariesOf NoUpdate = none MaxEpoch = 3 MaxFaults = 1
  Intents = {"n1", "n2"} Instances = {k1} RequiredAcks = 1 Observations = {good, drift} Blocking <- Blocked
  Operators = {"careful", "careless"} MaxRevision = 3 MaxCuts = 2
  Base = "base" Candidate = "candidate" Manager = "manager" Bases = {"base", "candidate"} NoDocument = NoDocument
INVARIANTS AuditHolds DrainedIsUnread
PROPERTIES LinkedMoves RecoverSound CandidateEarned RecoverCompletes Drains PointerSucceeds FleetBehindPointer
CHECK_DEADLOCK FALSE
