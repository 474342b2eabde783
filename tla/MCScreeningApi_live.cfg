SPECIFICATION FairSpec
CONSTANTS
  r1 = r1
  r2 = r2
  w1 = w1
  w2 = w2
  v1 = v1
  v2 = v2
  v3 = v3
  k1 = k1
  Requests = {r1, r2}
  Queries = {"q1", "q2"}
  Records = {1, 2, 3}
  HitsOf <- Few
  Limit = 2
  Pools = {v1}
  Started <- OneWorker
  MaxLookups = 2
  MaxDeaths = 1
  Nobody = Nobody
  Keys = {k1}
  Bodies = {"name", "other"}
  KeyOf <- OneKey
  BodyOf <- SameBody
  Items <- Contents
  Targets <- AnyType
  EntityType <- OfTypes
  Versions = {v1, v2}
  MaxRestarts = 1
  MaxActivations = 0
  None = None
CHECK_DEADLOCK FALSE
PROPERTY RequestsEnd
PROPERTY StopEnds
