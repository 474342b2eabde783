SPECIFICATION Spec
CONSTANTS
  Intents = {"n1"}
  Instances = {k1}
  RequiredAcks = 1
  Observations = {good, drift}
  Blocking = {{drift}, {good, drift}}
  Operators = {"unlucky"}
  MaxRevision = 2
  MaxCuts = 1
  Base = "base"
  Candidate = "candidate"
  Manager = "manager"
  Ids = {"base", "candidate"}
  None = None
INVARIANT PointerFollowsPhase
CHECK_DEADLOCK FALSE
