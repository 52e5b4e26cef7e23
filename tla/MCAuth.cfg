SPECIFICATION Spec
CONSTANTS
  Keys = {k1, k2}
  Configs <- Users
  AttemptLimit = 5
INVARIANTS SessionJustified KeysCountOnce GuessesBounded ContextsAgree
PROPERTIES RequestsAnswered
CHECK_DEADLOCK FALSE
