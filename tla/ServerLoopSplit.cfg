SPECIFICATION Spec
CONSTANTS
  Conns = {c1, c2}
  Kinds = {"join", "repl", "get", "exit"}
  Bare = {}
  Window = 2
  MaxSent = 2
  FDs = {1, 2}
  CAP = 1
  MaxLen = 2
  Endings = {"closed", "reset"}
  Segmented = TRUE
  HasMaster = TRUE
  Interrupts = TRUE
  NONE = NONE
SYMMETRY ConnSymmetry
INVARIANTS TypeOK JoinedFirst
PROPERTIES JoinedStay
CHECK_DEADLOCK FALSE
