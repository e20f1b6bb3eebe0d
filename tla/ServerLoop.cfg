SPECIFICATION Spec
CONSTANTS
  Conns = {c1, c2, c3}
  Kinds = {"join", "get", "blank", "exit", "shutdown"}
  Bare = {}
  Window = 1
  MaxSent = 2
  FDs = {1, 2}
  CAP = 4
  MaxLen = 4
  Endings = {"closed"}
  Segmented = FALSE
  HasMaster = FALSE
  Interrupts = FALSE
  NONE = NONE
SYMMETRY ConnSymmetry
INVARIANTS SlotsSound JoinedFirst StopsOnRequest
PROPERTIES JoinedStay
CHECK_DEADLOCK FALSE
