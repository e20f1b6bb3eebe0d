SPECIFICATION Spec
CONSTANTS
  Conns = {c1, c2, c3}
  Kinds = {"join", "get", "exit"}
  Bare = {}
  Window = 1
  MaxSent = 2
  FDs = {1, 2}
  CAP = 2
  MaxLen = 3
  Endings = {"closed"}
  Segmented = FALSE
  HasMaster = FALSE
  Interrupts = FALSE
  NONE = NONE
SYMMETRY ConnSymmetry
INVARIANTS TableFits
CHECK_DEADLOCK FALSE
