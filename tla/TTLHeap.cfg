SPECIFICATION Spec
CONSTANTS
  Entries = {e1, e2, e3, e4, e5, e6}
  Times = {1, 2, 3}
  InitCapacity = 2
  MaxCapacity = 8
  SIZE_MAX = 99
  NULL = NULL
SYMMETRY EntrySymmetry
INVARIANTS TypeOK BackPointers MinHeap RootIsEarliest AlmostOrdered
CHECK_DEADLOCK TRUE
