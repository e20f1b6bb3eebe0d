SPECIFICATION FairSpec
CONSTANTS
  Entries = {e1, e2, e3, e4}
  Times = {1, 2}
  InitCapacity = 2
  MaxCapacity = 4
  SIZE_MAX = 99
  NULL = NULL
PROPERTIES CallsReturn QueueSpec
