SPECIFICATION Spec
CONSTANTS
  k1 = k1  k2 = k2  k3 = k3  b1 = b1  b2 = b2
  Keys <- ThreeKeys
  Values = {v1, v2}
  Addrs = {a1, a2, a3}
  Buckets <- TwoBuckets
  HashOf <- HashThree
  Durations <- UsualDurations
  StartTime = 10
  EndTime = 12
  LONG_MAX = 40
  MAX_ALLOWED = 3
  InitCapacity = 1
  MaxCapacity = 4
  FREE = FREE
SYMMETRY AddrSymmetry
INVARIANTS TypeOK ChainsSound HeapSound
PROPERTIES StoreSpec VolatileQueued
