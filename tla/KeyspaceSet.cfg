SPECIFICATION Spec
CONSTANTS
  k1 = k1  k2 = k2  k3 = k3  b1 = b1  b2 = b2
  Keys <- TwoKeys
  Values = {v1, v2}
  Addrs = {a1, a2, a3}
  Buckets <- OneBucket
  HashOf <- HashTwo
  Durations <- UsualDurations
  StartTime = 10
  EndTime = 13
  LONG_MAX = 40
  MAX_ALLOWED = 9
  InitCapacity = 1
  MaxCapacity = 4
  FREE = FREE
PROPERTIES SetTakesEffect
