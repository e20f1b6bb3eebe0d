SPECIFICATION Spec
CONSTANTS
  Keys <- TwoKeys
  Writes <- TwoWrites
  NBuckets = 1
  HashOf <- OneBucket
  Durations <- OneSecond
  StartTime = 10
  EndTime = 11
  LONG_MAX = 20
  MAX_LINE = 50
  NOFILE = NOFILE
PROPERTIES RecoveryCompletes
