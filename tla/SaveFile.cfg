SPECIFICATION Spec
CONSTANTS
  Keys <- ThreeKeys
  Writes <- FourWrites
  NBuckets = 2
  HashOf <- TwoBuckets
  Durations <- OneSecond
  StartTime = 10
  EndTime = 11
  LONG_MAX = 20
  MAX_LINE = 50
  NOFILE = NOFILE
INVARIANTS TypeOK
PROPERTIES RestoredAsSaved 
