SPECIFICATION Spec
CONSTANTS
  Argvs <- ThreeArguments
  Confs <- TwoLines
  Names = {"a", "b", "missing", "conf", "host"}
  Readable = {"a", "b", "conf"}
  DEFAULT_SAVE_FILE = "data.safe"
  LINE = "line"
  NONE = NONE
INVARIANTS TypeOK ServesPortSet  LocalHasUser 
CHECK_DEADLOCK FALSE
