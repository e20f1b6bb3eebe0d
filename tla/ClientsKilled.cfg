SPECIFICATION CSpec
CONSTANTS
  Conns = {c1}
  PyClients = {}
  CliClients = {c1}
  Replicas = {}
  Bare = {c1}
  Kinds = {"join", "repl", "details", "get", "exit", "shutdown", "blank", "spaces"}
  PyLines = {}
  CliLines = {"get"}
  Killable = {c1}
  Window = 3
  MaxSent = 3
  FDs = {1}
  CAP = 1
  MaxLen = 1
  Endings = {"closed", "reset"}
  Segmented = TRUE
  HasMaster = FALSE
  Interrupts = FALSE
  NONE = NONE
INVARIANTS ServerSurvives
CHECK_DEADLOCK FALSE
