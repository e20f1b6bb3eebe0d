SPECIFICATION FairSpec
CONSTANTS
  Conns = {p1, c1, r1}
  PyClients = {p1}
  CliClients = {c1}
  Replicas = {r1}
  Bare = {c1, r1}
  Kinds = {"join", "repl", "details", "get", "exit", "shutdown", "blank", "spaces"}
  PyLines = {"get", "shutdown", "spaces"}
  CliLines = {"get"}
  Killable = {p1}
  Window = 3
  MaxSent = 3
  FDs = {1, 2, 3}
  CAP = 3
  MaxLen = 3
  Endings = {"closed", "reset"}
  Segmented = FALSE
  HasMaster = FALSE
  Interrupts = FALSE
  NONE = NONE
INVARIANTS CTypeOK InStep WaitsOnlyAfterBlank  ServerSurvives
PROPERTIES ReadsReturn
CHECK_DEADLOCK FALSE
