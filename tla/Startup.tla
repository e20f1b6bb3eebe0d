------------------------------ MODULE Startup ------------------------------
(***************************************************************************)
(* The start of a node, main of network/c/network.c with                   *)
(* init_server_config of src/config.c: arguments and the configuration     *)
(* file are taken in the order they come, then the node becomes a daemon,  *)
(* rebuilds its table, joins its master, and runs as a server or as a      *)
(* local session.                                                          *)
(*                                                                         *)
(* A setting is a pair of its kind and its value, an argument with the     *)
(* argument that follows it or a line of the file split at "=".  Numbers   *)
(* are what atoi makes of the text.  "ismaster" is read by nothing and is  *)
(* left out, as are failures of malloc, fork and bind.                     *)
(***************************************************************************)
EXTENDS Integers, Sequences, FiniteSets, SequencesExt

CONSTANTS Argvs,        \* the arguments: sequences of settings
          Confs,        \* the configuration file: sequences of settings
          Names,        \* the names of files and hosts in them
          Readable,     \* those that fopen can open for reading
          DEFAULT_SAVE_FILE,
          LINE,         \* the savefile's name is in load_server_config's buffer
          NONE

DefaultPort == 5050

Argument == ({"port"} \X Int) \union ({"savefile", "configfile"} \X Names)
              \union {<<"daemonize", NONE>>}
ConfLine == ({"port"} \X Int) \union ({"savefile", "master"} \X Names)
              \union {<<"daemonize", NONE>>, <<"other", NONE>>}

ASSUME StartupAssumption ==
  /\ Argvs \subseteq Seq(Argument) /\ Confs \subseteq Seq(ConfLine)
  /\ Readable \subseteq Names /\ NONE \notin Names
  /\ DEFAULT_SAVE_FILE \notin Readable /\ LINE \notin Readable
  /\ LINE # DEFAULT_SAVE_FILE

VARIABLES
  argv,       \* the arguments (input)
  conf,       \* the configuration file (input)
  args,       \* the arguments left
  lines,      \* the lines of the file left
  port, savefile, rebuild, master, daemonize,  \* host_config
  opened,     \* the name the rebuild opened, or NONE (history)
  announced,  \* the port told to the master, or NONE (history)
  pc          \* "args", "config", "start", "rebuild", "join", "run", "server",
              \* "local", "refused", "failed" or "ended"

inputs == <<argv, conf>>
config == <<port, savefile, rebuild, master, daemonize>>
vars == <<inputs, args, lines, config, opened, announced, pc>>

-----------------------------------------------------------------------------
\* Settings.  Each says what it does to host_config.

\* fopen is tried; what follows a failure is the default name, with rebuild
\* left as it was.  A name in the configuration file stays in the buffer of
\* its line.  Faults: the file is not tried; an earlier name is kept.
SetSavefileBlind(f, name) == savefile' = name /\ rebuild' = TRUE
SetSavefileKept(f, name) ==
  IF f \in Readable THEN savefile' = name /\ rebuild' = TRUE
  ELSE UNCHANGED <<savefile, rebuild>>
SetSavefile(f, name) ==
  IF f \in Readable THEN savefile' = name /\ rebuild' = TRUE
  ELSE savefile' = DEFAULT_SAVE_FILE /\ UNCHANGED rebuild

\* Fault: as in the configuration file.
SetArgPortValid(n) == port' = IF n > 0 THEN n ELSE port
SetArgPort(n) == port' = n

TakeArg ==
  /\ pc = "args" /\ args # <<>>
  /\ args' = Tail(args)
  /\ LET s == Head(args)
     IN  \/ /\ s[1] = "port" /\ SetArgPort(s[2])
            /\ UNCHANGED <<savefile, rebuild, daemonize, lines, pc>>
         \/ /\ s[1] = "savefile" /\ SetSavefile(s[2], s[2])
            /\ UNCHANGED <<port, daemonize, lines, pc>>
         \/ /\ s[1] = "daemonize" /\ daemonize' = TRUE
            /\ UNCHANGED <<port, savefile, rebuild, lines, pc>>
         \/ /\ s[1] = "configfile" /\ s[2] \in Readable
            /\ lines' = conf /\ pc' = "config"
            /\ UNCHANGED <<port, savefile, rebuild, daemonize>>
         \/ /\ s[1] = "configfile" /\ s[2] \notin Readable
            /\ savefile' = DEFAULT_SAVE_FILE
            /\ UNCHANGED <<port, rebuild, daemonize, lines, pc>>
  /\ UNCHANGED <<inputs, master, opened, announced>>

TakeLine ==
  /\ pc = "config" /\ lines # <<>>
  /\ lines' = Tail(lines)
  /\ LET s == Head(lines)
     IN  \/ /\ s[1] = "port"
            /\ port' = IF s[2] > 0 THEN s[2] ELSE port
            /\ UNCHANGED <<savefile, rebuild, master, daemonize>>
         \/ /\ s[1] = "savefile" /\ SetSavefile(s[2], LINE)
            /\ UNCHANGED <<port, master, daemonize>>
         \/ /\ s[1] = "master"
            /\ master' = s[2]
            /\ UNCHANGED <<port, savefile, rebuild, daemonize>>
         \/ /\ s[1] = "daemonize" /\ daemonize' = TRUE
            /\ UNCHANGED <<port, savefile, rebuild, master>>
         \/ s[1] = "other" /\ UNCHANGED config
  /\ UNCHANGED <<inputs, args, opened, announced, pc>>

LinesEnd ==
  /\ pc = "config" /\ lines = <<>>
  /\ pc' = "args"
  /\ UNCHANGED <<inputs, args, lines, config, opened, announced>>

ArgsEnd ==
  /\ pc = "args" /\ args = <<>>
  /\ pc' = "start"
  /\ UNCHANGED <<inputs, args, lines, config, opened, announced>>

-----------------------------------------------------------------------------
\* main

\* A daemon that could not be reached is refused; fault: whatever its port.
UnreachableNever(d, p) == FALSE
Unreachable(d, p) == d /\ p = 0

Start ==
  /\ pc = "start"
  /\ pc' = IF Unreachable(daemonize, port) THEN "refused" ELSE "rebuild"
  /\ UNCHANGED <<inputs, args, lines, config, opened, announced>>

Rebuild ==
  /\ pc = "rebuild"
  /\ opened' = IF rebuild THEN savefile ELSE opened
  /\ rebuild' = FALSE
  /\ pc' = IF master = NONE THEN "run" ELSE "join"
  /\ UNCHANGED <<inputs, args, lines, port, savefile, master, daemonize, announced>>

MasterFails ==
  /\ pc = "join"
  /\ pc' = "failed"
  /\ UNCHANGED <<inputs, args, lines, config, opened, announced>>

\* The handshake, in which the port is told if the master answers; then the
\* port gets its default.  Fault: in any case.
PortAfterJoinAlways(p) == DefaultPort
PortAfterJoin(p) == IF p = 0 THEN DefaultPort ELSE p

JoinMaster ==
  /\ pc = "join"
  /\ announced' \in {port, NONE}
  /\ port' = PortAfterJoin(port)
  /\ pc' = "run"
  /\ UNCHANGED <<inputs, args, lines, savefile, rebuild, master, daemonize, opened>>

Run ==
  /\ pc = "run"
  /\ pc' = IF port > 0 THEN "server" ELSE "local"
  /\ UNCHANGED <<inputs, args, lines, config, opened, announced>>

\* eventLoop: EXIT ends it; SHUTDOWN, any other command and the end of the
\* input do not.
LocalExit ==
  /\ pc = "local"
  /\ pc' = "ended"
  /\ UNCHANGED <<inputs, args, lines, config, opened, announced>>

-----------------------------------------------------------------------------

Init ==
  /\ argv \in Argvs /\ conf \in Confs
  /\ args = argv /\ lines = <<>>
  /\ port = 0 /\ savefile = DEFAULT_SAVE_FILE /\ rebuild = FALSE
  /\ master = NONE /\ daemonize = FALSE
  /\ opened = NONE /\ announced = NONE
  /\ pc = "args"

Next ==
  \/ TakeArg \/ TakeLine \/ LinesEnd \/ ArgsEnd
  \/ Start \/ Rebuild \/ MasterFails \/ JoinMaster \/ Run
  \/ LocalExit

Spec == Init /\ [][Next]_vars

-----------------------------------------------------------------------------
\* Properties

\* The places of the settings in the order in which they are taken: the
\* arguments, and the lines of the file at the place of its argument.
FromFile(i) == argv[i][1] = "configfile" /\ argv[i][2] \in Readable
Places ==
  {p \in (DOMAIN argv) \X ((DOMAIN conf) \union {1}) :
     IF FromFile(p[1]) THEN p[2] \in DOMAIN conf ELSE p[2] = 1}
SettingAt(p) == IF FromFile(p[1]) THEN conf[p[2]] ELSE argv[p[1]]

Before(p, q) == p[1] < q[1] \/ (p[1] = q[1] /\ p[2] < q[2])
LastOf(S) == {p \in S : \A q \in S : ~ Before(p, q)}

\* The settings of the port, and of the savefile.
PortPlaces ==
  {p \in Places : SettingAt(p)[1] = "port" /\ (FromFile(p[1]) => SettingAt(p)[2] > 0)}
SavefilePlaces == {p \in Places : SettingAt(p)[1] \in {"savefile", "configfile"}}

TypeOK ==
  /\ savefile \in Readable \union {DEFAULT_SAVE_FILE, LINE}
  /\ rebuild \in BOOLEAN /\ daemonize \in BOOLEAN
  /\ pc # "config" => lines = <<>>

\* The port served is the last one set, in the arguments or by the file at the
\* place of its argument; only a replica has a default (network.c:204).
ServesPortSet ==
  pc = "server" =>
    LET last == {SettingAt(p)[2] : p \in LastOf(PortPlaces)}
    IN  \/ port \in last
        \/ last \subseteq {0} /\ master # NONE /\ port = DefaultPort

\* A node never loads a file that a later setting has replaced: a name that is
\* opened is the last one set.  The default, after a name that could not be
\* opened, and a name lost with its line's buffer are not such names
\* (config.c:64).
RebuildsFromLast ==
  opened \in Readable =>
    \E p \in LastOf(SavefilePlaces) : SettingAt(p) = <<"savefile", opened>>

\* A session on standard input is never that of a daemon, which has none, nor
\* of a replica, unless a negative port was set (network.c:183).
LocalHasUser == pc = "local" => port < 0 \/ (~ daemonize /\ master = NONE)

\* A replica serves where it told its master that it does, unless it told it
\* before its port was known (network.c:204).
AnnouncedServed ==
  pc = "server" /\ announced # NONE => announced = port \/ announced = 0
=============================================================================
