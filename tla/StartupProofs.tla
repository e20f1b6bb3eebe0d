--------------------------- MODULE StartupProofs ---------------------------
(***************************************************************************)
(* Proofs about the start of a node, for any arguments and any             *)
(* configuration file.  The settings are taken place by place, and what    *)
(* the node has is at every moment what the last of the places taken so    *)
(* far says (Ports, Files); once all are taken, that is the last one set.  *)
(***************************************************************************)
EXTENDS Startup, TLAPS

-----------------------------------------------------------------------------
(* How far the arguments and the file have been taken. *)

\* The arguments taken, the lines taken of the file being read, and the
\* places of both.
At == Len(argv) - Len(args)
Row == Len(conf) - Len(lines)
Done ==
  {p \in Places : p[1] < At \/ (p[1] = At /\ (pc = "config" => p[2] <= Row))}

\* What is left is the rest of what was given.
Progress ==
  /\ argv \in Seq(Argument) /\ conf \in Seq(ConfLine)
  /\ args \in Seq(Argument) /\ lines \in Seq(ConfLine)
  /\ Len(args) <= Len(argv) /\ Len(lines) <= Len(conf)
  /\ \A i \in 1 .. Len(args) : args[i] = argv[At + i]
  /\ pc = "config" => /\ At >= 1 /\ FromFile(At)
                      /\ \A j \in 1 .. Len(lines) : lines[j] = conf[Row + j]
  /\ pc # "config" => lines = <<>>
  /\ pc \notin {"args", "config"} => args = <<>>

\* The last of the places taken that set the port, and the savefile.
LastPort == LastOf(PortPlaces \intersect Done)
LastFile == LastOf(SavefilePlaces \intersect Done)

\* A port is what the last of them says, and zero without one.
PortSet(n) == (LastPort = {} => n = 0) /\ \A p \in LastPort : SettingAt(p)[2] = n

\* From here on the master, if there is one, has been told of the port.
Joined == {"run", "server", "local", "ended"}

\* The port is the last one set, or, for a replica without one, the default
\* that main assigns after the handshake (network.c:204).
Ports ==
  /\ port \in Int
  /\ \/ PortSet(port)
     \/ pc \in Joined /\ PortSet(0) /\ master # NONE /\ port = DefaultPort

\* The last savefile set is f.
FileSet(f) == \E p \in LastFile : SettingAt(p) = <<"savefile", f>>

\* The savefile is the last one set, if it can be opened at all; only that one
\* is opened.
Files ==
  /\ savefile \in Readable \union {DEFAULT_SAVE_FILE, LINE}
  /\ rebuild \in BOOLEAN /\ daemonize \in BOOLEAN
  /\ savefile \in Readable => FileSet(savefile)
  /\ opened \in Readable => FileSet(opened)
  /\ pc \in {"args", "config", "start", "rebuild"} => opened = NONE

\* What main has decided by the port, and what it has told.
Decisions ==
  /\ pc \in {"rebuild", "join"} \union Joined => ~ (daemonize /\ port = 0)
  /\ pc \in Joined => (master # NONE => port # 0)
  /\ pc = "join" => master # NONE
  /\ pc = "server" => port > 0
  /\ pc = "local" => ~ (port > 0)
  /\ announced # NONE => announced = port \/ announced = 0
  /\ pc \notin Joined => announced = NONE

\* The invariant.
Inv == Progress /\ Ports /\ Files /\ Decisions

-----------------------------------------------------------------------------
(* The places. *)

\* A place is a pair of numbers.
LEMMA PlaceFacts ==
  ASSUME Progress, NEW p \in Places
  PROVE  /\ p \in Nat \X Nat /\ p[1] \in 1 .. Len(argv)
         /\ FromFile(p[1]) => p[2] \in 1 .. Len(conf)
         /\ ~ FromFile(p[1]) => p[2] = 1
<1>1. DOMAIN argv = 1 .. Len(argv) /\ DOMAIN conf = 1 .. Len(conf)
  BY DEF Progress
<1>. QED BY <1>1 DEF Places

\* What comes after all the others is the last.
LEMMA Latest ==
  ASSUME NEW S \in SUBSET (Nat \X Nat), NEW p \in Nat \X Nat,
         \A q \in S : Before(q, p)
  PROVE  LastOf(S \union {p}) = {p}
<1>1. \A q \in S : ~ Before(p, q)
  BY DEF Before
<1>2. ~ Before(p, p)
  BY DEF Before
<1>. QED BY <1>1, <1>2 DEF LastOf

\* The inputs do not change, nor what they say.
LEMMA Fixed ==
  ASSUME UNCHANGED inputs
  PROVE  /\ Places' = Places /\ PortPlaces' = PortPlaces
         /\ SavefilePlaces' = SavefilePlaces
         /\ \A p : SettingAt(p)' = SettingAt(p)
         /\ \A i : FromFile(i)' = FromFile(i)
<1>1. argv' = argv /\ conf' = conf
  BY DEF inputs
<1>2. \A i : FromFile(i)' = FromFile(i)
  BY <1>1 DEF FromFile
<1>3. Places' = Places
  BY <1>1 DEF Places, FromFile
<1>4. \A p : SettingAt(p)' = SettingAt(p)
  BY <1>1 DEF SettingAt, FromFile
<1>5. PortPlaces' = PortPlaces
  BY <1>1, <1>3 DEF PortPlaces, SettingAt, FromFile
<1>6. SavefilePlaces' = SavefilePlaces
  BY <1>1, <1>3 DEF SavefilePlaces, SettingAt, FromFile
<1>. QED BY <1>2, <1>3, <1>4, <1>5, <1>6

\* With no place taken the last ones stay.
LEMMA Same ==
  ASSUME UNCHANGED inputs, Done' = Done
  PROVE  /\ LastPort' = LastPort /\ LastFile' = LastFile
         /\ \A n : PortSet(n)' <=> PortSet(n)
         /\ \A f : FileSet(f)' <=> FileSet(f)
<1>1. LastPort' = LastPort /\ LastFile' = LastFile
  BY Fixed DEF LastPort, LastFile, LastOf
<1>. QED BY <1>1, Fixed DEF PortSet, FileSet

\* A place taken is the last one, if it sets the port, or the savefile.
LEMMA More ==
  ASSUME Progress, UNCHANGED inputs, NEW p \in Places,
         Done' = Done \union {p}, \A q \in Done : Before(q, p)
  PROVE  /\ LastPort' = IF p \in PortPlaces THEN {p} ELSE LastPort
         /\ LastFile' = IF p \in SavefilePlaces THEN {p} ELSE LastFile
         /\ p \notin PortPlaces => \A n : PortSet(n)' <=> PortSet(n)
         /\ p \in PortPlaces => \A n : SettingAt(p)[2] = n => PortSet(n)'
         /\ p \notin SavefilePlaces => \A f : FileSet(f)' <=> FileSet(f)
         /\ p \in SavefilePlaces => \A f : SettingAt(p) = <<"savefile", f>> => FileSet(f)'
<1>1. Places \in SUBSET (Nat \X Nat) /\ Done \subseteq Places
  BY PlaceFacts DEF Done
<1>2. ASSUME NEW S
      PROVE  LastOf(S \intersect (Done \union {p})) = IF p \in S THEN {p} ELSE LastOf(S \intersect Done)
  <2>1. CASE p \notin S
    <3>1. S \intersect (Done \union {p}) = S \intersect Done
      BY <2>1
    <3>. QED BY <2>1, <3>1
  <2>2. CASE p \in S
    <3>1. PICK D : D = S \intersect Done
      OBVIOUS
    <3>2. S \intersect (Done \union {p}) = D \union {p} /\ D \in SUBSET (Nat \X Nat)
      BY <1>1, <2>2, <3>1
    <3>3. LastOf(D \union {p}) = {p}
      BY <1>1, <3>1, <3>2, Latest
    <3>. QED BY <2>2, <3>2, <3>3
  <2>. QED BY <2>1, <2>2
<1>3. LastPort' = LastOf(PortPlaces \intersect (Done \union {p}))
  BY Fixed DEF LastPort, LastOf
<1>4. LastFile' = LastOf(SavefilePlaces \intersect (Done \union {p}))
  BY Fixed DEF LastFile, LastOf
<1>5. /\ LastPort' = IF p \in PortPlaces THEN {p} ELSE LastPort
      /\ LastFile' = IF p \in SavefilePlaces THEN {p} ELSE LastFile
  BY <1>2, <1>3, <1>4 DEF LastPort, LastFile
<1>6. (p \notin PortPlaces => \A n : PortSet(n)' <=> PortSet(n))
      /\ (p \in PortPlaces => \A n : SettingAt(p)[2] = n => PortSet(n)')
  BY <1>5, Fixed DEF PortSet
<1>7. (p \notin SavefilePlaces => \A f : FileSet(f)' <=> FileSet(f))
      /\ (p \in SavefilePlaces => \A f : SettingAt(p) = <<"savefile", f>> => FileSet(f)')
  BY <1>5, Fixed DEF FileSet
<1>. QED BY <1>5, <1>6, <1>7

-----------------------------------------------------------------------------
(* Taking a setting. *)

\* The head of what is left of a sequence is the next element of it.
LEMMA Rest ==
  ASSUME NEW S, NEW s \in Seq(S), NEW t \in Seq(S), t # <<>>, Len(t) <= Len(s),
         \A i \in 1 .. Len(t) : t[i] = s[Len(s) - Len(t) + i]
  PROVE  /\ Head(t) \in S /\ Head(t) = s[Len(s) - Len(t) + 1]
         /\ Len(s) - Len(t) + 1 \in 1 .. Len(s)
         /\ Tail(t) \in Seq(S) /\ Len(Tail(t)) = Len(t) - 1 /\ Len(Tail(t)) <= Len(s)
         /\ Len(s) - Len(Tail(t)) = Len(s) - Len(t) + 1
         /\ \A i \in 1 .. Len(Tail(t)) : Tail(t)[i] = s[Len(s) - Len(Tail(t)) + i]
<1>1. Len(s) \in Nat /\ Len(t) \in Nat /\ Len(t) # 0
  OBVIOUS
<1>2. Head(t) = t[1] /\ 1 \in 1 .. Len(t) /\ t[1] \in S
  BY <1>1
<1>3. /\ Tail(t) \in Seq(S) /\ Len(Tail(t)) = Len(t) - 1
      /\ \A i \in 1 .. Len(t) - 1 : Tail(t)[i] = t[i + 1]
  BY <1>1
<1>4. \A i \in 1 .. Len(t) - 1 : t[i + 1] = s[Len(s) - Len(t) + (i + 1)]
  BY <1>1
<1>5. \A i \in 1 .. Len(t) - 1 : Len(s) - Len(t) + (i + 1) = Len(s) - (Len(t) - 1) + i
  BY <1>1
<1>. QED BY <1>1, <1>2, <1>3, <1>4, <1>5

\* An argument that is not a file to be read.
LEMMA ArgumentTaken ==
  ASSUME Progress, pc = "args", args # <<>>, args' = Tail(args), UNCHANGED <<inputs, lines, pc>>,
         ~ (Head(args)[1] = "configfile" /\ Head(args)[2] \in Readable)
  PROVE  /\ Progress' /\ Head(args) \in Argument
         /\ \E p \in Places : /\ SettingAt(p) = Head(args) /\ ~ FromFile(p[1])
                              /\ Done' = Done \union {p} /\ \A q \in Done : Before(q, p)
<1>1. /\ Head(args) \in Argument /\ Head(args) = argv[At + 1]
      /\ At + 1 \in 1 .. Len(argv) /\ At \in Nat
      /\ args' \in Seq(Argument) /\ Len(args') = Len(args) - 1 /\ Len(args') <= Len(argv)
      /\ At' = At + 1
      /\ \A i \in 1 .. Len(args') : args'[i] = argv[At' + i]
  <2>1. Len(argv) \in Nat /\ Len(args) \in Nat
    BY DEF Progress
  <2>. QED BY <2>1, Rest DEF Progress, At, inputs
<1>2. argv' = argv /\ conf' = conf /\ lines' = lines /\ pc' = pc
  BY DEF inputs
<1>3. Progress'
  BY <1>1, <1>2 DEF Progress
<1>4. PICK i \in 1 .. Len(argv) : i = At + 1
  BY <1>1
<1>5. ~ FromFile(i) /\ DOMAIN argv = 1 .. Len(argv)
  BY <1>1, <1>4 DEF FromFile, Progress
<1>6. PICK p \in Places : p = <<i, 1>>
  BY <1>4, <1>5 DEF Places
<1>7. SettingAt(p) = Head(args) /\ ~ FromFile(p[1]) /\ p[1] = i /\ p[2] = 1
  BY <1>1, <1>4, <1>5, <1>6 DEF SettingAt
<1>8. Done = {q \in Places : q[1] < At \/ q[1] = At}
  BY DEF Done
<1>9. Done' = {q \in Places : q[1] < i \/ q[1] = i}
  BY <1>1, <1>2, <1>4, Fixed DEF Done
<1>10. \A q \in Places : q[1] \in Nat /\ (q[1] = i => q = p)
  <2>. SUFFICES ASSUME NEW q \in Places PROVE q[1] \in Nat /\ (q[1] = i => q = p)
    OBVIOUS
  <2>1. q \in Nat \X Nat /\ (~ FromFile(q[1]) => q[2] = 1)
    BY PlaceFacts
  <2>. QED BY <1>5, <1>6, <2>1
<1>11. Done' = Done \union {p}
  BY <1>1, <1>4, <1>7, <1>8, <1>9, <1>10
<1>12. \A q \in Done : Before(q, p)
  BY <1>1, <1>4, <1>7, <1>8, <1>10 DEF Before
<1>. QED BY <1>1, <1>3, <1>7, <1>11, <1>12

\* An argument that names a file that can be read.
LEMMA FileOpened ==
  ASSUME Progress, pc = "args", args # <<>>, args' = Tail(args), UNCHANGED inputs,
         Head(args)[1] = "configfile", Head(args)[2] \in Readable,
         lines' = conf, pc' = "config"
  PROVE  Progress' /\ Done' = Done
<1>1. /\ Head(args) = argv[At + 1]
      /\ At + 1 \in 1 .. Len(argv) /\ At \in Nat
      /\ args' \in Seq(Argument) /\ Len(args') = Len(args) - 1 /\ Len(args') <= Len(argv)
      /\ At' = At + 1
      /\ \A i \in 1 .. Len(args') : args'[i] = argv[At' + i]
  <2>1. Len(argv) \in Nat /\ Len(args) \in Nat
    BY DEF Progress
  <2>. QED BY <2>1, Rest DEF Progress, At, inputs
<1>2. argv' = argv /\ conf' = conf /\ Row' = 0 /\ Len(conf) \in Nat
  BY DEF inputs, Row, Progress
<1>3. FromFile(At)'
  BY <1>1, <1>2 DEF FromFile
<1>4. \A j \in 1 .. Len(lines') : lines'[j] = conf[Row' + j]
  BY <1>2
<1>5. Progress'
  BY <1>1, <1>2, <1>3, <1>4 DEF Progress
<1>6. Done = {q \in Places : q[1] < At \/ q[1] = At}
  BY DEF Done
<1>7. Done' = {q \in Places : q[1] < At + 1 \/ (q[1] = At + 1 /\ q[2] <= 0)}
  BY <1>1, <1>2, Fixed DEF Done
<1>8. \A q \in Places : q[1] \in Nat /\ ~ (q[2] <= 0)
  <2>. SUFFICES ASSUME NEW q \in Places PROVE q[1] \in Nat /\ ~ (q[2] <= 0)
    OBVIOUS
  <2>1. q \in Nat \X Nat /\ q[2] >= 1
    BY PlaceFacts
  <2>. QED BY <2>1
<1>. QED BY <1>1, <1>5, <1>6, <1>7, <1>8

\* A line of the file.
LEMMA LineTaken ==
  ASSUME Progress, pc = "config", lines # <<>>, lines' = Tail(lines),
         UNCHANGED <<inputs, args, pc>>
  PROVE  /\ Progress' /\ Head(lines) \in ConfLine
         /\ \E p \in Places : /\ SettingAt(p) = Head(lines) /\ FromFile(p[1])
                              /\ Done' = Done \union {p} /\ \A q \in Done : Before(q, p)
<1>1. /\ Head(lines) \in ConfLine /\ Head(lines) = conf[Row + 1]
      /\ Row + 1 \in 1 .. Len(conf) /\ Row \in Nat
      /\ lines' \in Seq(ConfLine) /\ Len(lines') = Len(lines) - 1 /\ Len(lines') <= Len(conf)
      /\ Row' = Row + 1
      /\ \A i \in 1 .. Len(lines') : lines'[i] = conf[Row' + i]
  <2>1. Len(conf) \in Nat /\ Len(lines) \in Nat
    BY DEF Progress
  <2>. QED BY <2>1, Rest DEF Progress, Row, inputs
<1>2. argv' = argv /\ conf' = conf /\ args' = args /\ pc' = pc /\ At' = At
  BY DEF inputs, At
<1>3. FromFile(At)'
  BY <1>2 DEF Progress, FromFile
<1>4. Progress'
  BY <1>1, <1>2, <1>3 DEF Progress
<1>5. At \in 1 .. Len(argv) /\ FromFile(At)
  <2>1. Len(argv) \in Nat /\ Len(args) \in Nat
    BY DEF Progress
  <2>. QED BY <2>1 DEF Progress, At
<1>6. PICK i \in 1 .. Len(argv) : i = At
  BY <1>5
<1>7. DOMAIN argv = 1 .. Len(argv) /\ DOMAIN conf = 1 .. Len(conf)
  BY DEF Progress
<1>8. PICK p \in Places : p = <<i, Row + 1>>
  BY <1>1, <1>5, <1>6, <1>7 DEF Places
<1>9. SettingAt(p) = Head(lines) /\ FromFile(p[1]) /\ p[1] = i /\ p[2] = Row + 1
  BY <1>1, <1>5, <1>6, <1>8 DEF SettingAt
<1>10. Done = {q \in Places : q[1] < i \/ (q[1] = i /\ q[2] <= Row)}
  BY <1>6 DEF Done
<1>11. Done' = {q \in Places : q[1] < i \/ (q[1] = i /\ q[2] <= Row + 1)}
  BY <1>1, <1>2, <1>6, Fixed DEF Done
<1>12. \A q \in Places : /\ q[1] \in Nat /\ q[2] \in Nat
                         /\ q[1] = i /\ q[2] = Row + 1 => q = p
  <2>. SUFFICES ASSUME NEW q \in Places
                PROVE  /\ q[1] \in Nat /\ q[2] \in Nat
                       /\ q[1] = i /\ q[2] = Row + 1 => q = p
    OBVIOUS
  <2>1. q \in Nat \X Nat
    BY PlaceFacts
  <2>. QED BY <1>8, <2>1
<1>13. Done' = Done \union {p}
  BY <1>1, <1>9, <1>10, <1>11, <1>12
<1>14. \A q \in Done : Before(q, p)
  BY <1>1, <1>9, <1>10, <1>12 DEF Before
<1>. QED BY <1>1, <1>4, <1>9, <1>13, <1>14

\* The end of the file, and of everything else, takes no place.
LEMMA FileEnded ==
  ASSUME Progress, pc = "config", lines = <<>>, pc' = "args", UNCHANGED <<inputs, args, lines>>
  PROVE  Progress' /\ Done' = Done
<1>1. argv' = argv /\ conf' = conf /\ At' = At /\ Row = Len(conf) /\ Len(conf) \in Nat
  BY DEF inputs, At, Row, Progress
<1>2. Progress'
  BY <1>1 DEF Progress
<1>3. FromFile(At)
  BY DEF Progress
<1>4. Done = {q \in Places : q[1] < At \/ (q[1] = At /\ q[2] <= Len(conf))}
  BY <1>1 DEF Done
<1>5. Done' = {q \in Places : q[1] < At \/ q[1] = At}
  BY <1>1, Fixed DEF Done
<1>6. \A q \in Places : q[1] = At => q[2] <= Len(conf)
  BY <1>1, <1>3, PlaceFacts
<1>. QED BY <1>2, <1>4, <1>5, <1>6

\* A step that takes no setting changes nothing of how far they are taken.
LEMMA NothingTaken ==
  ASSUME Progress, UNCHANGED <<inputs, args, lines>>,
         pc' = pc \/ (pc # "config" /\ args = <<>> /\ pc' # "config")
  PROVE  Progress' /\ Done' = Done
<1>1. argv' = argv /\ conf' = conf /\ At' = At /\ Row' = Row
  BY DEF inputs, At, Row
<1>2. \A i : FromFile(i)' = FromFile(i)
  BY Fixed
<1>3. Progress'
  BY <1>1, <1>2 DEF Progress
<1>4. Done' = Done
  BY <1>1, Fixed DEF Done
<1>. QED BY <1>3, <1>4

-----------------------------------------------------------------------------
(* Every step keeps the invariant. *)

\* The default name, that of a buffer and no name at all cannot be opened.
LEMMA NamesFacts ==
  NONE \notin Readable /\ DEFAULT_SAVE_FILE \notin Readable /\ LINE \notin Readable
BY StartupAssumption

\* What a setting that is taken must do to the configuration.
Obeys(p) ==
  /\ p \in PortPlaces => port' = SettingAt(p)[2] /\ port' \in Int
  /\ p \notin PortPlaces => port' = port
  /\ savefile' \in Readable \union {DEFAULT_SAVE_FILE, LINE} /\ rebuild' \in BOOLEAN
  /\ p \in SavefilePlaces /\ savefile' \in Readable => SettingAt(p) = <<"savefile", savefile'>>
  /\ p \notin SavefilePlaces => savefile' = savefile
  /\ daemonize' \in BOOLEAN

\* A setting is taken that comes after all those taken so far, and does to the
\* configuration what it says: it is now the last.
LEMMA PlaceTaken ==
  ASSUME Inv, pc \in {"args", "config"}, pc' = pc, UNCHANGED <<inputs, opened, announced>>,
         Progress', NEW p \in Places, Done' = Done \union {p},
         \A q \in Done : Before(q, p), Obeys(p)
  PROVE  Inv'
<1>1. /\ Progress /\ Ports /\ Files /\ Decisions /\ opened = NONE
      /\ pc \notin Joined /\ pc' \notin Joined
  BY DEF Inv, Files, Joined
<1>2. /\ p \notin PortPlaces => \A n : PortSet(n)' <=> PortSet(n)
      /\ p \in PortPlaces => \A n : SettingAt(p)[2] = n => PortSet(n)'
      /\ p \notin SavefilePlaces => \A f : FileSet(f)' <=> FileSet(f)
      /\ p \in SavefilePlaces => \A f : SettingAt(p) = <<"savefile", f>> => FileSet(f)'
  BY <1>1, More
<1>3. Ports'
  <2>1. PortSet(port)
    BY <1>1 DEF Ports
  <2>2. CASE p \in PortPlaces
    <3>1. PICK v : v = SettingAt(p)[2] /\ PortSet(v)'
      BY <1>2, <2>2
    <3>2. port' = v /\ port' \in Int
      BY <2>2, <3>1 DEF Obeys
    <3>. QED BY <3>1, <3>2 DEF Ports, PortSet
  <2>3. CASE p \notin PortPlaces
    <3>1. port' = port /\ PortSet(port)'
      BY <1>2, <2>1, <2>3 DEF Obeys, PortSet
    <3>. QED BY <1>1, <3>1 DEF Ports, PortSet
  <2>. QED BY <2>2, <2>3
<1>4. Files'
  <2>1. savefile' \in Readable => FileSet(savefile)'
    <3>1. CASE p \in SavefilePlaces
      BY <1>2, <3>1 DEF Obeys, FileSet
    <3>2. CASE p \notin SavefilePlaces
      BY <1>1, <1>2, <3>2 DEF Obeys, Files, FileSet
    <3>. QED BY <3>1, <3>2
  <2>. QED BY <1>1, <2>1, NamesFacts DEF Obeys, Files
<1>5. Decisions'
  BY <1>1 DEF Decisions, Joined
<1>. QED BY <1>3, <1>4, <1>5 DEF Inv

\* Nothing is set while no place is taken, and main has not decided yet.
LEMMA Reading ==
  ASSUME Inv, UNCHANGED <<inputs, config, opened, announced>>, Progress', Done' = Done,
         {pc, pc'} \subseteq {"args", "config", "start"}
  PROVE  Inv'
<1>1. /\ \A n : PortSet(n)' <=> PortSet(n)
      /\ \A f : FileSet(f)' <=> FileSet(f)
  BY Same
<1>2. port' = port /\ savefile' = savefile /\ rebuild' = rebuild /\ daemonize' = daemonize
      /\ master' = master
  BY DEF config
<1>3. Ports'
  BY <1>1, <1>2 DEF Inv, Ports, Joined, PortSet
<1>4. Files'
  BY <1>1, <1>2 DEF Inv, Files, FileSet
<1>5. Decisions'
  BY <1>2 DEF Inv, Decisions, Joined
<1>. QED BY <1>3, <1>4, <1>5 DEF Inv

\* One argument.
LEMMA ArgStep ==
  ASSUME Inv, TakeArg
  PROVE  Inv'
<1>1. /\ Progress /\ pc = "args" /\ args # <<>> /\ args' = Tail(args)
      /\ UNCHANGED <<inputs, master, opened, announced>> /\ Files /\ Ports
  BY DEF Inv, TakeArg
<1>2. PICK h : h = Head(args)
  OBVIOUS
<1>3. CASE h[1] = "configfile" /\ h[2] \in Readable
  <2>1. lines' = conf /\ pc' = "config" /\ UNCHANGED <<port, savefile, rebuild, daemonize>>
    BY <1>2, <1>3 DEF TakeArg
  <2>. QED BY <1>1, <1>2, <1>3, <2>1, FileOpened, Reading DEF config
<1>4. CASE ~ (h[1] = "configfile" /\ h[2] \in Readable)
  <2>1. UNCHANGED <<lines, pc>>
    BY <1>2, <1>4 DEF TakeArg
  <2>2. Progress' /\ h \in Argument
    BY <1>1, <1>2, <1>4, <2>1, ArgumentTaken
  <2>3. PICK p \in Places : /\ SettingAt(p) = h /\ ~ FromFile(p[1])
                            /\ Done' = Done \union {p} /\ \A q \in Done : Before(q, p)
    BY <1>1, <1>2, <1>4, <2>1, ArgumentTaken
  <2>4. /\ p \in PortPlaces <=> h[1] = "port"
        /\ p \in SavefilePlaces <=> h[1] \in {"savefile", "configfile"}
    BY <2>3 DEF PortPlaces, SavefilePlaces
  <2>5. ASSUME h[1] = "port" PROVE Obeys(p)
    <3>1. h[2] \in Int
      BY <2>2, <2>5 DEF Argument
    <3>2. port' = h[2] /\ UNCHANGED <<savefile, rebuild, daemonize>>
      BY <1>2, <2>5 DEF TakeArg, SetArgPort
    <3>. QED BY <1>1, <2>3, <2>4, <2>5, <3>1, <3>2 DEF Obeys, Files
  <2>6. ASSUME h[1] = "savefile" PROVE Obeys(p)
    <3>1. h = <<"savefile", h[2]>>
      BY <2>2, <2>6 DEF Argument
    <3>2. SetSavefile(h[2], h[2]) /\ UNCHANGED <<port, daemonize>>
      BY <1>2, <2>6 DEF TakeArg
    <3>. QED BY <1>1, <2>3, <2>4, <2>6, <3>1, <3>2, NamesFacts DEF Obeys, Files, SetSavefile
  <2>7. ASSUME h[1] = "daemonize" PROVE Obeys(p)
    <3>1. daemonize' = TRUE /\ UNCHANGED <<port, savefile, rebuild>>
      BY <1>2, <2>7 DEF TakeArg
    <3>. QED BY <1>1, <2>3, <2>4, <2>7, <3>1 DEF Obeys, Files
  <2>8. ASSUME h[1] = "configfile" PROVE Obeys(p)
    <3>1. savefile' = DEFAULT_SAVE_FILE /\ UNCHANGED <<port, rebuild, daemonize>>
      BY <1>2, <1>4, <2>8 DEF TakeArg
    <3>. QED BY <1>1, <2>3, <2>4, <2>8, <3>1, NamesFacts DEF Obeys, Files
  <2>9. h[1] \in {"port", "savefile", "daemonize", "configfile"}
    BY <2>2 DEF Argument
  <2>10. Obeys(p)
    BY <2>5, <2>6, <2>7, <2>8, <2>9
  <2>. QED BY <1>1, <2>1, <2>2, <2>3, <2>10, PlaceTaken
<1>. QED BY <1>3, <1>4

\* One line of the configuration file.
LEMMA LineStep ==
  ASSUME Inv, TakeLine
  PROVE  Inv'
<1>1. /\ Progress /\ pc = "config" /\ lines # <<>> /\ lines' = Tail(lines)
      /\ UNCHANGED <<inputs, args, opened, announced, pc>> /\ Files /\ Ports
  BY DEF Inv, TakeLine
<1>2. PICK h : h = Head(lines)
  OBVIOUS
<1>3. Progress' /\ h \in ConfLine
  BY <1>1, <1>2, LineTaken
<1>4. PICK p \in Places : /\ SettingAt(p) = h /\ FromFile(p[1])
                          /\ Done' = Done \union {p} /\ \A q \in Done : Before(q, p)
  BY <1>1, <1>2, LineTaken
<1>5. /\ p \in PortPlaces <=> (h[1] = "port" /\ h[2] > 0)
      /\ p \in SavefilePlaces <=> h[1] = "savefile"
  <2>1. h[1] # "configfile"
    BY <1>3 DEF ConfLine
  <2>. QED BY <1>4, <2>1 DEF PortPlaces, SavefilePlaces
<1>6. ASSUME h[1] = "port" PROVE Obeys(p)
  <2>1. h[2] \in Int
    BY <1>3, <1>6 DEF ConfLine
  <2>2. port' = (IF h[2] > 0 THEN h[2] ELSE port) /\ UNCHANGED <<savefile, rebuild, daemonize>>
    BY <1>2, <1>6 DEF TakeLine
  <2>3. ASSUME h[2] > 0 PROVE Obeys(p)
    BY <1>1, <1>4, <1>5, <1>6, <2>1, <2>2, <2>3 DEF Obeys, Files
  <2>4. ASSUME ~ (h[2] > 0) PROVE Obeys(p)
    BY <1>1, <1>4, <1>5, <1>6, <2>2, <2>4 DEF Obeys, Files
  <2>. QED BY <2>3, <2>4
<1>7. ASSUME h[1] = "savefile" PROVE Obeys(p)
  <2>1. SetSavefile(h[2], LINE) /\ UNCHANGED <<port, daemonize>>
    BY <1>2, <1>7 DEF TakeLine
  <2>. QED BY <1>1, <1>4, <1>5, <1>7, <2>1, NamesFacts DEF Obeys, Files, SetSavefile
<1>8. ASSUME h[1] = "master" PROVE Obeys(p)
  <2>1. UNCHANGED <<port, savefile, rebuild, daemonize>>
    BY <1>2, <1>8 DEF TakeLine
  <2>. QED BY <1>1, <1>4, <1>5, <1>8, <2>1 DEF Obeys, Files
<1>9. ASSUME h[1] = "daemonize" PROVE Obeys(p)
  <2>1. daemonize' = TRUE /\ UNCHANGED <<port, savefile, rebuild>>
    BY <1>2, <1>9 DEF TakeLine
  <2>. QED BY <1>1, <1>4, <1>5, <1>9, <2>1 DEF Obeys, Files
<1>10. ASSUME h[1] = "other" PROVE Obeys(p)
  <2>1. UNCHANGED config
    BY <1>2, <1>10 DEF TakeLine
  <2>. QED BY <1>1, <1>4, <1>5, <1>10, <2>1 DEF Obeys, Files, config
<1>11. h[1] \in {"port", "savefile", "master", "daemonize", "other"}
  BY <1>3 DEF ConfLine
<1>12. Obeys(p)
  BY <1>6, <1>7, <1>8, <1>9, <1>10, <1>11
<1>. QED BY <1>1, <1>3, <1>4, <1>12, PlaceTaken

\* What main decides.
LEMMA MainStep ==
  ASSUME Inv, \/ Start \/ Rebuild \/ MasterFails \/ JoinMaster \/ Run \/ LocalExit
  PROVE  Inv'
<1>1. UNCHANGED <<inputs, args, lines>> /\ pc # "config" /\ pc' # "config" /\ args = <<>>
  BY DEF Inv, Progress, Start, Rebuild, MasterFails, JoinMaster, Run, LocalExit
<1>2. Progress' /\ Done' = Done
  BY <1>1, NothingTaken DEF Inv
<1>3. /\ \A n : PortSet(n)' <=> PortSet(n)
      /\ \A f : FileSet(f)' <=> FileSet(f)
  BY <1>1, <1>2, Same
<1>4. (PortSet(port) <=> PortSet(port)') \/ port' # port
  BY <1>3 DEF PortSet
<1>5. Ports' /\ Decisions'
  <2>1. CASE ~ JoinMaster
    <3>1. port' = port /\ master' = master /\ daemonize' = daemonize /\ announced' = announced
      BY <2>1 DEF Start, Rebuild, MasterFails, Run, LocalExit, config
    <3>2. pc \in Joined => pc' \in Joined
      BY <2>1 DEF Start, Rebuild, MasterFails, Run, LocalExit, Joined
    <3>3. Ports'
      <4>1. PortSet(port)' <=> PortSet(port)
        BY <1>4, <3>1
      <4>2. PortSet(0)' <=> PortSet(0)
        BY <1>3
      <4>. QED BY <3>1, <3>2, <4>1, <4>2 DEF Inv, Ports
    <3>4. Decisions'
      BY <2>1, <3>1 DEF Start, Rebuild, MasterFails, Run, LocalExit, Inv, Decisions,
                        Joined, Unreachable
    <3>. QED BY <3>3, <3>4
  <2>2. CASE JoinMaster
    <3>1. /\ port' = (IF port = 0 THEN DefaultPort ELSE port) /\ pc = "join" /\ pc' = "run"
          /\ master' = master /\ daemonize' = daemonize /\ announced' \in {port, NONE}
      BY <2>2 DEF JoinMaster, PortAfterJoin
    <3>2. PortSet(port)
      BY <3>1 DEF Inv, Ports, Joined
    <3>3. CASE port = 0
      <4>1. port' = DefaultPort /\ PortSet(0)'
        BY <1>3, <3>1, <3>2, <3>3
      <4>2. master # NONE
        BY <3>1 DEF Inv, Decisions
      <4>. QED BY <3>1, <4>1, <4>2 DEF Inv, Ports, Decisions, Joined, DefaultPort
    <3>4. CASE port # 0
      <4>1. port' = port /\ PortSet(port)'
        BY <1>4, <3>1, <3>2, <3>4
      <4>. QED BY <3>1, <3>4, <4>1 DEF Inv, Ports, Decisions, Joined
    <3>. QED BY <3>3, <3>4
  <2>. QED BY <2>1, <2>2
<1>6. Files'
  <2>1. CASE Rebuild
    <3>1. /\ opened' = (IF rebuild THEN savefile ELSE opened) /\ rebuild' = FALSE
          /\ savefile' = savefile /\ daemonize' = daemonize /\ opened = NONE
          /\ pc' \notin {"args", "config", "start", "rebuild"}
      BY <2>1 DEF Rebuild, Inv, Files
    <3>. QED BY <1>3, <3>1, NamesFacts DEF Inv, Files, FileSet
  <2>2. CASE ~ Rebuild
    <3>1. /\ opened' = opened /\ rebuild' = rebuild /\ savefile' = savefile
          /\ daemonize' = daemonize
      BY <2>2 DEF Start, MasterFails, JoinMaster, Run, LocalExit, config
    <3>2. pc' \in {"args", "config", "start", "rebuild"} => pc \in {"args", "config", "start", "rebuild"}
      BY <2>2 DEF Start, MasterFails, JoinMaster, Run, LocalExit
    <3>. QED BY <1>3, <3>1, <3>2 DEF Inv, Files, FileSet
  <2>. QED BY <2>1, <2>2
<1>. QED BY <1>2, <1>5, <1>6 DEF Inv

\* Nothing has been taken, and nothing is set.
LEMMA InitInv == Init => Inv
<1>. SUFFICES ASSUME Init PROVE Inv
  OBVIOUS
<1>1. Progress
  <2>1. argv \in Seq(Argument) /\ conf \in Seq(ConfLine)
    BY StartupAssumption DEF Init
  <2>2. lines \in Seq(ConfLine) /\ Len(lines) = 0
    BY DEF Init
  <2>. QED BY <2>1, <2>2 DEF Init, Progress, At
<1>2. Done = {}
  <2>1. At = 0
    BY <1>1 DEF Init, At, Progress
  <2>2. \A p \in Places : p[1] \in Nat /\ p[1] >= 1
    BY <1>1, PlaceFacts
  <2>. QED BY <2>1, <2>2 DEF Done
<1>3. LastPort = {}
  BY <1>2 DEF LastPort, LastOf
<1>4. Ports
  BY <1>3 DEF Init, Ports, PortSet
<1>5. Files /\ Decisions
  BY NamesFacts DEF Init, Files, Decisions, Joined
<1>. QED BY <1>1, <1>4, <1>5 DEF Inv

\* main's steps, and those of the two loops over arguments and lines.
LEMMA InvStep == Inv /\ [Next]_vars => Inv'
<1>. SUFFICES ASSUME Inv, [Next]_vars PROVE Inv'
  OBVIOUS
<1>1. CASE TakeArg \/ TakeLine
  BY <1>1, ArgStep, LineStep
<1>2. CASE Start \/ Rebuild \/ MasterFails \/ JoinMaster \/ Run \/ LocalExit
  BY <1>2, MainStep
<1>3. CASE LinesEnd
  <2>1. Progress' /\ Done' = Done
    BY <1>3, FileEnded DEF LinesEnd, Inv
  <2>. QED BY <1>3, <2>1, Reading DEF LinesEnd
<1>4. CASE ArgsEnd
  <2>1. Progress' /\ Done' = Done
    BY <1>4, NothingTaken DEF ArgsEnd, Inv
  <2>. QED BY <1>4, <2>1, Reading DEF ArgsEnd
<1>5. CASE UNCHANGED vars
  <2>1. UNCHANGED <<inputs, args, lines, config, opened, announced, pc>>
    BY <1>5 DEF vars
  <2>2. Progress' /\ Done' = Done
    BY <2>1, NothingTaken DEF Inv
  <2>3. /\ \A n : PortSet(n)' <=> PortSet(n)
        /\ \A f : FileSet(f)' <=> FileSet(f)
    BY <2>1, <2>2, Same
  <2>4. port' = port /\ savefile' = savefile /\ rebuild' = rebuild /\ daemonize' = daemonize
        /\ master' = master
    BY <2>1 DEF config
  <2>5. Ports'
    BY <2>1, <2>3, <2>4 DEF Inv, Ports, PortSet
  <2>6. Files'
    BY <2>1, <2>3, <2>4 DEF Inv, Files, FileSet
  <2>7. Decisions'
    BY <2>1, <2>4 DEF Inv, Decisions
  <2>. QED BY <2>2, <2>5, <2>6, <2>7 DEF Inv
<1>. QED BY <1>1, <1>2, <1>3, <1>4, <1>5 DEF Next

\* Once everything is taken, the last place taken is the last of all.
LEMMA AllTaken ==
  ASSUME Progress, pc \notin {"args", "config"}
  PROVE  LastPort = LastOf(PortPlaces) /\ LastFile = LastOf(SavefilePlaces)
<1>1. At = Len(argv) /\ Len(argv) \in Nat
  BY DEF Progress, At
<1>2. \A p \in Places : p[1] < At \/ p[1] = At
  BY <1>1, PlaceFacts
<1>3. Done = Places
  BY <1>2 DEF Done
<1>4. PortPlaces \intersect Done = PortPlaces /\ SavefilePlaces \intersect Done = SavefilePlaces
  BY <1>3 DEF PortPlaces, SavefilePlaces
<1>. QED BY <1>4 DEF LastPort, LastFile

-----------------------------------------------------------------------------
(* The theorems. *)

\* The invariant holds in every state.
LEMMA Invariant == Spec => []Inv
BY InitInv, InvStep, PTL DEF Spec

\* The savefile is a name that could be opened, the default, or a name in a
\* buffer that is gone, and the file is read to its end before the next
\* argument (config.c:43).
THEOREM StartupTypeCorrect == Spec => []TypeOK
<1>1. Inv => TypeOK
  BY DEF Inv, Progress, Files, TypeOK
<1>. QED BY <1>1, Invariant, PTL

\* The port served is the last one set, whatever the arguments and the file,
\* and in whatever order; only a replica without one has the default
\* (network.c:204).
THEOREM LastPortIsServed == Spec => []ServesPortSet
<1>1. Inv => ServesPortSet
  <2>. SUFFICES ASSUME Inv, pc = "server"
                PROVE  LET last == {SettingAt(p)[2] : p \in LastOf(PortPlaces)}
                       IN  \/ port \in last
                           \/ last \subseteq {0} /\ master # NONE /\ port = DefaultPort
    BY DEF ServesPortSet
  <2>1. LastPort = LastOf(PortPlaces) /\ port > 0
    BY AllTaken DEF Inv, Decisions
  <2>2. CASE PortSet(port)
    <3>1. PICK p \in LastPort : SettingAt(p)[2] = port
      BY <2>1, <2>2 DEF PortSet
    <3>. QED BY <2>1, <3>1
  <2>3. CASE PortSet(0) /\ master # NONE /\ port = DefaultPort
    BY <2>1, <2>3 DEF PortSet
  <2>. QED BY <2>2, <2>3 DEF Inv, Ports
<1>. QED BY <1>1, Invariant, PTL

\* A name that is opened for the rebuild is the last one set: no argument or
\* line that came later is passed over, however the two are mixed (config.c:64).
THEOREM LastSavefileIsLoaded == Spec => []RebuildsFromLast
<1>1. Inv => RebuildsFromLast
  <2>. SUFFICES ASSUME Inv, opened \in Readable
                PROVE  \E p \in LastOf(SavefilePlaces) : SettingAt(p) = <<"savefile", opened>>
    BY DEF RebuildsFromLast
  <2>1. pc \notin {"args", "config"}
    BY NamesFacts DEF Inv, Files
  <2>2. LastFile = LastOf(SavefilePlaces)
    BY <2>1, AllTaken DEF Inv
  <2>. QED BY <2>2 DEF Inv, Files, FileSet
<1>. QED BY <1>1, Invariant, PTL

\* Neither a daemon nor a replica becomes a session on standard input, unless
\* its port is negative (network.c:183).
THEOREM SessionsHaveUsers == Spec => []LocalHasUser
<1>1. Inv => LocalHasUser
  BY DEF Inv, Ports, Decisions, Joined, LocalHasUser
<1>. QED BY <1>1, Invariant, PTL

\* A replica serves on the port it told its master, or told it none
\* (network.c:204).
THEOREM ToldPortIsServed == Spec => []AnnouncedServed
<1>1. Inv => AnnouncedServed
  BY DEF Inv, Decisions, AnnouncedServed
<1>. QED BY <1>1, Invariant, PTL

=============================================================================
