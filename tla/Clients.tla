------------------------------ MODULE Clients ------------------------------
(***************************************************************************)
(* The server loop with the programs of this repository at the other ends  *)
(* of its connections: cli.py, the command line client of src/cli.c, and   *)
(* a node that starts as a replica (initialise_conn_with_master of         *)
(* src/replication.c, called by main).  The server's steps are those of    *)
(* ServerLoop.tla; a program's step is one of ServerLoop's client steps    *)
(* or one of its own.                                                      *)
(*                                                                         *)
(* A program stops at each of its blocking calls.  recv returns some of    *)
(* the replies that have been sent; a reply itself arrives whole.  Name    *)
(* resolution, arguments and allocation succeed.                           *)
(***************************************************************************)
EXTENDS ServerLoop

CONSTANTS PyClients,   \* the connections of cli.py
          CliClients,  \* those of cli.c
          Replicas,    \* those of nodes that start as replicas
          PyLines,     \* what users type to cli.py
          CliLines,    \* what they type to cli.c
          Killable     \* the programs that may be killed, at any moment

ASSUME ClientsAssumption ==
  /\ Conns = PyClients \union CliClients \union Replicas
  /\ PyClients \intersect (CliClients \union Replicas) = {}
  /\ CliClients \intersect Replicas = {}
  /\ Bare = CliClients \union Replicas
  /\ PyLines \union CliLines \subseteq {"get", "exit", "shutdown", "blank", "spaces"}
  /\ Killable \subseteq Conns
  /\ {"join", "repl", "details", "blank"} \union PyLines \union CliLines \subseteq Kinds
  /\ Endings = {"closed", "reset"}

VARIABLES
  prog,   \* where a program is: "start", "joining", "reading", "typing",
          \* "informing", "serving", "offline" or "ended"
  got     \* the number of replies it has read

cvars == <<vars, prog, got>>

Go(c, p) == prog' = [prog EXCEPT ![c] = p]

\* The kernel has closed the server's end of c.
Closed(c) == conn[c] = "gone" \/ ~ Running

Unread(c) == Len(replies[c]) - got[c]

-----------------------------------------------------------------------------
\* What the three programs have in common

Dial(c) ==
  /\ prog[c] = "start"
  /\ Connect(c)
  /\ Go(c, "joining") /\ UNCHANGED got

\* connect fails: cli.c goes on without a connection, the others end.
Refused(c) ==
  /\ prog[c] = "start" /\ ~ Running
  /\ Go(c, IF c \in CliClients THEN "offline" ELSE "ended")
  /\ UNCHANGED <<vars, got>>

\* The first message; cli.c does not read the prompt that answers it.
Join(c) ==
  /\ prog[c] = "joining"
  /\ Send(c, IF c \in Replicas THEN "repl" ELSE "join")
  /\ Go(c, IF c \in CliClients THEN "typing" ELSE "reading")
  /\ UNCHANGED got

\* Fault: recv does not wait.
ArrivedAny(c, n) == n \in 0 .. Unread(c)
Arrived(c, n) == n \in 1 .. Unread(c)

\* Whether a reply is the master's REPL_INIT_JOIN; fault: REPL_JOIN_OK is
\* what is compared with.
AdmittedLate(r) == r = <<"joined">>
Admitted(r) == r = <<"init">>

\* recv returns the next n replies.
Recv(c, n) ==
  /\ prog[c] = "reading"
  /\ Arrived(c, n)
  /\ got' = [got EXCEPT ![c] = @ + n]
  /\ Go(c, IF c \notin Replicas THEN "typing"
           ELSE IF n > 0 /\ Admitted(replies[c][got'[c]]) THEN "informing" ELSE "serving")
  /\ UNCHANGED vars

\* recv returns 0 or fails: cli.py ends, cli.c takes what it had for an
\* answer, and a replica starts to serve all the same.  Fault: all do as cli.c.
AfterEofTyping(c) == "typing"
AfterEof(c) ==
  CASE c \in PyClients -> "ended"
    [] c \in CliClients -> "typing"
    [] c \in Replicas -> "serving"

Eof(c) ==
  /\ prog[c] = "reading"
  /\ Closed(c) /\ Unread(c) = 0
  /\ Go(c, AfterEof(c))
  /\ UNCHANGED <<vars, got>>

\* A replica tells its master where it serves, and starts to.
Inform(c) ==
  /\ prog[c] = "informing"
  /\ Send(c, "details")
  /\ Go(c, "serving") /\ UNCHANGED got

-----------------------------------------------------------------------------
\* Users

\* What a program sends for a line: cli.py strips it, cli.c sends nothing
\* for an empty one.  Fault: cli.py does not.
UnstrippedLine(c, l) == IF c \in CliClients THEN {l} \ {"blank"} ELSE {l}
SentLine(c, l) ==
  IF c \in CliClients THEN {l} \ {"blank"}
  ELSE IF l = "spaces" THEN {"blank"} ELSE {l}

Type(c, l) ==
  /\ prog[c] = "typing"
  /\ \E k \in SentLine(c, l) : Send(c, k)
  /\ Go(c, "reading") /\ UNCHANGED got

\* The same to a connection that the server has closed; the program may have
\* been told so already, and ends by SIGPIPE or by an exception.
TypeLost(c) ==
  /\ prog[c] = "typing" /\ conn[c] = "gone"
  /\ \E p \in {"reading", "ended"} : Go(c, p)
  /\ UNCHANGED <<vars, got>>

\* The program is killed, or the user has no more to type.  The kernel resets
\* a connection that is closed with data unread.
Kill(c) ==
  /\ c \in Killable
  /\ Leave(c, IF Unread(c) > 0 THEN "reset" ELSE "closed")
  /\ Go(c, "ended") /\ UNCHANGED got

-----------------------------------------------------------------------------

CInit ==
  /\ Init
  /\ prog = [c \in Conns |-> "start"]
  /\ got = [c \in Conns |-> 0]

Serves == Server /\ UNCHANGED <<prog, got>>

\* What a program does by itself, once it has a connection.
Runs(c) ==
  \/ Join(c) \/ Eof(c) \/ Inform(c)
  \/ \E n \in 0 .. Len(replies[c]) : Recv(c, n)

CNext ==
  \/ Serves
  \/ \E c \in Conns :
       \/ Runs(c)
       \/ Dial(c) \/ Refused(c)
       \/ \E l \in IF c \in CliClients THEN CliLines ELSE PyLines : Type(c, l)
       \/ TypeLost(c) \/ Kill(c)

CSpec == CInit /\ [][CNext]_cvars

\* Every process runs whenever it is not blocked; users owe nothing.
FairSpec == CSpec /\ WF_cvars(Serves) /\ \A c \in Conns : WF_cvars(Runs(c))

-----------------------------------------------------------------------------
\* Properties

CTypeOK ==
  /\ prog \in [Conns -> {"start", "joining", "reading", "typing", "informing",
                         "serving", "offline", "ended"}]
  /\ \A c \in Conns : got[c] \in 0 .. Len(replies[c])
  /\ \A c \in Conns : /\ prog[c] \in {"informing", "serving"} => c \in Replicas
                      /\ prog[c] = "offline" => c \in CliClients
                      /\ prog[c] = "typing" => c \notin Replicas

\* Whenever cli.py asks for a line, the user has seen the answers to all the
\* earlier ones and each is the answer to its own line (cli.py:14).
InStep ==
  \A c \in PyClients : prog[c] = "typing" =>
    /\ got[c] = Len(sent[c])
    /\ \A n \in 2 .. got[c] : replies[c][n] = <<"answer", n>>

\* A program and the server wait for each other only after an empty line of
\* cli.py, which the server does not answer (network.c:124); merged and
\* dropped messages of the others never have that effect.
WaitsOnlyAfterBlank ==
  \A c \in Conns :
    prog[c] = "reading" /\ conn[c] = "open" /\ stream[c] = <<>> /\ Unread(c) = 0 =>
      \/ Closed(c)
      \/ c \in PyClients /\ Last(sent[c]) = "blank"

\* Replicas that join, each of which the server waits for inside its loop, do
\* not keep anybody waiting for ever: every read of a program returns, unless
\* it follows an empty line (replication.c:105).
ReadsReturn ==
  \A c \in Conns :
    prog[c] = "reading" /\ Last(sent[c]) # "blank" ~> prog[c] # "reading"

\* A node that serves as a replica has been told to join, or its master has
\* gone without saying so (replication.h:44).
ServesJoined == \A c \in Replicas : prog[c] = "serving" => got[c] = 1 \/ Closed(c)

\* Losing a client, or a message from one, is at most a warning (common.c:72).
ServerSurvives == pc # "killed"
=============================================================================
