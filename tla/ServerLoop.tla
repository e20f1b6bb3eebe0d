----------------------------- MODULE ServerLoop -----------------------------
(***************************************************************************)
(* The server's event loop, run_as_server of network/c/network.c: select,  *)
(* accept, and one read and one request per ready slot of the connection   *)
(* table, with the handshakes of users and of replicas.                    *)
(*                                                                         *)
(* The kernel's side of a connection is modelled from how the loop uses    *)
(* it: a backlog of connections to accept, descriptors given out lowest    *)
(* first and given out again once closed, a byte stream per connection, a  *)
(* peer that may close or reset it, and SIGPIPE for a second send to a     *)
(* peer that has gone.  A message is two halves and, except for the two    *)
(* handshakes, a newline.  What commands do to the data is in Keyspace.tla *)
(* and SaveFile.tla; here a command is answered.                           *)
(***************************************************************************)
EXTENDS Integers, Sequences, FiniteSets, SequencesExt, FiniteSetsExt

CONSTANTS Conns,       \* the connections clients may open, each once
          Kinds,       \* the kinds of message they send
          Bare,        \* those of clients that end no message with a newline
          Window,      \* the messages a client sends ahead of the answers
          MaxSent,     \* bound: messages per connection
          FDs,         \* the descriptors the process can have for clients
          CAP,         \* the connection table's array (DEF_CONN_TABLE_SIZE)
          MaxLen,      \* bound: slots written to, beyond the array included
          Endings,     \* how clients leave: "closed", "reset"
          Segmented,   \* a read may return part of what was sent
          HasMaster,   \* host_config.master is set
          Interrupts,  \* select may be interrupted by a signal
          NONE         \* no connection

ASSUME ServerAssumption ==
  /\ Kinds \subseteq {"join", "repl", "details", "get", "exit", "shutdown",
                     "blank", "spaces"}
  /\ Bare \subseteq Conns
  /\ FDs \subseteq Nat \ {0}
  /\ {Window, MaxSent, CAP, MaxLen} \subseteq Nat \ {0}
  /\ Endings \subseteq {"closed", "reset"}
  /\ {Segmented, HasMaster, Interrupts} \subseteq BOOLEAN
  /\ NONE \notin Conns

VARIABLES
  conn,     \* conn[c]: "none", "queued", "open" or, closed by the server, "gone"
  peer,     \* the client's end: "up", "closed", "reset"; "broken" after a send to it
  sent,     \* the kinds of the messages the client has sent
  stream,   \* what it has sent and the server has not read
  replies,  \* what it has been sent
  backlog,  \* the connections to accept
  socket,   \* socket[fd]: the connection behind a descriptor
  table,    \* host_config.connections: slots [fd, type, state]
  pc,       \* "select", "accept", "scan", "recv", "stopped" or "killed"
  ready,    \* readfds, as select left it
  cur       \* the slot the scan has reached

client == <<conn, peer, sent, stream, replies, backlog, socket>>
vars == <<client, table, pc, ready, cur>>

CLOSED == -1    \* the fd of a slot whose connection is closed

Running == pc \notin {"stopped", "killed"}

-----------------------------------------------------------------------------
\* Messages

Halves(k, n) == <<<<k, n, 1>>, <<k, n, 2>>>>

\* The text of the n-th message of c.
Text(c, k, n) ==
  (IF k = "blank" THEN <<>> ELSE Halves(k, n))
    \o (IF k \in {"join", "repl"} \/ c \in Bare THEN <<>> ELSE <<<<"nl">>>>)

\* buf is a message of kind k, whole and alone.
Is(buf, k) == \E n \in 1 .. MaxSent : buf = Halves(k, n)

\* socket_read_data's buffer after a read of n atoms of s: what follows the
\* first newline is dropped.
Buffer(s, n) ==
  LET ends == {i \in 1 .. n : s[i] = <<"nl">>}
  IN  SubSeq(s, 1, IF ends = {} THEN n ELSE Min(ends) - 1)

ReadLengths(s) == IF Segmented THEN DOMAIN s ELSE {Len(s)} \ {0}

\* The answer to a request; what is not a request is answered ERR.
AnswerTo(buf) ==
  IF \E k \in Kinds : Is(buf, k) THEN <<"answer", buf[1][2]>> ELSE <<"ERR">>

-----------------------------------------------------------------------------
\* Clients and kernel

Connect(c) ==
  /\ conn[c] = "none" /\ Running
  /\ conn' = [conn EXCEPT ![c] = "queued"]
  /\ backlog' = Append(backlog, c)
  /\ UNCHANGED <<peer, sent, stream, replies, socket, table, pc, ready, cur>>

Present(c) == conn[c] \in {"queued", "open"} /\ peer[c] = "up"

\* An empty text is not sent.
Send(c, k) ==
  /\ Present(c)
  /\ k = "blank" => c \notin Bare
  /\ Len(sent[c]) < Min({MaxSent, Len(replies[c]) + Window})
  /\ sent' = [sent EXCEPT ![c] = Append(@, k)]
  /\ stream' = [stream EXCEPT ![c] = @ \o Text(c, k, Len(sent[c]) + 1)]
  /\ UNCHANGED <<conn, peer, replies, backlog, socket, table, pc, ready, cur>>

Leave(c, e) ==
  /\ Present(c)
  /\ peer' = [peer EXCEPT ![c] = e]
  /\ UNCHANGED <<conn, sent, stream, replies, backlog, socket, table, pc, ready, cur>>

-----------------------------------------------------------------------------
\* The loop: select and accept

OpenSlots == {i \in DOMAIN table : table[i].fd # CLOSED}
Conn(i) == socket[table[i].fd]

\* A slot left with a descriptor that has been closed.
Stale(i) == i \in OpenSlots /\ Conn(i) = NONE

Readable(c) == stream[c] # <<>> \/ peer[c] # "up"

Select ==
  /\ pc = "select"
  /\ \A i \in OpenSlots : ~ Stale(i)
  /\ LET r == {table[i].fd : i \in {j \in OpenSlots : Readable(Conn(j))}}
     IN  /\ backlog # <<>> \/ r # {}
         /\ ready' = r
  /\ pc' = IF backlog # <<>> THEN "accept" ELSE "scan"
  /\ cur' = 1
  /\ UNCHANGED <<client, table>>

\* Any failure of select is taken for EINTR, and ends the loop.
SelectFails ==
  /\ pc = "select"
  /\ Interrupts \/ \E i \in OpenSlots : Stale(i)
  /\ pc' = "stopped"
  /\ UNCHANGED <<client, table, ready, cur>>

\* accept, and the slot at the table's end; without a free descriptor accept
\* fails, and the slot is used up all the same.  Beyond the end of the array
\* the write may go unnoticed.
Accept ==
  /\ pc = "accept"
  /\ Len(table) < MaxLen
  /\ LET free == {f \in FDs : socket[f] = NONE}
         slot(f) == [fd |-> f, type |-> "unknown", state |-> "handshake"]
     IN  IF free = {} THEN /\ table' = Append(table, slot(CLOSED))
                           /\ UNCHANGED <<socket, conn, backlog>>
         ELSE /\ table' = Append(table, slot(Min(free)))
              /\ socket' = [socket EXCEPT ![Min(free)] = Head(backlog)]
              /\ conn' = [conn EXCEPT ![Head(backlog)] = "open"]
              /\ backlog' = Tail(backlog)
  /\ pc' = "scan"
  /\ UNCHANGED <<peer, sent, stream, replies, ready, cur>>

\* The same write when it hits memory that matters.
AcceptBeyond ==
  /\ pc = "accept"
  /\ Len(table) >= CAP
  /\ pc' = "killed"
  /\ UNCHANGED <<client, table, ready, cur>>

-----------------------------------------------------------------------------
\* The loop: the scan of the table

DueAfter == {i \in DOMAIN table : i > cur /\ table[i].fd \in ready}   \* fault
Due == {i \in DOMAIN table : i >= cur /\ table[i].fd \in ready}

ScanEnd ==
  /\ pc = "scan"
  /\ Due = {}
  /\ pc' = "select"
  /\ UNCHANGED <<client, table, ready, cur>>

\* The next ready slot i is served, after a read of n atoms into buf.
Reads(i, n, buf) ==
  /\ pc = "scan"
  /\ i = Min(Due)
  /\ n \in ReadLengths(stream[Conn(i)])
  /\ buf = Buffer(stream[Conn(i)], n)

ConsumeLess(c, n) == stream' = [stream EXCEPT ![c] = SubSeq(@, n, Len(@))]   \* fault
Consume(c, n) == stream' = [stream EXCEPT ![c] = SubSeq(@, n + 1, Len(@))]

\* send: to a peer that has gone it succeeds or fails, to one that has
\* answered that with a reset it raises SIGPIPE (SendKills).
Reply(c, r) ==
  /\ peer[c] # "broken"
  /\ IF peer[c] = "up"
       THEN replies' = [replies EXCEPT ![c] = Append(@, r)] /\ UNCHANGED peer
       ELSE peer' = [peer EXCEPT ![c] = "broken"] /\ UNCHANGED replies

Silent == UNCHANGED <<replies, peer>>

\* Faults: the slot keeps its descriptor; the slot is removed by
\* remove_entry_conn_table, which moves the last one into its place.
CloseSlotStale(i) ==
  /\ socket' = [socket EXCEPT ![table[i].fd] = NONE]
  /\ conn' = [conn EXCEPT ![Conn(i)] = "gone"]
  /\ UNCHANGED table
CloseSlotMove(i) ==
  /\ table' = Front([table EXCEPT ![i] = Last(table)])
  /\ socket' = [socket EXCEPT ![table[i].fd] = NONE]
  /\ conn' = [conn EXCEPT ![Conn(i)] = "gone"]

\* close(fd); the slot keeps its place in the table.
CloseSlot(i) ==
  /\ table' = [table EXCEPT ![i].fd = CLOSED]
  /\ socket' = [socket EXCEPT ![table[i].fd] = NONE]
  /\ conn' = [conn EXCEPT ![Conn(i)] = "gone"]

KeepSlot == UNCHANGED <<table, socket, conn>>

Proceed(i) == pc' = "scan" /\ cur' = i + 1

\* Which requests a slot takes; faults: one half of the test is missing, or
\* the branch for replicas (network.c:134) takes the place of the users'.
HandshakingAny(i) == table[i].type # "repl"
Handshaking(i) == table[i].state = "handshake"
UserAny(i) == table[i].type # "repl"
UserReplica(i) == table[i].state = "active" /\ table[i].type = "repl"
User(i) == table[i].state = "active" /\ table[i].type = "user"

\* The whole of serving slot i, but for what the action adds.
Serve(i, n) ==
  /\ Consume(Conn(i), n)
  /\ UNCHANGED <<sent, backlog, ready>>

\* read returns 0 or fails.
PeerGone(i) ==
  /\ pc = "scan" /\ i = Min(Due)
  /\ stream[Conn(i)] = <<>>
  /\ CloseSlot(i) /\ Silent /\ Proceed(i)
  /\ UNCHANGED <<stream, sent, backlog, ready>>

JoinUser(i, n, buf) ==
  /\ Reads(i, n, buf) /\ Handshaking(i) /\ Is(buf, "join")
  /\ table' = [table EXCEPT ![i].type = "user", ![i].state = "active"]
  /\ Reply(Conn(i), <<"prompt">>)
  /\ UNCHANGED <<socket, conn>>
  /\ Serve(i, n) /\ Proceed(i)

\* master_init_handshake_with_repl up to its recv, which blocks.
JoinReplica(i, n, buf) ==
  /\ Reads(i, n, buf) /\ Handshaking(i) /\ Is(buf, "repl")
  /\ peer[Conn(i)] # "reset"
  /\ table' = [table EXCEPT ![i].type = "repl", ![i].state = "active"]
  /\ Reply(Conn(i), <<"init">>)
  /\ UNCHANGED <<socket, conn>>
  /\ Serve(i, n)
  /\ pc' = "recv" /\ cur' = i

Reject(i, n, buf) ==
  /\ Reads(i, n, buf) /\ Handshaking(i)
  /\ ~ Is(buf, "join") /\ ~ Is(buf, "repl")
  /\ CloseSlot(i) /\ Silent /\ Serve(i, n) /\ Proceed(i)

\* An empty line, and whatever a replica sends, is not answered.
Ignore(i, n, buf) ==
  /\ Reads(i, n, buf) /\ ~ Handshaking(i)
  /\ User(i) => buf = <<>>
  /\ KeepSlot /\ Silent /\ Serve(i, n) /\ Proceed(i)

Request(i, n, buf) ==
  /\ Reads(i, n, buf) /\ User(i) /\ buf # <<>>
  /\ ~ Is(buf, "exit") /\ ~ Is(buf, "shutdown")
  /\ Reply(Conn(i), AnswerTo(buf))
  /\ KeepSlot /\ Serve(i, n) /\ Proceed(i)

Exit(i, n, buf) ==
  /\ Reads(i, n, buf) /\ User(i) /\ Is(buf, "exit")
  /\ Reply(Conn(i), AnswerTo(buf))
  /\ CloseSlot(i) /\ Serve(i, n) /\ Proceed(i)

Shutdown(i, n, buf) ==
  /\ Reads(i, n, buf) /\ User(i) /\ Is(buf, "shutdown")
  /\ Reply(Conn(i), AnswerTo(buf))
  /\ KeepSlot /\ Serve(i, n)
  /\ pc' = "stopped" /\ UNCHANGED cur

\* The request has no token, and processCommand compares an uninitialised
\* pointer with its commands' names: Request is one outcome, this the other.
NoToken(i, n, buf) ==
  /\ Reads(i, n, buf) /\ User(i)
  /\ buf # <<>> /\ \A j \in DOMAIN buf : buf[j][1] = "spaces"
  /\ pc' = "killed"
  /\ UNCHANGED <<client, table, ready, cur>>

\* A second send to a peer that has gone: nothing handles SIGPIPE.
SendKills(i, n, buf) ==
  /\ Reads(i, n, buf) /\ peer[Conn(i)] = "broken"
  /\ \/ Handshaking(i) /\ (Is(buf, "join") \/ Is(buf, "repl"))
     \/ User(i) /\ buf # <<>>
  /\ pc' = "killed"
  /\ UNCHANGED <<client, table, ready, cur>>

-----------------------------------------------------------------------------
\* The rest of master_init_handshake_with_repl

\* recv returns data, which is only logged, or the end of the stream.
ReplicaInfo ==
  /\ pc = "recv"
  /\ LET c == Conn(cur)
     IN  \/ \E n \in ReadLengths(stream[c]) : Consume(c, n)
         \/ stream[c] = <<>> /\ peer[c] \in {"closed", "broken"} /\ UNCHANGED stream
  /\ Proceed(cur)
  /\ UNCHANGED <<conn, peer, sent, replies, backlog, socket, table, ready>>

\* err_ret: the descriptor is closed but stays in the table, and
\* host_config.master is written through, which is null unless configured.
HandshakeFails(i) ==
  /\ IF HasMaster
       THEN /\ socket' = [socket EXCEPT ![table[i].fd] = NONE]
            /\ conn' = [conn EXCEPT ![Conn(i)] = "gone"]
            /\ Proceed(i)
       ELSE pc' = "killed" /\ UNCHANGED <<socket, conn, cur>>
  /\ UNCHANGED <<sent, replies, backlog, ready>>

\* The send of REPL_INIT_JOIN fails.
InitNotSent(i, n, buf) ==
  /\ Reads(i, n, buf) /\ Handshaking(i) /\ Is(buf, "repl")
  /\ peer[Conn(i)] = "reset"
  /\ table' = [table EXCEPT ![i].type = "repl", ![i].state = "active"]
  /\ Consume(Conn(i), n)
  /\ HandshakeFails(i)
  /\ UNCHANGED peer

\* The recv fails.
InfoNotReceived ==
  /\ pc = "recv"
  /\ stream[Conn(cur)] = <<>> /\ peer[Conn(cur)] = "reset"
  /\ HandshakeFails(cur)
  /\ UNCHANGED <<stream, table, peer>>

-----------------------------------------------------------------------------

Init ==
  /\ conn = [c \in Conns |-> "none"]
  /\ peer = [c \in Conns |-> "up"]
  /\ sent = [c \in Conns |-> <<>>]
  /\ stream = [c \in Conns |-> <<>>]
  /\ replies = [c \in Conns |-> <<>>]
  /\ backlog = <<>>
  /\ socket = [f \in FDs |-> NONE]
  /\ table = <<>>
  /\ pc = "select"
  /\ ready = {}
  /\ cur = 1

Client ==
  \E c \in Conns :
    \/ Connect(c)
    \/ \E k \in Kinds : Send(c, k)
    \/ \E e \in Endings : Leave(c, e)

\* What one read of slot i, of n atoms, leads to.
Handle(i, n, buf) ==
  \/ JoinUser(i, n, buf) \/ JoinReplica(i, n, buf) \/ Reject(i, n, buf)
  \/ Ignore(i, n, buf) \/ Request(i, n, buf) \/ Exit(i, n, buf)
  \/ Shutdown(i, n, buf) \/ NoToken(i, n, buf) \/ SendKills(i, n, buf)
  \/ InitNotSent(i, n, buf)

Server ==
  \/ Select \/ SelectFails
  \/ Accept \/ AcceptBeyond
  \/ ScanEnd
  \/ \E i \in Due :
       \/ PeerGone(i)
       \/ \E n \in DOMAIN stream[Conn(i)] : Handle(i, n, Buffer(stream[Conn(i)], n))
  \/ ReplicaInfo \/ InfoNotReceived

Next == Client \/ Server

Spec == Init /\ [][Next]_vars

-----------------------------------------------------------------------------
\* Properties

TypeOK ==
  /\ conn \in [Conns -> {"none", "queued", "open", "gone"}]
  /\ peer \in [Conns -> {"up", "closed", "reset", "broken"}]
  /\ socket \in [FDs -> Conns \union {NONE}]
  /\ \A i \in DOMAIN table :
       table[i] \in [fd : FDs \union {CLOSED}, type : {"unknown", "user", "repl"},
                     state : {"handshake", "active"}]
  /\ Len(table) <= MaxLen
  /\ cur \in 1 .. Len(table) + 1
  /\ pc = "recv" => cur \in OpenSlots
  /\ ready \subseteq FDs

\* The table and the kernel agree: every accepted connection is behind exactly
\* one slot, and every slot that is not closed has a connection of its own.  A
\* slot that outlived its descriptor would be given the next client's requests
\* together with the state of the last one (network.c:99).
SlotsSound ==
  Running =>
    /\ {Conn(i) : i \in OpenSlots} = {c \in Conns : conn[c] = "open"}
    /\ \A i, j \in OpenSlots : Conn(i) = Conn(j) => i = j

\* Nobody is answered before its own handshake, alone in one read, whatever
\* the slot and the descriptor were used for before (network.c:103).
JoinedFirst ==
  \A c \in Conns : replies[c] # <<>> =>
    \/ Head(sent[c]) = "join" /\ Head(replies[c]) = <<"prompt">>
    \/ Head(sent[c]) = "repl" /\ replies[c] = <<<<"init">>>>

\* A client that has joined and has not left is disconnected only by its own
\* EXIT, whatever other clients do, or with the server.
JoinedStay ==
  [][\A c \in Conns :
       conn[c] = "open" /\ conn'[c] = "gone" /\ replies[c] # <<>> =>
         peer[c] # "up" \/ "exit" \in ToSet(sent[c])]_vars

\* The server stops in order only when a client that has joined asked for it.
StopsOnRequest ==
  pc = "stopped" =>
    \E c \in Conns : Len(sent[c]) > 1 /\ Head(sent[c]) = "join" /\ "shutdown" \in ToSet(sent[c])

\* The table never has more slots than its array: it is doubled at 80%
\* (config.h:103).
TableFits == Len(table) <= CAP
=============================================================================
