--------------------------- MODULE ClientsProofs ---------------------------
(***************************************************************************)
(* Proofs about the server with the programs of this repository, for any   *)
(* number of them, of descriptors and of messages, and whatever users      *)
(* type.  The programs only do what ServerLoop's clients do, so that the   *)
(* invariants of ServerLoopProofs hold here too.  On them rest, in turn:   *)
(* - Moves, what a step of the server may do to one connection;            *)
(* - Settled, what a slot is used for, against what its connection sent;   *)
(* - Acts, what a step of a program may do to its own connection;          *)
(* - Standing, where a program stands, against what it sent and read;      *)
(* - InTurn, the one message of cli.py that is under way;                  *)
(* - Plain and Waiting, for who waits for whom;                            *)
(* - Harmless and Fits, for what could kill the server.                    *)
(***************************************************************************)
EXTENDS Clients, ServerLoopProofs, FiniteSetTheorems

-----------------------------------------------------------------------------
(* What a step of the server may do to one connection. *)

\* The slot of c, if any, stays as it is.
Kept(c) ==
  /\ conn'[c] = conn[c]
  /\ \A j \in OpenSlots' : Conn(j)' = c =>
       j \in OpenSlots /\ Conn(j) = c /\ table'[j] = table[j]

\* No text of c moves; n atoms of it are read; r is sent to c, or breaks on a
\* connection that is closed; nothing is sent.
SameText(c) ==
  stream'[c] = stream[c] /\ replies'[c] = replies[c] /\ peer'[c] = peer[c]

Took(c, n) ==
  n \in ReadLengths(stream[c]) /\ stream'[c] = SubSeq(stream[c], n + 1, Len(stream[c]))

Told(c, r) ==
  \/ peer[c] = "up" /\ peer'[c] = "up" /\ replies'[c] = Append(replies[c], r)
  \/ peer[c] \in {"closed", "reset"} /\ peer'[c] = "broken" /\ replies'[c] = replies[c]

Untold(c) == replies'[c] = replies[c] /\ peer'[c] = peer[c]

\* Slot i, of c, is admitted as one of a user or of a replica.
Enrolled(c, i, t) ==
  /\ conn'[c] = conn[c]
  /\ \A j \in OpenSlots' : Conn(j)' = c =>
       j = i /\ table'[i].type = t /\ table'[i].state = "active"

\* No slot holds c.
Slotless(c) == \A j \in OpenSlots' : Conn(j)' # c

\* The server accepts c, drops it, welcomes it, answers it, or ignores what it
\* has read.
Accepted(c) ==
  /\ conn[c] = "queued" /\ conn'[c] = "open"
  /\ SameText(c)
  /\ \A j \in OpenSlots' : Conn(j)' = c => Handshaking(j)'

Dropped(c) ==
  /\ conn[c] = "open" /\ conn'[c] = "gone" /\ Slotless(c)
  /\ \/ SameText(c)
     \/ \E n : Took(c, n) /\ Untold(c)
     \/ \E n : /\ Took(c, n) /\ Told(c, AnswerTo(Buffer(stream[c], n)))
               /\ \E i \in OpenSlots : Conn(i) = c /\ User(i)
               /\ Buffer(stream[c], n) # <<>>

\* The join of a user or of a replica is answered.
Welcomed(c, n, i) ==
  /\ Handshaking(i)
  /\ \/ /\ Is(Buffer(stream[c], n), "join") /\ Enrolled(c, i, "user")
        /\ Told(c, <<"prompt">>)
     \/ /\ Is(Buffer(stream[c], n), "repl") /\ Enrolled(c, i, "repl")
        /\ Told(c, <<"init">>)

\* A replica joins whose connection has been reset.
Abandoned(c, n, i) ==
  /\ Handshaking(i) /\ Is(Buffer(stream[c], n), "repl") /\ Enrolled(c, i, "repl")
  /\ Untold(c) /\ peer[c] = "reset" /\ pc' = "killed"

\* What a user says is answered.
AnsweredNow(c, n, i) ==
  /\ User(i) /\ Buffer(stream[c], n) # <<>> /\ Kept(c)
  /\ Told(c, AnswerTo(Buffer(stream[c], n)))

\* What is read is not answered: an empty line, or a replica's.
Ignored(c, n, i) ==
  /\ ~ Handshaking(i) /\ (User(i) => Buffer(stream[c], n) = <<>>) /\ Kept(c)
  /\ Untold(c)

\* The server reads from c and keeps it.
ReadOf(c) ==
  \E i \in OpenSlots, n \in ReadLengths(stream[c]) :
    /\ Conn(i) = c /\ Took(c, n)
    /\ \/ Welcomed(c, n, i) \/ Abandoned(c, n, i)
       \/ AnsweredNow(c, n, i) \/ Ignored(c, n, i)

\* All that a step of the server may do to c.
Moves(c) ==
  \/ Kept(c) /\ SameText(c)
  \/ Accepted(c) \/ Dropped(c) \/ ReadOf(c)

\* What serving slot i leaves alone.
Frame(i) ==
  /\ OpenSlots' \subseteq OpenSlots
  /\ \A j \in OpenSlots' : table'[j].fd = table[j].fd
  /\ \A j \in OpenSlots' \ {i} : table'[j] = table[j]
  /\ \A f \in FDs \ {table[i].fd} : socket'[f] = socket[f]
  /\ socket'[table[i].fd] \in {NONE, Conn(i)}
  /\ \A d \in Conns \ {Conn(i)} : conn'[d] = conn[d]

\* The other connections keep their slots.
LEMMA FrameKeeps ==
  ASSUME Inv, NEW i \in OpenSlots, Frame(i), NEW c \in Conns, c # Conn(i)
  PROVE  Kept(c)
<1>1. \A j \in OpenSlots' : j \in OpenSlots /\ table[j].fd \in FDs /\ Conn(j) = socket[table[j].fd]
  BY OpenFacts DEF Inv, Frame, Conn
<1>2. \A j \in OpenSlots' : Conn(j)' = socket'[table[j].fd]
  BY DEF Frame, Conn
<1>3. NONE \notin Conns
  BY ServerAssumption
<1>4. ASSUME NEW j \in OpenSlots', Conn(j)' = c
      PROVE  Conn(j) = c /\ table'[j] = table[j]
  <2>1. table[j].fd # table[i].fd
    BY <1>2, <1>3, <1>4 DEF Frame
  <2>. QED BY <1>1, <1>2, <1>4, <2>1 DEF Frame
<1>. QED BY <1>1, <1>4 DEF Kept, Frame

\* Closing a slot, admitting one and leaving its closed descriptor in it all
\* leave the other slots alone.
LEMMA CloseFrame ==
  ASSUME Inv, NEW i \in OpenSlots, Conn(i) \in Conns, CloseSlot(i)
  PROVE  Frame(i) /\ Slotless(Conn(i)) /\ conn'[Conn(i)] = "gone"
<1>1. /\ OpenSlots' = OpenSlots \ {i}
      /\ \A j \in OpenSlots' : table'[j] = table[j]
      /\ \A f \in FDs \ {table[i].fd} : socket'[f] = socket[f]
      /\ socket'[table[i].fd] = NONE
      /\ \A c \in Conns \ {Conn(i)} : conn'[c] = conn[c]
      /\ conn'[Conn(i)] = "gone"
  BY CloseEffect DEF Inv
<1>2. \A j \in OpenSlots' : table[j].fd \in FDs /\ table[j].fd # table[i].fd /\ Conn(j) # Conn(i)
  <2>1. \A j \in OpenSlots : Conn(j) = Conn(i) => j = i
    BY OneSlot
  <2>2. \A j \in OpenSlots : table[j].fd \in FDs /\ (table[j].fd = table[i].fd => j = i)
    BY OpenFacts DEF Inv, Links
  <2>. QED BY <1>1, <2>1, <2>2
<1>3. \A j \in OpenSlots' : Conn(j)' = Conn(j)
  BY <1>1, <1>2 DEF Conn
<1>. QED BY <1>1, <1>2, <1>3 DEF Frame, Slotless

\* The slot that is served loses its connection: no other slot is touched.
LEMMA LeftFrame ==
  ASSUME Inv, NEW i \in OpenSlots, Conn(i) \in Conns, NEW t \in {"user", "repl"},
         \/ UNCHANGED table
         \/ table' = [table EXCEPT ![i].type = t, ![i].state = "active"],
         socket' = [socket EXCEPT ![table[i].fd] = NONE],
         conn' = [conn EXCEPT ![Conn(i)] = "gone"]
  PROVE  Frame(i) /\ Slotless(Conn(i)) /\ conn'[Conn(i)] = "gone"
<1>1. /\ OpenSlots' = OpenSlots
      /\ \A j \in OpenSlots : table'[j].fd = table[j].fd
      /\ \A j \in OpenSlots \ {i} : table'[j] = table[j]
  BY AdmitEffect DEF Inv, OpenSlots
<1>2. /\ table[i].fd \in FDs
      /\ \A f \in FDs \ {table[i].fd} : socket'[f] = socket[f]
      /\ socket'[table[i].fd] = NONE
      /\ \A c \in Conns \ {Conn(i)} : conn'[c] = conn[c]
      /\ conn'[Conn(i)] = "gone"
  BY OpenFacts DEF Inv, Shape
<1>3. \A j \in OpenSlots : table[j].fd \in FDs /\ (Conn(j) = Conn(i) => j = i)
  BY OpenFacts, OneSlot DEF Inv
<1>4. \A j \in OpenSlots' : Conn(j)' = IF table[j].fd = table[i].fd THEN NONE ELSE Conn(j)
  BY <1>1, <1>2, <1>3 DEF Conn
<1>5. NONE \notin Conns
  BY ServerAssumption
<1>6. Slotless(Conn(i))
  BY <1>1, <1>3, <1>4, <1>5 DEF Slotless
<1>. QED BY <1>1, <1>2, <1>6 DEF Frame

\* The slot that is served is admitted: no other slot is touched.
LEMMA AdmitFrame ==
  ASSUME Inv, NEW i \in OpenSlots, Conn(i) \in Conns, NEW t \in {"user", "repl"},
         table' = [table EXCEPT ![i].type = t, ![i].state = "active"],
         UNCHANGED <<socket, conn>>
  PROVE  Frame(i) /\ Enrolled(Conn(i), i, t)
<1>1. /\ OpenSlots' = OpenSlots
      /\ \A j \in OpenSlots : table'[j].fd = table[j].fd
      /\ \A j \in OpenSlots \ {i} : table'[j] = table[j]
      /\ table'[i].type = t /\ table'[i].state = "active"
  BY AdmitEffect DEF Inv
<1>2. \A j \in OpenSlots' : Conn(j)' = Conn(j)
  BY <1>1 DEF Conn
<1>3. \A j \in OpenSlots : Conn(j) = Conn(i) => j = i
  BY OneSlot
<1>4. socket'[table[i].fd] = Conn(i)
  BY DEF Conn
<1>. QED BY <1>1, <1>2, <1>3, <1>4 DEF Frame, Enrolled

\* With table, socket and conn unchanged every slot is kept.
LEMMA SameSlots ==
  ASSUME UNCHANGED <<table, socket, conn>>, NEW c
  PROVE  Kept(c)
<1>1. OpenSlots' = OpenSlots /\ \A j : Conn(j)' = Conn(j)
  BY DEF OpenSlots, Conn
<1>. QED BY <1>1 DEF Kept

\* What an answer and a read do to their own connection, and to the others.
LEMMA OwnText ==
  ASSUME Shape, NEW c \in Conns
  PROVE  /\ \A n : Consume(c, n) => stream'[c] = SubSeq(stream[c], n + 1, Len(stream[c]))
         /\ \A r : Reply(c, r) => Told(c, r)
         /\ Silent => Untold(c)
<1>1. \A n : Consume(c, n) => stream'[c] = SubSeq(stream[c], n + 1, Len(stream[c]))
  BY DEF Consume, Shape
<1>2. ASSUME NEW r, Reply(c, r) PROVE Told(c, r)
  <2>1. peer \in [Conns -> {"up", "closed", "reset", "broken"}] /\ DOMAIN replies = Conns
    BY DEF Shape
  <2>2. CASE peer[c] = "up"
    BY <1>2, <2>1, <2>2 DEF Reply, Told
  <2>3. CASE peer[c] # "up"
    BY <1>2, <2>1, <2>3 DEF Reply, Told
  <2>. QED BY <2>2, <2>3
<1>. QED BY <1>1, <1>2 DEF Silent, Untold

\* What serving slot i does to another connection.
LEMMA HandleOthers ==
  ASSUME Inv, pc = "scan", NEW i \in Due, NEW c \in Conns, c # Conn(i),
         NEW n \in DOMAIN stream[Conn(i)], NEW buf, Handle(i, n, buf)
  PROVE  Kept(c) /\ SameText(c)
<1>1. /\ Shape /\ i \in OpenSlots /\ Conn(i) \in Conns
  BY ServedFacts, DueOpen DEF Inv
<1>2. PICK b \in Conns : b = Conn(i) /\ b # c
  BY <1>1
<1>3. /\ stream'[c] = stream[c]
      /\ (replies'[c] = replies[c] /\ peer'[c] = peer[c])
  <2>1. \/ \E m : Consume(b, m)
        \/ UNCHANGED stream
    BY <1>2 DEF Handle, JoinUser, JoinReplica, Reject, Ignore, Request, Exit, Shutdown,
           NoToken, SendKills, InitNotSent, Serve, client
  <2>2. \/ \E r : Reply(b, r)
        \/ UNCHANGED <<replies, peer>>
    BY <1>2 DEF Handle, JoinUser, JoinReplica, Reject, Ignore, Request, Exit, Shutdown,
           NoToken, SendKills, InitNotSent, Silent, HandshakeFails, client
  <2>. QED BY <1>1, <1>2, <2>1, <2>2, ServedOnly
<1>4. \/ CloseSlot(i)
      \/ UNCHANGED <<table, socket, conn>>
      \/ \E t \in {"user", "repl"} :
           /\ table' = [table EXCEPT ![i].type = t, ![i].state = "active"]
           /\ \/ UNCHANGED <<socket, conn>>
              \/ /\ socket' = [socket EXCEPT ![table[i].fd] = NONE]
                 /\ conn' = [conn EXCEPT ![Conn(i)] = "gone"]
  BY DEF Handle, JoinUser, JoinReplica, Reject, Ignore, Request, Exit, Shutdown,
         NoToken, SendKills, InitNotSent, KeepSlot, HandshakeFails, client
<1>5. Kept(c)
  BY <1>1, <1>4, CloseFrame, LeftFrame, AdmitFrame, FrameKeeps, SameSlots
<1>. QED BY <1>3, <1>5 DEF SameText

\* What serving slot i does to its own connection.
LEMMA HandleOwn ==
  ASSUME Inv, pc = "scan", NEW i \in Due, NEW c \in Conns, c = Conn(i),
         NEW n \in DOMAIN stream[c], Handle(i, n, Buffer(stream[c], n))
  PROVE  Moves(c)
<1>1. /\ Shape /\ i \in OpenSlots /\ conn[c] = "open"
  BY ServedFacts, DueOpen DEF Inv
<1>2. PICK buf : buf = Buffer(stream[c], n)
  OBVIOUS
<1>3. Serve(i, n) => stream'[c] = SubSeq(stream[c], n + 1, Len(stream[c]))
  BY <1>1, OwnText DEF Serve
<1>4. Reads(i, n, buf) => n \in ReadLengths(stream[c])
  BY DEF Reads
<1>5. Reads(i, n, buf) /\ Serve(i, n) => Took(c, n)
  BY <1>3, <1>4 DEF Took
<1>6. (\A r : Reply(c, r) => Told(c, r)) /\ (Silent => Untold(c))
  BY <1>1, OwnText
<1>7. CloseSlot(i) => Slotless(c) /\ conn'[c] = "gone"
  BY <1>1, CloseFrame
<1>8. \A t \in {"user", "repl"} :
        /\ table' = [table EXCEPT ![i].type = t, ![i].state = "active"]
        /\ UNCHANGED <<socket, conn>>
        => Enrolled(c, i, t)
  BY <1>1, AdmitFrame
<1>9. UNCHANGED <<table, socket, conn>> => Kept(c)
  BY SameSlots
<1>10. UNCHANGED <<client, table>> => Kept(c) /\ SameText(c)
  BY <1>9 DEF client, SameText
<1>11. CASE JoinUser(i, n, buf)
  <2>1. Reads(i, n, buf) /\ Serve(i, n) /\ Handshaking(i) /\ Is(buf, "join")
    BY <1>11 DEF JoinUser
  <2>2. Enrolled(c, i, "user") /\ Told(c, <<"prompt">>)
    BY <1>6, <1>8, <1>11 DEF JoinUser
  <2>3. Welcomed(c, n, i)
    BY <1>2, <2>1, <2>2 DEF Welcomed
  <2>. QED BY <1>1, <1>4, <1>5, <2>1, <2>3 DEF Moves, ReadOf
<1>12. CASE JoinReplica(i, n, buf)
  <2>1. Reads(i, n, buf) /\ Serve(i, n) /\ Handshaking(i) /\ Is(buf, "repl")
    BY <1>12 DEF JoinReplica
  <2>2. Enrolled(c, i, "repl") /\ Told(c, <<"init">>)
    BY <1>6, <1>8, <1>12 DEF JoinReplica
  <2>3. Welcomed(c, n, i)
    BY <1>2, <2>1, <2>2 DEF Welcomed
  <2>. QED BY <1>1, <1>4, <1>5, <2>1, <2>3 DEF Moves, ReadOf
<1>13. CASE Reject(i, n, buf)
  <2>1. Took(c, n) /\ Untold(c) /\ Slotless(c) /\ conn'[c] = "gone"
    BY <1>5, <1>6, <1>7, <1>13 DEF Reject
  <2>. QED BY <1>1, <2>1 DEF Moves, Dropped
<1>14. CASE Ignore(i, n, buf)
  <2>1. Took(c, n) /\ n \in ReadLengths(stream[c]) /\ Ignored(c, n, i)
    BY <1>2, <1>4, <1>5, <1>6, <1>9, <1>14 DEF Ignore, KeepSlot, Ignored
  <2>. QED BY <1>1, <2>1 DEF Moves, ReadOf
<1>15. CASE Request(i, n, buf)
  <2>1. Told(c, AnswerTo(buf)) /\ Kept(c) /\ User(i) /\ buf # <<>>
    BY <1>6, <1>9, <1>15 DEF Request, KeepSlot
  <2>2. Took(c, n) /\ n \in ReadLengths(stream[c]) /\ AnsweredNow(c, n, i)
    BY <1>2, <1>4, <1>5, <1>15, <2>1 DEF Request, AnsweredNow
  <2>. QED BY <1>1, <2>2 DEF Moves, ReadOf
<1>16. CASE Exit(i, n, buf)
  <2>1. Told(c, AnswerTo(buf)) /\ User(i)
    BY <1>6, <1>16 DEF Exit
  <2>2. Took(c, n) /\ Slotless(c) /\ conn'[c] = "gone"
    BY <1>5, <1>7, <1>16 DEF Exit
  <2>3. buf # <<>>
    BY <1>16 DEF Exit, Is, Halves
  <2>. QED BY <1>1, <1>2, <2>1, <2>2, <2>3 DEF Moves, Dropped
<1>17. CASE Shutdown(i, n, buf)
  <2>1. Told(c, AnswerTo(buf)) /\ Kept(c) /\ User(i)
    BY <1>6, <1>9, <1>17 DEF Shutdown, KeepSlot
  <2>2. buf # <<>>
    BY <1>17 DEF Shutdown, Is, Halves
  <2>3. Took(c, n) /\ n \in ReadLengths(stream[c]) /\ AnsweredNow(c, n, i)
    BY <1>2, <1>4, <1>5, <1>17, <2>1, <2>2 DEF Shutdown, AnsweredNow
  <2>. QED BY <1>1, <2>3 DEF Moves, ReadOf
<1>18. CASE NoToken(i, n, buf) \/ SendKills(i, n, buf)
  BY <1>10, <1>18 DEF NoToken, SendKills, Moves
<1>19. CASE InitNotSent(i, n, buf)
  <2>1. /\ n \in ReadLengths(stream[c]) /\ Handshaking(i) /\ Is(buf, "repl")
        /\ peer[c] = "reset" /\ Consume(c, n) /\ Untold(c)
    BY <1>4, <1>19 DEF InitNotSent, HandshakeFails, Untold
  <2>2. Took(c, n)
    BY <1>1, <2>1, OwnText DEF Took
  <2>3. CASE HasMaster
    <3>1. Slotless(c) /\ conn'[c] = "gone"
      BY <1>1, <1>19, <2>3, LeftFrame DEF InitNotSent, HandshakeFails
    <3>. QED BY <1>1, <2>1, <2>2, <3>1 DEF Moves, Dropped
  <2>4. CASE ~ HasMaster
    <3>1. Enrolled(c, i, "repl") /\ pc' = "killed"
      BY <1>8, <1>19, <2>4 DEF InitNotSent, HandshakeFails
    <3>2. Abandoned(c, n, i)
      BY <1>2, <2>1, <3>1 DEF Abandoned
    <3>. QED BY <1>1, <2>1, <2>2, <3>2 DEF Moves, ReadOf
  <2>. QED BY <2>3, <2>4
<1>. QED BY <1>2, <1>11, <1>12, <1>13, <1>14, <1>15, <1>16, <1>17, <1>18, <1>19 DEF Handle

\* A connection that is accepted has a slot of its own, in its handshake.
LEMMA AcceptMoves ==
  ASSUME Inv, Accept, NEW c \in Conns
  PROVE  Moves(c)
<1>1. SameText(c) /\ pc = "accept"
  BY DEF Accept, SameText
<1>2. NONE \notin Conns
  BY ServerAssumption
<1>3. \A j \in OpenSlots : /\ table[j].fd \in FDs /\ Conn(j) = socket[table[j].fd]
                           /\ Conn(j) \in Conns /\ conn[Conn(j)] = "open"
  <2>1. \A j \in OpenSlots : table[j].fd \in FDs /\ Conn(j) = socket[table[j].fd]
    BY OpenFacts DEF Inv, Conn
  <2>2. \A j \in OpenSlots : Conn(j) # NONE
    BY <1>1 DEF Inv, Links, StaleAt
  <2>3. \A f \in FDs : socket[f] # NONE => socket[f] \in Conns /\ conn[socket[f]] = "open"
    BY DEF Inv, Links, Shape
  <2>. QED BY <2>1, <2>2, <2>3
<1>4. CASE /\ UNCHANGED <<socket, conn, backlog>>
           /\ OpenSlots' = OpenSlots
           /\ \A i \in OpenSlots : table'[i] = table[i]
  <2>1. \A j \in OpenSlots : Conn(j)' = Conn(j)
    BY <1>4 DEF Conn
  <2>. QED BY <1>1, <1>4, <2>1 DEF Moves, Kept
<1>5. ASSUME NEW f \in FDs, socket[f] = NONE,
             conn[Head(backlog)] = "queued", Head(backlog) \in Conns,
             socket' = [socket EXCEPT ![f] = Head(backlog)],
             conn' = [conn EXCEPT ![Head(backlog)] = "open"],
             OpenSlots' = OpenSlots \union {Len(table) + 1},
             table'[Len(table) + 1] =
               [fd |-> f, type |-> "unknown", state |-> "handshake"],
             \A i \in OpenSlots : table'[i] = table[i]
      PROVE  Moves(c)
  <2>1. PICK h \in Conns, m \in Nat :
          h = Head(backlog) /\ m = Len(table) + 1 /\ conn[h] = "queued"
    <3>1. Len(table) + 1 \in Nat
      BY DEF Inv, Shape
    <3>. QED BY <1>5, <3>1
  <2>2. /\ conn'[c] = IF c = h THEN "open" ELSE conn[c]
        /\ socket'[f] = h /\ \A g \in FDs \ {f} : socket'[g] = socket[g]
    BY <1>5, <2>1 DEF Inv, Shape
  <2>3. \A j \in OpenSlots : Conn(j)' = Conn(j)
    <3>1. \A j \in OpenSlots : table'[j].fd = table[j].fd /\ table[j].fd \in FDs \ {f}
      BY <1>2, <1>3, <1>5
    <3>. QED BY <1>3, <2>2, <3>1 DEF Conn
  <2>4. Conn(m)' = h /\ Handshaking(m)'
    BY <1>5, <2>1, <2>2 DEF Conn, Handshaking
  <2>5. CASE c = h
    <3>1. \A j \in OpenSlots' : Conn(j)' = c => j = m
      BY <1>3, <1>5, <2>1, <2>3, <2>5
    <3>2. \A j \in OpenSlots' : Conn(j)' = c => Handshaking(j)'
      BY <2>4, <3>1
    <3>. QED BY <1>1, <2>1, <2>2, <2>5, <3>2 DEF Moves, Accepted
  <2>6. CASE c # h
    <3>1. \A j \in OpenSlots' : Conn(j)' = c => j \in OpenSlots
      BY <1>5, <2>1, <2>4, <2>6
    <3>. QED BY <1>1, <1>5, <2>2, <2>3, <2>6, <3>1 DEF Moves, Kept
  <2>. QED BY <2>5, <2>6
<1>. QED BY <1>4, <1>5, AcceptEffect

\* The slot the loop waits in is a replica's.
Awaited == pc = "recv" => table[cur].type = "repl" /\ table[cur].state = "active"

\* What a step of the server does to c: nothing it has sent is taken back, and
\* the rest is one of Moves.
LEMMA ServerMoves ==
  ASSUME Inv, Awaited, Server, NEW c \in Conns
  PROVE  Moves(c) /\ sent' = sent
<1>1. CASE Select \/ SelectFails \/ AcceptBeyond \/ ScanEnd
  <2>1. UNCHANGED <<client, table>>
    BY <1>1 DEF Select, SelectFails, AcceptBeyond, ScanEnd
  <2>. QED BY <2>1, SameSlots DEF client, SameText, Moves
<1>2. CASE Accept
  BY <1>2, AcceptMoves DEF Accept
<1>3. ASSUME NEW i \in Due, PeerGone(i) PROVE Moves(c) /\ sent' = sent
  <2>1. i \in OpenSlots /\ Conn(i) \in Conns /\ conn[Conn(i)] = "open"
    BY <1>3, ServedFacts, DueOpen DEF Inv, PeerGone
  <2>2. Frame(i) /\ Slotless(Conn(i)) /\ conn'[Conn(i)] = "gone" /\ SameText(c)
    BY <1>3, <2>1, CloseFrame DEF PeerGone, Silent, SameText
  <2>3. c # Conn(i) => Kept(c)
    BY <2>1, <2>2, FrameKeeps
  <2>4. c = Conn(i) => Dropped(c)
    BY <2>1, <2>2 DEF Dropped
  <2>. QED BY <1>3, <2>2, <2>3, <2>4 DEF Moves, PeerGone
<1>4. ASSUME NEW i \in Due, NEW n \in DOMAIN stream[Conn(i)], pc = "scan",
             Handle(i, n, Buffer(stream[Conn(i)], n))
      PROVE  Moves(c) /\ sent' = sent
  <2>1. sent' = sent
    BY <1>4 DEF Handle, JoinUser, JoinReplica, Reject, Ignore, Request, Exit, Shutdown,
           NoToken, SendKills, InitNotSent, HandshakeFails, Serve, client
  <2>2. c # Conn(i) => Moves(c)
    BY <1>4, HandleOthers DEF Moves
  <2>3. c = Conn(i) => Moves(c)
    BY <1>4, HandleOwn
  <2>. QED BY <2>1, <2>2, <2>3
<1>5. CASE ReplicaInfo
  <2>1. PICK b \in Conns : b = Conn(cur)
    BY <1>5, WaitingFacts DEF ReplicaInfo
  <2>2. Kept(c) /\ Untold(c) /\ sent' = sent
    BY <1>5, SameSlots DEF ReplicaInfo, Untold
  <2>3. stream'[b] = stream[b] \/ \E n \in ReadLengths(stream[b]) : Took(b, n)
    BY <1>5, <2>1, OwnText DEF ReplicaInfo, Took, Inv
  <2>4. stream'[c] = stream[c] \/ c = b
    BY <1>5, <2>1, ServedOnly DEF ReplicaInfo, Inv
  <2>5. ~ Handshaking(cur) /\ ~ User(cur) /\ cur \in OpenSlots
    BY <1>5, WaitingFacts DEF ReplicaInfo, Awaited, Handshaking, User
  <2>6. CASE stream'[c] = stream[c]
    BY <2>2, <2>6 DEF Moves, SameText, Untold
  <2>7. ASSUME c = b, NEW n \in ReadLengths(stream[b]), Took(b, n) PROVE Moves(c)
    <3>1. Ignored(c, n, cur)
      BY <2>2, <2>5 DEF Ignored
    <3>. QED BY <2>1, <2>5, <2>7, <3>1 DEF Moves, ReadOf
  <2>. QED BY <2>2, <2>3, <2>4, <2>6, <2>7
<1>6. CASE InfoNotReceived
  <2>1. SameText(c) /\ sent' = sent /\ pc = "recv"
    BY <1>6 DEF InfoNotReceived, HandshakeFails, SameText
  <2>2. cur \in OpenSlots /\ Conn(cur) \in Conns /\ conn[Conn(cur)] = "open"
    BY <2>1, WaitingFacts
  <2>3. CASE HasMaster
    <3>1. /\ socket' = [socket EXCEPT ![table[cur].fd] = NONE]
          /\ conn' = [conn EXCEPT ![Conn(cur)] = "gone"] /\ UNCHANGED table
      BY <1>6, <2>3 DEF InfoNotReceived, HandshakeFails
    <3>2. Frame(cur) /\ Slotless(Conn(cur)) /\ conn'[Conn(cur)] = "gone"
      BY <2>2, <3>1, LeftFrame
    <3>. QED BY <2>1, <2>2, <3>2, FrameKeeps DEF Moves, Dropped
  <2>4. CASE ~ HasMaster
    <3>1. Kept(c)
      BY <1>6, <2>4, SameSlots DEF InfoNotReceived, HandshakeFails
    <3>. QED BY <2>1, <3>1 DEF Moves
  <2>. QED BY <2>3, <2>4
<1>. QED BY <1>1, <1>2, <1>3, <1>4, <1>5, <1>6, ServerCases

-----------------------------------------------------------------------------
(* What a slot is used for agrees with what its connection has sent. *)

\* A slot past the handshake has the type that its connection asked for, and
\* has been answered if somebody is there to read it.
RoleOf(c) ==
  \A i \in OpenSlots : Conn(i) = c /\ ~ Handshaking(i) =>
    /\ sent[c] # <<>>
    /\ \/ table[i].type = "user" /\ sent[c][1] = "join"
       \/ table[i].type = "repl" /\ sent[c][1] = "repl"
    /\ peer[c] = "up" => replies[c] # <<>>

Settled == Awaited /\ \A c \in Conns : RoleOf(c)

\* The loop waits only in a slot that it has just admitted as a replica's.
LEMMA AwaitedStep ==
  ASSUME Inv, Awaited, [Next]_vars
  PROVE  Awaited'
<1>1. ASSUME UNCHANGED <<table, pc, cur>> PROVE Awaited'
  BY <1>1 DEF Awaited
<1>2. CASE UNCHANGED vars \/ Client
  <2>1. UNCHANGED <<table, pc, cur>>
    BY <1>2 DEF vars, client, Client, Connect, Send, Leave
  <2>. QED BY <1>1, <2>1
<1>3. CASE Select \/ SelectFails \/ Accept \/ AcceptBeyond \/ ScanEnd \/ ReplicaInfo
  BY <1>3 DEF Select, SelectFails, Accept, AcceptBeyond, ScanEnd, ReplicaInfo, Proceed, Awaited
<1>4. CASE InfoNotReceived
  BY <1>4 DEF InfoNotReceived, HandshakeFails, Proceed, Awaited
<1>5. ASSUME NEW i \in Due, PeerGone(i) PROVE Awaited'
  BY <1>5 DEF PeerGone, Proceed, Awaited
<1>6. ASSUME NEW i \in Due, NEW n, NEW buf, pc = "scan", Handle(i, n, buf) PROVE Awaited'
  <2>1. CASE JoinReplica(i, n, buf)
    <3>1. i \in OpenSlots
      BY DueOpen DEF Inv
    <3>2. table'[i].type = "repl" /\ table'[i].state = "active"
      BY <2>1, <3>1, AdmitEffect DEF JoinReplica, Inv
    <3>. QED BY <2>1, <3>2 DEF JoinReplica, Awaited
  <2>2. CASE ~ JoinReplica(i, n, buf)
    <3>1. pc' \in {"scan", "stopped", "killed"}
      BY <1>6, <2>2 DEF Handle, JoinUser, Reject, Ignore, Request, Exit, Shutdown,
           NoToken, SendKills, InitNotSent, HandshakeFails, Proceed
    <3>. QED BY <3>1 DEF Awaited
  <2>. QED BY <2>1, <2>2
<1>. QED BY <1>2, <1>3, <1>4, <1>5, <1>6, ServerCases DEF Next

\* A read takes at least one atom.
LEMMA ReadLengthsFacts ==
  ASSUME Shape, NEW c \in Conns, NEW n \in ReadLengths(stream[c])
  PROVE  /\ n \in DOMAIN stream[c] /\ n \in 1 .. Len(stream[c])
         /\ stream[c] \in Seq(Atom) /\ Len(stream[c]) \in Nat /\ stream[c] # <<>>
         /\ ~ Segmented => n = Len(stream[c])
<1>1. stream[c] \in Seq(Atom) /\ Len(stream[c]) \in Nat
  BY DEF Shape
<1>2. DOMAIN stream[c] = 1 .. Len(stream[c])
  BY <1>1
<1>3. n \in 1 .. Len(stream[c]) /\ (~ Segmented => n = Len(stream[c]))
  BY <1>1, <1>2 DEF ReadLengths
<1>4. Len(stream[c]) # 0
  BY <1>1, <1>3
<1>5. stream[c] # <<>>
  BY <1>4
<1>. QED BY <1>1, <1>2, <1>3, <1>5

\* Appending leaves the first element.
LEMMA AppendFirst ==
  ASSUME NEW S, NEW s \in Seq(S), NEW x \in S
  PROVE  /\ Append(s, x) \in Seq(S) /\ Append(s, x) # <<>>
         /\ Len(Append(s, x)) = Len(s) + 1 /\ Len(s) \in Nat
         /\ \A j \in 1 .. Len(s) : Append(s, x)[j] = s[j]
         /\ Append(s, x)[Len(s) + 1] = x /\ Last(Append(s, x)) = x
         /\ Append(s, x)[1] = IF s = <<>> THEN x ELSE s[1]
<1>1. /\ Append(s, x) \in Seq(S)
      /\ Len(Append(s, x)) = Len(s) + 1 /\ Len(s) \in Nat
      /\ \A j \in 1 .. Len(s) : Append(s, x)[j] = s[j]
      /\ Append(s, x)[Len(s) + 1] = x
  OBVIOUS
<1>2. Append(s, x) # <<>>
  <2>1. Len(Append(s, x)) # 0
    BY <1>1
  <2>. QED BY <1>1, <2>1, EmptySeq
<1>3. Last(Append(s, x)) = x
  BY <1>1 DEF Last
<1>4. s # <<>> => 1 \in 1 .. Len(s)
  OBVIOUS
<1>5. s = <<>> => Append(s, x)[1] = x
  OBVIOUS
<1>. QED BY <1>1, <1>2, <1>3, <1>4, <1>5

\* What Send does to the connection it is about.
LEMMA SendEffect ==
  ASSUME Inv, NEW c \in Conns, NEW k \in Kinds, Send(c, k)
  PROVE  /\ sent'[c] = Append(sent[c], k) /\ sent[c] \in Seq(Kinds)
         /\ \A d \in Conns \ {c} : sent'[d] = sent[d] /\ stream'[d] = stream[d]
         /\ stream'[c] = stream[c] \o Text(c, k, Len(sent[c]) + 1)
         /\ UNCHANGED <<conn, peer, replies, backlog, socket, table, pc, ready, cur>>
         /\ conn[c] \in {"queued", "open"} /\ peer[c] = "up"
         /\ k = "blank" => c \notin Bare
         /\ sent[c] # <<>> => sent'[c] # <<>> /\ sent'[c][1] = sent[c][1]
         /\ sent'[c] # <<>> /\ (sent[c] = <<>> => sent'[c][1] = k)
         /\ Len(sent[c]) + 1 \in 1 .. MaxSent
<1>1. sent \in [Conns -> Seq(Kinds)] /\ stream \in [Conns -> Seq(Atom)]
  BY DEF Inv, Shape
<1>2. /\ sent'[c] = Append(sent[c], k)
      /\ \A d \in Conns \ {c} : sent'[d] = sent[d] /\ stream'[d] = stream[d]
      /\ stream'[c] = stream[c] \o Text(c, k, Len(sent[c]) + 1)
  BY <1>1 DEF Send
<1>3. /\ Append(sent[c], k) # <<>>
      /\ Append(sent[c], k)[1] = IF sent[c] = <<>> THEN k ELSE sent[c][1]
  BY <1>1, AppendFirst
<1>4. Len(sent[c]) + 1 \in 1 .. MaxSent
  <2>1. PICK m \in Nat, w \in Nat : m = MaxSent /\ w = Len(replies[c]) + Window
    BY ServerAssumption DEF Inv, Shape
  <2>2. Min({m, w}) <= m /\ Min({m, w}) \in {m, w}
    BY MinLeast
  <2>3. Len(sent[c]) < Min({m, w}) /\ Len(sent[c]) \in Nat
    BY <1>1, <2>1 DEF Send
  <2>. QED BY <2>1, <2>2, <2>3
<1>. QED BY <1>1, <1>2, <1>3, <1>4 DEF Send, Present

\* Every connection's role, through any step.
LEMMA RolesStep ==
  ASSUME Inv, Greeted, Settled, [Next]_vars
  PROVE  Settled'
<1>0. Awaited' /\ \A c \in Conns : RoleOf(c)
  BY AwaitedStep DEF Settled
<1>. SUFFICES ASSUME NEW c \in Conns PROVE RoleOf(c)'
  BY <1>0 DEF Settled
<1>1. ASSUME Kept(c), sent[c] # <<>> => sent'[c] # <<>> /\ sent'[c][1] = sent[c][1],
             peer'[c] = "up" => peer[c] = "up",
             replies[c] # <<>> => replies'[c] # <<>>
      PROVE  RoleOf(c)'
  <2>. SUFFICES ASSUME NEW j \in OpenSlots', Conn(j)' = c, ~ Handshaking(j)'
                PROVE  /\ sent'[c] # <<>>
                       /\ \/ table'[j].type = "user" /\ sent'[c][1] = "join"
                          \/ table'[j].type = "repl" /\ sent'[c][1] = "repl"
                       /\ peer'[c] = "up" => replies'[c] # <<>>
    BY DEF RoleOf
  <2>1. j \in OpenSlots /\ Conn(j) = c /\ ~ Handshaking(j) /\ table'[j] = table[j]
    BY <1>1 DEF Kept, Handshaking
  <2>. QED BY <1>0, <1>1, <2>1 DEF RoleOf
<1>2. CASE UNCHANGED vars
  <2>1. UNCHANGED <<table, socket, conn, sent, peer, replies>>
    BY <1>2 DEF vars, client
  <2>. QED BY <1>1, <2>1, SameSlots
<1>3. ASSUME NEW d \in Conns, Connect(d) PROVE RoleOf(c)'
  <2>1. UNCHANGED <<table, socket, sent, peer, replies>>
    BY <1>3 DEF Connect
  <2>2. OpenSlots' = OpenSlots /\ \A j \in OpenSlots : Conn(j)' = Conn(j)
    BY <2>1 DEF OpenSlots, Conn
  <2>. QED BY <1>0, <2>1, <2>2 DEF RoleOf, Handshaking
<1>4. ASSUME NEW d \in Conns, NEW k \in Kinds, Send(d, k) PROVE RoleOf(c)'
  <2>1. UNCHANGED <<table, socket, conn, peer, replies>>
    BY <1>4 DEF Send
  <2>2. sent[c] # <<>> => sent'[c] # <<>> /\ sent'[c][1] = sent[c][1]
    BY <1>4, SendEffect
  <2>. QED BY <1>1, <2>1, <2>2, SameSlots
<1>5. ASSUME NEW d \in Conns, NEW e \in Endings, Leave(d, e) PROVE RoleOf(c)'
  <2>1. UNCHANGED <<table, socket, conn, sent, replies>>
    BY <1>5 DEF Leave
  <2>2. e # "up"
    BY ServerAssumption
  <2>3. peer'[c] = "up" => peer[c] = "up"
    BY <1>5, <2>2 DEF Leave, Inv, Shape
  <2>. QED BY <1>1, <2>1, <2>3, SameSlots
<1>6. CASE Server
  <2>1. Moves(c) /\ sent' = sent
    BY <1>0, <1>6, ServerMoves DEF Settled
  <2>2. \A r \in Answer : Told(c, r) =>
          /\ peer'[c] = "up" => peer[c] = "up" /\ replies'[c] # <<>>
          /\ replies[c] # <<>> => replies'[c] # <<>>
    <3>1. replies[c] \in Seq(Answer)
      BY DEF Inv, Shape
    <3>2. \A r \in Answer : Append(replies[c], r) # <<>>
      BY <3>1, AppendFirst
    <3>. QED BY <3>2 DEF Told
  <2>6. <<"prompt">> \in Answer /\ <<"init">> \in Answer /\ \A b : AnswerTo(b) \in Answer
    BY AnswerFacts DEF Answer
  <2>3. CASE Kept(c) /\ SameText(c)
    BY <1>1, <2>1, <2>3 DEF SameText
  <2>4. CASE Accepted(c) \/ Dropped(c)
    BY <2>4 DEF Accepted, Dropped, Slotless, RoleOf
  <2>5. ASSUME NEW i \in OpenSlots, NEW n \in ReadLengths(stream[c]), Conn(i) = c,
               \/ Welcomed(c, n, i) \/ Abandoned(c, n, i)
               \/ AnsweredNow(c, n, i) \/ Ignored(c, n, i)
        PROVE  RoleOf(c)'
    <3>1. n \in DOMAIN stream[c]
      BY ReadLengthsFacts DEF Inv
    <3>2. \A k : Handshaking(i) /\ Is(Buffer(stream[c], n), k) =>
            sent[c] # <<>> /\ sent[c][1] = k
      BY <2>5, <3>1, FirstRead
    <3>3. CASE Welcomed(c, n, i)
      <4>1. peer'[c] = "up" => replies'[c] # <<>>
        BY <2>2, <2>6, <3>3 DEF Welcomed
      <4>. QED BY <2>1, <3>2, <3>3, <4>1 DEF Welcomed, Enrolled, RoleOf
    <3>4. CASE Abandoned(c, n, i)
      BY <2>1, <3>2, <3>4 DEF Abandoned, Enrolled, Untold, RoleOf
    <3>5. CASE AnsweredNow(c, n, i)
      BY <1>1, <2>1, <2>2, <2>6, <3>5 DEF AnsweredNow
    <3>6. CASE Ignored(c, n, i)
      BY <1>1, <2>1, <3>6 DEF Ignored, Untold
    <3>. QED BY <2>5, <3>3, <3>4, <3>5, <3>6
  <2>. QED BY <2>1, <2>3, <2>4, <2>5 DEF Moves, ReadOf
<1>. QED BY <1>2, <1>3, <1>4, <1>5, <1>6 DEF Next, Client

-----------------------------------------------------------------------------
(* The programs are clients of the server. *)

\* A step of the program of c.
Program(c) ==
  \/ Runs(c) \/ Dial(c) \/ Refused(c)
  \/ \E l \in IF c \in CliClients THEN CliLines ELSE PyLines : Type(c, l)
  \/ TypeLost(c) \/ Kill(c)

\* The kinds of message that the programs have are some of the clients'.
LEMMA KindsFacts ==
  /\ {"join", "repl", "details", "blank"} \subseteq Kinds
  /\ \A c \in Conns : \A l \in IF c \in CliClients THEN CliLines ELSE PyLines :
       SentLine(c, l) \subseteq Kinds
  /\ Endings = {"closed", "reset"}
<1>1. /\ {"join", "repl", "details", "blank"} \union PyLines \union CliLines \subseteq Kinds
      /\ Endings = {"closed", "reset"}
  BY ClientsAssumption
<1>. QED BY <1>1 DEF SentLine

\* Every step of a program is one that ServerLoop's clients may take, or none.
LEMMA ProgramIsClient ==
  ASSUME NEW c \in Conns, Program(c)
  PROVE  \/ Connect(c)
         \/ \E k \in Kinds : Send(c, k)
         \/ \E e \in Endings : Leave(c, e)
         \/ UNCHANGED vars
BY KindsFacts DEF Program, Runs, Join, Eof, Inform, Recv, Dial, Refused, Type, TypeLost, Kill

\* Every step is one of the server, or one of ServerLoop's clients.
LEMMA ProgramsStep == [CNext]_cvars => [Next]_vars
<1>1. CNext => Serves \/ \E c \in Conns : Program(c)
  BY DEF CNext, Program
<1>2. UNCHANGED cvars => UNCHANGED vars
  BY DEF cvars
<1>. QED BY <1>1, <1>2, ProgramIsClient DEF Serves, Next, Client

\* What cli.py, cli.c and a node that starts as a replica do to the server is
\* covered by ServerLoop's clients: all that holds of the loop with these holds
\* with the programs.
THEOREM ProgramsAreClients == CSpec => Spec
<1>1. CInit => Init
  BY DEF CInit
<1>. QED BY <1>1, ProgramsStep, PTL DEF CSpec, Spec

\* What is known of the server.
ServerInv == Inv /\ Greeted /\ Sourced /\ Settled

\* A slot in use belongs to a connection that has joined, as what the slot's
\* type says, and that has been told so if it is still there.
THEOREM SlotsHaveRoles == Spec => []Settled
<1>1. Init => Settled
  <2>1. Init => OpenSlots = {}
    BY DEF Init, OpenSlots
  <2>. QED BY <2>1 DEF Init, Settled, Awaited, RoleOf
<1>2. (Inv /\ Greeted) /\ Settled /\ [Next]_vars => Settled'
  BY RolesStep
<1>. QED BY <1>1, <1>2, AllInvariant, PTL DEF Spec

\* It holds with the programs for clients.
LEMMA ServerInvariant == CSpec => []ServerInv
<1>1. (Inv /\ Greeted /\ Sourced /\ Reported) /\ Settled => ServerInv
  BY DEF ServerInv
<1>. QED BY <1>1, ProgramsAreClients, AllInvariant, SlotsHaveRoles, PTL

-----------------------------------------------------------------------------
(* What a program's step does to its own connection, and to the others. *)

\* The types of the programs' own variables.
CShape ==
  /\ prog \in [Conns -> {"start", "joining", "reading", "typing", "informing",
                         "serving", "offline", "ended"}]
  /\ got \in [Conns -> Nat]

\* Nothing happens to the connection of c; nor to the program; c passes from
\* one place to another; c sends k.
Same(c) == conn'[c] = conn[c] /\ peer'[c] = peer[c] /\ sent'[c] = sent[c] /\ SameText(c)

Still(c) == Same(c) /\ prog'[c] = prog[c] /\ got'[c] = got[c] /\ pc' = pc

Goes(c, p, q) == prog[c] = p /\ prog'[c] = q

Sends(c, k) ==
  /\ conn[c] \in {"queued", "open"} /\ peer[c] = "up"
  /\ k \in Kinds /\ (k = "blank" => c \in PyClients)
  /\ sent'[c] = Append(sent[c], k) /\ Len(sent[c]) + 1 \in 1 .. MaxSent
  /\ stream'[c] = stream[c] \o Text(c, k, Len(sent[c]) + 1)
  /\ conn'[c] = conn[c] /\ peer'[c] = peer[c] /\ replies'[c] = replies[c]
  /\ got'[c] = got[c]

\* c connects, sends what it must where it stands, reads, goes on without an
\* answer, or is killed.
Dials(c) ==
  /\ Goes(c, "start", "joining")
  /\ conn[c] = "none" /\ conn'[c] = "queued"
  /\ sent'[c] = sent[c] /\ SameText(c) /\ got'[c] = got[c]

Says(c) ==
  \E k \in Kinds : Sends(c, k) /\
    \/ /\ Goes(c, "joining", IF c \in CliClients THEN "typing" ELSE "reading")
       /\ k = IF c \in Replicas THEN "repl" ELSE "join"
    \/ Goes(c, "informing", "serving") /\ k = "details"
    \/ /\ Goes(c, "typing", "reading")
       /\ k = "spaces" => c \in CliClients /\ "spaces" \in CliLines

Hears(c) ==
  /\ prog[c] = "reading" /\ Same(c)
  /\ \E n \in 1 .. Unread(c) :
       /\ got'[c] = got[c] + n
       /\ IF c \in Replicas THEN prog'[c] \in {"informing", "serving"}
                            ELSE prog'[c] = "typing"

GivesUp(c) ==
  /\ Same(c) /\ got'[c] = got[c]
  /\ \/ Goes(c, "start", "offline") /\ c \in CliClients
     \/ Goes(c, "start", "ended")
     \/ Goes(c, "reading", "ended") /\ c \in PyClients
     \/ Goes(c, "reading", "typing") /\ c \in CliClients
     \/ Goes(c, "reading", "serving") /\ c \in Replicas /\ Closed(c)
     \/ Goes(c, "typing", "ended")
     \/ Goes(c, "typing", "reading") /\ conn[c] = "gone"

Dies(c) ==
  /\ c \in Killable /\ conn[c] \in {"queued", "open"} /\ peer[c] = "up"
  /\ prog'[c] = "ended" /\ peer'[c] \in {"closed", "reset"}
  /\ conn'[c] = conn[c] /\ sent'[c] = sent[c] /\ stream'[c] = stream[c]
  /\ replies'[c] = replies[c] /\ got'[c] = got[c]

Acts(c) == pc' = pc /\ (Dials(c) \/ Says(c) \/ Hears(c) \/ GivesUp(c) \/ Dies(c))

\* A program leaves the other programs' connections alone.
LEMMA Others ==
  ASSUME Inv, CShape, NEW c \in Conns, Program(c), NEW d \in Conns, d # c
  PROVE  Still(d)
<1>1. UNCHANGED vars => Same(d) /\ pc' = pc
  BY DEF vars, client, Same, SameText
<1>2. Connect(c) => Same(d) /\ pc' = pc
  BY DEF Connect, Same, SameText, Inv, Shape
<1>3. ASSUME NEW k \in Kinds, Send(c, k) PROVE Same(d) /\ pc' = pc
  BY <1>3, SendEffect DEF Same, SameText
<1>4. \A e : Leave(c, e) => Same(d) /\ pc' = pc
  BY DEF Leave, Same, SameText, Inv, Shape
<1>5. Same(d) /\ pc' = pc
  BY <1>1, <1>2, <1>3, <1>4, ProgramIsClient
<1>6. \A p : Go(c, p) => prog'[d] = prog[d]
  BY DEF Go, CShape
<1>7. prog'[d] = prog[d]
  BY <1>6 DEF Program, Runs, Join, Eof, Inform, Recv, Dial, Refused, Type, TypeLost, Kill
<1>8. got'[d] = got[d]
  BY DEF Program, Runs, Join, Eof, Inform, Recv, Dial, Refused, Type, TypeLost, Kill, CShape
<1>. QED BY <1>5, <1>7, <1>8 DEF Still

\* What it does to its own.
LEMMA Own ==
  ASSUME Inv, CShape, NEW c \in Conns, Program(c)
  PROVE  Acts(c) /\ CShape'
<1>1. UNCHANGED vars => Same(c) /\ pc' = pc
  BY DEF vars, client, Same, SameText
<1>2. ASSUME NEW k \in Kinds, Send(c, k), UNCHANGED got PROVE Sends(c, k) /\ pc' = pc
  <2>1. c \notin Bare => c \in PyClients
    BY ClientsAssumption
  <2>. QED BY <1>2, <2>1, SendEffect DEF Sends
<1>3. \A p \in {"start", "joining", "reading", "typing", "informing", "serving", "offline", "ended"} :
        Go(c, p) => prog'[c] = p /\ prog' \in [Conns -> {"start", "joining", "reading",
                               "typing", "informing", "serving", "offline", "ended"}]
  BY DEF Go, CShape
<1>4. CASE Dial(c)
  <2>1. conn[c] = "none" /\ conn'[c] = "queued" /\ sent' = sent /\ SameText(c) /\ pc' = pc
    BY <1>4 DEF Dial, Connect, SameText, Inv, Shape
  <2>. QED BY <1>3, <1>4, <2>1 DEF Dial, Acts, Dials, Goes, CShape
<1>5. CASE Refused(c)
  BY <1>1, <1>3, <1>5 DEF Refused, Acts, GivesUp, Goes, CShape
<1>6. CASE Join(c)
  <2>1. PICK k \in Kinds : k = (IF c \in Replicas THEN "repl" ELSE "join") /\ Send(c, k)
    BY <1>6, KindsFacts DEF Join
  <2>2. Sends(c, k) /\ pc' = pc
    BY <1>2, <1>6, <2>1 DEF Join
  <2>. QED BY <1>3, <1>6, <2>1, <2>2 DEF Join, Acts, Says, Goes, CShape
<1>7. CASE Inform(c)
  <2>1. Sends(c, "details") /\ pc' = pc /\ "details" \in Kinds
    BY <1>2, <1>7, KindsFacts DEF Inform
  <2>. QED BY <1>3, <1>7, <2>1 DEF Inform, Acts, Says, Goes, CShape
<1>8. ASSUME NEW l \in IF c \in CliClients THEN CliLines ELSE PyLines, Type(c, l)
      PROVE  Acts(c) /\ CShape'
  <2>1. PICK k \in SentLine(c, l) : Send(c, k)
    BY <1>8 DEF Type
  <2>2. k \in Kinds
    BY <2>1, KindsFacts
  <2>3. k = "spaces" => c \in CliClients /\ "spaces" \in CliLines
    BY <1>8, <2>1 DEF SentLine
  <2>4. Sends(c, k) /\ pc' = pc
    BY <1>2, <1>8, <2>1, <2>2 DEF Type
  <2>. QED BY <1>3, <1>8, <2>2, <2>3, <2>4 DEF Type, Acts, Says, Goes, CShape
<1>9. CASE Eof(c)
  <2>1. AfterEof(c) \in {"ended", "typing", "serving"}
        /\ (AfterEof(c) = "ended" => c \in PyClients)
        /\ (AfterEof(c) = "typing" => c \in CliClients)
        /\ (AfterEof(c) = "serving" => c \in Replicas)
    <3>1. c \in PyClients \/ c \in CliClients \/ c \in Replicas
      BY ClientsAssumption
    <3>2. c \in CliClients => c \notin PyClients
      BY ClientsAssumption
    <3>3. c \in Replicas => c \notin PyClients /\ c \notin CliClients
      BY ClientsAssumption
    <3>. QED BY <3>1, <3>2, <3>3 DEF AfterEof
  <2>. QED BY <1>1, <1>3, <1>9, <2>1 DEF Eof, Acts, GivesUp, Goes, CShape
<1>10. ASSUME NEW n \in 0 .. Len(replies[c]), Recv(c, n)
       PROVE  Acts(c) /\ CShape'
  <2>1. /\ got[c] \in Nat /\ Len(replies[c]) \in Nat /\ n \in 1 .. Unread(c)
    BY <1>10 DEF Recv, Arrived, CShape, Inv, Shape
  <2>2. got'[c] = got[c] + n /\ got' \in [Conns -> Nat]
    BY <1>10, <2>1 DEF Recv, CShape
  <2>3. /\ prog[c] = "reading"
        /\ IF c \in Replicas THEN prog'[c] \in {"informing", "serving"} ELSE prog'[c] = "typing"
    BY <1>3, <1>10 DEF Recv
  <2>4. prog' \in [Conns -> {"start", "joining", "reading", "typing", "informing",
                         "serving", "offline", "ended"}]
    BY <1>3, <1>10 DEF Recv
  <2>. QED BY <1>1, <1>10, <2>1, <2>2, <2>3, <2>4 DEF Recv, Acts, Hears, CShape
<1>11. CASE TypeLost(c)
  BY <1>1, <1>3, <1>11 DEF TypeLost, Acts, GivesUp, Goes, CShape
<1>12. CASE Kill(c)
  <2>1. PICK e \in {"closed", "reset"} : Leave(c, e)
    BY <1>12 DEF Kill
  <2>2. /\ conn[c] \in {"queued", "open"} /\ peer[c] = "up"
        /\ peer'[c] = e /\ conn' = conn /\ sent' = sent /\ stream' = stream
        /\ replies' = replies /\ pc' = pc
    BY <2>1 DEF Leave, Present, Inv, Shape
  <2>. QED BY <1>3, <1>12, <2>2 DEF Kill, Acts, Dies, CShape
<1>. QED BY <1>4, <1>5, <1>6, <1>7, <1>8, <1>9, <1>10, <1>11, <1>12 DEF Program, Runs

\* A step of the server, as what it does to c.
LEMMA ServerActs ==
  ASSUME ServerInv, Serves, NEW c \in Conns
  PROVE  /\ Running /\ Moves(c) /\ sent'[c] = sent[c] /\ prog'[c] = prog[c] /\ got'[c] = got[c]
         /\ UNCHANGED <<prog, got>>
<1>1. Moves(c) /\ sent' = sent
  BY ServerMoves DEF ServerInv, Settled, Serves
<1>2. pc \in {"select", "accept", "scan", "recv"}
  BY ServerCases DEF Serves, Select, SelectFails, Accept, AcceptBeyond, ScanEnd, PeerGone,
                     ReplicaInfo, InfoNotReceived
<1>. QED BY <1>1, <1>2 DEF Serves, Running

\* A step, as what it does to c.
LEMMA StepCases ==
  ASSUME ServerInv, CShape, [CNext]_cvars, NEW c \in Conns
  PROVE  Still(c) \/ Acts(c) \/ Serves
<1>1. CASE UNCHANGED cvars
  BY <1>1 DEF cvars, vars, client, Still, Same, SameText
<1>2. ASSUME NEW d \in Conns, Program(d) PROVE Still(c) \/ Acts(c)
  BY <1>2, Own, Others DEF ServerInv
<1>. QED BY <1>1, <1>2 DEF CNext, Program

\* The programs' variables keep their types.
LEMMA CShapeStep ==
  ASSUME Inv, CShape, [CNext]_cvars
  PROVE  CShape'
<1>1. ASSUME NEW d \in Conns, Program(d) PROVE CShape'
  BY <1>1, Own
<1>2. UNCHANGED <<prog, got>> => CShape'
  BY DEF CShape
<1>. QED BY <1>1, <1>2 DEF CNext, Program, Serves, cvars

\* What the server leaves: a connection it has dropped stays dropped, and what
\* it has said is not taken back.
LEMMA MovesMonotone ==
  ASSUME Inv, NEW c \in Conns, Moves(c)
  PROVE  /\ conn[c] \in {"none", "gone"} => conn'[c] = conn[c]
         /\ peer[c] = "up" <=> peer'[c] = "up"
         /\ Len(replies[c]) \in Nat /\ Len(replies'[c]) \in {Len(replies[c]), Len(replies[c]) + 1}
<1>1. replies[c] \in Seq(Answer) /\ Len(replies[c]) \in Nat
  BY DEF Inv, Shape
<1>2. \A r \in Answer : Len(Append(replies[c], r)) = Len(replies[c]) + 1
  BY <1>1
<1>3. <<"prompt">> \in Answer /\ <<"init">> \in Answer /\ \A b : AnswerTo(b) \in Answer
  BY AnswerFacts DEF Answer
<1>4. \A r \in Answer : Told(c, r) =>
        /\ peer[c] = "up" <=> peer'[c] = "up"
        /\ Len(replies'[c]) \in {Len(replies[c]), Len(replies[c]) + 1}
  BY <1>2 DEF Told
<1>5. Untold(c) \/ SameText(c) =>
        /\ peer[c] = "up" <=> peer'[c] = "up"
        /\ Len(replies'[c]) \in {Len(replies[c]), Len(replies[c]) + 1}
  BY DEF Untold, SameText
<1>6. CASE (Kept(c) /\ SameText(c)) \/ Accepted(c)
  BY <1>1, <1>5, <1>6 DEF Kept, Accepted
<1>7. CASE Dropped(c)
  BY <1>1, <1>3, <1>4, <1>5, <1>7 DEF Dropped
<1>8. CASE ReadOf(c)
  <2>1. PICK i \in OpenSlots, n \in ReadLengths(stream[c]) :
          \/ Welcomed(c, n, i) \/ Abandoned(c, n, i)
          \/ AnsweredNow(c, n, i) \/ Ignored(c, n, i)
    BY <1>8 DEF ReadOf
  <2>2. conn'[c] = conn[c]
    BY <2>1 DEF Welcomed, Abandoned, AnsweredNow, Ignored, Enrolled, Kept
  <2>3. Untold(c) \/ \E r \in Answer : Told(c, r)
    BY <1>3, <2>1 DEF Welcomed, Abandoned, AnsweredNow, Ignored
  <2>. QED BY <1>1, <1>4, <1>5, <2>2, <2>3
<1>. QED BY <1>6, <1>7, <1>8 DEF Moves

-----------------------------------------------------------------------------
(* Where a program stands agrees with what it has sent and read. *)

\* The first message says what c is, a replica reads one answer before it
\* serves, and only a program that is gone leaves its connection.
Standing(c) ==
  /\ got[c] <= Len(replies[c]) /\ Len(sent[c]) <= MaxSent
  /\ prog[c] \in {"informing", "serving"} => c \in Replicas
  /\ prog[c] = "offline" => c \in CliClients
  /\ prog[c] = "typing" => c \notin Replicas
  /\ prog[c] = "start" => conn[c] = "none"
  /\ prog[c] \in {"start", "joining"} => sent[c] = <<>>
  /\ prog[c] \in {"reading", "typing", "informing", "serving"} => sent[c] # <<>>
  /\ sent[c] # <<>> => sent[c][1] = IF c \in Replicas THEN "repl" ELSE "join"
  /\ peer[c] # "up" => prog[c] = "ended"
  /\ c \in Replicas =>
       /\ prog[c] \in {"start", "joining", "reading"} => got[c] = 0
       /\ prog[c] = "informing" => got[c] = 1
       /\ prog[c] = "serving" => got[c] = 1 \/ Closed(c)

\* A replica has at most one answer to read.
LEMMA OneAnswer ==
  ASSUME ServerInv, NEW c \in Replicas, sent[c] # <<>> => sent[c][1] = "repl"
  PROVE  Len(replies[c]) \in {0, 1}
<1>1. c \in Conns
  BY ClientsAssumption
<1>2. Answered(c) /\ replies[c] \in Seq(Answer)
  BY <1>1 DEF ServerInv, Greeted, Good, Inv, Shape
<1>3. CASE replies[c] = <<>>
  BY <1>3
<1>4. CASE replies[c] # <<>>
  <2>1. replies[c] = <<<<"init">>>>
    BY <1>2, <1>4 DEF Answered
  <2>. QED BY <2>1
<1>. QED BY <1>3, <1>4

\* What a program says comes first, or after what it said first.
LEMMA SendsFirst ==
  ASSUME Inv, NEW c \in Conns, NEW k \in Kinds, Sends(c, k)
  PROVE  /\ sent'[c] # <<>> /\ Len(sent'[c]) = Len(sent[c]) + 1 /\ Len(sent[c]) \in Nat
         /\ sent'[c][1] = IF sent[c] = <<>> THEN k ELSE sent[c][1]
         /\ Last(sent'[c]) = k
<1>1. sent[c] \in Seq(Kinds)
  BY DEF Inv, Shape
<1>. QED BY <1>1, AppendFirst DEF Sends

\* No step of the server or of any program breaks it.
LEMMA StandingStep ==
  ASSUME ServerInv, CShape, [CNext]_cvars, NEW c \in Conns, Standing(c)
  PROVE  Standing(c)'
<1>1. /\ Inv /\ got[c] \in Nat /\ Len(replies[c]) \in Nat
      /\ c \in Replicas => c \notin CliClients /\ c \notin PyClients
      /\ c \in CliClients => c \notin PyClients
  BY ClientsAssumption DEF ServerInv, CShape, Inv, Shape
<1>2. CASE Still(c)
  BY <1>2 DEF Still, Same, SameText, Standing, Closed, Running
<1>3. CASE Serves
  <2>1. /\ Running /\ Moves(c) /\ sent'[c] = sent[c] /\ prog'[c] = prog[c] /\ got'[c] = got[c]
    BY <1>3, ServerActs
  <2>2. /\ conn[c] \in {"none", "gone"} => conn'[c] = conn[c]
        /\ peer'[c] # "up" => peer[c] # "up"
        /\ got'[c] <= Len(replies'[c])
    BY <1>1, <2>1, MovesMonotone DEF Standing
  <2>. QED BY <2>1, <2>2 DEF Standing, Closed
<1>4. CASE Acts(c)
  <2>1. CASE Dials(c)
    BY <1>4, <2>1 DEF Acts, Dials, Goes, SameText, Standing
  <2>2. CASE Says(c)
    <3>1. PICK k \in Kinds : Sends(c, k) /\
            \/ /\ Goes(c, "joining", IF c \in CliClients THEN "typing" ELSE "reading")
               /\ k = IF c \in Replicas THEN "repl" ELSE "join"
            \/ Goes(c, "informing", "serving") /\ k = "details"
            \/ /\ Goes(c, "typing", "reading")
               /\ k = "spaces" => c \in CliClients /\ "spaces" \in CliLines
      BY <2>2 DEF Says
    <3>2. /\ sent'[c] # <<>> /\ sent'[c][1] = IF sent[c] = <<>> THEN k ELSE sent[c][1]
          /\ peer'[c] = "up" /\ replies'[c] = replies[c] /\ got'[c] = got[c]
          /\ conn'[c] = conn[c]
      BY <1>1, <3>1, SendsFirst DEF Sends
    <3>6. Len(sent'[c]) <= MaxSent
      BY <1>1, <3>1, SendsFirst, ServerAssumption DEF Sends
    <3>3. CASE Goes(c, "joining", IF c \in CliClients THEN "typing" ELSE "reading")
               /\ k = IF c \in Replicas THEN "repl" ELSE "join"
      BY <1>1, <3>2, <3>3, <3>6 DEF Goes, Standing
    <3>4. CASE Goes(c, "informing", "serving")
      BY <1>1, <3>2, <3>4, <3>6 DEF Goes, Standing
    <3>5. CASE Goes(c, "typing", "reading")
      BY <1>1, <3>2, <3>5, <3>6 DEF Goes, Standing
    <3>. QED BY <3>1, <3>3, <3>4, <3>5
  <2>3. CASE Hears(c)
    <3>1. PICK n \in 1 .. Unread(c) :
            /\ got'[c] = got[c] + n
            /\ IF c \in Replicas THEN prog'[c] \in {"informing", "serving"}
                                 ELSE prog'[c] = "typing"
      BY <2>3 DEF Hears
    <3>2. prog[c] = "reading" /\ Same(c) /\ n \in Nat /\ n >= 1 /\ got[c] + n <= Len(replies[c])
      BY <1>1, <2>3 DEF Hears, Unread
    <3>3. c \in Replicas => got'[c] = 1
      <4>. SUFFICES ASSUME c \in Replicas PROVE got'[c] = 1
        OBVIOUS
      <4>1. got[c] = 0 /\ (sent[c] # <<>> => sent[c][1] = "repl")
        BY <3>2 DEF Standing
      <4>2. PICK m \in {0, 1} : m = Len(replies[c])
        BY <4>1, OneAnswer
      <4>3. n <= m
        BY <3>2, <4>1, <4>2
      <4>4. n = 1
        BY <3>2, <4>3
      <4>. QED BY <3>1, <4>1, <4>4
    <3>. QED BY <1>1, <3>1, <3>2, <3>3 DEF Same, SameText, Standing
  <2>4. CASE GivesUp(c)
    <3>1. Closed(c) => Closed(c)'
      BY <1>4, <2>4 DEF Acts, GivesUp, Same, Closed, Running
    <3>. QED BY <1>1, <2>4, <3>1 DEF GivesUp, Goes, Same, SameText, Standing
  <2>5. CASE Dies(c)
    BY <1>4, <2>5 DEF Dies, Standing
  <2>. QED BY <1>4, <2>1, <2>2, <2>3, <2>4, <2>5 DEF Acts
<1>. QED BY <1>2, <1>3, <1>4, StepCases

\* What is known of the server and of each program.
ProgramInv == ServerInv /\ CShape /\ \A c \in Conns : Standing(c)

\* It holds in every state.
LEMMA ProgramInvariant == CSpec => []ProgramInv
<1>1. CInit => CShape /\ \A c \in Conns : Standing(c)
  <2>. SUFFICES ASSUME CInit PROVE CShape /\ \A c \in Conns : Standing(c)
    OBVIOUS
  <2>1. 0 <= MaxSent
    BY ServerAssumption
  <2>. QED BY <2>1 DEF CInit, Init, CShape, Standing
<1>2. ServerInv /\ (CShape /\ \A c \in Conns : Standing(c)) /\ [CNext]_cvars
        => (CShape /\ \A c \in Conns : Standing(c))'
  BY CShapeStep, StandingStep DEF ServerInv
<1>3. ServerInv /\ (CShape /\ \A c \in Conns : Standing(c)) => ProgramInv
  BY DEF ProgramInv
<1>. QED BY <1>1, <1>2, <1>3, ServerInvariant, PTL DEF CSpec

\* The programs' part of the state keeps its shape: only a replica serves, only
\* cli.c goes on without a connection, and nobody has read more than was sent.
THEOREM ProgramsTypeCorrect == CSpec => []CTypeOK
<1>1. ProgramInv => CTypeOK
  <2>. SUFFICES ASSUME ProgramInv PROVE CTypeOK
    OBVIOUS
  <2>1. \A c \in Conns : got[c] \in Nat /\ Len(replies[c]) \in Nat /\ Standing(c)
    BY DEF ProgramInv, ServerInv, Inv, Shape, CShape
  <2>. QED BY <2>1 DEF ProgramInv, CShape, Standing, CTypeOK
<1>. QED BY <1>1, ProgramInvariant, PTL

\* A node serves as a replica only once its master has told it to join, unless
\* the master has gone (replication.h:44).
THEOREM ReplicasAreTold == CSpec => []ServesJoined
<1>1. ProgramInv => ServesJoined
  <2>1. Replicas \subseteq Conns
    BY ClientsAssumption
  <2>. QED BY <2>1 DEF ProgramInv, Standing, ServesJoined
<1>. QED BY <1>1, ProgramInvariant, PTL

-----------------------------------------------------------------------------
(* cli.py and the server take turns. *)

\* Reading a message whole gives the message without its newline.
LEMMA WholeMessage ==
  ASSUME NEW c \in Conns, NEW k \in Kinds, NEW n \in Nat \ {0},
         k = "blank" => c \notin Bare
  PROVE  Buffer(Text(c, k, n), Len(Text(c, k, n))) =
           IF k = "blank" THEN <<>> ELSE Halves(k, n)
<1>. DEFINE a == <<k, n, 1>>
            b == <<k, n, 2>>
            z == <<"nl">>
<1>1. a \in Atom /\ b \in Atom /\ z \in Atom /\ a # z /\ b # z
  BY DEF Atom
<1>2. Text(c, k, n) = IF k = "blank" THEN <<z>>
                      ELSE IF k \in {"join", "repl"} \/ c \in Bare THEN <<a, b>>
                      ELSE <<a, b, z>>
  <2>1. Halves(k, n) = <<a, b>>
    BY DEF Halves
  <2>2. <<a, b>> \in Seq(Atom) /\ <<z>> \in Seq(Atom)
    BY <1>1
  <2>. HIDE DEF a, b
  <2>3. <<a, b>> \o <<z>> = <<a, b, z>> /\ <<a, b>> \o <<>> = <<a, b>> /\ <<>> \o <<z>> = <<z>>
    <3>1. <<a, b>> \o <<>> = <<a, b>> /\ <<>> \o <<z>> = <<z>>
      BY <2>2, ConcatEmptySeq
    <3>2. /\ <<a, b>> \o <<z>> \in Seq(Atom)
          /\ Len(<<a, b>> \o <<z>>) = Len(<<a, b>>) + Len(<<z>>)
          /\ \A i \in 1 .. Len(<<a, b>>) + Len(<<z>>) : (<<a, b>> \o <<z>>)[i] =
               IF i <= Len(<<a, b>>) THEN <<a, b>>[i] ELSE <<z>>[i - Len(<<a, b>>)]
      BY <2>2, ConcatProperties
    <3>3. Len(<<a, b>>) = 2 /\ Len(<<z>>) = 1
      OBVIOUS
    <3>4. PICK t \in Seq(Atom) : t = <<a, b>> \o <<z>>
      BY <3>2
    <3>5. Len(t) = 3 /\ t[1] = a /\ t[2] = b /\ t[3] = z
      BY <3>2, <3>3, <3>4
    <3>6. <<a, b, z>> \in Seq(Atom) /\ Len(<<a, b, z>>) = 3
      BY <1>1
    <3>7. \A i \in 1 .. 3 : t[i] = <<a, b, z>>[i]
      <4>1. \A i \in 1 .. 3 : i = 1 \/ i = 2 \/ i = 3
        OBVIOUS
      <4>. QED BY <3>5, <4>1
    <3>. QED BY <3>1, <3>4, <3>5, <3>6, <3>7, SeqEqual
  <2>4. CASE k = "blank"
    BY <2>3, <2>4 DEF Text
  <2>5. CASE k # "blank"
    BY <2>1, <2>3, <2>5 DEF Text
  <2>. QED BY <2>4, <2>5
<1>3. Halves(k, n) = <<a, b>>
  BY DEF Halves
<1>. HIDE DEF a, b, z
<1>. DEFINE Ends(s) == {i \in 1 .. Len(s) : s[i] = z}
<1>4. \A s : Buffer(s, Len(s)) = SubSeq(s, 1, IF Ends(s) = {} THEN Len(s) ELSE Min(Ends(s)) - 1)
  BY DEF Buffer, z
<1>5. Min({1}) = 1 /\ Min({3}) = 3
  <2>1. Min({1}) \in {1} /\ Min({3}) \in {3}
    BY MinFacts
  <2>. QED BY <2>1
<1>6. Ends(<<z>>) = {1} /\ Ends(<<a, b>>) = {} /\ Ends(<<a, b, z>>) = {3}
  <2>1. /\ Len(<<z>>) = 1 /\ Len(<<a, b>>) = 2 /\ Len(<<a, b, z>>) = 3
        /\ <<z>>[1] = z /\ <<a, b>>[1] = a /\ <<a, b>>[2] = b
        /\ <<a, b, z>>[1] = a /\ <<a, b, z>>[2] = b /\ <<a, b, z>>[3] = z
    OBVIOUS
  <2>2. 1 .. 1 = {1} /\ 1 .. 2 = {1, 2} /\ 1 .. 3 = {1, 2, 3}
    OBVIOUS
  <2>. QED BY <1>1, <2>1, <2>2
<1>. HIDE DEF Ends
<1>7. /\ SubSeq(<<z>>, 1, 0) = <<>> /\ SubSeq(<<a, b>>, 1, 2) = <<a, b>>
      /\ SubSeq(<<a, b, z>>, 1, 2) = <<a, b>>
  <2>1. <<a, b>> \in Seq(Atom) /\ <<a, b, z>> \in Seq(Atom) /\ Len(<<a, b>>) = 2
    BY <1>1
  <2>2. SubSeq(<<a, b>>, 1, 2) = <<a, b>>
    BY <2>1, SubSeqFull
  <2>3. SubSeq(<<a, b, z>>, 1, 2) = <<a, b>>
    <3>1. PICK s \in Seq(Atom) : s = <<a, b, z>>
      BY <2>1
    <3>2. s[1] = a /\ s[2] = b /\ Len(s) = 3
      BY <3>1
    <3>3. PICK t : t = SubSeq(s, 1, 2)
      OBVIOUS
    <3>4. t \in Seq(Atom) /\ Len(t) = 2 /\ t[1] = a /\ t[2] = b
      BY <3>2, <3>3
    <3>5. PICK u \in Seq(Atom) : u = <<a, b>>
      BY <2>1
    <3>6. Len(u) = 2 /\ u[1] = a /\ u[2] = b
      BY <3>5
    <3>7. \A i \in 1 .. 2 : t[i] = u[i]
      BY <3>4, <3>6
    <3>8. t = u
      BY <3>4, <3>6, <3>7, SeqEqual
    <3>. QED BY <3>1, <3>3, <3>5, <3>8
  <2>. QED BY <2>2, <2>3
<1>8. CASE k = "blank"
  <2>1. Ends(<<z>>) # {} /\ Min(Ends(<<z>>)) - 1 = 0
    BY <1>5, <1>6
  <2>2. Buffer(<<z>>, Len(<<z>>)) = SubSeq(<<z>>, 1, 0)
    BY <1>4, <2>1
  <2>. QED BY <1>2, <1>7, <1>8, <2>2
<1>9. CASE k # "blank"
  <2>1. Buffer(<<a, b>>, Len(<<a, b>>)) = <<a, b>>
    BY <1>4, <1>6, <1>7
  <2>2. Buffer(<<a, b, z>>, Len(<<a, b, z>>)) = <<a, b>>
    <3>1. Ends(<<a, b, z>>) # {} /\ Min(Ends(<<a, b, z>>)) - 1 = 2
      BY <1>5, <1>6
    <3>2. Buffer(<<a, b, z>>, Len(<<a, b, z>>)) = SubSeq(<<a, b, z>>, 1, 2)
      BY <1>4, <3>1
    <3>. QED BY <1>7, <3>2
  <2>. QED BY <1>2, <1>3, <1>9, <2>1, <2>2
<1>. QED BY <1>8, <1>9

\* What is not empty is not a newline alone, and a request is answered with its
\* number.
LEMMA NumberedAnswer ==
  ASSUME NEW k \in Kinds, NEW n \in 1 .. MaxSent
  PROVE  AnswerTo(Halves(k, n)) = <<"answer", n>>
<1>1. Is(Halves(k, n), k)
  BY DEF Is
<1>2. Halves(k, n)[1][2] = n
  BY DEF Halves
<1>. QED BY <1>1, <1>2 DEF AnswerTo

\* Of the messages of cli.py at most one has no answer, and of that one all
\* or nothing is in the stream: cli.py waits for each answer, and what is
\* read is all there is.
InTurn(c) ==
  /\ prog[c] = "typing" => got[c] = Len(sent[c])
  /\ prog[c] = "reading" => Len(sent[c]) \in {got[c], got[c] + 1}
  /\ \A n \in 2 .. Len(replies[c]) : replies[c][n] = <<"answer", n>>
  /\ \/ Len(sent[c]) = Len(replies[c]) /\ stream[c] = <<>>
     \/ /\ Len(sent[c]) = Len(replies[c]) + 1
        /\ stream[c] \in {<<>>, Text(c, Last(sent[c]), Len(sent[c]))}

\* The number of atoms read is all there are, and the answer has the number of
\* the message: the turn passes to cli.py.
LEMMA TurnPasses ==
  ASSUME ProgramInv, ~ Segmented, NEW c \in PyClients, InTurn(c),
         sent'[c] = sent[c], prog'[c] = prog[c], got'[c] = got[c],
         NEW n, Took(c, n),
         \/ replies'[c] = replies[c]
         \/ \E r \in Answer :
              /\ replies'[c] = Append(replies[c], r)
              /\ Len(replies[c]) > 0 => r = <<"answer", Len(sent[c])>>
  PROVE  InTurn(c)'
<1>1. /\ c \in Conns /\ Shape
      /\ replies[c] \in Seq(Answer) /\ Len(replies[c]) \in Nat /\ Len(sent[c]) \in Nat
  BY ClientsAssumption DEF ProgramInv, ServerInv, Inv, Shape
<1>2. n = Len(stream[c]) /\ stream[c] # <<>> /\ stream[c] \in Seq(Atom)
  BY <1>1, ReadLengthsFacts DEF Took
<1>3. stream'[c] = <<>>
  <2>1. n \in Nat /\ stream'[c] = SubSeq(stream[c], n + 1, n)
    BY <1>2 DEF Took
  <2>. QED BY <2>1, SubSeqEmpty
<1>4. Len(sent[c]) = Len(replies[c]) + 1
  BY <1>2 DEF InTurn
<1>5. CASE replies'[c] = replies[c]
  BY <1>3, <1>4, <1>5 DEF InTurn
<1>6. ASSUME NEW r \in Answer, replies'[c] = Append(replies[c], r),
             Len(replies[c]) > 0 => r = <<"answer", Len(sent[c])>>
      PROVE  InTurn(c)'
  <2>1. PICK z \in Seq(Answer), m \in Nat : z = replies[c] /\ m = Len(z)
    BY <1>1
  <2>2. /\ Len(Append(z, r)) = m + 1 /\ Append(z, r)[m + 1] = r
        /\ \A j \in 1 .. m : Append(z, r)[j] = z[j]
    BY <2>1, AppendFirst
  <2>3. ASSUME NEW j \in 2 .. m + 1 PROVE Append(z, r)[j] = <<"answer", j>>
    <3>1. CASE j = m + 1
      BY <1>4, <1>6, <2>1, <2>2, <3>1
    <3>2. CASE j # m + 1
      <4>1. j \in 2 .. m /\ j \in 1 .. m
        BY <3>2
      <4>. QED BY <2>1, <2>2, <4>1 DEF InTurn
    <3>. QED BY <3>1, <3>2
  <2>4. Len(sent'[c]) = Len(replies'[c])
    BY <1>4, <1>6, <2>1, <2>2
  <2>5. \A j \in 2 .. Len(replies'[c]) : replies'[c][j] = <<"answer", j>>
    BY <1>6, <2>1, <2>2, <2>3
  <2>. QED BY <1>3, <2>4, <2>5 DEF InTurn
<1>. QED BY <1>5, <1>6

\* What the answer to cli.py's line is, when it is its turn to be answered.
LEMMA TurnAnswer ==
  ASSUME ProgramInv, ~ Segmented, NEW c \in PyClients, InTurn(c),
         NEW n \in ReadLengths(stream[c]), Buffer(stream[c], n) # <<>>
  PROVE  AnswerTo(Buffer(stream[c], n)) = <<"answer", Len(sent[c])>>
<1>1. /\ c \in Conns /\ Shape /\ c \notin Bare
      /\ Len(replies[c]) \in Nat /\ sent[c] \in Seq(Kinds) /\ Len(sent[c]) <= MaxSent
  BY ClientsAssumption DEF ProgramInv, ServerInv, Inv, Shape, Standing
<1>2. n = Len(stream[c]) /\ stream[c] # <<>>
  BY <1>1, ReadLengthsFacts
<1>3. stream[c] = Text(c, Last(sent[c]), Len(sent[c])) /\ Len(sent[c]) = Len(replies[c]) + 1
  BY <1>2 DEF InTurn
<1>4. PICK k \in Kinds, m \in 1 .. MaxSent : k = Last(sent[c]) /\ m = Len(sent[c])
  <2>1. Len(sent[c]) \in 1 .. MaxSent
    BY <1>1, <1>3, ServerAssumption
  <2>2. Last(sent[c]) \in Kinds
    BY <1>1, <2>1 DEF Last
  <2>. QED BY <2>1, <2>2
<1>5. Buffer(stream[c], n) = IF k = "blank" THEN <<>> ELSE Halves(k, m)
  <2>1. m \in Nat \ {0}
    BY <1>4
  <2>. QED BY <1>1, <1>2, <1>3, <1>4, <2>1, WholeMessage
<1>. QED BY <1>4, <1>5, NumberedAnswer

\* No step breaks it, as long as a read returns what was sent.
LEMMA InTurnStep ==
  ASSUME ProgramInv, ~ Segmented, NEW c \in PyClients, InTurn(c), [CNext]_cvars
  PROVE  InTurn(c)'
<1>1. /\ ServerInv /\ Inv /\ Shape /\ CShape /\ Standing(c)
      /\ c \in Conns /\ c \notin Replicas /\ c \notin CliClients /\ c \notin Bare
      /\ got[c] \in Nat /\ Len(replies[c]) \in Nat
      /\ sent[c] \in Seq(Kinds) /\ Len(sent[c]) \in Nat
  BY ClientsAssumption DEF ProgramInv, ServerInv, Inv, Shape, CShape
<1>2. CASE Still(c)
  BY <1>2 DEF Still, Same, SameText, InTurn
<1>3. CASE Serves
  <2>1. Moves(c) /\ sent'[c] = sent[c] /\ prog'[c] = prog[c] /\ got'[c] = got[c]
    BY <1>1, <1>3, ServerActs
  <2>2. CASE SameText(c)
    BY <2>1, <2>2 DEF SameText, InTurn
  <2>3. ASSUME NEW n, Took(c, n), Untold(c) PROVE InTurn(c)'
    BY <2>1, <2>3, TurnPasses DEF Untold
  <2>4. ASSUME NEW n, Took(c, n), NEW r \in Answer, Told(c, r),
               Len(replies[c]) > 0 => r = <<"answer", Len(sent[c])>>
        PROVE  InTurn(c)'
    BY <2>1, <2>4, TurnPasses DEF Told
  <2>5. ASSUME NEW n, Took(c, n), Buffer(stream[c], n) # <<>>,
               Told(c, AnswerTo(Buffer(stream[c], n)))
        PROVE  InTurn(c)'
    <3>1. AnswerTo(Buffer(stream[c], n)) = <<"answer", Len(sent[c])>>
      BY <2>5, TurnAnswer DEF Took
    <3>. QED BY <2>4, <2>5, <3>1, AnswerFacts
  <2>6. CASE Kept(c) /\ SameText(c)
    BY <2>2, <2>6
  <2>7. CASE Accepted(c)
    BY <2>2, <2>7 DEF Accepted
  <2>8. CASE Dropped(c)
    BY <2>2, <2>3, <2>5, <2>8 DEF Dropped
  <2>9. ASSUME NEW i \in OpenSlots, NEW n \in ReadLengths(stream[c]), Conn(i) = c, Took(c, n),
               \/ Welcomed(c, n, i) \/ Abandoned(c, n, i)
               \/ AnsweredNow(c, n, i) \/ Ignored(c, n, i)
        PROVE  InTurn(c)'
    <3>1. CASE Welcomed(c, n, i)
      <4>1. n \in DOMAIN stream[c]
        BY <1>1, ReadLengthsFacts
      <4>2. \A k : Is(Buffer(stream[c], n), k) => replies[c] = <<>>
        BY <1>1, <2>9, <3>1, <4>1, FirstRead DEF ServerInv, Welcomed
      <4>3. Len(replies[c]) = 0
        BY <3>1, <4>2 DEF Welcomed
      <4>4. <<"prompt">> \in Answer /\ <<"init">> \in Answer
        BY DEF Answer
      <4>. QED BY <2>4, <2>9, <3>1, <4>3, <4>4 DEF Welcomed
    <3>2. CASE Abandoned(c, n, i)
      BY <2>3, <2>9, <3>2 DEF Abandoned
    <3>3. CASE AnsweredNow(c, n, i)
      BY <2>5, <2>9, <3>3 DEF AnsweredNow
    <3>4. CASE Ignored(c, n, i)
      BY <2>3, <2>9, <3>4 DEF Ignored
    <3>. QED BY <2>9, <3>1, <3>2, <3>3, <3>4
  <2>. QED BY <2>1, <2>6, <2>7, <2>8, <2>9 DEF Moves, ReadOf
<1>4. CASE Acts(c)
  <2>1. CASE Dials(c) \/ Dies(c)
    BY <2>1 DEF Dials, Dies, Goes, SameText, InTurn
  <2>2. CASE Says(c)
    <3>1. PICK k \in Kinds : Sends(c, k) /\ prog'[c] = "reading" /\ prog[c] \in {"joining", "typing"}
      BY <1>1, <2>2 DEF Says, Goes, Standing
    <3>2. /\ Len(sent'[c]) = Len(sent[c]) + 1 /\ Last(sent'[c]) = k
          /\ replies'[c] = replies[c] /\ got'[c] = got[c]
          /\ stream'[c] = stream[c] \o Text(c, k, Len(sent[c]) + 1)
          /\ k = "blank" => c \notin Bare
      BY <1>1, <3>1, SendsFirst DEF Sends
    <3>3. got[c] = Len(sent[c])
      <4>1. prog[c] = "joining" => Len(sent[c]) = 0 /\ Len(replies[c]) = 0
        <5>1. prog[c] = "joining" => sent[c] = <<>> /\ replies[c] = <<>>
          BY <1>1 DEF Standing, ServerInv, Greeted, Good, Answered
        <5>. QED BY <5>1
      <4>. QED BY <1>1, <3>1, <4>1 DEF InTurn, Standing
    <3>4. Len(sent[c]) = Len(replies[c]) /\ stream[c] = <<>>
      BY <1>1, <3>3 DEF InTurn, Standing
    <3>5. stream'[c] = Text(c, Last(sent'[c]), Len(sent'[c]))
      <4>1. Len(sent[c]) + 1 \in Nat \ {0}
        BY <1>1
      <4>2. Text(c, k, Len(sent[c]) + 1) \in Seq(Atom)
        BY <1>1, <3>2, <4>1, TextFacts
      <4>. QED BY <3>2, <3>4, <4>2, ConcatEmptySeq
    <3>. QED BY <1>1, <3>1, <3>2, <3>3, <3>4, <3>5 DEF InTurn
  <2>3. CASE Hears(c)
    <3>1. PICK n \in 1 .. Unread(c) : got'[c] = got[c] + n /\ prog'[c] = "typing"
      BY <1>1, <2>3 DEF Hears
    <3>2. /\ prog[c] = "reading" /\ Same(c)
          /\ n \in Nat /\ n >= 1 /\ got[c] + n <= Len(replies[c])
      BY <1>1, <2>3 DEF Hears, Unread
    <3>3. got'[c] = Len(sent[c])
      <4>1. Len(sent[c]) <= got[c] + 1 /\ Len(replies[c]) <= Len(sent[c])
        BY <1>1, <3>2 DEF InTurn
      <4>. QED BY <1>1, <3>1, <3>2, <4>1
    <3>. QED BY <3>1, <3>2, <3>3 DEF Same, SameText, InTurn
  <2>4. CASE GivesUp(c)
    BY <1>1, <2>4 DEF GivesUp, Goes, Same, SameText, InTurn
  <2>. QED BY <1>4, <2>1, <2>2, <2>3, <2>4 DEF Acts
<1>. QED BY <1>1, <1>2, <1>3, <1>4, StepCases

\* It holds of every cli.py.
LEMMA TurnInvariant ==
  ASSUME ~ Segmented
  PROVE  CSpec => [](\A c \in PyClients : InTurn(c))
<1>1. CInit => \A c \in PyClients : InTurn(c)
  <2>1. PyClients \subseteq Conns
    BY ClientsAssumption
  <2>. QED BY <2>1 DEF CInit, Init, InTurn
<1>2. ProgramInv /\ (\A c \in PyClients : InTurn(c)) /\ [CNext]_cvars
        => (\A c \in PyClients : InTurn(c))'
  BY InTurnStep
<1>. QED BY <1>1, <1>2, ProgramInvariant, PTL DEF CSpec

\* Whenever cli.py asks for a line, its user has seen the answers to all the
\* earlier ones, each the answer to its own line, as long as a read returns all
\* that was sent: whatever other clients do, and however cli.py is served
\* (cli.py:14).
THEOREM AnswersInStep ==
  ASSUME ~ Segmented
  PROVE  CSpec => []InStep
<1>1. (\A c \in PyClients : InTurn(c)) /\ ProgramInv => InStep
  <2>. SUFFICES ASSUME NEW c \in PyClients, InTurn(c), ProgramInv, prog[c] = "typing"
                PROVE  /\ got[c] = Len(sent[c])
                       /\ \A n \in 2 .. got[c] : replies[c][n] = <<"answer", n>>
    BY DEF InStep
  <2>1. got[c] \in Nat /\ Len(replies[c]) \in Nat /\ got[c] <= Len(replies[c])
    BY ClientsAssumption DEF ProgramInv, ServerInv, Inv, Shape, CShape, Standing
  <2>2. \A n \in 2 .. got[c] : n \in 2 .. Len(replies[c])
    BY <2>1
  <2>. QED BY <2>2 DEF InTurn
<1>. QED BY <1>1, TurnInvariant, ProgramInvariant, PTL

-----------------------------------------------------------------------------
(* Who waits for whom. *)

\* cli.c and replicas send no newline, so that nothing of theirs is empty.
Plain(c) == c \in Bare => \A j \in 1 .. Len(stream[c]) : stream[c][j] # <<"nl">>

\* A program that reads has an answer to come, but after an empty line.
Waiting(c) ==
  prog[c] = "reading" /\ ~ Closed(c) /\ stream[c] = <<>> =>
    \/ Unread(c) > 0
    \/ c \in PyClients /\ Last(sent[c]) = "blank"

\* The text of cli.c or a replica holds no newline.
LEMMA PlainText ==
  ASSUME NEW c \in Bare, NEW k \in Kinds, NEW n \in Nat \ {0}, k # "blank"
  PROVE  /\ Text(c, k, n) \in Seq(Atom)
         /\ \A j \in 1 .. Len(Text(c, k, n)) : Text(c, k, n)[j] # <<"nl">>
<1>1. Halves(k, n) = <<<<k, n, 1>>, <<k, n, 2>>>> /\ Halves(k, n) \in Seq(Atom)
  BY DEF Halves, Atom
<1>2. Text(c, k, n) = Halves(k, n)
  <2>1. Halves(k, n) \o <<>> = Halves(k, n)
    BY <1>1, ConcatEmptySeq
  <2>. QED BY <2>1 DEF Text
<1>3. Len(Halves(k, n)) = 2 /\ Halves(k, n)[1] = <<k, n, 1>> /\ Halves(k, n)[2] = <<k, n, 2>>
  BY <1>1
<1>4. \A j \in 1 .. 2 : j = 1 \/ j = 2
  OBVIOUS
<1>. QED BY <1>1, <1>2, <1>3, <1>4

\* Nor does what is left of it, read in whatever pieces.
LEMMA PlainStep ==
  ASSUME ProgramInv, NEW c \in Conns, Plain(c), [CNext]_cvars
  PROVE  Plain(c)'
<1>1. /\ ServerInv /\ Inv /\ Shape /\ CShape /\ stream[c] \in Seq(Atom)
      /\ Len(sent[c]) + 1 \in Nat \ {0}
      /\ c \in Bare => c \notin PyClients
  BY ClientsAssumption DEF ProgramInv, ServerInv, Inv, Shape
<1>2. stream'[c] = stream[c] => Plain(c)'
  BY DEF Plain
<1>3. ASSUME NEW n, Took(c, n) PROVE Plain(c)'
  <2>1. PICK s \in Seq(Atom), l \in Nat : s = stream[c] /\ l = Len(s)
    BY <1>1
  <2>2. n \in 1 .. l /\ stream'[c] = SubSeq(s, n + 1, l)
    BY <1>1, <1>3, <2>1, ReadLengthsFacts DEF Took
  <2>3. /\ Len(SubSeq(s, n + 1, l)) = l - n
        /\ \A j \in 1 .. l - n : SubSeq(s, n + 1, l)[j] = s[n + j] /\ n + j \in 1 .. l
    BY <2>1, <2>2
  <2>. QED BY <2>1, <2>2, <2>3 DEF Plain
<1>4. CASE Still(c)
  BY <1>2, <1>4 DEF Still, Same, SameText
<1>5. CASE Serves
  <2>1. Moves(c)
    BY <1>1, <1>5, ServerActs
  <2>. QED BY <1>2, <1>3, <2>1 DEF Moves, Accepted, Dropped, ReadOf, SameText
<1>6. CASE Acts(c)
  <2>1. ASSUME NEW k \in Kinds, Sends(c, k), c \in Bare PROVE Plain(c)'
    <3>1. PICK s \in Seq(Atom), x \in Seq(Atom) :
            s = stream[c] /\ x = Text(c, k, Len(sent[c]) + 1)
      BY <1>1, <2>1, PlainText DEF Sends
    <3>2. \A j \in 1 .. Len(x) : x[j] # <<"nl">>
      BY <1>1, <2>1, <3>1, PlainText DEF Sends
    <3>3. \A j \in 1 .. Len(s) : s[j] # <<"nl">>
      BY <2>1, <3>1 DEF Plain
    <3>6. stream'[c] = s \o x
      BY <2>1, <3>1 DEF Sends
    <3>4. /\ Len(s \o x) = Len(s) + Len(x)
          /\ Len(s) \in Nat /\ Len(x) \in Nat
          /\ \A i \in 1 .. Len(s) + Len(x) :
               (s \o x)[i] = IF i <= Len(s) THEN s[i] ELSE x[i - Len(s)]
      BY ConcatProperties, LenProperties
    <3>5. ASSUME NEW j \in 1 .. Len(s) + Len(x) PROVE (s \o x)[j] # <<"nl">>
      <4>1. CASE j <= Len(s)
        BY <3>3, <3>4, <4>1
      <4>2. CASE ~ (j <= Len(s))
        <5>1. j - Len(s) \in 1 .. Len(x)
          BY <3>4, <4>2
        <5>. QED BY <3>2, <3>4, <4>2, <5>1
      <4>. QED BY <4>1, <4>2
    <3>. QED BY <3>4, <3>5, <3>6 DEF Plain
  <2>2. Says(c) => Plain(c)'
    BY <2>1 DEF Says, Plain
  <2>. QED BY <1>2, <1>6, <2>2 DEF Acts, Dials, Hears, GivesUp, Dies, Same, SameText
<1>. QED BY <1>1, <1>4, <1>5, <1>6, StepCases

\* A read of such a client is not empty.
LEMMA PlainBuffer ==
  ASSUME Shape, NEW c \in Conns, c \in Bare, Plain(c), NEW n \in ReadLengths(stream[c])
  PROVE  Buffer(stream[c], n) # <<>>
<1>1. PICK s \in Seq(Atom) : s = stream[c] /\ n \in 1 .. Len(s) /\ Len(s) \in Nat
  BY ReadLengthsFacts
<1>2. {i \in 1 .. n : s[i] = <<"nl">>} = {}
  BY <1>1 DEF Plain
<1>3. Buffer(s, n) = SubSeq(s, 1, n)
  BY <1>2 DEF Buffer
<1>4. Len(SubSeq(s, 1, n)) = n /\ n # 0
  BY <1>1
<1>5. SubSeq(s, 1, n) # <<>>
  BY <1>4
<1>. QED BY <1>1, <1>3, <1>5

\* The server answers what it has read of any message that is not empty, or
\* closes the connection: no step leaves a program waiting for nothing.
LEMMA WaitingStep ==
  ASSUME ProgramInv, NEW c \in Conns, Plain(c), Waiting(c),
         ~ Segmented /\ c \in PyClients => InTurn(c),
         ~ Segmented \/ c \notin PyClients, [CNext]_cvars
  PROVE  Waiting(c)'
<1>1. /\ ServerInv /\ Inv /\ Shape /\ CShape /\ Standing(c) /\ Greeted /\ RoleOf(c)
      /\ got[c] \in Nat /\ Len(replies[c]) \in Nat /\ replies[c] \in Seq(Answer)
      /\ sent[c] \in Seq(Kinds) /\ stream[c] \in Seq(Atom)
      /\ got[c] <= Len(replies[c])
  <2>1. ServerInv /\ Inv /\ Shape /\ CShape /\ Standing(c) /\ Greeted /\ RoleOf(c)
    BY DEF ProgramInv, ServerInv, Inv, Settled
  <2>2. got[c] <= Len(replies[c])
    BY <2>1 DEF Standing
  <2>. QED BY <2>1, <2>2 DEF Shape, CShape
<1>2. CASE Still(c)
  BY <1>2 DEF Still, Same, SameText, Waiting, Closed, Running, Unread
<1>3. CASE Serves
  <2>. SUFFICES ASSUME prog'[c] = "reading", ~ Closed(c)', stream'[c] = <<>>
                PROVE  Unread(c)' > 0 \/ (c \in PyClients /\ Last(sent'[c]) = "blank")
    BY DEF Waiting
  <2>1. /\ Running /\ Moves(c)
        /\ sent'[c] = sent[c] /\ prog'[c] = prog[c] /\ got'[c] = got[c]
    BY <1>1, <1>3, ServerActs
  <2>2. prog[c] = "reading" /\ peer[c] = "up" /\ conn'[c] # "gone" /\ pc' # "killed"
    BY <1>1, <2>1 DEF Standing, Closed, Running
  <2>3. ASSUME conn[c] # "gone", SameText(c)
        PROVE  Unread(c)' > 0 \/ (c \in PyClients /\ Last(sent'[c]) = "blank")
    BY <2>1, <2>2, <2>3 DEF Waiting, Closed, Unread, SameText
  <2>4. ASSUME NEW r \in Answer, Told(c, r) PROVE Unread(c)' > 0
    <3>1. Len(replies'[c]) = Len(replies[c]) + 1
      BY <1>1, <2>2, <2>4, AppendFirst DEF Told
    <3>. QED BY <1>1, <2>1, <3>1 DEF Unread
  <2>5. <<"prompt">> \in Answer /\ <<"init">> \in Answer /\ \A b : AnswerTo(b) \in Answer
    BY AnswerFacts DEF Answer
  <2>6. CASE Kept(c) /\ SameText(c)
    BY <2>2, <2>3, <2>6 DEF Kept
  <2>7. CASE Accepted(c)
    BY <2>3, <2>7 DEF Accepted
  <2>8. ASSUME NEW i \in OpenSlots, NEW n \in ReadLengths(stream[c]), Conn(i) = c, Took(c, n),
               Ignored(c, n, i)
        PROVE  Unread(c)' > 0 \/ (c \in PyClients /\ Last(sent'[c]) = "blank")
    <3>1. /\ ~ Handshaking(i) /\ (User(i) => Buffer(stream[c], n) = <<>>)
          /\ replies'[c] = replies[c]
      BY <2>8 DEF Ignored, Untold
    <3>2. /\ sent[c] # <<>> /\ replies[c] # <<>>
          /\ \/ table[i].type = "user" /\ sent[c][1] = "join"
             \/ table[i].type = "repl" /\ sent[c][1] = "repl"
      BY <1>1, <2>2, <2>8, <3>1 DEF RoleOf
    <3>3. CASE c \in Replicas
      <4>1. got[c] = 0 /\ Len(replies[c]) # 0
        <5>1. got[c] = 0
          BY <1>1, <2>2, <3>3 DEF Standing
        <5>2. Len(replies[c]) # 0
          BY <1>1, <3>2, EmptySeq
        <5>. QED BY <5>1, <5>2
      <4>2. Len(replies[c]) > 0
        BY <1>1, <4>1
      <4>. QED BY <2>1, <3>1, <4>1, <4>2 DEF Unread
    <3>4. CASE c \notin Replicas
      <4>1. sent[c][1] = "join"
        BY <1>1, <3>2, <3>4 DEF Standing
      <4>2. table[i].type = "user"
        BY <3>2, <4>1
      <4>3. table[i] \in Slot
        BY <1>1, OpenFacts
      <4>4. User(i)
        BY <3>1, <4>2, <4>3 DEF User, Handshaking, Slot
      <4>5. Buffer(stream[c], n) = <<>>
        BY <3>1, <4>4
      <4>6. c \notin Bare
        BY <1>1, <4>5, PlainBuffer
      <4>7. c \in PyClients /\ InTurn(c) /\ n = Len(stream[c]) /\ stream[c] # <<>>
        BY <1>1, <4>6, ClientsAssumption, ReadLengthsFacts
      <4>8. /\ stream[c] = Text(c, Last(sent[c]), Len(sent[c]))
            /\ Len(sent[c]) = Len(replies[c]) + 1
        BY <4>7 DEF InTurn
      <4>9. PICK k \in Kinds, m \in Nat \ {0} : k = Last(sent[c]) /\ m = Len(sent[c])
        BY <1>1, <4>8 DEF Last
      <4>10. Halves(k, m) # <<>>
        BY DEF Halves
      <4>11. k = "blank"
        BY <4>5, <4>6, <4>7, <4>8, <4>9, <4>10, WholeMessage
      <4>. QED BY <2>1, <4>7, <4>9, <4>11
    <3>. QED BY <3>3, <3>4
  <2>9. CASE ReadOf(c)
    <3>1. PICK i \in OpenSlots, n \in ReadLengths(stream[c]) :
            /\ Conn(i) = c /\ Took(c, n)
            /\ \/ Welcomed(c, n, i) \/ Abandoned(c, n, i)
               \/ AnsweredNow(c, n, i) \/ Ignored(c, n, i)
      BY <2>9 DEF ReadOf
    <3>2. CASE Welcomed(c, n, i)
      BY <2>4, <2>5, <3>2 DEF Welcomed
    <3>3. CASE Abandoned(c, n, i)
      BY <2>2, <3>3 DEF Abandoned
    <3>4. CASE AnsweredNow(c, n, i)
      BY <2>4, <2>5, <3>4 DEF AnsweredNow
    <3>. QED BY <2>8, <3>1, <3>2, <3>3, <3>4
  <2>. QED BY <2>1, <2>2, <2>6, <2>7, <2>9 DEF Moves, Dropped
<1>4. CASE Acts(c)
  <2>1. ASSUME NEW k \in Kinds, Sends(c, k) PROVE stream'[c] # <<>>
    <3>1. Len(sent[c]) + 1 \in Nat \ {0} /\ (k = "blank" => c \notin Bare)
      BY <1>1, <2>1, ClientsAssumption DEF Sends
    <3>2. PICK x \in Seq(Atom) : x = Text(c, k, Len(sent[c]) + 1) /\ x # <<>>
      BY <3>1, TextFacts
    <3>3. stream[c] \o x # <<>>
      BY <1>1, <3>2, ConcatEqualIffEmpty
    <3>. QED BY <2>1, <3>2, <3>3 DEF Sends
  <2>2. Says(c) => Waiting(c)'
    BY <2>1 DEF Says, Waiting
  <2>3. Dials(c) \/ Dies(c) \/ Hears(c) => Waiting(c)'
    BY DEF Dials, Dies, Hears, Goes, Waiting
  <2>4. GivesUp(c) => Waiting(c)'
    BY DEF GivesUp, Goes, Same, Waiting, Closed
  <2>. QED BY <1>4, <2>2, <2>3, <2>4 DEF Acts
<1>. QED BY <1>1, <1>2, <1>3, <1>4, StepCases

\* A program and the server wait for each other only after an empty line of
\* cli.py, which is not answered; what cli.c or a replica sends, merged with
\* what follows or not, is always answered or leads to its being dropped
\* (network.c:124).
THEOREM WaitsAreBlank ==
  ASSUME ~ Segmented
  PROVE  CSpec => []WaitsOnlyAfterBlank
<1>1. CInit => \A c \in Conns : Plain(c) /\ Waiting(c)
  BY DEF CInit, Init, Plain, Waiting
<1>2. ProgramInv /\ (\A c \in PyClients : InTurn(c)) /\ (\A c \in Conns : Plain(c) /\ Waiting(c))
        /\ [CNext]_cvars => (\A c \in Conns : Plain(c) /\ Waiting(c))'
  BY PlainStep, WaitingStep
<1>3. (\A c \in Conns : Plain(c) /\ Waiting(c)) => WaitsOnlyAfterBlank
  <2>. SUFFICES ASSUME NEW c \in Conns, Waiting(c), prog[c] = "reading", conn[c] = "open",
                       stream[c] = <<>>, Unread(c) = 0
                PROVE  Closed(c) \/ (c \in PyClients /\ Last(sent[c]) = "blank")
    BY DEF WaitsOnlyAfterBlank
  <2>1. ~ (Unread(c) > 0)
    OBVIOUS
  <2>. QED BY <2>1 DEF Waiting
<1>. QED BY <1>1, <1>2, <1>3, TurnInvariant, ProgramInvariant, PTL DEF CSpec

-----------------------------------------------------------------------------
(* What can kill the server, and why these programs do not. *)

\* Nothing is left to answer once the server has found the peer gone, the
\* program never says spaces, and only a killable one can reset.
Harmless(c) ==
  /\ peer[c] = "broken" => stream[c] = <<>>
  /\ "spaces" \notin ToSet(sent[c])
  /\ peer[c] = "reset" => c \in Killable

\* A program stays harmless.
LEMMA HarmlessStep ==
  ASSUME ProgramInv, ~ Segmented, "spaces" \notin CliLines,
         NEW c \in Conns, Harmless(c), [CNext]_cvars
  PROVE  Harmless(c)'
<1>1. /\ ServerInv /\ Inv /\ Shape /\ CShape
      /\ sent[c] \in Seq(Kinds) /\ stream[c] \in Seq(Atom)
  BY DEF ProgramInv, ServerInv, Inv, Shape
<1>2. CASE Still(c)
  BY <1>2 DEF Still, Same, SameText, Harmless
<1>3. CASE Serves
  <2>1. Moves(c) /\ sent'[c] = sent[c]
    BY <1>1, <1>3, ServerActs
  <2>2. SameText(c) => Harmless(c)'
    BY <2>1 DEF SameText, Harmless
  <2>3. ASSUME NEW n, Took(c, n) PROVE stream'[c] = <<>>
    <3>1. n = Len(stream[c]) /\ Len(stream[c]) \in Nat
      BY <1>1, <2>3, ReadLengthsFacts DEF Took
    <3>2. n \in Nat /\ stream'[c] = SubSeq(stream[c], n + 1, n)
      BY <2>3, <3>1 DEF Took
    <3>. QED BY <1>1, <3>2, SubSeqEmpty
  <2>4. \A r : Told(c, r) => peer'[c] # "reset"
    BY DEF Told
  <2>5. Untold(c) => peer'[c] = peer[c]
    BY DEF Untold
  <2>6. ASSUME NEW n, Took(c, n), Untold(c) \/ \E r : Told(c, r) PROVE Harmless(c)'
    BY <2>1, <2>3, <2>4, <2>5, <2>6 DEF Harmless
  <2>7. CASE Dropped(c)
    BY <2>2, <2>6, <2>7 DEF Dropped
  <2>8. CASE ReadOf(c)
    BY <2>6, <2>8 DEF ReadOf, Welcomed, Abandoned, AnsweredNow, Ignored
  <2>. QED BY <2>1, <2>2, <2>7, <2>8 DEF Moves, Accepted
<1>4. CASE Acts(c)
  <2>1. Dials(c) \/ Hears(c) \/ GivesUp(c) => Harmless(c)'
    BY DEF Dials, Hears, GivesUp, Same, SameText, Harmless
  <2>2. Dies(c) => Harmless(c)'
    BY DEF Dies, Harmless
  <2>3. ASSUME NEW k \in Kinds, Sends(c, k), k # "spaces" PROVE Harmless(c)'
    <3>1. PICK s \in Seq(Kinds) : s = sent[c]
      BY <1>1
    <3>2. /\ DOMAIN Append(s, k) = 1 .. Len(s) + 1 /\ DOMAIN s = 1 .. Len(s)
          /\ \A j \in 1 .. Len(s) : Append(s, k)[j] = s[j]
          /\ Append(s, k)[Len(s) + 1] = k
      BY <3>1
    <3>3. \A j \in 1 .. Len(s) : s[j] # "spaces"
      BY <3>1, <3>2 DEF Harmless, ToSet
    <3>4. \A j \in 1 .. Len(s) + 1 : Append(s, k)[j] # "spaces"
      BY <2>3, <3>2, <3>3
    <3>. QED BY <2>3, <3>1, <3>2, <3>4 DEF Sends, Harmless, ToSet
  <2>4. Says(c) => Harmless(c)'
    BY <2>3 DEF Says
  <2>. QED BY <1>4, <2>1, <2>2, <2>4 DEF Acts
<1>. QED BY <1>1, <1>2, <1>3, <1>4, StepCases

\* The connections that have been accepted, and room for every one.
Taken == {c \in Conns : conn[c] \in {"open", "gone"}}

\* The connection table's array and the process's descriptors suffice for everybody.
EnoughRoom ==
  /\ IsFiniteSet(Conns) /\ Cardinality(Conns) <= CAP
  /\ IsFiniteSet(FDs) /\ Cardinality(Conns) <= Cardinality(FDs)

\* The table holds no more slots than connections have been accepted.
Fits == Len(table) <= Cardinality(Taken)

\* Only accept lengthens the table.
LEMMA TableLength ==
  ASSUME Inv, Server, ~ Accept
  PROVE  Len(table') = Len(table)
<1>1. CASE Select \/ SelectFails \/ AcceptBeyond \/ ScanEnd \/ ReplicaInfo \/ InfoNotReceived
  BY <1>1 DEF Select, SelectFails, AcceptBeyond, ScanEnd, ReplicaInfo, InfoNotReceived
<1>2. ASSUME NEW i \in Due, PeerGone(i) PROVE Len(table') = Len(table)
  <2>1. Shape /\ i \in OpenSlots /\ Conn(i) \in Conns
    BY <1>2, ServedFacts, DueOpen DEF Inv, PeerGone
  <2>. QED BY <1>2, <2>1, CloseShape DEF PeerGone
<1>3. ASSUME NEW i \in Due, NEW n, NEW buf, pc = "scan", Handle(i, n, buf)
      PROVE  Len(table') = Len(table)
  <2>1. Shape /\ i \in OpenSlots /\ Conn(i) \in Conns
    BY <1>3, ServedFacts, DueOpen DEF Inv
  <2>2. \/ CloseSlot(i)
        \/ UNCHANGED table
        \/ \E t \in {"user", "repl"} :
             table' = [table EXCEPT ![i].type = t, ![i].state = "active"]
    BY <1>3 DEF Handle, JoinUser, JoinReplica, Reject, Ignore, Request, Exit, Shutdown,
           NoToken, SendKills, InitNotSent, KeepSlot
  <2>. QED BY <2>1, <2>2, CloseShape, AdmitShape
<1>. QED BY <1>1, <1>2, <1>3, ServerCases

\* The connection at the head of the backlog waits, and the table has room.
LEMMA HeadWaits ==
  ASSUME Inv, EnoughRoom, pc = "accept"
  PROVE  /\ Head(backlog) \in Conns \ Taken /\ IsFiniteSet(Taken)
         /\ Cardinality(Taken) \in Nat /\ Cardinality(Taken) < Cardinality(Conns)
         /\ Cardinality(Conns) \in Nat /\ Cardinality(Conns \ {Head(backlog)}) = Cardinality(Conns) - 1
<1>1. backlog \in Seq(Conns) /\ backlog # <<>>
  BY DEF Inv, Shape
<1>2. 1 \in 1 .. Len(backlog) /\ Head(backlog) = backlog[1] /\ backlog[1] \in Conns
  BY <1>1
<1>3. PICK h \in Conns : h = Head(backlog) /\ conn[h] = "queued"
  BY <1>2 DEF Inv, Queue
<1>4. Taken \subseteq Conns \ {h}
  BY <1>3 DEF Taken
<1>5. /\ IsFiniteSet(Conns \ {h}) /\ Cardinality(Conns \ {h}) = Cardinality(Conns) - 1
      /\ Cardinality(Conns) \in Nat
  BY FS_RemoveElement, FS_CardinalityType DEF EnoughRoom
<1>6. IsFiniteSet(Taken) /\ Cardinality(Taken) <= Cardinality(Conns \ {h})
  BY <1>4, <1>5, FS_Subset
<1>7. Cardinality(Taken) \in Nat
  BY <1>6, FS_CardinalityType
<1>. QED BY <1>3, <1>4, <1>5, <1>6, <1>7

\* A descriptor is free for every connection.
LEMMA FreeDescriptor ==
  ASSUME Inv, EnoughRoom, pc = "accept"
  PROVE  \E f \in FDs : socket[f] = NONE
<1>. SUFFICES ASSUME \A f \in FDs : socket[f] # NONE PROVE FALSE
  OBVIOUS
<1>1. PICK h \in Conns \ Taken :
        /\ Cardinality(Conns \ {h}) = Cardinality(Conns) - 1 /\ Cardinality(Conns) \in Nat
        /\ h = Head(backlog)
  BY HeadWaits
<1>2. \A f \in FDs : socket[f] \in Conns /\ conn[socket[f]] = "open"
  BY DEF Inv, Shape, Links
<1>3. socket \in [FDs -> Conns \ {h}]
  BY <1>1, <1>2 DEF Taken, Inv, Shape
<1>4. IsFiniteSet(Conns \ {h}) /\ IsFiniteSet(FDs) /\ Cardinality(FDs) \in Nat
      /\ Cardinality(Conns) <= Cardinality(FDs)
  BY FS_RemoveElement, FS_CardinalityType DEF EnoughRoom
<1>5. Cardinality(Conns \ {h}) < Cardinality(FDs)
  BY <1>1, <1>4
<1>6. \E f, g \in FDs : f # g /\ socket[f] = socket[g]
  BY <1>3, <1>4, <1>5, FS_PigeonHole
<1>. QED BY <1>6 DEF Inv, Links

\* Fits, through a step of the server.
LEMMA ServerFits ==
  ASSUME ServerInv, EnoughRoom, Fits, Serves
  PROVE  Fits'
<1>1. Inv /\ Server /\ IsFiniteSet(Conns)
  BY DEF ServerInv, Serves, EnoughRoom
<1>2. \A c \in Conns : conn[c] \in {"open", "gone"} => conn'[c] \in {"open", "gone"}
  <2>. SUFFICES ASSUME NEW c \in Conns, conn[c] \in {"open", "gone"}
                PROVE  conn'[c] \in {"open", "gone"}
    OBVIOUS
  <2>1. Moves(c)
    BY ServerActs
  <2>. QED BY <2>1 DEF Moves, Kept, Accepted, Dropped, ReadOf, Welcomed, Abandoned,
                       AnsweredNow, Ignored, Enrolled
<1>3. Taken \subseteq Taken' /\ Taken' \subseteq Conns /\ Taken \subseteq Conns
  BY <1>2 DEF Taken
<1>4. /\ IsFiniteSet(Taken') /\ IsFiniteSet(Taken) /\ Cardinality(Taken) \in Nat
      /\ Cardinality(Taken') \in Nat
      /\ Cardinality(Taken) <= Cardinality(Taken')
  BY <1>1, <1>3, FS_Subset, FS_CardinalityType
<1>5. Len(table) \in Nat
  BY <1>1 DEF Inv, Shape
<1>6. CASE ~ Accept
  <2>1. Len(table') = Len(table)
    BY <1>1, <1>6, TableLength
  <2>. QED BY <1>4, <1>5, <2>1 DEF Fits
<1>7. CASE Accept
  <2>1. pc = "accept"
    BY <1>7 DEF Accept
  <2>2. PICK h \in Conns : h = Head(backlog) /\ h \notin Taken
    BY <1>1, <2>1, HeadWaits
  <2>3. {f \in FDs : socket[f] = NONE} # {}
    BY <1>1, <2>1, FreeDescriptor
  <2>4. conn' = [conn EXCEPT ![h] = "open"] /\ \E x : table' = Append(table, x)
    BY <1>7, <2>2, <2>3 DEF Accept
  <2>5. h \in Taken'
    BY <1>1, <2>4 DEF Taken, Inv, Shape
  <2>6. Cardinality(Taken \union {h}) = Cardinality(Taken) + 1
    BY <1>4, <2>2, FS_AddElement
  <2>7. Cardinality(Taken \union {h}) <= Cardinality(Taken')
    BY <1>3, <1>4, <2>5, FS_Subset
  <2>8. Len(table') = Len(table) + 1
    BY <1>1, <2>4 DEF Inv, Shape
  <2>. QED BY <1>4, <1>5, <2>6, <2>7, <2>8 DEF Fits
<1>. QED BY <1>6, <1>7

\* Fits, through any step.
LEMMA FitsStep ==
  ASSUME ProgramInv, EnoughRoom, Fits, [CNext]_cvars
  PROVE  Fits'
<1>1. ServerInv /\ Inv /\ CShape
  BY DEF ProgramInv, ServerInv
<1>2. CASE Serves
  BY <1>1, <1>2, ServerFits
<1>3. CASE ~ Serves
  <2>1. \A c \in Conns : Still(c) \/ Acts(c)
    BY <1>1, <1>3, StepCases
  <2>2. \A c \in Conns : conn[c] \in {"open", "gone"} <=> conn'[c] \in {"open", "gone"}
    BY <2>1 DEF Still, Same, Acts, Dials, Says, Sends, Hears, GivesUp, Dies
  <2>3. Taken' = Taken
    BY <2>2 DEF Taken
  <2>4. table' = table
    BY <1>3, ProgramIsClient DEF CNext, Program, cvars, vars, Connect, Send, Leave
  <2>. QED BY <2>3, <2>4 DEF Fits
<1>. QED BY <1>2, <1>3

\* Each way in which the server can be killed is closed.
LEMMA NothingKills ==
  ASSUME ProgramInv, \A c \in Conns : Harmless(c), EnoughRoom, Fits,
         HasMaster \/ Killable \intersect Replicas = {},
         Serves
  PROVE  pc' # "killed"
<1>1. /\ ServerInv /\ Inv /\ Shape /\ Server /\ Greeted /\ Sourced /\ Awaited
      /\ \A c \in Conns : RoleOf(c) /\ Standing(c)
  BY DEF ProgramInv, ServerInv, Inv, Serves, Settled
<1>2. ASSUME NEW c \in Conns, peer[c] = "reset", ~ HasMaster,
             sent[c] # <<>>, sent[c][1] = "repl"
      PROVE  FALSE
  <2>1. c \in Killable
    BY <1>2 DEF Harmless
  <2>2. c \in Replicas
    BY <1>1, <1>2 DEF Standing
  <2>. QED BY <1>2, <2>1, <2>2
<1>3. CASE Select \/ SelectFails \/ Accept \/ ScanEnd \/ ReplicaInfo
  BY <1>3 DEF Select, SelectFails, Accept, ScanEnd, ReplicaInfo, Proceed
<1>4. CASE AcceptBeyond
  <2>1. pc = "accept" /\ Len(table) >= CAP
    BY <1>4 DEF AcceptBeyond
  <2>2. /\ Cardinality(Taken) < Cardinality(Conns) /\ Cardinality(Taken) \in Nat
        /\ Cardinality(Conns) \in Nat
    BY <1>1, <2>1, HeadWaits
  <2>3. Len(table) \in Nat /\ CAP \in Nat
    BY <1>1, ServerAssumption DEF Shape
  <2>. QED BY <2>1, <2>2, <2>3 DEF Fits, EnoughRoom
<1>5. ASSUME NEW i \in Due, PeerGone(i) PROVE pc' # "killed"
  BY <1>5 DEF PeerGone, Proceed
<1>6. ASSUME NEW i \in Due, NEW n \in DOMAIN stream[Conn(i)], pc = "scan",
             Handle(i, n, Buffer(stream[Conn(i)], n))
      PROVE  pc' # "killed"
  <2>1. PICK c \in Conns : c = Conn(i) /\ i \in OpenSlots
    BY <1>1, <1>6, ServedFacts, DueOpen
  <2>2. PICK s \in Seq(Atom) : s = stream[c] /\ n \in 1 .. Len(s) /\ Len(s) \in Nat
    BY <1>1, <1>6, <2>1 DEF Shape
  <2>8. PICK buf : buf = Buffer(s, n)
    OBVIOUS
  <2>3. s # <<>>
    BY <2>2
  <2>4. ~ SendKills(i, n, buf)
    BY <2>1, <2>2, <2>3 DEF SendKills, Harmless
  <2>5. ~ NoToken(i, n, buf)
    <3>. SUFFICES ASSUME buf # <<>>, \A j \in DOMAIN buf : buf[j][1] = "spaces"
                  PROVE  FALSE
      BY DEF NoToken
    <3>1. PICK l \in Nat : l <= n /\ buf = SubSeq(s, 1, l)
      <4>1. PICK ends : ends = {j \in 1 .. n : s[j] = <<"nl">>}
        OBVIOUS
      <4>2. ends # {} => Min(ends) \in 1 .. n
        <5>1. ends \subseteq 1 .. n /\ ends \in SUBSET Nat
          BY <4>1
        <5>. QED BY <5>1, MinLeast
      <4>3. buf = SubSeq(s, 1, IF ends = {} THEN n ELSE Min(ends) - 1)
        BY <2>8, <4>1 DEF Buffer
      <4>4. PICK l \in Nat : l = (IF ends = {} THEN n ELSE Min(ends) - 1) /\ l <= n
        BY <2>2, <4>2
      <4>. QED BY <4>3, <4>4
    <3>2. l # 0
      BY <3>1, SubSeqEmpty
    <3>3. 1 \in DOMAIN buf /\ buf[1] = s[1] /\ 1 \in DOMAIN s
      BY <2>2, <3>1, <3>2
    <3>4. s[1] = <<"nl">> \/ s[1][1] \in ToSet(sent[c])
      BY <1>1, <2>2, <3>3 DEF Sourced, Sources
    <3>5. s[1][1] = "spaces"
      BY <3>3
    <3>6. <<"nl">>[1] # "spaces"
      OBVIOUS
    <3>. QED BY <3>4, <3>5, <3>6 DEF Harmless
  <2>6. CASE InitNotSent(i, n, buf)
    <3>1. peer[c] = "reset" /\ Handshaking(i) /\ Is(buf, "repl")
      BY <2>1, <2>6 DEF InitNotSent
    <3>2. sent[c] # <<>> /\ sent[c][1] = "repl"
      BY <1>1, <1>6, <2>1, <2>2, <2>8, <3>1, FirstRead
    <3>3. HasMaster
      BY <1>2, <3>1, <3>2
    <3>. QED BY <2>6, <3>3 DEF InitNotSent, HandshakeFails, Proceed
  <2>7. CASE \/ JoinUser(i, n, buf) \/ JoinReplica(i, n, buf) \/ Reject(i, n, buf)
             \/ Ignore(i, n, buf) \/ Request(i, n, buf) \/ Exit(i, n, buf)
             \/ Shutdown(i, n, buf)
    BY <2>7 DEF JoinUser, JoinReplica, Reject, Ignore, Request, Exit, Shutdown, Proceed
  <2>. QED BY <1>6, <2>1, <2>2, <2>4, <2>5, <2>6, <2>7, <2>8 DEF Handle
<1>7. CASE InfoNotReceived
  <2>1. pc = "recv" /\ peer[Conn(cur)] = "reset"
    BY <1>7 DEF InfoNotReceived
  <2>2. PICK c \in Conns : c = Conn(cur) /\ cur \in OpenSlots
    BY <1>1, <2>1, WaitingFacts
  <2>3. table[cur].type = "repl" /\ ~ Handshaking(cur)
    BY <1>1, <2>1 DEF Awaited, Handshaking
  <2>4. sent[c] # <<>> /\ sent[c][1] = "repl"
    BY <1>1, <2>2, <2>3 DEF RoleOf
  <2>5. HasMaster
    BY <1>2, <2>1, <2>2, <2>4
  <2>. QED BY <1>7, <2>5 DEF InfoNotReceived, HandshakeFails, Proceed
<1>. QED BY <1>1, <1>3, <1>4, <1>5, <1>6, <1>7, ServerCases

\* Whatever these programs do, losing one is at most a warning (common.c:72),
\* provided that the table and the descriptors suffice for all of them, that no
\* user of cli.c types spaces alone, that no node that joins as a replica is
\* killed unless the server itself has a master, and that a read returns what
\* was sent.  Each is needed: on small instances TLC finds the server killed as
\* soon as one of them is dropped.
THEOREM ServerSurvivesPrograms ==
  ASSUME ~ Segmented, "spaces" \notin CliLines, EnoughRoom,
         HasMaster \/ Killable \intersect Replicas = {}
  PROVE  CSpec => []ServerSurvives
<1>. DEFINE I == (\A c \in Conns : Harmless(c)) /\ Fits /\ ServerSurvives
<1>1. CInit => I
  <2>. SUFFICES ASSUME CInit PROVE I
    OBVIOUS
  <2>1. \A c \in Conns : Harmless(c)
    BY DEF CInit, Init, Harmless, ToSet
  <2>2. IsFiniteSet(Taken) /\ Cardinality(Taken) \in Nat
    <3>1. Taken \subseteq Conns /\ IsFiniteSet(Conns)
      BY DEF Taken, EnoughRoom
    <3>. QED BY <3>1, FS_Subset, FS_CardinalityType
  <2>3. Fits
    <3>1. Len(table) = 0
      BY DEF CInit, Init
    <3>. QED BY <2>2, <3>1 DEF Fits
  <2>. QED BY <2>1, <2>3 DEF CInit, Init, ServerSurvives
<1>2. ProgramInv /\ I /\ [CNext]_cvars => I'
  <2>. SUFFICES ASSUME ProgramInv, I, [CNext]_cvars PROVE I'
    OBVIOUS
  <2>1. (\A c \in Conns : Harmless(c))' /\ Fits'
    BY HarmlessStep, FitsStep
  <2>2. CASE Serves
    BY <2>1, <2>2, NothingKills DEF ServerSurvives
  <2>3. CASE ~ Serves
    <3>1. pc' = pc
      BY <2>3, ProgramIsClient DEF CNext, Program, cvars, vars, Connect, Send, Leave
    <3>. QED BY <2>1, <3>1 DEF ServerSurvives
  <2>. QED BY <2>2, <2>3
<1>3. I => ServerSurvives
  OBVIOUS
<1>. HIDE DEF I
<1>. QED BY <1>1, <1>2, <1>3, ProgramInvariant, PTL DEF CSpec

=============================================================================
