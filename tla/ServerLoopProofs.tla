-------------------------- MODULE ServerLoopProofs --------------------------
(***************************************************************************)
(* Proofs about the server loop, for any set of connections and            *)
(* descriptors, any table and any bounds.  Inv is the shape of the state   *)
(* with the links between slots, descriptors and connections; on it stand  *)
(* what a connection has sent and been sent (Greeted), where unread text   *)
(* comes from (Sourced) and what select's result is still worth while the  *)
(* scan uses it (Reported).                                                *)
(***************************************************************************)
EXTENDS ServerLoop, SequenceTheorems, WellFoundedInduction, TLAPS

Slot == [fd : FDs \union {CLOSED}, type : {"unknown", "user", "repl"},
         state : {"handshake", "active"}]
\* What a stream is made of: newlines, and halves of messages.
Atom == {<<"nl">>} \union (Kinds \X (Nat \ {0}) \X {1, 2})

Answer == {<<"prompt">>, <<"init">>, <<"ERR">>} \union ({"answer"} \X Nat)

Shape ==
  /\ conn \in [Conns -> {"none", "queued", "open", "gone"}]
  /\ peer \in [Conns -> {"up", "closed", "reset", "broken"}]
  /\ sent \in [Conns -> Seq(Kinds)]
  /\ stream \in [Conns -> Seq(Atom)]
  /\ replies \in [Conns -> Seq(Answer)]
  /\ backlog \in Seq(Conns)
  /\ socket \in [FDs -> Conns \union {NONE}]
  /\ table \in Seq(Slot) /\ Len(table) <= MaxLen
  /\ pc \in {"select", "accept", "scan", "recv", "stopped", "killed"}
  /\ ready \subseteq FDs
  /\ cur \in 1 .. Len(table) + 1
  /\ pc = "recv" => cur \in OpenSlots
  /\ pc = "accept" => backlog # <<>>

\* The least element of a set of numbers.
LEMMA MinLeast ==
  ASSUME NEW S \in SUBSET Nat, S # {}
  PROVE  Min(S) \in S /\ \A y \in S : Min(S) <= y
<1>1. PICK x \in S : \A y \in S : <<y, x>> \notin OpToRel(<, Nat)
  BY NatLessThanWellFounded, WFMin
<1>2. \A y \in S : ~ (y < x)
  <2>1. \A y \in Nat : y < x => <<y, x>> \in OpToRel(<, Nat)
    BY DEF OpToRel
  <2>. QED BY <1>1, <2>1
<1>3. \A y \in S : x <= y
  BY <1>2
<1>. QED BY <1>3 DEF Min

\* It is one of them.
LEMMA MinFacts ==
  ASSUME NEW S \in SUBSET Nat, S # {}
  PROVE  Min(S) \in S
BY MinLeast

\* A slot that is due is open.
LEMMA DueOpen ==
  ASSUME Shape, NEW i \in Due
  PROVE  /\ i \in OpenSlots /\ i \in 1 .. Len(table) /\ cur <= i
         /\ table[i] \in Slot /\ table[i].fd \in FDs
<1>1. FDs \subseteq Nat \ {0} BY ServerAssumption
<1>2. table \in Seq(Slot) /\ ready \subseteq FDs /\ cur \in Nat BY DEF Shape
<1>3. i \in 1 .. Len(table) /\ cur <= i /\ table[i].fd \in FDs BY <1>2 DEF Due
<1>4. table[i] \in Slot BY <1>2, <1>3
<1>. QED BY <1>1, <1>2, <1>3, <1>4 DEF OpenSlots, CLOSED

\* A slot with a descriptor lies in the table.
LEMMA OpenFacts ==
  ASSUME Shape, NEW i \in OpenSlots
  PROVE  /\ i \in 1 .. Len(table) /\ i \in Nat /\ Len(table) \in Nat
         /\ table[i] \in Slot /\ table[i].fd \in FDs
<1>1. i \in 1 .. Len(table) /\ table[i] \in Slot /\ table[i].fd # CLOSED
      /\ Len(table) \in Nat
  BY DEF Shape, OpenSlots
<1>. QED BY <1>1 DEF Slot

\* A message begins with its first half, or with a newline.
LEMMA TextFacts ==
  ASSUME NEW c \in Conns, NEW k \in Kinds, NEW n \in Nat \ {0},
         k = "blank" => c \notin Bare
  PROVE  /\ Text(c, k, n) \in Seq(Atom)
         /\ Text(c, k, n) # <<>>
         /\ Text(c, k, n)[1] \in {<<k, n, 1>>, <<"nl">>}
<1>. DEFINE e == IF k \in {"join", "repl"} \/ c \in Bare THEN <<>> ELSE <<<<"nl">>>>
<1>1. Halves(k, n) \in Seq(Atom) /\ Len(Halves(k, n)) = 2 /\ Halves(k, n)[1] = <<k, n, 1>>
  BY DEF Halves, Atom
<1>2. <<<<"nl">>>> \in Seq(Atom) /\ Len(<<<<"nl">>>>) = 1
  BY DEF Atom
<1>3. e \in Seq(Atom)
  BY <1>2
<1>4. CASE k = "blank"
  BY <1>2, <1>4 DEF Text
<1>5. CASE k # "blank"
  <2>. DEFINE h == Halves(k, n)
  <2>1. Text(c, k, n) = h \o e
    BY <1>5 DEF Text
  <2>2. h \in Seq(Atom) /\ Len(h) = 2 /\ h[1] = <<k, n, 1>>
    BY <1>1
  <2>. HIDE DEF e, h
  <2>3. /\ h \o e \in Seq(Atom)
        /\ Len(h \o e) = Len(h) + Len(e) /\ Len(e) \in Nat
        /\ \A i \in 1 .. Len(h) + Len(e) :
             (h \o e)[i] = IF i <= Len(h) THEN h[i] ELSE e[i - Len(h)]
    BY <1>3, <2>2, ConcatProperties, LenProperties
  <2>4. (h \o e)[1] = <<k, n, 1>> /\ Len(h \o e) # 0
    BY <2>2, <2>3
  <2>5. h \o e # <<>>
    BY <2>3, <2>4
  <2>. QED BY <2>1, <2>3, <2>4, <2>5
<1>. QED BY <1>4, <1>5

\* What a read that is exactly a message began with.
LEMMA BufferFacts ==
  ASSUME NEW s \in Seq(Atom), NEW n \in 1 .. Len(s), NEW k, Is(Buffer(s, n), k)
  PROVE  \E m \in 1 .. MaxSent : s[1] = <<k, m, 1>>
<1>. DEFINE ends == {i \in 1 .. n : s[i] = <<"nl">>}
            last == IF ends = {} THEN n ELSE Min(ends) - 1
<1>1. last \in 0 .. Len(s)
  <2>1. ends \subseteq 1 .. n /\ ends \subseteq Nat
    OBVIOUS
  <2>2. ends # {} => Min(ends) \in 1 .. n
    BY <2>1, MinFacts
  <2>. HIDE DEF ends
  <2>3. Len(s) \in Nat /\ n \in 1 .. Len(s)
    OBVIOUS
  <2>. QED BY <2>2, <2>3
<1>2. PICK m \in 1 .. MaxSent : Buffer(s, n) = Halves(k, m)
  BY DEF Is
<1>3. Buffer(s, n) = SubSeq(s, 1, last)
  BY DEF Buffer
<1>. HIDE DEF last
<1>4. SubSeq(s, 1, last)[1] = <<k, m, 1>> /\ SubSeq(s, 1, last) # <<>>
  <2>1. Halves(k, m)[1] = <<k, m, 1>> /\ Halves(k, m) # <<>>
    BY DEF Halves
  <2>. QED BY <1>2, <1>3, <2>1
<1>5. last >= 1 => SubSeq(s, 1, last)[1] = s[1]
  BY <1>1
<1>6. last < 1 => SubSeq(s, 1, last) = <<>>
  BY <1>1
<1>7. SubSeq(s, 1, last)[1] = <<k, m, 1>> /\ last >= 1
  BY <1>1, <1>4, <1>6
<1>. QED BY <1>5, <1>7
\* Every request has an answer.
LEMMA AnswerFacts ==
  ASSUME NEW buf
  PROVE  AnswerTo(buf) \in Answer
<1>1. CASE \E k \in Kinds : Is(buf, k)
  <2>1. PICK k \in Kinds, m \in 1 .. MaxSent : buf = Halves(k, m)
    BY <1>1 DEF Is
  <2>2. buf[1][2] = m /\ m \in Nat
    BY <2>1 DEF Halves
  <2>. QED BY <1>1, <2>2 DEF AnswerTo, Answer
<1>2. CASE ~ \E k \in Kinds : Is(buf, k)
  BY <1>2 DEF AnswerTo, Answer
<1>. QED BY <1>1, <1>2

\* A slot whose descriptor the handshake has closed waits for select to fail.
StaleAt(i) ==
  HasMaster /\ \/ pc \in {"select", "stopped", "killed"}
               \/ pc \in {"scan", "recv"} /\ i < cur

Links ==
  /\ \A i, j \in OpenSlots : table[i].fd = table[j].fd => i = j
  /\ \A i \in OpenSlots : Conn(i) = NONE => StaleAt(i)
  /\ \A f \in FDs : socket[f] # NONE =>
       conn[socket[f]] = "open" /\ \E i \in OpenSlots : table[i].fd = f
  /\ \A f, g \in FDs : socket[f] = socket[g] /\ socket[f] # NONE => f = g
  /\ \A c \in Conns : conn[c] = "open" => \E f \in FDs : socket[f] = c

\* The backlog holds connections that nobody has accepted, each once.
Queue ==
  /\ \A m \in 1 .. Len(backlog) : conn[backlog[m]] = "queued"
  /\ \A m, n \in 1 .. Len(backlog) : backlog[m] = backlog[n] => m = n

Inv == Shape /\ Links /\ Queue

\* The slot that is served has a connection, which is open.
LEMMA ServedFacts ==
  ASSUME Inv, pc = "scan", NEW i \in Due
  PROVE  Conn(i) \in Conns /\ conn[Conn(i)] = "open"
<1>1. i \in OpenSlots /\ cur <= i /\ table[i].fd \in FDs /\ i \in Nat /\ cur \in Nat
  BY DueOpen DEF Inv, Shape
<1>2. Conn(i) # NONE
  BY <1>1 DEF Inv, Links, StaleAt
<1>3. socket[table[i].fd] \in Conns \union {NONE}
  BY <1>1 DEF Inv, Shape
<1>. QED BY <1>1, <1>2, <1>3 DEF Inv, Links, Conn

\* While the loop waits for a replica, its slot has an open connection.
LEMMA WaitingFacts ==
  ASSUME Inv, pc = "recv"
  PROVE  /\ cur \in OpenSlots /\ cur \in 1 .. Len(table) /\ table[cur].fd \in FDs
         /\ Conn(cur) \in Conns /\ conn[Conn(cur)] = "open"
<1>1. cur \in OpenSlots /\ cur \in 1 .. Len(table) /\ table[cur] \in Slot /\ cur \in Nat
  BY DEF Inv, Shape, OpenSlots
<1>2. table[cur].fd \in FDs
  BY <1>1 DEF Slot, OpenSlots
<1>3. ~ StaleAt(cur)
  BY <1>1 DEF StaleAt
<1>4. Conn(cur) # NONE
  BY <1>1, <1>3 DEF Inv, Links
<1>5. socket[table[cur].fd] \in Conns \union {NONE}
  BY <1>2 DEF Inv, Shape
<1>. QED BY <1>1, <1>2, <1>4, <1>5 DEF Inv, Links, Conn

-----------------------------------------------------------------------------
(* Shape is kept. *)

\* Reading leaves atoms.
LEMMA ConsumeShape ==
  ASSUME Shape, NEW c \in Conns, NEW n \in DOMAIN stream[c], Consume(c, n)
  PROVE  stream' \in [Conns -> Seq(Atom)]
<1>1. stream[c] \in Seq(Atom) /\ n \in Nat /\ Len(stream[c]) \in Nat
  BY DEF Shape
<1>2. SubSeq(stream[c], n + 1, Len(stream[c])) \in Seq(Atom)
  BY <1>1
<1>. QED BY <1>2 DEF Shape, Consume

\* Answering appends an answer, or finds the peer gone.
LEMMA ReplyShape ==
  ASSUME Shape, NEW c \in Conns, NEW r \in Answer, Reply(c, r)
  PROVE  /\ replies' \in [Conns -> Seq(Answer)]
         /\ peer' \in [Conns -> {"up", "closed", "reset", "broken"}]
<1>1. Append(replies[c], r) \in Seq(Answer)
  BY DEF Shape
<1>. QED BY <1>1 DEF Shape, Reply

\* CloseSlot keeps the table's length.
LEMMA CloseShape ==
  ASSUME Shape, NEW i \in OpenSlots, Conn(i) \in Conns, CloseSlot(i)
  PROVE  /\ table' \in Seq(Slot) /\ Len(table') = Len(table)
         /\ socket' \in [FDs -> Conns \union {NONE}]
         /\ conn' \in [Conns -> {"none", "queued", "open", "gone"}]
<1>1. table \in Seq(Slot) /\ i \in 1 .. Len(table) /\ table[i] \in Slot
  BY DEF Shape, OpenSlots
<1>2. [table[i] EXCEPT !.fd = CLOSED] \in Slot
  BY <1>1 DEF Slot
<1>3. table' = [table EXCEPT ![i] = [table[i] EXCEPT !.fd = CLOSED]]
  BY DEF CloseSlot
<1>4. table' \in Seq(Slot) /\ Len(table') = Len(table)
  BY <1>1, <1>2, <1>3, ExceptSeq
<1>. QED BY <1>4 DEF Shape, CloseSlot

\* Admitting a user or a replica keeps every descriptor in its slot.
LEMMA AdmitShape ==
  ASSUME Shape, NEW i \in OpenSlots, NEW t \in {"user", "repl"},
         table' = [table EXCEPT ![i].type = t, ![i].state = "active"]
  PROVE  /\ table' \in Seq(Slot) /\ Len(table') = Len(table)
         /\ \A j \in 1 .. Len(table) : table'[j].fd = table[j].fd
<1>1. table \in Seq(Slot) /\ i \in 1 .. Len(table) /\ table[i] \in Slot
  BY DEF Shape, OpenSlots
<1>2. [table[i] EXCEPT !.type = t, !.state = "active"] \in Slot
  BY <1>1 DEF Slot
<1>3. table' = [table EXCEPT ![i] = [table[i] EXCEPT !.type = t, !.state = "active"]]
  BY <1>1
<1>. QED BY SMTT(30), <1>1, <1>2, <1>3, ExceptSeq

\* Shape, through a read.
LEMMA HandleShape ==
  ASSUME Inv, pc = "scan", NEW i \in Due,
         NEW n \in DOMAIN stream[Conn(i)], NEW buf, Handle(i, n, buf)
  PROVE  Shape'
<1>. DEFINE c == Conn(i)
<1>1. /\ Shape /\ c \in Conns
      /\ i \in OpenSlots /\ i \in 1 .. Len(table) /\ Len(table) \in Nat
  BY ServedFacts, DueOpen DEF Inv, Shape
<1>2. /\ i + 1 \in 1 .. Len(table) + 1
      /\ <<"prompt">> \in Answer /\ <<"init">> \in Answer /\ AnswerTo(buf) \in Answer
  BY <1>1, AnswerFacts DEF Answer
<1>3. Serve(i, n) => /\ stream' \in [Conns -> Seq(Atom)]
                     /\ UNCHANGED <<sent, backlog, ready>>
  BY <1>1, ConsumeShape DEF Serve
<1>4. \A r \in Answer : Reply(c, r) =>
        /\ replies' \in [Conns -> Seq(Answer)]
        /\ peer' \in [Conns -> {"up", "closed", "reset", "broken"}]
  BY <1>1, ReplyShape
<1>5. CloseSlot(i) =>
         /\ table' \in Seq(Slot) /\ Len(table') = Len(table)
         /\ socket' \in [FDs -> Conns \union {NONE}]
         /\ conn' \in [Conns -> {"none", "queued", "open", "gone"}]
  BY <1>1, CloseShape
<1>6. \A t \in {"user", "repl"} :
        table' = [table EXCEPT ![i].type = t, ![i].state = "active"] =>
          /\ table' \in Seq(Slot) /\ Len(table') = Len(table)
          /\ table'[i].fd = table[i].fd
  BY <1>1, AdmitShape
<1>7. CASE JoinUser(i, n, buf)
  BY <1>1, <1>2, <1>3, <1>4, <1>6, <1>7 DEF JoinUser, Proceed, Shape
<1>8. CASE JoinReplica(i, n, buf)
  <2>1. i \in OpenSlots'
    BY <1>1, <1>6, <1>8 DEF JoinReplica, OpenSlots
  <2>. QED BY <1>1, <1>2, <1>3, <1>4, <1>6, <1>8, <2>1 DEF JoinReplica, Shape
<1>9. CASE Reject(i, n, buf)
  BY <1>1, <1>2, <1>3, <1>5, <1>9 DEF Reject, Silent, Proceed, Shape
<1>10. CASE Ignore(i, n, buf)
  BY <1>1, <1>2, <1>3, <1>10 DEF Ignore, KeepSlot, Silent, Proceed, Shape
<1>11. CASE Request(i, n, buf)
  BY <1>1, <1>2, <1>3, <1>4, <1>11 DEF Request, KeepSlot, Proceed, Shape
<1>12. CASE Exit(i, n, buf)
  BY <1>1, <1>2, <1>3, <1>4, <1>5, <1>12 DEF Exit, Proceed, Shape
<1>13. CASE Shutdown(i, n, buf)
  BY <1>1, <1>2, <1>3, <1>4, <1>13 DEF Shutdown, KeepSlot, Shape
<1>14. CASE NoToken(i, n, buf)
  BY <1>1, <1>14 DEF NoToken, Shape, client
<1>15. CASE SendKills(i, n, buf)
  BY <1>1, <1>15 DEF SendKills, Shape, client
<1>16. CASE InitNotSent(i, n, buf)
  <2>1. stream' \in [Conns -> Seq(Atom)]
    BY <1>1, <1>16, ConsumeShape DEF InitNotSent
  <2>2. HasMaster => /\ socket' \in [FDs -> Conns \union {NONE}]
                     /\ conn' \in [Conns -> {"none", "queued", "open", "gone"}]
    BY <1>1, <1>16 DEF InitNotSent, HandshakeFails, Shape
  <2>. QED BY <1>1, <1>2, <1>6, <1>16, <2>1, <2>2
           DEF InitNotSent, HandshakeFails, Proceed, Shape
<1>. QED BY <1>7, <1>8, <1>9, <1>10, <1>11, <1>12, <1>13, <1>14, <1>15, <1>16 DEF Handle

\* Shape, through any step.
LEMMA ShapeStep ==
  ASSUME Inv, [Next]_vars
  PROVE  Shape'
<1>1. Shape /\ Len(table) \in Nat
  BY DEF Inv, Shape
<1>2. CASE UNCHANGED vars
  BY <1>1, <1>2 DEF Shape, vars, client, OpenSlots
<1>3. ASSUME NEW c \in Conns, Connect(c) PROVE Shape'
  <2>1. Append(backlog, c) \in Seq(Conns) /\ Append(backlog, c) # <<>>
    <3>1. backlog \in Seq(Conns)
      BY <1>1 DEF Shape
    <3>2. /\ Append(backlog, c) \in Seq(Conns)
          /\ Len(Append(backlog, c)) = Len(backlog) + 1 /\ Len(backlog) \in Nat
      BY <3>1
    <3>3. Len(Append(backlog, c)) # 0
      BY <3>2
    <3>. QED BY <3>2, <3>3, EmptySeq
  <2>. QED BY <1>1, <1>3, <2>1 DEF Connect, Shape, OpenSlots
<1>4. ASSUME NEW c \in Conns, NEW k \in Kinds, Send(c, k) PROVE Shape'
  <2>1. Append(sent[c], k) \in Seq(Kinds) /\ Len(sent[c]) + 1 \in Nat \ {0}
    BY <1>1 DEF Shape
  <2>2. stream[c] \o Text(c, k, Len(sent[c]) + 1) \in Seq(Atom)
    BY <1>1, <1>4, <2>1, TextFacts, ConcatProperties DEF Send, Shape
  <2>. QED BY <1>1, <1>4, <2>1, <2>2 DEF Send, Shape, OpenSlots
<1>5. ASSUME NEW c \in Conns, NEW e \in Endings, Leave(c, e) PROVE Shape'
  <2>1. e \in {"closed", "reset"}
    BY ServerAssumption
  <2>. QED BY <1>1, <1>5, <2>1 DEF Leave, Shape, OpenSlots
<1>6. CASE Select
  <2>1. \A i \in OpenSlots : table[i].fd \in FDs
    BY <1>1, OpenFacts
  <2>2. ready' \subseteq FDs
    BY <1>6, <2>1 DEF Select
  <2>. QED BY <1>1, <1>6, <2>2 DEF Select, Shape, client
<1>7. CASE SelectFails
  BY <1>1, <1>7 DEF SelectFails, Shape, client
<1>8. CASE Accept
  <2>. DEFINE free == {f \in FDs : socket[f] = NONE}
              slot(f) == [fd |-> f, type |-> "unknown", state |-> "handshake"]
  <2>1. free # {} => Min(free) \in FDs
    BY ServerAssumption, MinFacts
  <2>2. \A f \in FDs \union {CLOSED} : slot(f) \in Slot
    BY DEF Slot
  <2>3. free = {} => UNCHANGED <<socket, conn, backlog>> /\ table' = Append(table, slot(CLOSED))
    BY <1>8 DEF Accept
  <2>4. free # {} => /\ table' = Append(table, slot(Min(free)))
                     /\ socket' = [socket EXCEPT ![Min(free)] = Head(backlog)]
                     /\ conn' = [conn EXCEPT ![Head(backlog)] = "open"]
                     /\ backlog' = Tail(backlog)
    BY <1>8 DEF Accept
  <2>5. MaxLen \in Nat /\ cur \in 1 .. Len(table) + 2
    BY <1>1, ServerAssumption DEF Shape
  <2>. HIDE DEF free, slot
  <2>6. \A f \in FDs \union {CLOSED} :
          Append(table, slot(f)) \in Seq(Slot) /\ Len(Append(table, slot(f))) = Len(table) + 1
    BY <1>1, <2>2 DEF Shape
  <2>7. table' \in Seq(Slot) /\ Len(table') <= MaxLen /\ cur \in 1 .. Len(table') + 1
    <3>1. CASE free = {}
      BY <1>1, <1>8, <2>3, <2>5, <2>6, <3>1 DEF Accept
    <3>2. CASE free # {}
      BY <1>1, <1>8, <2>1, <2>4, <2>5, <2>6, <3>2 DEF Accept
    <3>. QED BY <3>1, <3>2
  <2>8. /\ socket' \in [FDs -> Conns \union {NONE}]
        /\ conn' \in [Conns -> {"none", "queued", "open", "gone"}]
        /\ backlog' \in Seq(Conns)
    <3>1. CASE free = {}
      BY <1>1, <2>3, <3>1 DEF Shape
    <3>2. CASE free # {}
      <4>1. backlog # <<>> /\ Head(backlog) \in Conns /\ Tail(backlog) \in Seq(Conns)
        BY <1>1, <1>8 DEF Accept, Shape
      <4>2. PICK f, c : f = Min(free) /\ c = Head(backlog)
        OBVIOUS
      <4>3. c \in Conns /\ socket' = [socket EXCEPT ![f] = c] /\ conn' = [conn EXCEPT ![c] = "open"]
        BY <2>4, <3>2, <4>1, <4>2
      <4>4. socket \in [FDs -> Conns \union {NONE}]
            /\ conn \in [Conns -> {"none", "queued", "open", "gone"}]
        BY <1>1 DEF Shape
      <4>5. socket' \in [FDs -> Conns \union {NONE}]
        BY <4>3, <4>4
      <4>6. conn' \in [Conns -> {"none", "queued", "open", "gone"}]
        BY <4>3, <4>4
      <4>. QED BY <2>4, <3>2, <4>1, <4>5, <4>6
    <3>. QED BY <3>1, <3>2
  <2>. QED BY <1>1, <1>8, <2>7, <2>8 DEF Accept, Shape
<1>9. CASE AcceptBeyond
  BY <1>1, <1>9 DEF AcceptBeyond, Shape, client
<1>10. CASE ScanEnd
  BY <1>1, <1>10 DEF ScanEnd, Shape, client
<1>11. ASSUME NEW i \in Due, PeerGone(i) PROVE Shape'
  <2>1. /\ i \in OpenSlots /\ i \in 1 .. Len(table) /\ Conn(i) \in Conns
    BY <1>1, <1>11, ServedFacts, DueOpen DEF PeerGone
  <2>2. /\ table' \in Seq(Slot) /\ Len(table') = Len(table)
        /\ socket' \in [FDs -> Conns \union {NONE}]
        /\ conn' \in [Conns -> {"none", "queued", "open", "gone"}]
    BY <1>1, <1>11, <2>1, CloseShape DEF PeerGone
  <2>. QED BY <1>1, <1>11, <2>1, <2>2 DEF PeerGone, Silent, Proceed, Shape
<1>12. CASE ReplicaInfo
  <2>1. cur \in OpenSlots /\ cur \in 1 .. Len(table)
    BY <1>1, <1>12 DEF ReplicaInfo, Shape, OpenSlots
  <2>2. stream' \in [Conns -> Seq(Atom)]
    <3>1. Conn(cur) \in Conns
      BY <1>12, <2>1, WaitingFacts DEF ReplicaInfo
    <3>. QED BY <1>1, <1>12, <3>1, ConsumeShape DEF ReplicaInfo, ReadLengths, Shape
  <2>. QED BY <1>1, <1>12, <2>1, <2>2 DEF ReplicaInfo, Proceed, Shape
<1>13. CASE InfoNotReceived
  <2>1. cur \in OpenSlots /\ cur \in 1 .. Len(table)
    BY <1>1, <1>13 DEF InfoNotReceived, Shape, OpenSlots
  <2>2. HasMaster => /\ socket' \in [FDs -> Conns \union {NONE}]
                     /\ conn' \in [Conns -> {"none", "queued", "open", "gone"}]
    BY <1>1, <1>13 DEF InfoNotReceived, HandshakeFails, Shape
  <2>3. CASE HasMaster
    BY <1>1, <1>13, <2>1, <2>2, <2>3 DEF InfoNotReceived, HandshakeFails, Proceed, Shape
  <2>4. CASE ~ HasMaster
    BY <1>1, <1>13, <2>4 DEF InfoNotReceived, HandshakeFails, Shape
  <2>. QED BY <2>3, <2>4
<1>14. ASSUME NEW i \in Due, NEW n \in DOMAIN stream[Conn(i)], NEW buf, Handle(i, n, buf)
       PROVE Shape'
  <2>1. pc = "scan"
    BY <1>14 DEF Handle, JoinUser, JoinReplica, Reject, Ignore, Request, Exit,
                 Shutdown, NoToken, SendKills, InitNotSent, Reads
  <2>. QED BY <1>14, <2>1, HandleShape
<1>. QED
  BY <1>2, <1>3, <1>4, <1>5, <1>6, <1>7, <1>8, <1>9, <1>10, <1>11, <1>12, <1>13, <1>14
     DEF Next, Client, Server

-----------------------------------------------------------------------------
(* Links are kept. *)

\* A step that gives and takes no descriptor.
LEMMA LinksKept ==
  ASSUME Shape, Shape', Links, UNCHANGED socket, Len(table') = Len(table),
         \A i \in 1 .. Len(table) : table'[i].fd = table[i].fd,
         \A c \in Conns : conn[c] = "open" <=> conn'[c] = "open",
         \A i \in OpenSlots : Conn(i) = NONE => StaleAt(i)'
  PROVE  Links'
<1>0. /\ DOMAIN table = 1 .. Len(table) /\ Len(table) \in Nat
      /\ DOMAIN table' = 1 .. Len(table') /\ Len(table') \in Nat
  BY DEF Shape
<1>1. OpenSlots' = OpenSlots /\ \A i \in OpenSlots : table'[i].fd = table[i].fd
  BY <1>0 DEF OpenSlots
<1>2. \A i \in OpenSlots : Conn(i)' = Conn(i)
  BY <1>1 DEF Conn
<1>3. \A f \in FDs : socket[f] # NONE => socket[f] \in Conns
  BY DEF Shape
<1>. QED BY <1>1, <1>2, <1>3 DEF Links

\* close of the descriptor of slot i: also taken out of the slot, or left
\* there by the handshake.
LEMMA LinksClosed ==
  ASSUME Shape, Links, NEW i \in OpenSlots, Conn(i) # NONE,
         OpenSlots' \subseteq OpenSlots, OpenSlots \ {i} \subseteq OpenSlots',
         \A j \in OpenSlots' : table'[j].fd = table[j].fd,
         i \in OpenSlots' => StaleAt(i)',
         \A f \in FDs \ {table[i].fd} : socket'[f] = socket[f],
         socket'[table[i].fd] = NONE,
         \A c \in Conns \ {Conn(i)} : conn'[c] = conn[c],
         conn'[Conn(i)] = "gone",
         \A j \in OpenSlots : Conn(j) = NONE => StaleAt(j)'
  PROVE  Links'
<1>1. table[i].fd \in FDs /\ socket[table[i].fd] = Conn(i)
  BY OpenFacts DEF Conn
<1>2. \A f \in FDs \ {table[i].fd} : socket[f] # Conn(i)
  BY <1>1 DEF Links
<1>3. \A j \in OpenSlots : table[j].fd \in FDs /\ (table[j].fd = table[i].fd => j = i)
  BY OpenFacts DEF Links
<1>4. \A j, k \in OpenSlots' : table'[j].fd = table'[k].fd => j = k
  BY DEF Links
<1>5. \A j \in OpenSlots' : Conn(j)' = NONE => StaleAt(j)'
  BY <1>3 DEF Conn
<1>6. \A f \in FDs : socket'[f] # NONE =>
        conn'[socket'[f]] = "open" /\ \E j \in OpenSlots' : table'[j].fd = f
  <2>. SUFFICES ASSUME NEW f \in FDs, socket'[f] # NONE
                PROVE  conn'[socket'[f]] = "open" /\ \E j \in OpenSlots' : table'[j].fd = f
    OBVIOUS
  <2>1. f # table[i].fd /\ socket'[f] = socket[f] /\ socket[f] \in Conns \ {Conn(i)}
    BY <1>2 DEF Shape
  <2>2. conn[socket[f]] = "open"
    BY <2>1 DEF Links
  <2>3. PICK j \in OpenSlots : table[j].fd = f
    BY <2>1 DEF Links
  <2>4. j \in OpenSlots' /\ table'[j].fd = f
    BY <2>1, <2>3
  <2>. QED BY <2>1, <2>2, <2>4
<1>7. \A f, g \in FDs : socket'[f] = socket'[g] /\ socket'[f] # NONE => f = g
  BY DEF Links
<1>8. \A c \in Conns : conn'[c] = "open" => \E f \in FDs : socket'[f] = c
  <2>. SUFFICES ASSUME NEW c \in Conns, conn'[c] = "open"
                PROVE  \E f \in FDs : socket'[f] = c
    OBVIOUS
  <2>1. c # Conn(i) /\ conn[c] = "open"
    OBVIOUS
  <2>2. PICK f \in FDs : socket[f] = c
    BY <2>1 DEF Links
  <2>. QED BY <1>1, <2>1, <2>2
<1>. QED BY <1>4, <1>5, <1>6, <1>7, <1>8 DEF Links

\* accept, for the next connection and a free descriptor.
LEMMA LinksAccept ==
  ASSUME Shape, Links, \A i \in OpenSlots : Conn(i) # NONE,
         NEW f \in FDs, socket[f] = NONE,
         NEW c \in Conns, conn[c] = "queued", c # NONE,
         NEW e, e \notin OpenSlots, OpenSlots' = OpenSlots \union {e},
         table'[e].fd = f, \A i \in OpenSlots : table'[i].fd = table[i].fd,
         socket'[f] = c, \A g \in FDs \ {f} : socket'[g] = socket[g],
         conn'[c] = "open", \A d \in Conns \ {c} : conn'[d] = conn[d]
  PROVE  Links'
<1>1. \A i \in OpenSlots : table[i].fd \in FDs \ {f}
  BY OpenFacts DEF Conn
<1>2. \A g \in FDs : socket[g] # c
  BY DEF Links
<1>3. \A i, j \in OpenSlots' : table'[i].fd = table'[j].fd => i = j
  BY <1>1 DEF Links
<1>4. \A i \in OpenSlots' : Conn(i)' # NONE
  BY <1>1 DEF Conn
<1>5. \A g \in FDs : socket'[g] # NONE =>
        conn'[socket'[g]] = "open" /\ \E i \in OpenSlots' : table'[i].fd = g
  <2>. SUFFICES ASSUME NEW g \in FDs \ {f}, socket'[g] # NONE
                PROVE  conn'[socket'[g]] = "open" /\ \E i \in OpenSlots' : table'[i].fd = g
    OBVIOUS
  <2>1. socket'[g] = socket[g] /\ socket[g] \in Conns \ {c}
    BY <1>2 DEF Shape
  <2>. QED BY <2>1 DEF Links
<1>6. \A g, h \in FDs : socket'[g] = socket'[h] /\ socket'[g] # NONE => g = h
  BY <1>2 DEF Links
<1>7. \A d \in Conns : conn'[d] = "open" => \E g \in FDs : socket'[g] = d
  BY ServerAssumption DEF Links
<1>. QED BY <1>3, <1>4, <1>5, <1>6, <1>7 DEF Links

\* What CloseSlot does, and what admitting a user or a replica does.
LEMMA CloseEffect ==
  ASSUME Shape, NEW i \in OpenSlots, Conn(i) \in Conns, CloseSlot(i)
  PROVE  /\ OpenSlots' = OpenSlots \ {i}
         /\ \A j \in OpenSlots' : table'[j] = table[j]
         /\ \A f \in FDs \ {table[i].fd} : socket'[f] = socket[f]
         /\ socket'[table[i].fd] = NONE
         /\ \A c \in Conns \ {Conn(i)} : conn'[c] = conn[c]
         /\ conn'[Conn(i)] = "gone"
<1>1. /\ table' \in Seq(Slot) /\ Len(table') = Len(table)
      /\ i \in 1 .. Len(table) /\ table[i] \in Slot /\ table[i].fd \in FDs
  BY CloseShape, OpenFacts
<1>2. DOMAIN table = 1 .. Len(table) /\ DOMAIN table' = 1 .. Len(table)
  BY <1>1 DEF Shape
<1>3. /\ table'[i].fd = CLOSED
      /\ \A j \in 1 .. Len(table) : j # i => table'[j] = table[j]
  BY <1>1, <1>2 DEF CloseSlot, Slot
<1>4. OpenSlots' = OpenSlots \ {i} /\ \A j \in OpenSlots' : table'[j] = table[j]
  BY <1>2, <1>3 DEF OpenSlots
<1>. QED BY <1>1, <1>4 DEF Shape, CloseSlot

\* Admitting slot i changes no other slot.
LEMMA AdmitEffect ==
  ASSUME Shape, NEW i \in OpenSlots, NEW t \in {"user", "repl"},
         table' = [table EXCEPT ![i].type = t, ![i].state = "active"]
  PROVE  /\ OpenSlots' = OpenSlots
         /\ \A j \in OpenSlots : table'[j].fd = table[j].fd
         /\ \A j \in OpenSlots \ {i} : table'[j] = table[j]
         /\ table'[i].type = t /\ table'[i].state = "active"
<1>1. /\ table' \in Seq(Slot) /\ Len(table') = Len(table)
      /\ i \in 1 .. Len(table) /\ table[i] \in Slot
      /\ \A j \in 1 .. Len(table) : table'[j].fd = table[j].fd
  BY AdmitShape, OpenFacts
<1>2. DOMAIN table = 1 .. Len(table) /\ DOMAIN table' = 1 .. Len(table)
  BY <1>1 DEF Shape
<1>3. /\ table'[i].type = t /\ table'[i].state = "active"
      /\ \A j \in 1 .. Len(table) : j # i => table'[j] = table[j]
  BY <1>1, <1>2 DEF Slot
<1>. QED BY <1>1, <1>2, <1>3 DEF OpenSlots

\* Slots left with a closed descriptor stay behind the scan.
LEMMA StaleBehind ==
  ASSUME Inv, pc = "scan", NEW i \in Due,
         \/ pc' = "scan" /\ cur' = i + 1
         \/ pc' = "recv" /\ cur' = i
         \/ pc' \in {"stopped", "killed"}
  PROVE  \A j \in OpenSlots : Conn(j) = NONE => StaleAt(j)'
<1>1. cur <= i /\ i \in Nat /\ cur \in Nat
  BY DueOpen DEF Inv, Shape
<1>2. \A j \in OpenSlots : j \in Nat /\ (Conn(j) = NONE => HasMaster /\ j < cur)
  BY OpenFacts DEF Inv, Links, StaleAt
<1>. QED BY <1>1, <1>2 DEF StaleAt

\* The handshake's close, which leaves the descriptor in slot i.
LEMMA LeftOpen ==
  ASSUME Shape, Links, HasMaster, NEW i \in OpenSlots, Conn(i) \in Conns,
         OpenSlots' = OpenSlots, \A j \in OpenSlots : table'[j].fd = table[j].fd,
         socket' = [socket EXCEPT ![table[i].fd] = NONE],
         conn' = [conn EXCEPT ![Conn(i)] = "gone"],
         pc' = "scan", cur' = i + 1,
         \A j \in OpenSlots : Conn(j) = NONE => StaleAt(j)'
  PROVE  Links'
<1>1. table[i].fd \in FDs /\ i \in Nat /\ Conn(i) # NONE
  BY OpenFacts, ServerAssumption
<1>2. /\ \A f \in FDs \ {table[i].fd} : socket'[f] = socket[f]
      /\ socket'[table[i].fd] = NONE
  BY <1>1 DEF Shape
<1>3. /\ \A c \in Conns \ {Conn(i)} : conn'[c] = conn[c]
      /\ conn'[Conn(i)] = "gone"
  BY DEF Shape
<1>4. StaleAt(i)'
  BY <1>1 DEF StaleAt
<1>. QED BY <1>1, <1>2, <1>3, <1>4, LinksClosed

\* Links, through a read.
LEMMA HandleLinks ==
  ASSUME Inv, Shape', pc = "scan", NEW i \in Due,
         NEW n \in DOMAIN stream[Conn(i)], NEW buf, Handle(i, n, buf)
  PROVE  Links'
<1>1. /\ Shape /\ Links /\ Conn(i) \in Conns /\ Conn(i) # NONE
      /\ i \in OpenSlots /\ i \in Nat
  BY ServedFacts, DueOpen, ServerAssumption DEF Inv
<1>2. (\/ pc' = "scan" /\ cur' = i + 1
       \/ pc' = "recv" /\ cur' = i
       \/ pc' \in {"stopped", "killed"})
        => \A j \in OpenSlots : Conn(j) = NONE => StaleAt(j)'
  BY StaleBehind
<1>3. ASSUME CloseSlot(i), Proceed(i) PROVE Links'
  BY <1>1, <1>2, <1>3, CloseEffect, LinksClosed DEF Proceed
<1>4. ASSUME NEW t \in {"user", "repl"}, UNCHANGED <<socket, conn>>,
             table' = [table EXCEPT ![i].type = t, ![i].state = "active"],
             \/ Proceed(i)
             \/ pc' = "recv" /\ cur' = i
             \/ pc' \in {"stopped", "killed"}
      PROVE  Links'
  <2>1. Len(table') = Len(table) /\ \A j \in 1 .. Len(table) : table'[j].fd = table[j].fd
    BY <1>1, <1>4, AdmitShape
  <2>2. \A j \in OpenSlots : Conn(j) = NONE => StaleAt(j)'
    BY <1>2, <1>4 DEF Proceed
  <2>. QED BY <1>1, <1>4, <2>1, <2>2, LinksKept
<1>5. ASSUME UNCHANGED <<table, socket, conn>>,
             Proceed(i) \/ pc' \in {"stopped", "killed"}
      PROVE  Links'
  <2>2. \A j \in OpenSlots : Conn(j) = NONE => StaleAt(j)'
    BY <1>2, <1>5 DEF Proceed
  <2>. QED BY <1>1, <1>5, <2>2, LinksKept
<1>7. CASE JoinUser(i, n, buf)
  BY <1>4, <1>7 DEF JoinUser
<1>8. CASE JoinReplica(i, n, buf)
  BY <1>4, <1>8 DEF JoinReplica
<1>9. CASE Reject(i, n, buf)
  BY <1>3, <1>9 DEF Reject
<1>10. CASE Ignore(i, n, buf)
  BY <1>5, <1>10 DEF Ignore, KeepSlot
<1>11. CASE Request(i, n, buf)
  BY <1>5, <1>11 DEF Request, KeepSlot
<1>12. CASE Exit(i, n, buf)
  BY <1>3, <1>12 DEF Exit
<1>13. CASE Shutdown(i, n, buf)
  BY <1>5, <1>13 DEF Shutdown, KeepSlot
<1>14. CASE NoToken(i, n, buf)
  BY <1>5, <1>14 DEF NoToken, client
<1>15. CASE SendKills(i, n, buf)
  BY <1>5, <1>15 DEF SendKills, client
<1>16. CASE InitNotSent(i, n, buf)
  <2>1. CASE ~ HasMaster
    BY <1>4, <1>16, <2>1 DEF InitNotSent, HandshakeFails
  <2>2. CASE HasMaster
    <3>1. /\ socket' = [socket EXCEPT ![table[i].fd] = NONE]
          /\ conn' = [conn EXCEPT ![Conn(i)] = "gone"]
          /\ table' = [table EXCEPT ![i].type = "repl", ![i].state = "active"]
          /\ pc' = "scan" /\ cur' = i + 1
      BY <1>16, <2>2 DEF InitNotSent, HandshakeFails, Proceed
    <3>2. /\ OpenSlots' = OpenSlots
          /\ \A j \in OpenSlots : table'[j].fd = table[j].fd
      BY <1>1, <3>1, AdmitEffect
    <3>. QED BY <1>1, <1>2, <2>2, <3>1, <3>2, LeftOpen
  <2>. QED BY <2>1, <2>2
<1>. QED BY <1>7, <1>8, <1>9, <1>10, <1>11, <1>12, <1>13, <1>14, <1>15, <1>16 DEF Handle

\* The parts of Server, as cases.
LEMMA ServerCases ==
  ASSUME Server
  PROVE  \/ Select \/ SelectFails \/ Accept \/ AcceptBeyond \/ ScanEnd
         \/ \E i \in Due : PeerGone(i)
         \/ \E i \in Due : \E n \in DOMAIN stream[Conn(i)] :
               pc = "scan" /\ Handle(i, n, Buffer(stream[Conn(i)], n))
         \/ ReplicaInfo \/ InfoNotReceived
<1>1. ASSUME NEW i \in Due, NEW n, NEW buf, Handle(i, n, buf) PROVE pc = "scan"
  <2>1. Reads(i, n, buf)
    BY <1>1 DEF Handle, JoinUser, JoinReplica, Reject, Ignore, Request, Exit,
                Shutdown, NoToken, SendKills, InitNotSent
  <2>. QED BY <2>1 DEF Reads
<1>2. CASE \E i \in Due : \E n \in DOMAIN stream[Conn(i)] :
             Handle(i, n, Buffer(stream[Conn(i)], n))
  BY <1>1, <1>2
<1>. QED BY <1>2 DEF Server

\* Accept with a free descriptor, and without.
LEMMA AcceptEffect ==
  ASSUME Inv, Accept
  PROVE  \/ /\ UNCHANGED <<socket, conn, backlog>>
            /\ OpenSlots' = OpenSlots
            /\ \A i \in OpenSlots : table'[i] = table[i]
         \/ \E f \in FDs :
              /\ socket[f] = NONE
              /\ conn[Head(backlog)] = "queued" /\ Head(backlog) \in Conns
              /\ backlog' = Tail(backlog)
              /\ socket' = [socket EXCEPT ![f] = Head(backlog)]
              /\ conn' = [conn EXCEPT ![Head(backlog)] = "open"]
              /\ Len(table) + 1 \notin OpenSlots
              /\ OpenSlots' = OpenSlots \union {Len(table) + 1}
              /\ table'[Len(table) + 1] =
                   [fd |-> f, type |-> "unknown", state |-> "handshake"]
              /\ \A i \in OpenSlots : table'[i] = table[i]
<1>. DEFINE free == {f \in FDs : socket[f] = NONE}
            slot(f) == [fd |-> f, type |-> "unknown", state |-> "handshake"]
<1>1. \A f \in FDs : slot(f) \in Slot /\ slot(f).fd = f /\ f # CLOSED
  BY ServerAssumption DEF Slot, CLOSED
<1>2. slot(CLOSED) \in Slot /\ slot(CLOSED).fd = CLOSED
  BY DEF Slot
<1>3. free = {} => UNCHANGED <<socket, conn, backlog>> /\ table' = Append(table, slot(CLOSED))
  BY DEF Accept
<1>4. free # {} => /\ table' = Append(table, slot(Min(free)))
                   /\ socket' = [socket EXCEPT ![Min(free)] = Head(backlog)]
                   /\ conn' = [conn EXCEPT ![Head(backlog)] = "open"]
                   /\ backlog' = Tail(backlog)
  BY DEF Accept
<1>5. free # {} => Min(free) \in FDs /\ socket[Min(free)] = NONE
  BY ServerAssumption, MinFacts
<1>6. table \in Seq(Slot)
  BY DEF Inv, Shape
<1>. HIDE DEF slot, free
<1>7. ASSUME NEW x \in Slot, table' = Append(table, x)
      PROVE  /\ DOMAIN table = 1 .. Len(table) /\ Len(table) \in Nat
             /\ DOMAIN table' = 1 .. Len(table) + 1
             /\ table'[Len(table) + 1] = x
             /\ \A i \in 1 .. Len(table) : table'[i] = table[i]
  BY <1>6, <1>7
<1>8. CASE free = {}
  <2>1. /\ DOMAIN table = 1 .. Len(table) /\ Len(table) \in Nat
        /\ DOMAIN table' = 1 .. Len(table) + 1
        /\ table'[Len(table) + 1].fd = CLOSED
        /\ \A i \in 1 .. Len(table) : table'[i] = table[i]
    BY <1>2, <1>3, <1>7, <1>8
  <2>2. OpenSlots' = OpenSlots /\ \A i \in OpenSlots : table'[i] = table[i]
    BY <2>1 DEF OpenSlots
  <2>. QED BY <1>3, <1>8, <2>2
<1>9. CASE free # {}
  <2>. DEFINE f == Min(free)
  <2>1. /\ f \in FDs /\ socket[f] = NONE /\ f # CLOSED
        /\ table' = Append(table, slot(f)) /\ slot(f) \in Slot /\ slot(f).fd = f
    BY <1>1, <1>4, <1>5, <1>9
  <2>2. /\ DOMAIN table = 1 .. Len(table) /\ Len(table) \in Nat
        /\ DOMAIN table' = 1 .. Len(table) + 1
        /\ table'[Len(table) + 1] = slot(f)
        /\ \A i \in 1 .. Len(table) : table'[i] = table[i]
    BY <1>7, <2>1
  <2>. HIDE DEF f
  <2>3. /\ Len(table) + 1 \notin OpenSlots
        /\ OpenSlots' = OpenSlots \union {Len(table) + 1}
        /\ \A i \in OpenSlots : table'[i] = table[i]
    BY <2>1, <2>2 DEF OpenSlots
  <2>4. Head(backlog) \in Conns /\ conn[Head(backlog)] = "queued"
    <3>1. backlog \in Seq(Conns) /\ backlog # <<>>
      BY DEF Accept, Inv, Shape
    <3>2. 1 \in 1 .. Len(backlog) /\ Head(backlog) = backlog[1] /\ backlog[1] \in Conns
      BY <3>1
    <3>. QED BY <3>2 DEF Inv, Queue
  <2>5. /\ socket' = [socket EXCEPT ![f] = Head(backlog)]
        /\ conn' = [conn EXCEPT ![Head(backlog)] = "open"]
        /\ backlog' = Tail(backlog)
    BY <1>4, <1>9 DEF f
  <2>6. table'[Len(table) + 1] = [fd |-> f, type |-> "unknown", state |-> "handshake"]
    BY <2>2 DEF slot
  <2>. QED BY <2>1, <2>3, <2>4, <2>5, <2>6
<1>. QED BY <1>8, <1>9

\* Links, through any step.
LEMMA LinksStep ==
  ASSUME Inv, Shape', [Next]_vars
  PROVE  Links'
<1>1. Shape /\ Links /\ Len(table) \in Nat /\ NONE \notin Conns
  <2>1. NONE \notin Conns
    BY ServerAssumption
  <2>2. Shape /\ Links
    BY DEF Inv
  <2>3. table \in Seq(Slot)
    BY <2>2 DEF Shape
  <2>4. Len(table) \in Nat
    BY <2>3
  <2>. QED BY <2>1, <2>2, <2>4
<1>2. ASSUME UNCHANGED <<table, socket>>,
             \A c \in Conns : conn[c] = "open" <=> conn'[c] = "open",
             \A i \in OpenSlots : Conn(i) = NONE => StaleAt(i)'
      PROVE  Links'
  BY <1>1, <1>2, LinksKept
<1>3. CASE UNCHANGED vars
  BY <1>1, <1>2, <1>3 DEF vars, client, Links, StaleAt
<1>4. ASSUME NEW c \in Conns, Connect(c) PROVE Links'
  BY <1>1, <1>2, <1>4 DEF Connect, Links, StaleAt, Shape
<1>5. ASSUME NEW c \in Conns, NEW k \in Kinds, Send(c, k) PROVE Links'
  BY <1>1, <1>2, <1>5 DEF Send, Links, StaleAt
<1>6. ASSUME NEW c \in Conns, NEW e \in Endings, Leave(c, e) PROVE Links'
  BY <1>1, <1>2, <1>6 DEF Leave, Links, StaleAt
<1>7. CASE Select
  BY <1>2, <1>7 DEF Select, Stale, client
<1>8. CASE SelectFails
  BY <1>1, <1>2, <1>8 DEF SelectFails, Links, StaleAt, client
<1>9. CASE Accept
  <2>1. \A i \in OpenSlots : Conn(i) # NONE
    BY <1>1, <1>9 DEF Accept, Links, StaleAt
  <2>2. CASE /\ UNCHANGED <<socket, conn>> /\ OpenSlots' = OpenSlots
             /\ \A i \in OpenSlots : table'[i] = table[i]
    <3>1. \A i \in OpenSlots : Conn(i)' = Conn(i)
      BY <2>2 DEF Conn
    <3>2. \A f \in FDs : socket[f] # NONE => socket[f] \in Conns
      BY <1>1 DEF Shape
    <3>. QED BY <1>1, <2>1, <2>2, <3>1, <3>2 DEF Links
  <2>3. ASSUME NEW f \in FDs,
               socket[f] = NONE, conn[Head(backlog)] = "queued", Head(backlog) \in Conns,
               socket' = [socket EXCEPT ![f] = Head(backlog)],
               conn' = [conn EXCEPT ![Head(backlog)] = "open"],
               Len(table) + 1 \notin OpenSlots,
               OpenSlots' = OpenSlots \union {Len(table) + 1},
               table'[Len(table) + 1] =
                 [fd |-> f, type |-> "unknown", state |-> "handshake"],
               \A i \in OpenSlots : table'[i] = table[i]
        PROVE  Links'
    <3>1. socket'[f] = Head(backlog) /\ \A g \in FDs \ {f} : socket'[g] = socket[g]
      BY <1>1, <2>3 DEF Shape
    <3>2. /\ conn'[Head(backlog)] = "open"
          /\ \A d \in Conns \ {Head(backlog)} : conn'[d] = conn[d]
      BY <1>1, <2>3 DEF Shape
    <3>3. table'[Len(table) + 1].fd = f /\ \A i \in OpenSlots : table'[i].fd = table[i].fd
      BY <2>3
    <3>. QED BY <1>1, <2>1, <2>3, <3>1, <3>2, <3>3, LinksAccept
  <2>. QED BY <1>9, <2>2, <2>3, AcceptEffect
<1>10. CASE AcceptBeyond
  BY <1>1, <1>2, <1>10 DEF AcceptBeyond, Links, StaleAt, client
<1>11. CASE ScanEnd
  BY <1>1, <1>2, <1>11 DEF ScanEnd, Links, StaleAt, client
<1>12. ASSUME NEW i \in Due, PeerGone(i) PROVE Links'
  <2>1. pc = "scan" /\ CloseSlot(i) /\ pc' = "scan" /\ cur' = i + 1
    BY <1>12 DEF PeerGone, Proceed
  <2>2. i \in OpenSlots /\ Conn(i) \in Conns /\ Conn(i) # NONE
    BY <1>1, <2>1, ServedFacts, DueOpen
  <2>3. \A j \in OpenSlots : Conn(j) = NONE => StaleAt(j)'
    BY <2>1, StaleBehind
  <2>. QED BY <1>1, <2>1, <2>2, <2>3, CloseEffect, LinksClosed
<1>13. CASE ReplicaInfo
  <2>1. \A i \in OpenSlots : Conn(i) = NONE => StaleAt(i)'
    BY <1>1, <1>13, WaitingFacts, OpenFacts DEF ReplicaInfo, Proceed, Links, StaleAt
  <2>. QED BY <1>2, <1>13, <2>1 DEF ReplicaInfo
<1>14. CASE InfoNotReceived
  <2>1. CASE HasMaster
    <3>1. \A i \in OpenSlots : Conn(i) = NONE => StaleAt(i)'
      BY <1>1, <1>14, <2>1, WaitingFacts, OpenFacts
         DEF InfoNotReceived, HandshakeFails, Proceed, Links, StaleAt
    <3>2. /\ socket' = [socket EXCEPT ![table[cur].fd] = NONE]
          /\ conn' = [conn EXCEPT ![Conn(cur)] = "gone"]
          /\ pc' = "scan" /\ cur' = cur + 1 /\ pc = "recv" /\ table' = table
      BY <1>14, <2>1 DEF InfoNotReceived, HandshakeFails, Proceed
    <3>3. OpenSlots' = OpenSlots /\ \A j \in OpenSlots : table'[j].fd = table[j].fd
      BY <3>2 DEF OpenSlots
    <3>. QED BY <1>1, <2>1, <3>1, <3>2, <3>3, WaitingFacts, LeftOpen
  <2>2. CASE ~ HasMaster
    BY <1>1, <1>2, <1>14, <2>2 DEF InfoNotReceived, HandshakeFails, Links, StaleAt
  <2>. QED BY <2>1, <2>2
<1>15. ASSUME NEW i \in Due, NEW n \in DOMAIN stream[Conn(i)], NEW buf,
              pc = "scan", Handle(i, n, buf)
       PROVE  Links'
  BY <1>15, HandleLinks
<1>. QED
  BY <1>3, <1>4, <1>5, <1>6, <1>7, <1>8, <1>9, <1>10, <1>11, <1>12, <1>13, <1>14, <1>15,
     ServerCases DEF Next, Client

-----------------------------------------------------------------------------
(* Queue is kept. *)

\* The queue, when no connection leaves it.
LEMMA QueueKept ==
  ASSUME Queue, backlog \in Seq(Conns), backlog' = backlog,
         \A c \in Conns : conn[c] = "queued" => conn'[c] = "queued"
  PROVE  Queue'
<1>1. \A m \in 1 .. Len(backlog) : backlog[m] \in Conns
  OBVIOUS
<1>. QED BY <1>1 DEF Queue

\* Queue, through a read, which is of an open connection.
LEMMA HandleQueue ==
  ASSUME Inv, pc = "scan", NEW i \in Due,
         NEW n \in DOMAIN stream[Conn(i)], NEW buf, Handle(i, n, buf)
  PROVE  Queue'
<1>1. Conn(i) \in Conns /\ conn[Conn(i)] = "open" /\ Queue
      /\ backlog \in Seq(Conns) /\ conn \in [Conns -> {"none", "queued", "open", "gone"}]
  BY ServedFacts DEF Inv, Shape
<1>2. backlog' = backlog
  BY DEF Handle, JoinUser, JoinReplica, Reject, Ignore, Request, Exit, Shutdown,
         NoToken, SendKills, InitNotSent, HandshakeFails, Serve, client
<1>3. \/ conn' = conn
      \/ conn' = [conn EXCEPT ![Conn(i)] = "gone"]
  BY DEF Handle, JoinUser, JoinReplica, Reject, Ignore, Request, Exit, Shutdown,
         NoToken, SendKills, InitNotSent, HandshakeFails, CloseSlot, KeepSlot, client
<1>4. \A c \in Conns : conn[c] = "queued" => conn'[c] = "queued"
  BY <1>1, <1>3
<1>. QED BY <1>1, <1>2, <1>4, QueueKept

\* Queue, through any step.
LEMMA QueueStep ==
  ASSUME Inv, [Next]_vars
  PROVE  Queue'
<1>1. /\ Queue /\ backlog \in Seq(Conns)
      /\ conn \in [Conns -> {"none", "queued", "open", "gone"}]
  BY DEF Inv, Shape
<1>2. ASSUME UNCHANGED <<backlog, conn>> PROVE Queue'
  BY <1>1, <1>2, QueueKept
<1>3. CASE UNCHANGED vars
  BY <1>2, <1>3 DEF vars, client
<1>4. ASSUME NEW c \in Conns, Connect(c) PROVE Queue'
  <2>1. /\ conn[c] = "none" /\ conn'[c] = "queued"
        /\ \A d \in Conns \ {c} : conn'[d] = conn[d]
        /\ backlog' = Append(backlog, c)
    BY <1>1, <1>4 DEF Connect
  <2>2. /\ Len(backlog') = Len(backlog) + 1 /\ Len(backlog) \in Nat
        /\ backlog'[Len(backlog) + 1] = c
        /\ \A m \in 1 .. Len(backlog) : backlog'[m] = backlog[m] /\ backlog[m] \in Conns
    BY <1>1, <2>1
  <2>3. \A m \in 1 .. Len(backlog) : conn[backlog[m]] = "queued" /\ backlog[m] # c
    BY <1>1, <2>1 DEF Queue
  <2>4. \A m, n \in 1 .. Len(backlog) : backlog[m] = backlog[n] => m = n
    BY <1>1 DEF Queue
  <2>. QED BY <2>1, <2>2, <2>3, <2>4 DEF Queue
<1>5. ASSUME NEW c \in Conns, NEW k \in Kinds, Send(c, k) PROVE Queue'
  BY <1>2, <1>5 DEF Send
<1>6. ASSUME NEW c \in Conns, NEW e \in Endings, Leave(c, e) PROVE Queue'
  BY <1>2, <1>6 DEF Leave
<1>7. CASE Select \/ SelectFails \/ AcceptBeyond \/ ScanEnd \/ ReplicaInfo
  BY <1>2, <1>7 DEF Select, SelectFails, AcceptBeyond, ScanEnd, ReplicaInfo, client
<1>8. CASE Accept
  <2>1. CASE UNCHANGED <<socket, conn, backlog>>
    BY <1>2, <2>1
  <2>2. CASE /\ backlog' = Tail(backlog) /\ Head(backlog) \in Conns
             /\ conn' = [conn EXCEPT ![Head(backlog)] = "open"]
    <3>1. backlog # <<>>
      BY <1>8 DEF Accept, Inv, Shape
    <3>2. /\ Len(backlog) \in Nat \ {0} /\ Head(backlog) = backlog[1]
          /\ Len(backlog') = Len(backlog) - 1
          /\ \A m \in 1 .. Len(backlog) - 1 : backlog'[m] = backlog[m + 1]
          /\ \A m \in 1 .. Len(backlog) : backlog[m] \in Conns
      BY <1>1, <2>2, <3>1
    <3>3. \A d \in Conns \ {Head(backlog)} : conn'[d] = conn[d]
      BY <1>1, <2>2
    <3>4. \A m \in 1 .. Len(backlog) - 1 : m + 1 \in 1 .. Len(backlog) /\ m + 1 # 1
      BY <3>2
    <3>5. \A m \in 1 .. Len(backlog) - 1 :
             backlog[m + 1] # Head(backlog) /\ conn[backlog[m + 1]] = "queued"
      BY <1>1, <3>2, <3>4 DEF Queue
    <3>6. \A m \in 1 .. Len(backlog') : conn'[backlog'[m]] = "queued"
      BY <3>2, <3>3, <3>4, <3>5
    <3>7. \A m, n \in 1 .. Len(backlog') : backlog'[m] = backlog'[n] => m = n
      BY <1>1, <3>2, <3>4 DEF Queue
    <3>. QED BY <3>6, <3>7 DEF Queue
  <2>. QED BY <1>8, <2>1, <2>2, AcceptEffect
<1>9. ASSUME NEW i \in Due, PeerGone(i) PROVE Queue'
  <2>1. pc = "scan" /\ CloseSlot(i) /\ backlog' = backlog
    BY <1>9 DEF PeerGone
  <2>2. Conn(i) \in Conns /\ conn[Conn(i)] = "open"
    BY <2>1, ServedFacts
  <2>3. \A c \in Conns : conn[c] = "queued" => conn'[c] = "queued"
    BY <1>1, <2>1, <2>2 DEF CloseSlot
  <2>. QED BY <1>1, <2>1, <2>3, QueueKept
<1>10. CASE InfoNotReceived
  <2>1. pc = "recv" /\ backlog' = backlog
        /\ (conn' = conn \/ conn' = [conn EXCEPT ![Conn(cur)] = "gone"])
    BY <1>10 DEF InfoNotReceived, HandshakeFails
  <2>2. Conn(cur) \in Conns /\ conn[Conn(cur)] = "open"
    BY <2>1, WaitingFacts
  <2>3. \A c \in Conns : conn[c] = "queued" => conn'[c] = "queued"
    BY <1>1, <2>1, <2>2
  <2>. QED BY <1>1, <2>1, <2>3, QueueKept
<1>11. ASSUME NEW i \in Due, NEW n \in DOMAIN stream[Conn(i)], NEW buf,
              pc = "scan", Handle(i, n, buf)
       PROVE  Queue'
  BY <1>11, HandleQueue
<1>. QED
  BY <1>3, <1>4, <1>5, <1>6, <1>7, <1>8, <1>9, <1>10, <1>11, ServerCases DEF Next, Client

-----------------------------------------------------------------------------
(* Greeted is kept. *)

\* Until a handshake nothing is sent to c, and what c sent first is unread;
\* the slot of a user belongs to one that has been answered, or that has left.
Fresh(c) ==
  \/ conn[c] \in {"none", "queued"}
  \/ \E i \in OpenSlots : Conn(i) = c /\ Handshaking(i)

UserOf(c) == \E i \in OpenSlots : Conn(i) = c /\ User(i)

FirstUnread(c) ==
  \/ sent[c] = <<>> /\ stream[c] = <<>>
  \/ /\ sent[c] # <<>> /\ stream[c] # <<>>
     /\ stream[c][1] \in {<<sent[c][1], 1, 1>>, <<"nl">>}

Answered(c) ==
  replies[c] # <<>> =>
    /\ sent[c] # <<>>
    /\ \/ sent[c][1] = "join" /\ replies[c][1] = <<"prompt">>
       \/ sent[c][1] = "repl" /\ replies[c] = <<<<"init">>>>

Good(c) ==
  /\ Fresh(c) => replies[c] = <<>> /\ FirstUnread(c)
  /\ UserOf(c) => /\ sent[c] # <<>> /\ sent[c][1] = "join"
                  /\ peer[c] = "up" => replies[c] # <<>>
  /\ Answered(c)

Greeted ==
  /\ pc = "recv" => ~ Handshaking(cur)
  /\ \A c \in Conns : Good(c)

\* A connection whose part of the state does not change.
LEMMA GoodKept ==
  ASSUME NEW c \in Conns, Good(c),
         replies'[c] = replies[c], sent'[c] = sent[c],
         peer'[c] = "up" => peer[c] = "up",
         Fresh(c)' => Fresh(c) /\ stream'[c] = stream[c],
         UserOf(c)' => UserOf(c)
  PROVE  Good(c)'
BY DEF Good, FirstUnread, Answered

\* Closing descriptors and slots gives no connection a part it did not have.
LEMMA RolesKept ==
  ASSUME NEW c \in Conns, NONE \notin Conns,
         conn'[c] \in {"none", "queued"} => conn[c] \in {"none", "queued"},
         OpenSlots' \subseteq OpenSlots,
         \A i \in OpenSlots' : Conn(i)' = c => Conn(i) = c /\ table'[i] = table[i]
  PROVE  (Fresh(c)' => Fresh(c)) /\ (UserOf(c)' => UserOf(c))
BY DEF Fresh, UserOf, Handshaking, User

\* The slot that is served is the only one of its connection.
LEMMA OneSlot ==
  ASSUME Inv, NEW i \in OpenSlots, Conn(i) \in Conns
  PROVE  /\ \A j \in OpenSlots : Conn(j) = Conn(i) => j = i
         /\ conn[Conn(i)] = "open"
         /\ Fresh(Conn(i)) <=> Handshaking(i)
         /\ UserOf(Conn(i)) <=> User(i)
<1>1. \A j \in OpenSlots : table[j].fd \in FDs /\ Conn(j) = socket[table[j].fd]
  BY OpenFacts DEF Inv, Conn
<1>2. Conn(i) # NONE
  BY ServerAssumption
<1>3. /\ \A j \in OpenSlots : Conn(j) = Conn(i) => j = i
      /\ conn[Conn(i)] = "open"
  BY <1>1, <1>2 DEF Inv, Links
<1>. QED BY <1>3 DEF Fresh, UserOf

\* What closing a slot, or only its descriptor, leaves to each connection.
LEMMA RolesClosed ==
  ASSUME Inv, NEW i \in OpenSlots, Conn(i) \in Conns, NEW c \in Conns,
         NONE \notin Conns,
         \A f \in FDs \ {table[i].fd} : socket'[f] = socket[f],
         socket'[table[i].fd] = NONE,
         conn' = [conn EXCEPT ![Conn(i)] = "gone"],
         OpenSlots' \subseteq OpenSlots,
         \A j \in OpenSlots' : table'[j].fd = table[j].fd,
         \A j \in OpenSlots' \ {i} : table'[j] = table[j]
  PROVE  /\ (Fresh(c)' => Fresh(c)) /\ (UserOf(c)' => UserOf(c))
         /\ c = Conn(i) => ~ Fresh(c)' /\ ~ UserOf(c)'
<1>1. conn'[c] = IF c = Conn(i) THEN "gone" ELSE conn[c]
  BY DEF Inv, Shape
<1>2. \A j \in OpenSlots' : table[j].fd \in FDs /\ j \in OpenSlots
  BY OpenFacts DEF Inv
<1>3. \A j \in OpenSlots' : Conn(j)' = c =>
         table[j].fd # table[i].fd /\ Conn(j) = c /\ table'[j] = table[j] /\ j # i
  BY <1>2 DEF Conn
<1>4. (Fresh(c)' => Fresh(c)) /\ (UserOf(c)' => UserOf(c))
  BY <1>1, <1>3, RolesKept
<1>5. c = Conn(i) => ~ Fresh(c)' /\ ~ UserOf(c)'
  BY <1>1, <1>2, <1>3, OneSlot DEF Fresh, UserOf
<1>. QED BY <1>4, <1>5

\* What admitting slot i leaves to each connection.
LEMMA RolesAdmitted ==
  ASSUME Inv, NEW i \in OpenSlots, Conn(i) \in Conns, NEW c \in Conns,
         NEW t \in {"user", "repl"}, UNCHANGED <<socket, conn>>,
         table' = [table EXCEPT ![i].type = t, ![i].state = "active"]
  PROVE  /\ c # Conn(i) => (Fresh(c)' => Fresh(c)) /\ (UserOf(c)' => UserOf(c))
         /\ c = Conn(i) => ~ Fresh(c)' /\ (t = "repl" => ~ UserOf(c)')
<1>1. /\ OpenSlots' = OpenSlots
      /\ \A j \in OpenSlots : table'[j].fd = table[j].fd
      /\ \A j \in OpenSlots \ {i} : table'[j] = table[j]
      /\ table'[i].type = t /\ table'[i].state = "active"
  BY AdmitEffect DEF Inv
<1>2. \A j \in OpenSlots : Conn(j)' = Conn(j)
  BY <1>1 DEF Conn
<1>3. CASE c # Conn(i)
  <2>1. \A j \in OpenSlots' : Conn(j)' = c => Conn(j) = c /\ table'[j] = table[j]
    BY <1>1, <1>2, <1>3
  <2>2. NONE \notin Conns
    BY ServerAssumption
  <2>. QED BY <1>1, <1>3, <2>1, <2>2, RolesKept
<1>4. CASE c = Conn(i)
  <2>1. conn[c] = "open" /\ \A j \in OpenSlots : Conn(j) = c => j = i
    BY <1>4, OneSlot
  <2>2. ~ Handshaking(i)' /\ (t = "repl" => ~ User(i)')
    BY <1>1 DEF Handshaking, User
  <2>. QED BY <1>1, <1>2, <1>4, <2>1, <2>2 DEF Fresh, UserOf
<1>. QED BY <1>3, <1>4

\* Serving a slot touches the stream, the answers and the peer of its
\* connection only.
LEMMA ServedOnly ==
  ASSUME Shape, NEW c \in Conns, NEW d \in Conns, c # d
  PROVE  /\ \A n : Consume(c, n) => stream'[d] = stream[d]
         /\ \A r : Reply(c, r) => replies'[d] = replies[d] /\ peer'[d] = peer[d]
<1>1. \A n : Consume(c, n) => stream'[d] = stream[d]
  BY DEF Shape, Consume
<1>2. \A r : Reply(c, r) => replies'[d] = replies[d] /\ peer'[d] = peer[d]
  BY DEF Shape, Reply
<1>. QED BY <1>1, <1>2

\* An answer to c.
LEMMA ReplyEffect ==
  ASSUME Shape, NEW c \in Conns, NEW r \in Answer, Reply(c, r)
  PROVE  /\ peer'[c] = "up" => peer[c] = "up" /\ replies'[c] # <<>>
         /\ \/ peer[c] = "up" /\ replies'[c] = Append(replies[c], r)
            \/ replies'[c] = replies[c]
         /\ replies[c] # <<>> => replies'[c] # <<>> /\ replies'[c][1] = replies[c][1]
<1>1. replies[c] \in Seq(Answer)
  BY DEF Shape
<1>2. \/ /\ peer[c] = "up" /\ replies'[c] = Append(replies[c], r)
      \/ replies'[c] = replies[c] /\ peer'[c] = "broken"
  BY DEF Shape, Reply
<1>3. /\ Append(replies[c], r) # <<>>
      /\ replies[c] # <<>> => Append(replies[c], r)[1] = replies[c][1]
  <2>. DEFINE s == replies[c]
  <2>1. s \in Seq(Answer)
    BY <1>1
  <2>. HIDE DEF s
  <2>2. /\ Len(Append(s, r)) = Len(s) + 1 /\ Len(s) \in Nat
        /\ \A j \in 1 .. Len(s) : Append(s, r)[j] = s[j]
        /\ Append(s, r) \in Seq(Answer)
    BY <2>1
  <2>3. s # <<>> => 1 \in 1 .. Len(s)
    BY <2>1
  <2>4. Len(Append(s, r)) # 0
    BY <2>2
  <2>5. /\ Append(s, r) # <<>>
        /\ s # <<>> => Append(s, r)[1] = s[1]
    BY <2>2, <2>3, <2>4
  <2>. QED BY <2>5 DEF s
<1>. QED BY <1>2, <1>3

\* What a client's first message was, when a read of a slot in its handshake
\* is a whole message of kind k.
LEMMA FirstRead ==
  ASSUME Inv, Greeted, NEW i \in OpenSlots, Conn(i) \in Conns, Handshaking(i),
         NEW n \in DOMAIN stream[Conn(i)], NEW k,
         Is(Buffer(stream[Conn(i)], n), k)
  PROVE  /\ replies[Conn(i)] = <<>>
         /\ sent[Conn(i)] # <<>> /\ sent[Conn(i)][1] = k
<1>. DEFINE c == Conn(i)
<1>1. Good(c) /\ Fresh(c)
  BY OneSlot DEF Greeted
<1>2. replies[c] = <<>> /\ FirstUnread(c)
  BY <1>1 DEF Good
<1>3. stream[c] \in Seq(Atom) /\ n \in 1 .. Len(stream[c])
  BY DEF Inv, Shape
<1>4. PICK m \in 1 .. MaxSent : stream[c][1] = <<k, m, 1>>
  BY <1>3, BufferFacts
<1>5. stream[c] # <<>>
  BY <1>3
<1>6. <<k, m, 1>> # <<"nl">>
  OBVIOUS
<1>7. sent[c] # <<>> /\ <<k, m, 1>> = <<sent[c][1], 1, 1>>
  BY <1>2, <1>4, <1>5, <1>6 DEF FirstUnread
<1>. QED BY <1>2, <1>7

\* Greeted, through a read: what each request may do to its own connection,
\* and that it does nothing to the others.
LEMMA HandleGreeted ==
  ASSUME Inv, Greeted, pc = "scan", NEW i \in Due, NEW c \in Conns, c = Conn(i),
         NEW n \in DOMAIN stream[c], NEW buf, buf = Buffer(stream[c], n),
         Handle(i, n, buf)
  PROVE  Greeted'
<1>1. /\ Shape /\ i \in OpenSlots /\ NONE \notin Conns
      /\ conn \in [Conns -> {"none", "queued", "open", "gone"}]
  <2>1. Shape
    BY DEF Inv
  <2>2. NONE \notin Conns
    BY ServerAssumption
  <2>. QED BY <2>1, <2>2, ServedFacts, DueOpen DEF Shape
<1>2. /\ Good(c) /\ (Fresh(c) <=> Handshaking(i)) /\ (UserOf(c) <=> User(i))
      /\ conn[c] = "open"
  BY <1>1, OneSlot DEF Greeted
<1>3. \A k : Is(buf, k) /\ Handshaking(i) =>
        replies[c] = <<>> /\ sent[c] # <<>> /\ sent[c][1] = k
  BY <1>1, FirstRead
<1>4. /\ <<"prompt">> \in Answer /\ <<"init">> \in Answer /\ AnswerTo(buf) \in Answer
  BY AnswerFacts DEF Answer
<1>5. Handle(i, n, buf)
  OBVIOUS
<1>6. sent' = sent
  BY <1>5 DEF Handle, JoinUser, JoinReplica, Reject, Ignore, Request, Exit, Shutdown,
         NoToken, SendKills, InitNotSent, HandshakeFails, Serve, client
<1>7. pc' = "recv" => JoinReplica(i, n, buf)
  BY <1>5 DEF Handle, JoinUser, JoinReplica, Reject, Ignore, Request, Exit, Shutdown,
         NoToken, SendKills, InitNotSent, HandshakeFails, Proceed
\* Slots and descriptors, as the four ways to leave them.
<1>8. ASSUME CloseSlot(i), NEW d \in Conns
      PROVE  /\ (Fresh(d)' => Fresh(d)) /\ (UserOf(d)' => UserOf(d))
             /\ d = c => ~ Fresh(d)' /\ ~ UserOf(d)'
  <2>1. /\ OpenSlots' \subseteq OpenSlots
        /\ \A j \in OpenSlots' : table'[j] = table[j]
        /\ \A f \in FDs \ {table[i].fd} : socket'[f] = socket[f]
        /\ socket'[table[i].fd] = NONE
        /\ conn' = [conn EXCEPT ![Conn(i)] = "gone"]
    BY <1>1, <1>8, CloseEffect DEF CloseSlot
  <2>. QED BY <1>1, <1>8, <2>1, RolesClosed
<1>9. ASSUME UNCHANGED <<table, socket, conn>>, NEW d \in Conns
      PROVE  (Fresh(d)' <=> Fresh(d)) /\ (UserOf(d)' <=> UserOf(d))
  BY <1>9 DEF Fresh, UserOf, OpenSlots, Conn, Handshaking, User
<1>10. ASSUME NEW t \in {"user", "repl"}, UNCHANGED <<socket, conn>>,
              table' = [table EXCEPT ![i].type = t, ![i].state = "active"],
              NEW d \in Conns
       PROVE  /\ d # c => (Fresh(d)' => Fresh(d)) /\ (UserOf(d)' => UserOf(d))
              /\ d = c => ~ Fresh(d)' /\ (t = "repl" => ~ UserOf(d)')
  BY <1>1, <1>10, RolesAdmitted
<1>11. ASSUME InitNotSent(i, n, buf), NEW d \in Conns
       PROVE  /\ d # c => (Fresh(d)' => Fresh(d)) /\ (UserOf(d)' => UserOf(d))
              /\ d = c => ~ Fresh(d)' /\ ~ UserOf(d)'
  <2>1. table' = [table EXCEPT ![i].type = "repl", ![i].state = "active"]
    BY <1>11 DEF InitNotSent
  <2>2. CASE ~ HasMaster
    BY <1>10, <1>11, <2>1, <2>2 DEF InitNotSent, HandshakeFails
  <2>3. CASE HasMaster
    <3>1. /\ OpenSlots' = OpenSlots
          /\ \A j \in OpenSlots : table'[j].fd = table[j].fd
          /\ \A j \in OpenSlots \ {i} : table'[j] = table[j]
      BY <1>1, <2>1, AdmitEffect
    <3>2. /\ socket' = [socket EXCEPT ![table[i].fd] = NONE]
          /\ conn' = [conn EXCEPT ![Conn(i)] = "gone"]
      BY <1>11, <2>3 DEF InitNotSent, HandshakeFails
    <3>3. /\ \A f \in FDs \ {table[i].fd} : socket'[f] = socket[f]
          /\ socket'[table[i].fd] = NONE
      BY <1>1, <3>2, OpenFacts DEF Shape
    <3>. QED BY <1>1, <3>1, <3>2, <3>3, RolesClosed
  <2>. QED BY <2>2, <2>3
\* The parts of the step, one connection at a time.
<1>12. ASSUME NEW d \in Conns \ {c} PROVE Good(d)'
  <2>1. (Fresh(d)' => Fresh(d)) /\ (UserOf(d)' => UserOf(d))
    <3>1. CloseSlot(i) => (Fresh(d)' => Fresh(d)) /\ (UserOf(d)' => UserOf(d))
      BY <1>8
    <3>2. UNCHANGED <<table, socket, conn>> =>
            (Fresh(d)' => Fresh(d)) /\ (UserOf(d)' => UserOf(d))
      BY <1>9
    <3>3. JoinUser(i, n, buf) \/ JoinReplica(i, n, buf) =>
            (Fresh(d)' => Fresh(d)) /\ (UserOf(d)' => UserOf(d))
      BY <1>10, <1>12 DEF JoinUser, JoinReplica
    <3>4. InitNotSent(i, n, buf) => (Fresh(d)' => Fresh(d)) /\ (UserOf(d)' => UserOf(d))
      BY <1>11, <1>12
    <3>5. \/ CloseSlot(i) \/ UNCHANGED <<table, socket, conn>>
          \/ JoinUser(i, n, buf) \/ JoinReplica(i, n, buf) \/ InitNotSent(i, n, buf)
      BY <1>5 DEF Handle, Reject, Ignore, Request, Exit, Shutdown, NoToken, SendKills,
                  KeepSlot, client
    <3>. QED BY <3>1, <3>2, <3>3, <3>4, <3>5
  <2>2. stream'[d] = stream[d]
    <3>1. Consume(c, n) \/ stream' = stream
      BY <1>5 DEF Handle, JoinUser, JoinReplica, Reject, Ignore, Request, Exit, Shutdown,
                  NoToken, SendKills, InitNotSent, Serve, client
    <3>. QED BY <1>1, <3>1, ServedOnly
  <2>3. replies'[d] = replies[d] /\ peer'[d] = peer[d]
    <3>1. (\E r : Reply(c, r)) \/ UNCHANGED <<replies, peer>>
      BY <1>5 DEF Handle, JoinUser, JoinReplica, Reject, Ignore, Request, Exit, Shutdown,
                  NoToken, SendKills, InitNotSent, HandshakeFails, Silent, client
    <3>. QED BY <1>1, <3>1, ServedOnly
  <2>4. Good(d)
    BY DEF Greeted
  <2>. QED BY <1>6, <2>1, <2>2, <2>3, <2>4, GoodKept
\* Once the connection that is served is no longer fresh, its stream is free.
<1>13. ASSUME Fresh(c)' => Fresh(c) /\ stream' = stream,
              UserOf(c)' => UserOf(c), UNCHANGED <<replies, peer>>
       PROVE  Good(c)'
  BY <1>1, <1>2, <1>6, <1>13, GoodKept
<1>14. ASSUME User(i), Reply(c, AnswerTo(buf)), ~ Fresh(c)', UserOf(c)' => UserOf(c)
       PROVE  Good(c)'
  <2>1. /\ peer'[c] = "up" => peer[c] = "up" /\ replies'[c] # <<>>
        /\ peer[c] # "up" => replies'[c] = replies[c]
        /\ replies[c] # <<>> => replies'[c] # <<>> /\ replies'[c][1] = replies[c][1]
    BY <1>1, <1>4, <1>14, ReplyEffect DEF Reply, Shape
  <2>2. sent[c][1] = "join" /\ (peer[c] = "up" => replies[c] # <<>>)
    BY <1>2, <1>14 DEF Good
  <2>. QED BY <1>2, <1>6, <1>14, <2>1, <2>2 DEF Good, Answered
<1>15. Good(c)'
  <2>1. CASE JoinUser(i, n, buf)
    <3>1. /\ replies[c] = <<>> /\ sent[c] # <<>> /\ sent[c][1] = "join"
          /\ ~ Fresh(c)' /\ Reply(c, <<"prompt">>)
      BY <1>1, <1>3, <1>10, <2>1 DEF JoinUser
    <3>2. /\ peer'[c] = "up" => peer[c] = "up" /\ replies'[c] # <<>>
          /\ \/ replies'[c] = Append(replies[c], <<"prompt">>)
             \/ replies'[c] = replies[c]
      BY <1>1, <1>4, <3>1, ReplyEffect
    <3>3. Append(<<>>, <<"prompt">>)[1] = <<"prompt">>
      OBVIOUS
    <3>. QED BY <1>6, <3>1, <3>2, <3>3 DEF Good, Answered
  <2>2. CASE JoinReplica(i, n, buf)
    <3>1. /\ replies[c] = <<>> /\ sent[c] # <<>> /\ sent[c][1] = "repl"
          /\ ~ Fresh(c)' /\ ~ UserOf(c)' /\ Reply(c, <<"init">>)
      BY <1>1, <1>3, <1>10, <2>2 DEF JoinReplica
    <3>2. \/ replies'[c] = Append(replies[c], <<"init">>)
          \/ replies'[c] = replies[c]
      BY <1>1, <1>4, <3>1, ReplyEffect
    <3>3. Append(<<>>, <<"init">>) = <<<<"init">>>>
      OBVIOUS
    <3>. QED BY <1>6, <3>1, <3>2, <3>3 DEF Good, Answered
  <2>3. CASE Reject(i, n, buf)
    BY <1>1, <1>8, <1>13, <2>3 DEF Reject, Silent
  <2>4. CASE Ignore(i, n, buf)
    BY <1>1, <1>2, <1>9, <1>13, <2>4 DEF Ignore, KeepSlot, Silent
  <2>5. CASE Request(i, n, buf)
    BY <1>1, <1>2, <1>9, <1>14, <2>5 DEF Request, KeepSlot, User, Handshaking
  <2>6. CASE Exit(i, n, buf)
    BY <1>1, <1>2, <1>8, <1>14, <2>6 DEF Exit
  <2>7. CASE Shutdown(i, n, buf)
    BY <1>1, <1>2, <1>9, <1>14, <2>7 DEF Shutdown, KeepSlot, User, Handshaking
  <2>8. CASE NoToken(i, n, buf)
    BY <1>1, <1>9, <1>13, <2>8 DEF NoToken, client
  <2>9. CASE SendKills(i, n, buf)
    BY <1>1, <1>9, <1>13, <2>9 DEF SendKills, client
  <2>10. CASE InitNotSent(i, n, buf)
    BY <1>1, <1>11, <1>13, <2>10 DEF InitNotSent, HandshakeFails
  <2>. QED BY <1>5, <2>1, <2>2, <2>3, <2>4, <2>5, <2>6, <2>7, <2>8, <2>9, <2>10 DEF Handle
<1>16. pc' = "recv" => ~ Handshaking(cur)'
  <2>. SUFFICES ASSUME JoinReplica(i, n, buf) PROVE ~ Handshaking(cur)'
    BY <1>7
  <2>1. table' = [table EXCEPT ![i].type = "repl", ![i].state = "active"] /\ cur' = i
    BY DEF JoinReplica
  <2>2. table'[i].state = "active"
    BY <1>1, <2>1, AdmitEffect
  <2>. QED BY <2>1, <2>2 DEF Handshaking
<1>. QED BY <1>12, <1>15, <1>16 DEF Greeted

\* What a client sends comes after what it has sent before.
LEMMA SendGreeted ==
  ASSUME Inv, Greeted, NEW c \in Conns, NEW k \in Kinds, Send(c, k)
  PROVE  Greeted'
<1>1. /\ Shape /\ Good(c) /\ (k = "blank" => c \notin Bare)
      /\ sent[c] \in Seq(Kinds) /\ stream[c] \in Seq(Atom)
  BY DEF Inv, Shape, Greeted, Send
<1>2. \A d \in Conns :
        (Fresh(d)' <=> Fresh(d)) /\ (UserOf(d)' <=> UserOf(d))
  BY DEF Send, Fresh, UserOf, OpenSlots, Conn, Handshaking, User
<1>3. /\ UNCHANGED <<replies, peer, pc, cur, table>>
      /\ \A d \in Conns \ {c} : sent'[d] = sent[d] /\ stream'[d] = stream[d]
      /\ sent'[c] = Append(sent[c], k)
      /\ stream'[c] = stream[c] \o Text(c, k, Len(sent[c]) + 1)
  BY <1>1 DEF Send, Shape
<1>4. \A d \in Conns \ {c} : Good(d)'
  BY <1>2, <1>3, GoodKept DEF Greeted
<1>5. /\ sent'[c] # <<>>
      /\ sent'[c][1] = IF sent[c] = <<>> THEN k ELSE sent[c][1]
  <2>. DEFINE s == sent[c]
  <2>1. s \in Seq(Kinds)
    BY <1>1
  <2>. HIDE DEF s
  <2>2. /\ Len(Append(s, k)) = Len(s) + 1 /\ Len(s) \in Nat
        /\ \A j \in 1 .. Len(s) : Append(s, k)[j] = s[j]
        /\ Append(s, k)[Len(s) + 1] = k
    BY <2>1
  <2>3. s # <<>> => Append(s, k)[1] = s[1]
    <3>1. s # <<>> => 1 \in 1 .. Len(s)
      BY <2>1
    <3>. QED BY <2>2, <3>1
  <2>4. s = <<>> => Append(s, k)[1] = k
    OBVIOUS
  <2>5. Append(s, k) # <<>>
    <3>1. Len(Append(s, k)) # 0
      BY <2>2
    <3>. QED BY <3>1
  <2>. QED BY <1>3, <2>3, <2>4, <2>5 DEF s
<1>6. FirstUnread(c) => FirstUnread(c)'
  <2>. SUFFICES ASSUME FirstUnread(c) PROVE FirstUnread(c)'
    OBVIOUS
  <2>. DEFINE s == stream[c]
              m == Len(sent[c]) + 1
              x == Text(c, k, m)
  <2>1. m \in Nat \ {0} /\ s \in Seq(Atom)
    BY <1>1
  <2>2. x \in Seq(Atom) /\ x # <<>> /\ x[1] \in {<<k, m, 1>>, <<"nl">>}
    BY <1>1, <2>1, TextFacts
  <2>3. sent[c] = <<>> => m = 1
    OBVIOUS
  <2>4. stream'[c] = s \o x
    BY <1>3
  <2>. HIDE DEF s, x, m
  <2>5. /\ Len(s \o x) = Len(s) + Len(x) /\ Len(s) \in Nat /\ Len(x) \in Nat
        /\ \A j \in 1 .. Len(s) + Len(x) :
             (s \o x)[j] = IF j <= Len(s) THEN s[j] ELSE x[j - Len(s)]
    BY <2>1, <2>2, ConcatProperties, LenProperties
  <2>6. Len(x) # 0 /\ (s # <<>> => Len(s) # 0) /\ (s = <<>> => Len(s) = 0)
    BY <2>1, <2>2, EmptySeq
  <2>7. /\ Len(s \o x) # 0
        /\ (s \o x)[1] = IF s = <<>> THEN x[1] ELSE s[1]
    BY <2>5, <2>6
  <2>8. s \o x # <<>>
    BY <2>5, <2>7
  <2>. QED BY <1>5, <2>2, <2>3, <2>4, <2>7, <2>8 DEF FirstUnread, s
<1>7. Good(c)'
  BY <1>1, <1>2, <1>3, <1>5, <1>6 DEF Good, Answered
<1>. QED BY <1>3, <1>4, <1>7 DEF Greeted, Handshaking

\* Greeted, through accept: the new slot's connection has had no answer.
LEMMA AcceptGreeted ==
  ASSUME Inv, Greeted, Accept
  PROVE  Greeted'
<1>1. /\ Shape /\ conn \in [Conns -> {"none", "queued", "open", "gone"}]
      /\ UNCHANGED <<peer, sent, stream, replies>> /\ pc' = "scan"
  BY DEF Inv, Shape, Accept
<1>2. NONE \notin Conns
  BY ServerAssumption
<1>3. ASSUME NEW c \in Conns
      PROVE  (Fresh(c)' => Fresh(c)) /\ (UserOf(c)' => UserOf(c))
  <2>1. CASE /\ UNCHANGED <<socket, conn, backlog>>
             /\ OpenSlots' = OpenSlots
             /\ \A i \in OpenSlots : table'[i] = table[i]
    BY <1>2, <2>1, RolesKept DEF Conn
  <2>2. ASSUME NEW f \in FDs, socket[f] = NONE,
               conn[Head(backlog)] = "queued", Head(backlog) \in Conns,
               socket' = [socket EXCEPT ![f] = Head(backlog)],
               conn' = [conn EXCEPT ![Head(backlog)] = "open"],
               OpenSlots' = OpenSlots \union {Len(table) + 1},
               table'[Len(table) + 1] =
                 [fd |-> f, type |-> "unknown", state |-> "handshake"],
               \A i \in OpenSlots : table'[i] = table[i]
        PROVE  (Fresh(c)' => Fresh(c)) /\ (UserOf(c)' => UserOf(c))
    <3>1. /\ socket'[f] = Head(backlog)
          /\ \A g \in FDs \ {f} : socket'[g] = socket[g]
      BY <1>1, <2>2 DEF Shape
    <3>2. conn'[c] \in {"none", "queued"} => conn[c] \in {"none", "queued"}
      BY <1>1, <2>2
    <3>3. \A i \in OpenSlots : Conn(i) # NONE
      BY DEF Accept, Inv, Links, StaleAt
    <3>4. \A i \in OpenSlots : Conn(i)' = Conn(i) /\ table'[i] = table[i]
      <4>1. \A i \in OpenSlots : table[i].fd \in FDs \ {f} /\ table'[i].fd = table[i].fd
        BY <1>1, <2>2, <3>3, OpenFacts DEF Conn
      <4>. QED BY <2>2, <3>1, <4>1 DEF Conn
    <3>5. \A j : j = Len(table) + 1 =>
            Conn(j)' = Head(backlog) /\ table'[j].type = "unknown"
      BY <2>2, <3>1 DEF Conn
    <3>6. Fresh(c)' => Fresh(c)
      <4>1. CASE c = Head(backlog)
        BY <2>2, <4>1 DEF Fresh
      <4>2. CASE c # Head(backlog)
        <5>1. \A j \in OpenSlots' : Conn(j)' = c => j \in OpenSlots
          BY <2>2, <3>5, <4>2
        <5>. QED BY <3>2, <3>4, <5>1 DEF Fresh, Handshaking
      <4>. QED BY <4>1, <4>2
    <3>7. UserOf(c)' => UserOf(c)
      <4>1. \A j \in OpenSlots' : User(j)' => j \in OpenSlots
        BY <2>2, <3>5 DEF User
      <4>. QED BY <3>4, <4>1 DEF UserOf, User
    <3>. QED BY <3>6, <3>7
  <2>. QED BY <2>1, <2>2, AcceptEffect
<1>4. \A c \in Conns : Good(c)'
  BY <1>1, <1>3, GoodKept DEF Greeted
<1>. QED BY <1>1, <1>4 DEF Greeted

\* Greeted, through any step.
LEMMA GreetedStep ==
  ASSUME Inv, Greeted, [Next]_vars
  PROVE  Greeted'
<1>1. /\ Shape /\ NONE \notin Conns
      /\ conn \in [Conns -> {"none", "queued", "open", "gone"}]
      /\ peer \in [Conns -> {"up", "closed", "reset", "broken"}]
  <2>1. Shape
    BY DEF Inv
  <2>. QED BY <2>1, ServerAssumption DEF Shape
<1>2. ASSUME UNCHANGED <<sent, stream, replies, socket, table>>, pc' # "recv",
             \A c \in Conns :
               /\ conn'[c] \in {"none", "queued"} => conn[c] \in {"none", "queued"}
               /\ peer'[c] = "up" => peer[c] = "up"
      PROVE  Greeted'
  <2>1. OpenSlots' = OpenSlots /\ \A i \in OpenSlots : Conn(i)' = Conn(i)
    BY <1>2 DEF OpenSlots, Conn
  <2>2. \A c \in Conns : (Fresh(c)' => Fresh(c)) /\ (UserOf(c)' => UserOf(c))
    BY <1>1, <1>2, <2>1, RolesKept
  <2>. QED BY <1>2, <2>2, GoodKept DEF Greeted
<1>3. CASE UNCHANGED vars
  BY <1>3 DEF vars, client, Greeted, Good, Fresh, UserOf, FirstUnread, Answered,
              OpenSlots, Conn, Handshaking, User
<1>4. ASSUME NEW c \in Conns, Connect(c) \/ (\E e \in Endings : Leave(c, e))
      PROVE  Greeted'
  <2>1. UNCHANGED <<sent, stream, replies, socket, table, pc, cur>>
    BY <1>4 DEF Connect, Leave
  <2>2. \A d \in Conns :
          /\ conn'[d] \in {"none", "queued"} => conn[d] \in {"none", "queued"}
          /\ peer'[d] = "up" => peer[d] = "up"
    BY <1>1, <1>4 DEF Connect, Leave, Present
  <2>3. OpenSlots' = OpenSlots /\ \A i \in OpenSlots : Conn(i)' = Conn(i)
    BY <2>1 DEF OpenSlots, Conn
  <2>4. \A d \in Conns : (Fresh(d)' => Fresh(d)) /\ (UserOf(d)' => UserOf(d))
    BY <1>1, <2>1, <2>2, <2>3, RolesKept
  <2>. QED BY <2>1, <2>2, <2>4, GoodKept DEF Greeted, Handshaking
<1>5. ASSUME NEW c \in Conns, NEW k \in Kinds, Send(c, k) PROVE Greeted'
  BY <1>5, SendGreeted
<1>6. CASE Select \/ SelectFails \/ AcceptBeyond \/ ScanEnd
  BY <1>2, <1>6 DEF Select, SelectFails, AcceptBeyond, ScanEnd, client
<1>7. CASE Accept
  BY <1>7, AcceptGreeted
<1>8. ASSUME NEW i \in Due, PeerGone(i) PROVE Greeted'
  <2>1. /\ pc = "scan" /\ CloseSlot(i) /\ pc' = "scan"
        /\ UNCHANGED <<sent, stream, replies, peer>>
    BY <1>8 DEF PeerGone, Proceed, Silent
  <2>2. i \in OpenSlots /\ Conn(i) \in Conns
    BY <1>1, <2>1, ServedFacts, DueOpen
  <2>3. /\ OpenSlots' \subseteq OpenSlots
        /\ \A j \in OpenSlots' : table'[j] = table[j]
        /\ \A f \in FDs \ {table[i].fd} : socket'[f] = socket[f]
        /\ socket'[table[i].fd] = NONE
        /\ conn' = [conn EXCEPT ![Conn(i)] = "gone"]
    BY <1>1, <2>1, <2>2, CloseEffect DEF CloseSlot
  <2>4. \A d \in Conns : (Fresh(d)' => Fresh(d)) /\ (UserOf(d)' => UserOf(d))
    BY <1>1, <2>2, <2>3, RolesClosed
  <2>. QED BY <2>1, <2>4, GoodKept DEF Greeted
<1>9. CASE ReplicaInfo
  <2>1. PICK c \in Conns : c = Conn(cur) /\ cur \in OpenSlots /\ pc = "recv"
    BY <1>9, WaitingFacts DEF ReplicaInfo
  <2>2. ~ Fresh(c)
    BY <2>1, OneSlot DEF Greeted
  <2>3. /\ UNCHANGED <<conn, peer, sent, replies, socket, table>> /\ pc' = "scan"
        /\ \A d \in Conns \ {c} : stream'[d] = stream[d]
    BY <1>1, <1>9, <2>1, ServedOnly DEF ReplicaInfo, Proceed
  <2>4. \A d \in Conns : (Fresh(d)' <=> Fresh(d)) /\ (UserOf(d)' <=> UserOf(d))
    BY <2>3 DEF Fresh, UserOf, OpenSlots, Conn, Handshaking, User
  <2>5. \A d \in Conns : Fresh(d)' => Fresh(d) /\ stream'[d] = stream[d]
    BY <2>2, <2>3, <2>4
  <2>. QED BY <2>3, <2>4, <2>5, GoodKept DEF Greeted
<1>10. CASE InfoNotReceived
  <2>1. CASE HasMaster
    <3>1. /\ pc = "recv" /\ pc' = "scan"
          /\ UNCHANGED <<sent, stream, replies, peer, table>>
          /\ socket' = [socket EXCEPT ![table[cur].fd] = NONE]
          /\ conn' = [conn EXCEPT ![Conn(cur)] = "gone"]
      BY <1>10, <2>1 DEF InfoNotReceived, HandshakeFails, Proceed
    <3>2. cur \in OpenSlots /\ Conn(cur) \in Conns /\ table[cur].fd \in FDs
      BY <3>1, WaitingFacts
    <3>3. /\ \A f \in FDs \ {table[cur].fd} : socket'[f] = socket[f]
          /\ socket'[table[cur].fd] = NONE
      BY <1>1, <3>1, <3>2 DEF Shape
    <3>4. OpenSlots' = OpenSlots /\ \A j \in OpenSlots : table'[j] = table[j]
      BY <3>1 DEF OpenSlots
    <3>5. \A d \in Conns : (Fresh(d)' => Fresh(d)) /\ (UserOf(d)' => UserOf(d))
      BY <1>1, <3>1, <3>2, <3>3, <3>4, RolesClosed
    <3>. QED BY <3>1, <3>5, GoodKept DEF Greeted
  <2>2. CASE ~ HasMaster
    BY <1>2, <1>10, <2>2 DEF InfoNotReceived, HandshakeFails
  <2>. QED BY <2>1, <2>2
<1>11. ASSUME NEW i \in Due, NEW n \in DOMAIN stream[Conn(i)], pc = "scan",
              Handle(i, n, Buffer(stream[Conn(i)], n))
       PROVE  Greeted'
  <2>1. Conn(i) \in Conns
    BY <1>11, ServedFacts
  <2>. QED BY <1>11, <2>1, HandleGreeted
<1>. QED
  BY <1>3, <1>4, <1>5, <1>6, <1>7, <1>8, <1>9, <1>10, <1>11, ServerCases DEF Next, Client

-----------------------------------------------------------------------------
(* What is read comes from what was sent. *)

Sources(c) ==
  \A j \in DOMAIN stream[c] : stream[c][j] = <<"nl">> \/ stream[c][j][1] \in ToSet(sent[c])

Sourced == \A c \in Conns : Sources(c)

\* A message is made of its own halves, and a newline.
LEMMA TextSource ==
  ASSUME NEW c \in Conns, NEW k \in Kinds, NEW n \in Nat \ {0}
  PROVE  /\ Text(c, k, n) \in Seq(Atom)
         /\ \A j \in DOMAIN Text(c, k, n) :
              Text(c, k, n)[j] = <<"nl">> \/ Text(c, k, n)[j][1] = k
<1>. DEFINE h == IF k = "blank" THEN <<>> ELSE Halves(k, n)
            e == IF k \in {"join", "repl"} \/ c \in Bare THEN <<>> ELSE <<<<"nl">>>>
<1>1. /\ h \in Seq(Atom) /\ \A j \in DOMAIN h : h[j][1] = k
  <2>1. /\ Halves(k, n) \in Seq(Atom) /\ DOMAIN Halves(k, n) = {1, 2}
        /\ Halves(k, n)[1] = <<k, n, 1>> /\ Halves(k, n)[2] = <<k, n, 2>>
    BY DEF Halves, Atom
  <2>2. \A j \in DOMAIN Halves(k, n) : Halves(k, n)[j][1] = k
    BY <2>1
  <2>. QED BY <2>1, <2>2
<1>2. /\ e \in Seq(Atom) /\ \A j \in DOMAIN e : e[j] = <<"nl">>
  <2>1. /\ <<<<"nl">>>> \in Seq(Atom) /\ DOMAIN <<<<"nl">>>> = {1}
        /\ <<<<"nl">>>>[1] = <<"nl">>
    BY DEF Atom
  <2>2. <<>> \in Seq(Atom) /\ DOMAIN <<>> = {}
    OBVIOUS
  <2>. QED BY <2>1, <2>2
<1>3. Text(c, k, n) = h \o e
  BY DEF Text
<1>. HIDE DEF h, e
<1>4. /\ h \o e \in Seq(Atom)
      /\ Len(h \o e) = Len(h) + Len(e) /\ Len(h) \in Nat /\ Len(e) \in Nat
      /\ \A i \in 1 .. Len(h) + Len(e) :
           (h \o e)[i] = IF i <= Len(h) THEN h[i] ELSE e[i - Len(h)]
  BY <1>1, <1>2, ConcatProperties, LenProperties
<1>5. /\ DOMAIN (h \o e) = 1 .. Len(h) + Len(e)
      /\ DOMAIN h = 1 .. Len(h) /\ DOMAIN e = 1 .. Len(e)
  BY <1>1, <1>2, <1>4
<1>6. ASSUME NEW j \in 1 .. Len(h) + Len(e)
      PROVE  (h \o e)[j] = <<"nl">> \/ (h \o e)[j][1] = k
  <2>1. CASE j <= Len(h)
    BY <1>1, <1>4, <1>5, <2>1
  <2>2. CASE j > Len(h)
    <3>1. j - Len(h) \in 1 .. Len(e)
      BY <1>4, <2>2
    <3>. QED BY <1>2, <1>4, <1>5, <2>2, <3>1
  <2>. QED BY <1>4, <2>1, <2>2
<1>. QED BY <1>3, <1>4, <1>5, <1>6

\* Sourced, through any step.
LEMMA SourcedStep ==
  ASSUME Inv, Sourced, [Next]_vars
  PROVE  Sourced'
<1>1. /\ sent \in [Conns -> Seq(Kinds)] /\ stream \in [Conns -> Seq(Atom)]
  BY DEF Inv, Shape
<1>2. ASSUME UNCHANGED <<sent, stream>> PROVE Sourced'
  BY <1>2 DEF Sourced, Sources
<1>3. ASSUME NEW c \in Conns, NEW n \in DOMAIN stream[c], Consume(c, n), sent' = sent
      PROVE  Sourced'
  <2>1. ASSUME NEW d \in Conns, d # c PROVE Sources(d)'
    BY <1>1, <1>3, <2>1 DEF Consume, Sourced, Sources
  <2>2. Sources(c)'
    <3>. DEFINE s == stream[c]
    <3>1. s \in Seq(Atom) /\ n \in 1 .. Len(s) /\ Len(s) \in Nat
      BY <1>1
    <3>2. stream'[c] = SubSeq(s, n + 1, Len(s))
      BY <1>1, <1>3 DEF Consume
    <3>3. \A j \in 1 .. Len(s) : s[j] = <<"nl">> \/ s[j][1] \in ToSet(sent[c])
      BY <3>1 DEF Sourced, Sources
    <3>. HIDE DEF s
    <3>4. /\ DOMAIN SubSeq(s, n + 1, Len(s)) = 1 .. Len(s) - n
          /\ \A j \in 1 .. Len(s) - n :
               SubSeq(s, n + 1, Len(s))[j] = s[n + j] /\ n + j \in 1 .. Len(s)
      BY <3>1
    <3>. QED BY <1>3, <3>2, <3>3, <3>4 DEF Sources
  <2>. QED BY <2>1, <2>2 DEF Sourced
<1>4. CASE UNCHANGED vars
  BY <1>2, <1>4 DEF vars, client
<1>5. ASSUME NEW c \in Conns, Connect(c) \/ (\E e \in Endings : Leave(c, e))
      PROVE  Sourced'
  BY <1>2, <1>5 DEF Connect, Leave
<1>6. ASSUME NEW c \in Conns, NEW k \in Kinds, Send(c, k) PROVE Sourced'
  <2>1. ASSUME NEW d \in Conns, d # c PROVE Sources(d)'
    BY <1>1, <1>6, <2>1 DEF Send, Sourced, Sources
  <2>2. Sources(c)'
    <3>. DEFINE s == stream[c]
                x == Text(c, k, Len(sent[c]) + 1)
    <3>1. /\ stream'[c] = s \o x
          /\ sent'[c] = Append(sent[c], k) /\ sent[c] \in Seq(Kinds)
      BY <1>1, <1>6 DEF Send
    <3>2. ToSet(sent[c]) \union {k} \subseteq ToSet(sent'[c])
      <4>. DEFINE z == sent[c]
      <4>1. z \in Seq(Kinds)
        BY <3>1
      <4>. HIDE DEF z
      <4>2. /\ DOMAIN z = 1 .. Len(z) /\ Len(z) \in Nat
            /\ DOMAIN Append(z, k) = 1 .. Len(z) + 1
            /\ \A j \in 1 .. Len(z) : Append(z, k)[j] = z[j]
            /\ Append(z, k)[Len(z) + 1] = k
        BY <4>1
      <4>3. ToSet(z) \union {k} \subseteq ToSet(Append(z, k))
        BY <4>2 DEF ToSet
      <4>. QED BY <3>1, <4>3 DEF z
    <3>3. Len(sent[c]) + 1 \in Nat \ {0}
      BY <3>1
    <3>4. /\ x \in Seq(Atom)
          /\ \A j \in DOMAIN x : x[j] = <<"nl">> \/ x[j][1] \in ToSet(sent'[c])
      BY <3>2, <3>3, TextSource
    <3>5. /\ s \in Seq(Atom)
          /\ \A j \in DOMAIN s : s[j] = <<"nl">> \/ s[j][1] \in ToSet(sent'[c])
      BY <1>1, <3>2 DEF Sourced, Sources
    <3>. HIDE DEF s, x
    <3>6. /\ s \o x \in Seq(Atom)
          /\ Len(s \o x) = Len(s) + Len(x) /\ Len(s) \in Nat /\ Len(x) \in Nat
          /\ \A i \in 1 .. Len(s) + Len(x) :
               (s \o x)[i] = IF i <= Len(s) THEN s[i] ELSE x[i - Len(s)]
      BY <3>4, <3>5, ConcatProperties, LenProperties
    <3>7. /\ DOMAIN (s \o x) = 1 .. Len(s) + Len(x)
          /\ DOMAIN s = 1 .. Len(s) /\ DOMAIN x = 1 .. Len(x)
      BY <3>4, <3>5, <3>6
    <3>8. ASSUME NEW j \in 1 .. Len(s) + Len(x)
          PROVE  (s \o x)[j] = <<"nl">> \/ (s \o x)[j][1] \in ToSet(sent'[c])
      <4>1. CASE j <= Len(s)
        <5>1. j \in 1 .. Len(s)
          BY <3>6, <4>1
        <5>. QED BY <3>5, <3>6, <3>7, <4>1, <5>1
      <4>2. CASE j > Len(s)
        <5>1. j - Len(s) \in 1 .. Len(x) /\ ~ (j <= Len(s))
          BY <3>6, <4>2
        <5>. QED BY <3>4, <3>6, <3>7, <5>1
      <4>. QED BY <3>6, <4>1, <4>2
    <3>. QED BY <3>1, <3>7, <3>8 DEF Sources
  <2>. QED BY <2>1, <2>2 DEF Sourced
<1>7. CASE Select \/ SelectFails \/ Accept \/ AcceptBeyond \/ ScanEnd \/ InfoNotReceived
  BY <1>2, <1>7 DEF Select, SelectFails, Accept, AcceptBeyond, ScanEnd, InfoNotReceived,
                    HandshakeFails, client
<1>8. ASSUME NEW i \in Due, PeerGone(i) PROVE Sourced'
  BY <1>2, <1>8 DEF PeerGone
<1>9. CASE ReplicaInfo
  <2>1. PICK c \in Conns : c = Conn(cur)
    BY <1>9, WaitingFacts DEF ReplicaInfo
  <2>2. sent' = sent /\ (stream' = stream \/ \E n \in ReadLengths(stream[c]) : Consume(c, n))
    BY <1>9, <2>1 DEF ReplicaInfo
  <2>3. ReadLengths(stream[c]) \subseteq DOMAIN stream[c]
    BY <1>1 DEF ReadLengths
  <2>. QED BY <1>2, <1>3, <2>2, <2>3
<1>10. ASSUME NEW i \in Due, NEW n \in DOMAIN stream[Conn(i)], pc = "scan",
              Handle(i, n, Buffer(stream[Conn(i)], n))
       PROVE  Sourced'
  <2>1. PICK c \in Conns : c = Conn(i)
    BY <1>10, ServedFacts
  <2>2. sent' = sent /\ (stream' = stream \/ Consume(c, n))
    BY <1>10, <2>1
       DEF Handle, JoinUser, JoinReplica, Reject, Ignore, Request, Exit, Shutdown,
           NoToken, SendKills, InitNotSent, HandshakeFails, Serve, client
  <2>. QED BY <1>2, <1>3, <1>10, <2>1, <2>2
<1>. QED
  BY <1>4, <1>5, <1>6, <1>7, <1>8, <1>9, <1>10, ServerCases DEF Next, Client

\* What a read that is a whole message of kind k was sent as.
LEMMA ReadSource ==
  ASSUME Inv, Sourced, NEW c \in Conns, NEW n \in DOMAIN stream[c], NEW k,
         Is(Buffer(stream[c], n), k)
  PROVE  k \in ToSet(sent[c])
<1>1. stream[c] \in Seq(Atom) /\ n \in 1 .. Len(stream[c])
  BY DEF Inv, Shape
<1>2. PICK m \in 1 .. MaxSent : stream[c][1] = <<k, m, 1>>
  BY <1>1, BufferFacts
<1>3. 1 \in DOMAIN stream[c]
  BY <1>1
<1>4. <<k, m, 1>> # <<"nl">>
  OBVIOUS
<1>5. stream[c][1] = <<"nl">> \/ stream[c][1][1] \in ToSet(sent[c])
  BY <1>3 DEF Sourced, Sources
<1>. QED BY <1>2, <1>4, <1>5

-----------------------------------------------------------------------------
(* What select has reported stays so until the slot is served. *)

Reported ==
  /\ pc = "accept" => \A f \in ready : \E j \in OpenSlots :
                        table[j].fd = f /\ Readable(Conn(j))
  /\ pc = "scan" => \A j \in OpenSlots :
                      j >= cur /\ table[j].fd \in ready => Readable(Conn(j))
  /\ pc = "recv" => \A j \in OpenSlots :
                      j > cur /\ table[j].fd \in ready => Readable(Conn(j))

\* A step of a client leaves what can be read readable.
LEMMA ReportedKept ==
  ASSUME Reported, UNCHANGED <<table, socket, pc, ready, cur>>,
         \A c : Readable(c) => Readable(c)'
  PROVE  Reported'
<1>1. OpenSlots' = OpenSlots /\ \A i : Conn(i)' = Conn(i)
  BY DEF OpenSlots, Conn
<1>2. \A i : Readable(Conn(i)) => Readable(Conn(i))'
  <2>. TAKE i
  <2>1. \A c : c = Conn(i) => c = Conn(i)'
    BY <1>1
  <2>2. \A c : c = Conn(i) => (Readable(c)' <=> Readable(Conn(i))')
    BY <2>1 DEF Readable
  <2>. QED BY <2>2
<1>. QED BY <1>1, <1>2 DEF Reported

\* Only slot i, of connection c, is touched.
Apart(i, c) ==
  /\ ready' = ready
  /\ OpenSlots' \subseteq OpenSlots
  /\ \A j \in OpenSlots' : table'[j].fd = table[j].fd
  /\ \A j \in OpenSlots' \ {i} : Conn(j)' = Conn(j)
  /\ \A d \in Conns \ {c} : stream'[d] = stream[d] /\ peer'[d] = peer[d]

\* The scan goes on behind slot i, or waits for it, or is over.
Onward(i) ==
  /\ \/ pc = "scan" /\ i \in Due
     \/ pc = "recv" /\ i = cur
  /\ \/ pc' = "scan" /\ cur' = i + 1
     \/ pc' = "recv" /\ cur' = i
     \/ pc' \in {"stopped", "killed"}

\* Serving slot i moves the scan past it, and leaves the other slots alone.
LEMMA ReportedServed ==
  ASSUME Inv, Reported, NEW i \in OpenSlots, NEW c \in Conns, Conn(i) = c,
         Onward(i), Apart(i, c)
  PROVE  Reported'
<1>1. i \in Nat /\ cur \in Nat /\ (\A j \in OpenSlots : j \in Nat) /\ i >= cur
  <2>1. i \in Nat /\ cur \in Nat /\ \A j \in OpenSlots : j \in Nat
    BY OpenFacts DEF Inv, Shape
  <2>. QED BY <2>1 DEF Due, Onward
<1>2. ASSUME NEW j \in OpenSlots', j > i, table'[j].fd \in ready'
      PROVE  Readable(Conn(j))'
  <2>1. j \in OpenSlots /\ j # i /\ table[j].fd \in ready /\ j > cur
    <3>1. j \in OpenSlots /\ table[j].fd \in ready
      BY <1>2 DEF Apart
    <3>2. j \in Nat
      BY <1>1, <3>1
    <3>. QED BY <1>1, <1>2, <3>1, <3>2
  <2>2. Readable(Conn(j))
    <3>1. j >= cur
      BY <1>1, <2>1
    <3>2. pc = "scan" \/ pc = "recv"
      BY DEF Onward
    <3>. QED BY <2>1, <3>1, <3>2 DEF Reported
  <2>3. Conn(j) \in Conns
    <3>1. Conn(j) # NONE
      BY <1>1, <2>1 DEF Inv, Links, StaleAt, Onward
    <3>2. table[j].fd \in FDs
      BY <2>1, OpenFacts DEF Inv
    <3>. QED BY <3>1, <3>2 DEF Inv, Shape, Conn
  <2>4. PICK d \in Conns : d = Conn(j) /\ d # c
    BY <2>1, <2>3, OneSlot
  <2>5. Conn(j)' = d
    BY <1>2, <2>1, <2>4 DEF Apart
  <2>6. stream[d] # <<>> \/ peer[d] # "up"
    BY <2>2, <2>4 DEF Readable
  <2>7. stream'[d] # <<>> \/ peer'[d] # "up"
    BY <2>4, <2>6 DEF Apart
  <2>. QED BY <2>5, <2>7 DEF Readable
<1>3. \A j \in OpenSlots' : j \in Nat
  BY <1>1 DEF Apart
<1>. QED BY <1>1, <1>2, <1>3 DEF Reported, Onward

\* Reported, through a read.
LEMMA HandleReported ==
  ASSUME Inv, Reported, pc = "scan", NEW i \in Due, NEW c \in Conns, c = Conn(i),
         NEW n \in DOMAIN stream[c], NEW buf, Handle(i, n, buf)
  PROVE  Reported'
<1>1. /\ Shape /\ i \in OpenSlots /\ i >= cur /\ table[i].fd \in FDs
      /\ socket \in [FDs -> Conns \union {NONE}]
  BY DueOpen DEF Inv, Shape
<1>2. /\ ready' = ready
      /\ \/ pc' = "scan" /\ cur' = i + 1
         \/ pc' = "recv" /\ cur' = i
         \/ pc' \in {"stopped", "killed"}
  BY DEF Handle, JoinUser, JoinReplica, Reject, Ignore, Request, Exit, Shutdown,
         NoToken, SendKills, InitNotSent, HandshakeFails, Serve, Proceed, client
<1>3. \A d \in Conns \ {c} : stream'[d] = stream[d] /\ peer'[d] = peer[d]
  <2>1. Consume(c, n) \/ stream' = stream
    BY DEF Handle, JoinUser, JoinReplica, Reject, Ignore, Request, Exit, Shutdown,
           NoToken, SendKills, InitNotSent, Serve, client
  <2>2. (\E r : Reply(c, r)) \/ UNCHANGED <<replies, peer>>
    BY DEF Handle, JoinUser, JoinReplica, Reject, Ignore, Request, Exit, Shutdown,
           NoToken, SendKills, InitNotSent, HandshakeFails, Silent, client
  <2>. QED BY <1>1, <2>1, <2>2, ServedOnly
<1>4. /\ OpenSlots' \subseteq OpenSlots
      /\ \A j \in OpenSlots' : table'[j].fd = table[j].fd
      /\ \A f \in FDs \ {table[i].fd} : socket'[f] = socket[f]
  <2>1. CASE CloseSlot(i)
    BY <1>1, <2>1, CloseEffect
  <2>2. CASE UNCHANGED <<table, socket>>
    BY <2>2 DEF OpenSlots
  <2>3. CASE \E t \in {"user", "repl"} :
               table' = [table EXCEPT ![i].type = t, ![i].state = "active"]
    <3>1. \/ socket' = socket
          \/ socket' = [socket EXCEPT ![table[i].fd] = NONE]
      BY DEF Handle, JoinUser, JoinReplica, Reject, Ignore, Request, Exit, Shutdown,
             NoToken, SendKills, InitNotSent, HandshakeFails, CloseSlot, KeepSlot, client
    <3>2. \A f \in FDs \ {table[i].fd} : socket'[f] = socket[f]
      BY <1>1, <3>1
    <3>. QED BY <1>1, <2>3, <3>2, AdmitEffect
  <2>. QED BY <2>1, <2>2, <2>3
         DEF Handle, JoinUser, JoinReplica, Reject, Ignore, Request, Exit, Shutdown,
             NoToken, SendKills, InitNotSent, KeepSlot, client
<1>5. \A j \in OpenSlots' \ {i} : Conn(j)' = Conn(j)
  <2>1. \A j \in OpenSlots \ {i} : table[j].fd \in FDs \ {table[i].fd}
    BY <1>1, OpenFacts DEF Inv, Links
  <2>. QED BY <1>4, <2>1 DEF Conn
<1>6. Apart(i, c)
  BY <1>2, <1>3, <1>4, <1>5 DEF Apart
<1>7. Onward(i)
  BY <1>2 DEF Onward
<1>. QED BY <1>1, <1>6, <1>7, ReportedServed

\* Reported, through any step.
LEMMA ReportedStep ==
  ASSUME Inv, Reported, [Next]_vars
  PROVE  Reported'
<1>1. /\ Shape /\ stream \in [Conns -> Seq(Atom)] /\ cur \in Nat
      /\ peer \in [Conns -> {"up", "closed", "reset", "broken"}]
      /\ socket \in [FDs -> Conns \union {NONE}]
  BY DEF Inv, Shape
<1>2. CASE UNCHANGED vars
  BY <1>2, ReportedKept DEF vars, client, Readable
<1>3. ASSUME NEW c \in Conns, Connect(c) PROVE Reported'
  BY <1>3, ReportedKept DEF Connect, Readable
<1>4. ASSUME NEW c \in Conns, NEW k \in Kinds, Send(c, k) PROVE Reported'
  <2>1. \A d : Readable(d) => Readable(d)'
    <3>1. stream'[c] # <<>>
      <4>1. /\ k = "blank" => c \notin Bare
            /\ Len(sent[c]) + 1 \in Nat \ {0} /\ stream[c] \in Seq(Atom)
            /\ stream'[c] = stream[c] \o Text(c, k, Len(sent[c]) + 1)
        BY <1>1, <1>4 DEF Send, Shape
      <4>. DEFINE s == stream[c]
                  x == Text(c, k, Len(sent[c]) + 1)
      <4>2. s \in Seq(Atom) /\ x \in Seq(Atom) /\ x # <<>> /\ stream'[c] = s \o x
        BY <4>1, TextFacts
      <4>. HIDE DEF s, x
      <4>3. Len(s \o x) = Len(s) + Len(x) /\ Len(s) \in Nat /\ Len(x) \in Nat /\ Len(x) # 0
        BY <4>2, ConcatProperties, LenProperties, EmptySeq
      <4>4. Len(s \o x) # 0
        BY <4>3
      <4>5. s \o x # <<>>
        BY <4>4
      <4>. QED BY <4>2, <4>5
    <3>2. \A d : d # c => stream'[d] = stream[d]
      BY <1>1, <1>4 DEF Send
    <3>3. peer' = peer
      BY <1>4 DEF Send
    <3>. QED BY <3>1, <3>2, <3>3 DEF Readable
  <2>. QED BY <1>4, <2>1, ReportedKept DEF Send
<1>5. ASSUME NEW c \in Conns, NEW e \in Endings, Leave(c, e) PROVE Reported'
  <2>1. e # "up"
    BY ServerAssumption
  <2>2. \A d : Readable(d) => Readable(d)'
    BY <1>1, <1>5, <2>1 DEF Leave, Readable
  <2>. QED BY <1>5, <2>2, ReportedKept DEF Leave
<1>6. CASE Select
  <2>1. /\ UNCHANGED <<table, socket, stream, peer>>
        /\ ready' = {table[i].fd : i \in {j \in OpenSlots : Readable(Conn(j))}}
        /\ pc' \in {"accept", "scan"}
    BY <1>6 DEF Select, client
  <2>2. /\ OpenSlots' = OpenSlots
        /\ \A j \in OpenSlots : Conn(j)' = Conn(j) /\ (Readable(Conn(j))' <=> Readable(Conn(j)))
    BY <2>1 DEF OpenSlots, Conn, Readable
  <2>3. \A i, j \in OpenSlots : table[i].fd = table[j].fd => i = j
    BY DEF Inv, Links
  <2>. QED BY <2>1, <2>2, <2>3 DEF Reported
<1>7. CASE Accept
  <2>1. /\ pc = "accept" /\ pc' = "scan" /\ UNCHANGED <<stream, peer, ready>>
        /\ \A f \in ready : \E j \in OpenSlots : table[j].fd = f /\ Readable(Conn(j))
    BY <1>7 DEF Accept, Reported
  <2>2. \A i, j \in OpenSlots : table[i].fd = table[j].fd => i = j
    BY DEF Inv, Links
  <2>3. \A j \in OpenSlots : Conn(j) # NONE
    BY <2>1 DEF Inv, Links, StaleAt
  <2>4. \A j \in OpenSlots : table[j].fd \in ready => Readable(Conn(j))
    BY <2>1, <2>2
  <2>5. CASE /\ UNCHANGED <<socket, conn, backlog>>
             /\ OpenSlots' = OpenSlots
             /\ \A i \in OpenSlots : table'[i] = table[i]
    <3>1. \A j \in OpenSlots :
            /\ table'[j].fd = table[j].fd /\ Conn(j)' = Conn(j)
            /\ Readable(Conn(j))' <=> Readable(Conn(j))
      BY <2>1, <2>5 DEF Conn, Readable
    <3>. QED BY <2>1, <2>4, <2>5, <3>1 DEF Reported
  <2>6. ASSUME NEW f \in FDs, socket[f] = NONE, Head(backlog) \in Conns,
               socket' = [socket EXCEPT ![f] = Head(backlog)],
               OpenSlots' = OpenSlots \union {Len(table) + 1},
               table'[Len(table) + 1] =
                 [fd |-> f, type |-> "unknown", state |-> "handshake"],
               \A i \in OpenSlots : table'[i] = table[i]
        PROVE  Reported'
    <3>1. \A j \in OpenSlots : table[j].fd \in FDs \ {f}
      BY <1>1, <2>3, <2>6, OpenFacts DEF Conn
    <3>2. f \notin ready
      BY <2>1, <3>1
    <3>3. \A j \in OpenSlots' : table'[j].fd \in ready => j \in OpenSlots
      BY <2>6, <3>2
    <3>4. \A g \in FDs \ {f} : socket'[g] = socket[g]
      BY <1>1, <2>6
    <3>5. \A j \in OpenSlots :
            /\ table'[j].fd = table[j].fd /\ Conn(j)' = Conn(j)
            /\ Readable(Conn(j))' <=> Readable(Conn(j))
      <4>1. \A j \in OpenSlots : table'[j].fd = table[j].fd /\ Conn(j)' = Conn(j)
        BY <2>6, <3>1, <3>4 DEF Conn
      <4>. QED BY <2>1, <4>1 DEF Readable
    <3>. QED BY <2>1, <2>4, <3>3, <3>5 DEF Reported
  <2>. QED BY <1>7, <2>5, <2>6, AcceptEffect
<1>8. CASE SelectFails \/ AcceptBeyond \/ ScanEnd
  BY <1>8 DEF SelectFails, AcceptBeyond, ScanEnd, Reported
<1>9. ASSUME NEW i \in Due, PeerGone(i) PROVE Reported'
  <2>1. /\ pc = "scan" /\ CloseSlot(i) /\ pc' = "scan" /\ cur' = i + 1
        /\ UNCHANGED <<stream, peer, ready>>
    BY <1>9 DEF PeerGone, Proceed, Silent
  <2>2. PICK c \in Conns : c = Conn(i)
    BY <2>1, ServedFacts
  <2>3. i \in OpenSlots /\ i >= cur /\ table[i].fd \in FDs
    BY <1>1, DueOpen
  <2>4. /\ OpenSlots' = OpenSlots \ {i}
        /\ \A j \in OpenSlots' : table'[j] = table[j]
        /\ \A f \in FDs \ {table[i].fd} : socket'[f] = socket[f]
    BY <1>1, <2>1, <2>2, <2>3, CloseEffect
  <2>5. \A j \in OpenSlots \ {i} : table[j].fd \in FDs \ {table[i].fd}
    BY <1>1, <2>3, OpenFacts DEF Inv, Links
  <2>6. Apart(i, c)
    BY <2>1, <2>4, <2>5 DEF Apart, Conn
  <2>7. Onward(i)
    BY <2>1 DEF Onward
  <2>. QED BY <2>2, <2>3, <2>6, <2>7, ReportedServed
<1>10. CASE ReplicaInfo \/ InfoNotReceived
  <2>1. /\ pc = "recv" /\ UNCHANGED <<table, peer, ready>>
        /\ \/ pc' = "scan" /\ cur' = cur + 1
           \/ pc' = "killed"
        /\ socket' = socket \/ socket' = [socket EXCEPT ![table[cur].fd] = NONE]
    BY <1>10 DEF ReplicaInfo, InfoNotReceived, HandshakeFails, Proceed
  <2>2. cur \in OpenSlots /\ Conn(cur) \in Conns /\ table[cur].fd \in FDs
    BY <2>1, WaitingFacts
  <2>3. PICK c \in Conns : c = Conn(cur)
    BY <2>2
  <2>4. \A d \in Conns \ {c} : stream'[d] = stream[d]
    BY <1>1, <1>10, <2>3, ServedOnly DEF ReplicaInfo, InfoNotReceived
  <2>5. \A f \in FDs \ {table[cur].fd} : socket'[f] = socket[f]
    BY <1>1, <2>1
  <2>6. \A j \in OpenSlots \ {cur} : table[j].fd \in FDs \ {table[cur].fd}
    BY <1>1, <2>2, OpenFacts DEF Inv, Links
  <2>7. Apart(cur, c)
    BY <2>1, <2>4, <2>5, <2>6 DEF Apart, Conn, OpenSlots
  <2>8. Onward(cur)
    BY <2>1 DEF Onward
  <2>. QED BY <2>2, <2>3, <2>7, <2>8, ReportedServed
<1>11. ASSUME NEW i \in Due, NEW n \in DOMAIN stream[Conn(i)], pc = "scan",
              Handle(i, n, Buffer(stream[Conn(i)], n))
       PROVE  Reported'
  <2>1. PICK c \in Conns : c = Conn(i)
    BY <1>11, ServedFacts
  <2>. QED BY <1>11, <2>1, HandleReported
<1>. QED
  BY <1>2, <1>3, <1>4, <1>5, <1>6, <1>7, <1>8, <1>9, <1>10, <1>11, ServerCases
     DEF Next, Client

-----------------------------------------------------------------------------
(* Leaving: of clients, and of the server. *)

\* What ends the connection of a client that has been answered.
LEMMA GoneBecause ==
  ASSUME Inv, Greeted, Sourced, Reported, [Next]_vars,
         NEW c \in Conns, conn[c] = "open", conn'[c] = "gone", replies[c] # <<>>
  PROVE  peer[c] # "up" \/ "exit" \in ToSet(sent[c])
<1>1. /\ Shape /\ conn \in [Conns -> {"none", "queued", "open", "gone"}]
      /\ cur \in Nat
  BY DEF Inv, Shape
<1>2. conn' # conn
  OBVIOUS
<1>3. ASSUME NEW i \in Due, PeerGone(i) PROVE peer[c] # "up"
  <2>1. pc = "scan" /\ CloseSlot(i) /\ stream[Conn(i)] = <<>>
    BY <1>3 DEF PeerGone
  <2>2. i \in OpenSlots /\ cur <= i /\ i \in Nat /\ table[i].fd \in ready /\ Conn(i) \in Conns
    BY <1>1, <2>1, DueOpen, OpenFacts, ServedFacts DEF Due
  <2>3. Readable(Conn(i))
    BY <1>1, <2>1, <2>2 DEF Reported
  <2>4. c = Conn(i)
    BY <1>1, <2>1 DEF CloseSlot
  <2>. QED BY <2>1, <2>3, <2>4 DEF Readable
<1>4. CASE InfoNotReceived
  <2>1. peer[Conn(cur)] = "reset" /\ conn' = [conn EXCEPT ![Conn(cur)] = "gone"]
    BY <1>2, <1>4 DEF InfoNotReceived, HandshakeFails
  <2>2. c = Conn(cur)
    BY <1>1, <2>1
  <2>. QED BY <2>1, <2>2
<1>5. ASSUME NEW i \in Due, NEW n \in DOMAIN stream[Conn(i)], pc = "scan",
             Handle(i, n, Buffer(stream[Conn(i)], n))
      PROVE  peer[c] # "up" \/ "exit" \in ToSet(sent[c])
  <2>. DEFINE buf == Buffer(stream[Conn(i)], n)
  <2>1. i \in OpenSlots /\ Conn(i) \in Conns
    BY <1>1, <1>5, DueOpen, ServedFacts
  <2>2. conn' = [conn EXCEPT ![Conn(i)] = "gone"]
    BY <1>2, <1>5
       DEF Handle, JoinUser, JoinReplica, Reject, Ignore, Request, Exit, Shutdown,
           NoToken, SendKills, InitNotSent, HandshakeFails, CloseSlot, KeepSlot, client
  <2>3. c = Conn(i)
    BY <1>1, <2>2
  <2>4. Reject(i, n, buf) \/ Exit(i, n, buf) \/ InitNotSent(i, n, buf)
    BY <1>2, <1>5
       DEF Handle, JoinUser, JoinReplica, Ignore, Request, Shutdown, NoToken, SendKills,
           KeepSlot, client
  <2>5. CASE Reject(i, n, buf)
    <3>1. Fresh(c)
      BY <2>1, <2>3, <2>5, OneSlot DEF Reject
    <3>. QED BY <3>1 DEF Greeted, Good
  <2>6. CASE Exit(i, n, buf)
    <3>1. Is(Buffer(stream[c], n), "exit") /\ n \in DOMAIN stream[c]
      BY <2>3, <2>6 DEF Exit
    <3>. QED BY <3>1, ReadSource
  <2>7. CASE InitNotSent(i, n, buf)
    BY <2>3, <2>7 DEF InitNotSent
  <2>. QED BY <2>4, <2>5, <2>6, <2>7
<1>6. CASE Accept
  BY <1>1, <1>6 DEF Accept
<1>7. CASE Client
  BY <1>1, <1>7 DEF Client, Connect, Send, Leave
<1>8. CASE UNCHANGED vars \/ Select \/ SelectFails \/ AcceptBeyond \/ ScanEnd \/ ReplicaInfo
  BY <1>2, <1>8 DEF vars, client, Select, SelectFails, AcceptBeyond, ScanEnd, ReplicaInfo
<1>. QED
  BY <1>3, <1>4, <1>5, <1>6, <1>7, <1>8, ServerCases DEF Next

\* Who stops the server, when select has no other reason to fail.
LEMMA StoppedBecause ==
  ASSUME Inv, Greeted, Sourced, ~ HasMaster, ~ Interrupts, StopsOnRequest, [Next]_vars
  PROVE  StopsOnRequest'
<1>1. /\ Shape /\ sent \in [Conns -> Seq(Kinds)]
      /\ stream \in [Conns -> Seq(Atom)]
  BY DEF Inv, Shape
<1>2. CASE UNCHANGED vars
  BY <1>2 DEF vars, client, StopsOnRequest
<1>3. ASSUME pc' # "stopped" PROVE StopsOnRequest'
  BY <1>3 DEF StopsOnRequest
<1>4. ASSUME UNCHANGED <<pc, sent>> PROVE StopsOnRequest'
  BY <1>4 DEF StopsOnRequest
<1>5. ASSUME NEW c \in Conns, Connect(c) \/ (\E e \in Endings : Leave(c, e))
      PROVE  StopsOnRequest'
  BY <1>4, <1>5 DEF Connect, Leave
<1>6. ASSUME NEW c \in Conns, NEW k \in Kinds, Send(c, k) PROVE StopsOnRequest'
  <2>. SUFFICES ASSUME pc' = "stopped" PROVE StopsOnRequest'
    BY <1>3
  <2>1. pc = "stopped"
    BY <1>6 DEF Send
  <2>2. PICK d \in Conns : /\ Len(sent[d]) > 1 /\ Head(sent[d]) = "join"
                           /\ "shutdown" \in ToSet(sent[d])
    BY <2>1 DEF StopsOnRequest
  <2>3. sent'[d] = sent[d] \/ sent'[d] = Append(sent[d], k)
    BY <1>1, <1>6 DEF Send
  <2>. DEFINE z == sent[d]
  <2>4. z \in Seq(Kinds) /\ Len(z) > 1 /\ Head(z) = "join" /\ "shutdown" \in ToSet(z)
    BY <1>1, <2>2
  <2>. HIDE DEF z
  <2>5. /\ DOMAIN z = 1 .. Len(z) /\ Len(z) \in Nat
        /\ DOMAIN Append(z, k) = 1 .. Len(z) + 1
        /\ Len(Append(z, k)) = Len(z) + 1
        /\ \A j \in 1 .. Len(z) : Append(z, k)[j] = z[j]
    BY <2>4
  <2>6. "shutdown" \in ToSet(Append(z, k))
    BY <2>4, <2>5 DEF ToSet
  <2>7. Head(Append(z, k)) = "join"
    BY <2>4, <2>5
  <2>8. Len(Append(z, k)) > 1
    BY <2>4, <2>5
  <2>. QED BY <2>2, <2>3, <2>6, <2>7, <2>8 DEF StopsOnRequest, z
<1>7. CASE SelectFails
  BY <1>7 DEF SelectFails, Stale, Inv, Links, StaleAt
<1>8. CASE Select \/ Accept \/ AcceptBeyond \/ ScanEnd \/ ReplicaInfo \/ InfoNotReceived
  BY <1>3, <1>8 DEF Select, Accept, AcceptBeyond, ScanEnd, ReplicaInfo, InfoNotReceived,
                    HandshakeFails, Proceed
<1>9. ASSUME NEW i \in Due, PeerGone(i) PROVE StopsOnRequest'
  BY <1>3, <1>9 DEF PeerGone, Proceed
<1>10. ASSUME NEW i \in Due, NEW n \in DOMAIN stream[Conn(i)], pc = "scan",
              Handle(i, n, Buffer(stream[Conn(i)], n))
       PROVE  StopsOnRequest'
  <2>. DEFINE buf == Buffer(stream[Conn(i)], n)
  <2>. SUFFICES ASSUME pc' = "stopped" PROVE StopsOnRequest'
    BY <1>3
  <2>1. Shutdown(i, n, buf)
    BY <1>10 DEF Handle, JoinUser, JoinReplica, Reject, Ignore, Request, Exit,
                 NoToken, SendKills, InitNotSent, HandshakeFails, Proceed
  <2>2. PICK c \in Conns : c = Conn(i) /\ i \in OpenSlots
    BY <1>1, <1>10, DueOpen, ServedFacts
  <2>3. UserOf(c) /\ Is(Buffer(stream[c], n), "shutdown") /\ n \in DOMAIN stream[c]
    BY <1>10, <2>1, <2>2, OneSlot DEF Shutdown
  <2>4. "shutdown" \in ToSet(sent[c])
    BY <2>3, ReadSource
  <2>5. sent[c] # <<>> /\ sent[c][1] = "join"
    BY <2>3 DEF Greeted, Good
  <2>6. Len(sent[c]) > 1 /\ Head(sent[c]) = "join"
    <3>. DEFINE z == sent[c]
    <3>1. z \in Seq(Kinds) /\ z # <<>> /\ z[1] = "join" /\ "shutdown" \in ToSet(z)
      BY <1>1, <2>4, <2>5
    <3>. HIDE DEF z
    <3>2. PICK j \in 1 .. Len(z) : z[j] = "shutdown"
      BY <3>1 DEF ToSet
    <3>. QED BY <3>1, <3>2 DEF z
  <2>7. sent' = sent
    BY <2>1 DEF Shutdown, Serve
  <2>. QED BY <2>4, <2>6, <2>7 DEF StopsOnRequest
<1>. QED
  BY <1>2, <1>5, <1>6, <1>7, <1>8, <1>9, <1>10, ServerCases DEF Next, Client

-----------------------------------------------------------------------------
(* The theorems. *)

\* The server starts with nothing linked and nothing queued.
LEMMA InitInv == Init => Inv
<1>. SUFFICES ASSUME Init PROVE Inv
  OBVIOUS
<1>1. table = <<>> /\ Len(table) = 0 /\ OpenSlots = {}
  BY DEF Init, OpenSlots
<1>2. MaxLen \in Nat /\ NONE \notin Conns
  BY ServerAssumption
<1>3. Shape
  BY <1>1, <1>2 DEF Init, Shape
<1>4. Links
  BY <1>1, <1>2 DEF Init, Links
<1>5. Queue
  BY DEF Init, Queue
<1>. QED BY <1>3, <1>4, <1>5 DEF Inv

\* The three parts of Inv are kept together.
LEMMA InvStep == Inv /\ [Next]_vars => Inv'
BY ShapeStep, LinksStep, QueueStep DEF Inv

\* Slots, descriptors and connections stay linked: no descriptor is in two
\* slots, and a slot without a connection is one that a failed handshake has
\* left (replication.c:119), which no scan reaches before select fails on it.
THEOREM StaysLinked == Spec => []Inv
<1>. QED BY InitInv, InvStep, PTL DEF Spec

\* The state keeps its shape: slots, descriptors and states stay in range, and
\* the loop waits for a replica only in a slot that is open (replication.c:105).
THEOREM TypeCorrect == Spec => []TypeOK
<1>1. Inv => TypeOK
  <2>. SUFFICES ASSUME Inv PROVE TypeOK
    OBVIOUS
  <2>1. DOMAIN table = 1 .. Len(table) /\ \A i \in 1 .. Len(table) : table[i] \in Slot
    BY DEF Inv, Shape
  <2>. QED BY <2>1 DEF Inv, Shape, TypeOK, Slot
<1>. QED BY <1>1, StaysLinked, PTL

\* Without a master configured, every accepted connection is behind exactly
\* one slot and no slot outlives its connection, so that no client is given
\* another one's requests or state (network.c:99).
THEOREM SlotsStaySound == Spec => [](HasMaster \/ SlotsSound)
<1>1. Inv => HasMaster \/ SlotsSound
  <2>. SUFFICES ASSUME Inv, ~ HasMaster PROVE SlotsSound
    OBVIOUS
  <2>1. \A i \in OpenSlots : table[i].fd \in FDs /\ Conn(i) = socket[table[i].fd]
    BY OpenFacts DEF Inv, Conn
  <2>2. \A i \in OpenSlots : Conn(i) # NONE
    BY DEF Inv, Links, StaleAt
  <2>3. \A f \in FDs : socket[f] \in Conns \union {NONE}
    BY DEF Inv, Shape
  <2>4. NONE \notin Conns
    BY ServerAssumption
  <2>5. \A i \in OpenSlots : Conn(i) \in Conns /\ conn[Conn(i)] = "open"
    BY <2>1, <2>2, <2>3 DEF Inv, Links
  <2>6. \A c \in Conns : conn[c] = "open" => \E i \in OpenSlots : Conn(i) = c
    <3>. SUFFICES ASSUME NEW c \in Conns, conn[c] = "open"
                  PROVE  \E i \in OpenSlots : Conn(i) = c
      OBVIOUS
    <3>1. PICK f \in FDs : socket[f] = c
      BY DEF Inv, Links
    <3>2. PICK i \in OpenSlots : table[i].fd = f
      BY <2>4, <3>1 DEF Inv, Links
    <3>. QED BY <2>1, <3>1, <3>2
  <2>7. \A i, j \in OpenSlots : Conn(i) = Conn(j) => i = j
    BY <2>1, <2>2 DEF Inv, Links
  <2>. QED BY <2>5, <2>6, <2>7 DEF SlotsSound
<1>. QED BY <1>1, StaysLinked, PTL

\* The four invariants together.
LEMMA AllInvariant == Spec => [](Inv /\ Greeted /\ Sourced /\ Reported)
<1>1. Init => Inv /\ Greeted /\ Sourced /\ Reported
  <2>. SUFFICES ASSUME Init PROVE Inv /\ Greeted /\ Sourced /\ Reported
    OBVIOUS
  <2>1. OpenSlots = {}
    BY DEF Init, OpenSlots
  <2>2. Greeted
    BY <2>1 DEF Init, Greeted, Good, Fresh, UserOf, FirstUnread, Answered
  <2>3. Sourced
    BY DEF Init, Sourced, Sources
  <2>4. Reported
    BY DEF Init, Reported
  <2>. QED BY <2>2, <2>3, <2>4, InitInv
<1>2. (Inv /\ Greeted /\ Sourced /\ Reported) /\ [Next]_vars
        => (Inv /\ Greeted /\ Sourced /\ Reported)'
  BY InvStep, GreetedStep, SourcedStep, ReportedStep
<1>. QED BY <1>1, <1>2, PTL DEF Spec

\* Nobody is answered before its own handshake, whatever a slot or a
\* descriptor was used for before, with a master configured or not
\* (network.c:103).
THEOREM NobodyAnsweredEarly == Spec => []JoinedFirst
<1>1. Inv /\ Greeted => JoinedFirst
  <2>. SUFFICES ASSUME Inv, Greeted, NEW c \in Conns, replies[c] # <<>>
                PROVE  \/ Head(sent[c]) = "join" /\ Head(replies[c]) = <<"prompt">>
                       \/ Head(sent[c]) = "repl" /\ replies[c] = <<<<"init">>>>
    BY DEF JoinedFirst
  <2>1. sent[c] \in Seq(Kinds) /\ replies[c] \in Seq(Answer)
    BY DEF Inv, Shape
  <2>2. Answered(c)
    BY DEF Greeted, Good
  <2>3. Head(replies[c]) = replies[c][1] /\ (sent[c] # <<>> => Head(sent[c]) = sent[c][1])
    BY <2>1
  <2>. QED BY <2>2, <2>3 DEF Answered
<1>. QED BY <1>1, AllInvariant, PTL

\* A client that has been answered and has not left is disconnected only by
\* its own EXIT: a read of nothing means that it has left, because select has
\* reported it and nothing between the two took what it had sent
\* (network.c:104).
THEOREM UsersStayJoined == Spec => JoinedStay
<1>1. Inv /\ Greeted /\ Sourced /\ Reported /\ [Next]_vars =>
        [\A c \in Conns :
          conn[c] = "open" /\ conn'[c] = "gone" /\ replies[c] # <<>> =>
            peer[c] # "up" \/ "exit" \in ToSet(sent[c])]_vars
  BY GoneBecause
<1>. QED BY <1>1, AllInvariant, PTL DEF Spec, JoinedStay

\* Unless a signal or a handshake's stale descriptor makes select fail, the
\* server stops only on the SHUTDOWN of a client that has joined
\* (network.c:130).
THEOREM StopsWhenAsked ==
  Spec => [](HasMaster \/ Interrupts \/ StopsOnRequest)
<1>1. Init => StopsOnRequest
  BY DEF Init, StopsOnRequest
<1>2. (Inv /\ Greeted /\ Sourced) /\ (HasMaster \/ Interrupts \/ StopsOnRequest)
        /\ [Next]_vars => (HasMaster \/ Interrupts \/ StopsOnRequest)'
  BY StoppedBecause
<1>. QED BY <1>1, <1>2, AllInvariant, PTL DEF Spec
=============================================================================
