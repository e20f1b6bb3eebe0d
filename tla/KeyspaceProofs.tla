--------------------------- MODULE KeyspaceProofs ---------------------------
(***************************************************************************)
(* Proofs about the keyspace, for any keys, values, hash function, memory  *)
(* and capacity.  KInv is the shape of the table: chains, entries and heap *)
(* name each other, and an EXPIRE that is about to write finds its key.    *)
(* From it follow the soundness of the table and of the heap, and that the *)
(* table implements the store of KVStore.                                  *)
(*                                                                         *)
(* TimesShort is a condition, not a fact: hash_delete leaves an entry with *)
(* the time LONG_MAX in the heap.                                          *)
(***************************************************************************)
EXTENDS Keyspace, FiniteSetTheorems, SequenceTheorems, TLAPS

\* The state's shape.
Form ==
  /\ mem \in [Addrs -> EntryType \union {FREE}]
  /\ buckets \in [Buckets -> Seq(Addrs)]
  /\ count = Cardinality(Live)
  /\ queued \subseteq Addrs
  /\ capacity \in Nat \ {0}
  /\ Cardinality(queued) <= capacity
  /\ now \in StartTime .. EndTime

\* The EXPIRE in progress; its last step finds its key.
Command ==
  \/ cmd = Idle
  \/ \E k \in Keys, d \in Durations :
       \/ cmd = <<"update", k, d>>
       \/ cmd = <<"write", k, d>> /\ Present(k)

\* Entries are in the chain of their key's bucket, keys once.
Chained ==
  /\ \A b \in Buckets : \A i \in 1 .. Len(buckets[b]) :
       buckets[b][i] \in Live /\ HashOf[mem[buckets[b][i]].key] = b
  /\ \A b \in Buckets : \A i, j \in 1 .. Len(buckets[b]) :
       mem[buckets[b][i]].key = mem[buckets[b][j]].key => i = j
  /\ \A a \in Live : \E i \in 1 .. Len(Chain(mem[a].key)) : Chain(mem[a].key)[i] = a

\* A sequence without its i-th element.
LEMMA RemoveFacts ==
  ASSUME NEW S, NEW s \in Seq(S), NEW i \in 1 .. Len(s)
  PROVE  /\ RemoveAt(s, i) \in Seq(S)
         /\ Len(RemoveAt(s, i)) = Len(s) - 1
         /\ \A j \in 1 .. Len(s) - 1 :
              RemoveAt(s, i)[j] = IF j < i THEN s[j] ELSE s[j + 1]
<1>. DEFINE u == SubSeq(s, 1, i - 1)
            v == SubSeq(s, i + 1, Len(s))
<1>1. Len(s) \in Nat /\ i \in Nat /\ 1 <= i /\ i <= Len(s)
  OBVIOUS
<1>2. /\ u \in Seq(S) /\ Len(u) = i - 1
      /\ \A j \in 1 .. i - 1 : u[j] = s[j]
  BY <1>1
<1>3. /\ v \in Seq(S) /\ Len(v) = Len(s) - i
      /\ \A j \in 1 .. Len(s) - i : v[j] = s[i + j]
  BY <1>1
<1>. HIDE DEF u, v
<1>4. /\ u \o v \in Seq(S)
      /\ Len(u \o v) = Len(u) + Len(v)
      /\ \A j \in 1 .. Len(u) + Len(v) :
           (u \o v)[j] = IF j <= Len(u) THEN u[j] ELSE v[j - Len(u)]
  BY <1>2, <1>3, ConcatProperties
<1>5. ASSUME NEW j \in 1 .. Len(s) - 1
      PROVE  (u \o v)[j] = IF j < i THEN s[j] ELSE s[j + 1]
  <2>1. CASE j < i
    BY <1>1, <1>2, <1>3, <1>4, <2>1
  <2>2. CASE ~ (j < i)
    <3>1. j - (i - 1) \in 1 .. Len(s) - i /\ i + (j - (i - 1)) = j + 1
      BY <1>1, <2>2
    <3>2. (u \o v)[j] = v[j - (i - 1)]
      BY <1>1, <1>2, <1>3, <1>4, <2>2
    <3>. QED BY <1>3, <2>2, <3>1, <3>2
  <2>. QED BY <2>1, <2>2
<1>6. RemoveAt(s, i) = u \o v
  BY DEF RemoveAt, u, v
<1>7. Len(u) + Len(v) = Len(s) - 1
  BY <1>1, <1>2, <1>3
<1>. QED BY <1>4, <1>5, <1>6, <1>7

\* The only entry of a key.
LEMMA EntryFacts ==
  ASSUME Form, Chained, NEW k \in Keys, Present(k)
  PROVE  /\ Position(k) \in 1 .. Len(Chain(k))
         /\ EntryOf(k) \in Live /\ EntryOf(k) \in Addrs
         /\ mem[EntryOf(k)] \in EntryType /\ mem[EntryOf(k)].key = k
         /\ \A a \in Live : mem[a].key = k => a = EntryOf(k)
<1>1. HashOf[k] \in Buckets /\ Chain(k) = buckets[HashOf[k]] /\ Chain(k) \in Seq(Addrs)
  BY KeyspaceAssumption DEF Form, Chain
<1>2. DOMAIN Chain(k) = 1 .. Len(Chain(k))
  BY <1>1
<1>3. \A i, j \in Matches(k) : i = j
  BY <1>1, <1>2 DEF Chained, Matches
<1>4. PICK p \in Matches(k) : TRUE
  BY DEF Present
<1>5. p \in 1 .. Len(Chain(k)) /\ mem[Chain(k)[p]].key = k /\ p <= p
  BY <1>2, <1>4 DEF Matches
<1>6. \E i \in Matches(k) : \A j \in Matches(k) : i <= j
  BY <1>3, <1>4, <1>5
<1>7. Position(k) \in Matches(k)
  BY <1>6 DEF Position
<1>8. Position(k) \in 1 .. Len(Chain(k)) /\ mem[EntryOf(k)].key = k
  BY <1>2, <1>7 DEF Matches, EntryOf
<1>9. EntryOf(k) \in Live
  BY <1>1, <1>8 DEF Chained, EntryOf
<1>10. EntryOf(k) \in Addrs /\ mem[EntryOf(k)] \in EntryType
  BY <1>9 DEF Live, Form
<1>11. ASSUME NEW a \in Live, mem[a].key = k PROVE a = EntryOf(k)
  <2>1. PICK i \in 1 .. Len(Chain(k)) : Chain(k)[i] = a
    BY <1>11 DEF Chained
  <2>2. i \in Matches(k)
    BY <1>2, <1>11, <2>1 DEF Matches
  <2>. QED BY <1>3, <1>7, <2>1, <2>2 DEF EntryOf
<1>. QED BY <1>8, <1>9, <1>10, <1>11

\* A live key is present.
LEMMA LivePresent ==
  ASSUME Form, Chained, NEW a \in Live
  PROVE  /\ mem[a] \in EntryType /\ mem[a].key \in Keys
         /\ Present(mem[a].key) /\ a = EntryOf(mem[a].key)
<1>1. mem[a] \in EntryType /\ mem[a].key \in Keys
  BY DEF Form, Live, EntryType
<1>2. PICK i \in 1 .. Len(Chain(mem[a].key)) : Chain(mem[a].key)[i] = a
  BY DEF Chained
<1>3. Chain(mem[a].key) \in Seq(Addrs)
  BY <1>1, KeyspaceAssumption DEF Form, Chain
<1>4. Present(mem[a].key)
  BY <1>2, <1>3 DEF Present, Matches
<1>. QED BY <1>1, <1>4, EntryFacts

-----------------------------------------------------------------------------
(* The three ways commands change the table. *)

KInv == Form /\ Command /\ Chained /\ HeapSound

\* An entry that stays keeps its key; none comes or goes.
Rewritten ==
  /\ mem' \in [Addrs -> EntryType \union {FREE}]
  /\ Live' = Live
  /\ \A a \in Live : mem'[a].key = mem[a].key
  /\ UNCHANGED <<buckets, count, now>>

\* A rewrite of entries that keeps keys and chains keeps the table sound.
LEMMA RewrittenKept ==
  ASSUME Form, Chained, Rewritten
  PROVE  /\ Chained'
         /\ \A k \in Keys : Present(k)' <=> Present(k)
<1>1. buckets' = buckets /\ \A k : Chain(k)' = Chain(k)
  BY DEF Rewritten, Chain
<1>2. \A b \in Buckets : buckets[b] \in Seq(Addrs)
  BY DEF Form
<1>3. \A b \in Buckets : \A i \in 1 .. Len(buckets[b]) :
        buckets[b][i] \in Live /\ mem'[buckets[b][i]].key = mem[buckets[b][i]].key
  BY <1>2 DEF Chained, Rewritten
<1>4. \A b \in Buckets : \A i \in 1 .. Len(buckets'[b]) :
       buckets'[b][i] \in Live' /\ HashOf[mem'[buckets'[b][i]].key] = b
  BY <1>1, <1>3 DEF Chained, Rewritten
<1>5. \A b \in Buckets : \A i, j \in 1 .. Len(buckets'[b]) :
       mem'[buckets'[b][i]].key = mem'[buckets'[b][j]].key => i = j
  BY <1>1, <1>3 DEF Chained
<1>6. \A a \in Live' : \E i \in 1 .. Len(Chain(mem[a].key)) : Chain(mem[a].key)[i] = a
  BY DEF Chained, Rewritten
<1>7. \A a \in Live' : mem'[a].key = mem[a].key
  BY DEF Rewritten
<1>8. \A a \in Live' : \E i \in 1 .. Len(buckets'[HashOf[mem'[a].key]]) :
         buckets'[HashOf[mem'[a].key]][i] = a
  BY <1>1, <1>6, <1>7 DEF Chain
<1>9. ASSUME NEW k \in Keys PROVE Present(k)' <=> Present(k)
  <2>1. HashOf[k] \in Buckets
    BY KeyspaceAssumption
  <2>2. DOMAIN buckets[HashOf[k]] = 1 .. Len(buckets[HashOf[k]])
    BY <1>2, <2>1
  <2>3. Matches(k)' = Matches(k)
    BY <1>1, <1>3, <2>1, <2>2 DEF Matches, Chain
  <2>. QED BY <2>3 DEF Present
<1>. QED BY <1>4, <1>5, <1>8, <1>9 DEF Chained, Chain

\* hash_delete: the entry leaves its chain, the table and the heap.
LEMMA UnlinkKept ==
  ASSUME KInv, NEW k \in Keys, Present(k), Unlink(k, queued \ {EntryOf(k)}), UNCHANGED now
  PROVE  Form' /\ Chained' /\ HeapSound'
<1>. DEFINE e == EntryOf(k)
            h == HashOf[k]
            p == Position(k)
<1>1. /\ Form /\ Chained /\ HeapSound
      /\ p \in 1 .. Len(buckets[h]) /\ e = buckets[h][p]
      /\ e \in Live /\ e \in Addrs /\ mem[e].key = k
      /\ \A a \in Live : mem[a].key = k => a = e
  BY EntryFacts DEF KInv, Chain, EntryOf
<1>2. h \in Buckets /\ IsFiniteSet(Addrs) /\ FREE \notin EntryType
  BY KeyspaceAssumption DEF EntryType
<1>3. /\ mem \in [Addrs -> EntryType \union {FREE}] /\ buckets \in [Buckets -> Seq(Addrs)]
      /\ count = Cardinality(Live) /\ queued \subseteq Addrs
      /\ capacity \in Nat \ {0} /\ Cardinality(queued) <= capacity
      /\ now \in StartTime .. EndTime
  BY <1>1 DEF Form
<1>. DEFINE s == buckets[h]
            r == RemoveAt(s, p)
<1>4. /\ s \in Seq(Addrs)
      /\ r \in Seq(Addrs) /\ Len(r) = Len(s) - 1 /\ Len(s) \in Nat /\ p \in Nat
      /\ \A j \in 1 .. Len(s) - 1 : r[j] = IF j < p THEN s[j] ELSE s[j + 1]
  <2>1. s \in Seq(Addrs) /\ p \in 1 .. Len(s) /\ Len(s) \in Nat
    BY <1>1, <1>2, <1>3
  <2>. HIDE DEF s, p
  <2>. QED BY <2>1, RemoveFacts
<1>5. /\ buckets' = [buckets EXCEPT ![h] = r] /\ mem' = [mem EXCEPT ![e] = FREE]
      /\ count' = count - 1 /\ queued' = queued \ {e}
      /\ UNCHANGED <<capacity, now>>
  BY DEF Unlink, ChainWithout, Chain
<1>. HIDE DEF e, h, p, s, r
<1>6. /\ mem'[e] = FREE /\ \A a \in Addrs \ {e} : mem'[a] = mem[a]
      /\ buckets'[h] = r /\ \A b \in Buckets \ {h} : buckets'[b] = buckets[b]
      /\ mem' \in [Addrs -> EntryType \union {FREE}] /\ buckets' \in [Buckets -> Seq(Addrs)]
  BY <1>1, <1>2, <1>3, <1>4, <1>5
<1>7. Live' = Live \ {e}
  BY <1>1, <1>6 DEF Live
<1>8. IsFiniteSet(Live) /\ IsFiniteSet(queued)
  BY <1>2, <1>3, FS_Subset DEF Live
<1>9. Form'
  <2>1. Cardinality(Live') = Cardinality(Live) - 1
    BY <1>1, <1>7, <1>8, FS_RemoveElement
  <2>2. Cardinality(queued') <= capacity
    <3>1. CASE e \in queued
      <4>1. Cardinality(queued') = Cardinality(queued) - 1 /\ Cardinality(queued) \in Nat
        BY <1>5, <1>8, <3>1, FS_RemoveElement, FS_CardinalityType
      <4>. QED BY <1>3, <4>1
    <3>2. CASE e \notin queued
      <4>1. queued' = queued
        BY <1>5, <3>2
      <4>. QED BY <1>3, <4>1
    <3>. QED BY <3>1, <3>2
  <2>. QED BY <1>3, <1>5, <1>6, <2>1, <2>2 DEF Form
<1>10. HeapSound'
  BY <1>1, <1>3, <1>5, <1>6, <1>7 DEF HeapSound, Live
\* Each place of the shortened chain is a place of the old one.
<1>11. \A j \in 1 .. Len(r) : \E i \in 1 .. Len(s) :
         i = (IF j < p THEN j ELSE j + 1) /\ i # p /\ r[j] = s[i]
  BY <1>1, <1>4 DEF s
<1>12. \A i \in 1 .. Len(s) : s[i] = e => i = p
  <2>1. \A i \in 1 .. Len(s) : mem[s[i]].key = mem[s[p]].key => i = p
    BY <1>1, <1>2 DEF Chained, s
  <2>. QED BY <1>1, <2>1 DEF s
<1>13. \A b \in Buckets : \A i \in 1 .. Len(buckets'[b]) :
         /\ buckets'[b][i] \in Live' /\ HashOf[mem'[buckets'[b][i]].key] = b
         /\ mem'[buckets'[b][i]] = mem[buckets'[b][i]]
  <2>. SUFFICES ASSUME NEW b \in Buckets, NEW i \in 1 .. Len(buckets'[b])
                PROVE  /\ buckets'[b][i] \in Live /\ buckets'[b][i] # e
                       /\ HashOf[mem[buckets'[b][i]].key] = b
    BY <1>6, <1>7 DEF Live
  <2>1. CASE b = h
    <3>1. PICK x \in 1 .. Len(s) : x # p /\ buckets'[b][i] = s[x]
      BY <1>6, <1>11, <2>1
    <3>2. s[x] \in Live /\ HashOf[mem[s[x]].key] = h
      BY <1>1, <1>2 DEF Chained, s
    <3>. QED BY <1>12, <2>1, <3>1, <3>2
  <2>2. CASE b # h
    <3>1. buckets'[b] = buckets[b]
      BY <1>6, <2>2
    <3>2. buckets[b][i] \in Live /\ HashOf[mem[buckets[b][i]].key] = b
      BY <1>1, <3>1 DEF Chained
    <3>3. buckets[b][i] # e
      BY <1>1, <2>2, <3>2 DEF h
    <3>. QED BY <3>1, <3>2, <3>3
  <2>. QED BY <2>1, <2>2
<1>14. \A b \in Buckets : \A i, j \in 1 .. Len(buckets'[b]) :
         mem'[buckets'[b][i]].key = mem'[buckets'[b][j]].key => i = j
  <2>. SUFFICES ASSUME NEW b \in Buckets, NEW i \in 1 .. Len(buckets'[b]),
                       NEW j \in 1 .. Len(buckets'[b]),
                       mem[buckets'[b][i]].key = mem[buckets'[b][j]].key
                PROVE  i = j
    BY <1>13
  <2>1. CASE b = h
    <3>1. PICK x \in 1 .. Len(s) : x = (IF i < p THEN i ELSE i + 1) /\ x # p /\ r[i] = s[x]
      BY <1>6, <1>11, <2>1
    <3>2. PICK y \in 1 .. Len(s) : y = (IF j < p THEN j ELSE j + 1) /\ y # p /\ r[j] = s[y]
      BY <1>6, <1>11, <2>1
    <3>3. x = y
      <4>1. mem[s[x]].key = mem[s[y]].key
        BY <1>6, <2>1, <3>1, <3>2
      <4>2. \A m, n \in 1 .. Len(s) : mem[s[m]].key = mem[s[n]].key => m = n
        BY <1>1, <1>2 DEF Chained, s
      <4>. QED BY <4>1, <4>2
    <3>4. i \in Nat /\ j \in Nat
      BY <1>4, <1>6, <2>1
    <3>. QED BY <1>4, <3>1, <3>2, <3>3, <3>4
  <2>2. CASE b # h
    BY <1>1, <1>6, <2>2 DEF Chained
  <2>. QED BY <2>1, <2>2
<1>15. \A a \in Live' : \E i \in 1 .. Len(buckets'[HashOf[mem'[a].key]]) :
         buckets'[HashOf[mem'[a].key]][i] = a
  <2>. SUFFICES ASSUME NEW a \in Live, a # e, a \in Addrs
                PROVE  \E i \in 1 .. Len(buckets'[HashOf[mem[a].key]]) :
                         buckets'[HashOf[mem[a].key]][i] = a
    BY <1>6, <1>7 DEF Live
  <2>1. PICK i \in 1 .. Len(buckets[HashOf[mem[a].key]]) : buckets[HashOf[mem[a].key]][i] = a
    BY <1>1 DEF Chained, Chain
  <2>2. CASE HashOf[mem[a].key] = h
    <3>1. i \in 1 .. Len(s) /\ s[i] = a /\ i # p
      BY <1>1, <2>1, <2>2 DEF s
    <3>2. CASE i < p
      <4>1. i \in 1 .. Len(r) /\ r[i] = a
        BY <1>1, <1>4, <3>1, <3>2 DEF s
      <4>. QED BY <1>6, <2>2, <4>1
    <3>3. CASE i > p
      <4>1. i - 1 \in 1 .. Len(r) /\ ~ (i - 1 < p) /\ (i - 1) + 1 = i
        BY <1>1, <1>4, <3>1, <3>3 DEF s
      <4>2. r[i - 1] = a
        BY <1>4, <3>1, <4>1
      <4>. QED BY <1>6, <2>2, <4>1, <4>2
    <3>4. i \in Nat /\ p \in Nat
      BY <1>4, <3>1
    <3>. QED BY <3>1, <3>2, <3>3, <3>4
  <2>3. CASE HashOf[mem[a].key] # h
    <3>1. HashOf[mem[a].key] \in Buckets
      BY <1>1, LivePresent, KeyspaceAssumption
    <3>. QED BY <1>6, <2>1, <2>3, <3>1
  <2>. QED BY <2>2, <2>3
<1>. QED BY <1>9, <1>10, <1>13, <1>14, <1>15 DEF Chained, Chain

\* SET of a new key: an entry of its own at the chain's end, not in the heap.
LEMMA InsertKept ==
  ASSUME KInv, NEW k \in Keys, ~ Present(k), NEW a \in Addrs \ Live, NEW x \in EntryType,
         x.key = k, x.indexed = FALSE,
         mem' = [mem EXCEPT ![a] = x],
         buckets' = [buckets EXCEPT ![HashOf[k]] = Append(@, a)],
         count' = count + 1, UNCHANGED <<queued, capacity, now>>
  PROVE  Form' /\ Chained' /\ HeapSound'
<1>. DEFINE h == HashOf[k]
            s == buckets[h]
            r == Append(s, a)
<1>1. Form /\ Chained /\ HeapSound
  BY DEF KInv
<1>2. h \in Buckets /\ IsFiniteSet(Addrs) /\ FREE \notin EntryType
  BY KeyspaceAssumption DEF EntryType
<1>3. /\ mem \in [Addrs -> EntryType \union {FREE}] /\ buckets \in [Buckets -> Seq(Addrs)]
      /\ count = Cardinality(Live) /\ queued \subseteq Addrs
      /\ capacity \in Nat \ {0} /\ Cardinality(queued) <= capacity
      /\ now \in StartTime .. EndTime
  BY <1>1 DEF Form
<1>4. s \in Seq(Addrs) /\ buckets' = [buckets EXCEPT ![h] = r]
  BY <1>2, <1>3
<1>5. \A i \in 1 .. Len(s) : mem[s[i]].key # k
  <2>1. DOMAIN s = 1 .. Len(s) /\ Chain(k) = s
    BY <1>4 DEF Chain
  <2>. HIDE DEF s
  <2>. QED BY <2>1 DEF Present, Matches
<1>. HIDE DEF s
<1>6. /\ r \in Seq(Addrs) /\ Len(r) = Len(s) + 1 /\ Len(s) \in Nat
      /\ r[Len(s) + 1] = a /\ \A i \in 1 .. Len(s) : r[i] = s[i]
  BY <1>4
<1>. HIDE DEF r, h
<1>7. /\ mem'[a] = x /\ \A d \in Addrs \ {a} : mem'[d] = mem[d]
      /\ buckets'[h] = r /\ \A b \in Buckets \ {h} : buckets'[b] = buckets[b]
      /\ mem' \in [Addrs -> EntryType \union {FREE}] /\ buckets' \in [Buckets -> Seq(Addrs)]
  <2>1. mem'[a] = x /\ \A d \in Addrs \ {a} : mem'[d] = mem[d]
    BY <1>3
  <2>2. mem' \in [Addrs -> EntryType \union {FREE}]
    BY <1>3
  <2>3. buckets'[h] = r /\ \A b \in Buckets \ {h} : buckets'[b] = buckets[b]
    BY <1>2, <1>3, <1>4
  <2>4. buckets' \in [Buckets -> Seq(Addrs)]
    <3>1. buckets \in [Buckets -> Seq(Addrs)] /\ r \in Seq(Addrs) /\ h \in Buckets
          /\ buckets' = [buckets EXCEPT ![h] = r]
      BY <1>2, <1>3, <1>4, <1>6
    <3>. QED BY <3>1
  <2>. QED BY <2>1, <2>2, <2>3, <2>4
<1>8. Live' = Live \union {a} /\ a \notin Live
  BY <1>2, <1>7 DEF Live
<1>9. Form'
  <2>1. IsFiniteSet(Live)
    BY <1>2, FS_Subset DEF Live
  <2>2. Cardinality(Live') = Cardinality(Live) + 1
    BY <1>8, <2>1, FS_AddElement
  <2>. QED BY <1>3, <1>7, <2>2 DEF Form
<1>10. HeapSound'
  BY <1>1, <1>7, <1>8 DEF HeapSound, Live
<1>11. \A d \in Live : d # a /\ mem'[d] = mem[d]
  BY <1>7, <1>8 DEF Live
<1>12. \A b \in Buckets : \A i \in 1 .. Len(buckets[b]) :
         /\ buckets[b][i] \in Live' /\ HashOf[mem'[buckets[b][i]].key] = b
         /\ mem'[buckets[b][i]].key = mem[buckets[b][i]].key
  BY <1>1, <1>8, <1>11 DEF Chained
<1>13. \A i \in 1 .. Len(r) :
         /\ r[i] \in Live' /\ HashOf[mem'[r[i]].key] = h
         /\ i <= Len(s) => mem'[r[i]].key # k /\ r[i] = s[i] /\ i \in 1 .. Len(s)
         /\ i > Len(s) => mem'[r[i]].key = k /\ i = Len(s) + 1
  <2>. TAKE i \in 1 .. Len(r)
  <2>1. CASE i <= Len(s)
    <3>1. i \in 1 .. Len(s) /\ r[i] = s[i]
      BY <1>6, <2>1
    <3>. QED BY <1>2, <1>5, <1>6, <1>12, <2>1, <3>1 DEF s
  <2>2. CASE i > Len(s)
    <3>1. i = Len(s) + 1 /\ r[i] = a
      BY <1>6, <2>2
    <3>. QED BY <1>6, <1>7, <1>8, <3>1 DEF h
  <2>. QED BY <1>6, <2>1, <2>2
<1>14. \A b \in Buckets : \A i \in 1 .. Len(buckets'[b]) :
         buckets'[b][i] \in Live' /\ HashOf[mem'[buckets'[b][i]].key] = b
  <2>. TAKE b \in Buckets
  <2>1. CASE b = h
    <3>1. buckets'[b] = r
      BY <1>7, <2>1
    <3>2. \A i \in 1 .. Len(r) : r[i] \in Live' /\ HashOf[mem'[r[i]].key] = h
      BY <1>13
    <3>. QED BY <2>1, <3>1, <3>2
  <2>2. CASE b # h
    BY <1>7, <1>12, <2>2
  <2>. QED BY <2>1, <2>2
<1>15. \A b \in Buckets : \A i, j \in 1 .. Len(buckets'[b]) :
         mem'[buckets'[b][i]].key = mem'[buckets'[b][j]].key => i = j
  <2>. SUFFICES ASSUME NEW b \in Buckets, NEW i \in 1 .. Len(buckets'[b]),
                       NEW j \in 1 .. Len(buckets'[b]),
                       mem'[buckets'[b][i]].key = mem'[buckets'[b][j]].key
                PROVE  i = j
    OBVIOUS
  <2>1. CASE b = h
    <3>1. i \in 1 .. Len(r) /\ j \in 1 .. Len(r) /\ mem'[r[i]].key = mem'[r[j]].key
      BY <1>7, <2>1
    <3>2. i \in Nat /\ j \in Nat /\ Len(s) \in Nat
      BY <1>6, <3>1
    <3>3. CASE i <= Len(s)
      <4>1. j <= Len(s)
        BY <1>13, <3>1, <3>2, <3>3
      <4>2. i \in 1 .. Len(s) /\ j \in 1 .. Len(s) /\ mem'[s[i]].key = mem'[s[j]].key
        BY <1>13, <3>1, <3>3, <4>1
      <4>3. mem[s[i]].key = mem[s[j]].key
        BY <1>2, <1>12, <4>2 DEF s
      <4>. QED BY <1>1, <1>2, <4>2, <4>3 DEF Chained, s
    <3>4. CASE i > Len(s)
      BY <1>13, <3>1, <3>2, <3>4
    <3>. QED BY <3>2, <3>3, <3>4
  <2>2. CASE b # h
    <3>1. buckets'[b] = buckets[b]
      BY <1>7, <2>2
    <3>2. mem[buckets[b][i]].key = mem[buckets[b][j]].key
      <4>1. \A m \in 1 .. Len(buckets[b]) :
              mem'[buckets[b][m]].key = mem[buckets[b][m]].key
        BY <1>12
      <4>. QED BY <3>1, <4>1
    <3>. QED BY <1>1, <3>1, <3>2 DEF Chained
  <2>. QED BY <2>1, <2>2
<1>16. \A d \in Live' : \E i \in 1 .. Len(buckets'[HashOf[mem'[d].key]]) :
         buckets'[HashOf[mem'[d].key]][i] = d
  <2>. TAKE d \in Live'
  <2>1. CASE d = a
    <3>1. mem'[d].key = k /\ HashOf[k] = h
      BY <1>7, <2>1 DEF h
    <3>2. Len(s) + 1 \in 1 .. Len(r) /\ r[Len(s) + 1] = d
      BY <1>6, <2>1
    <3>. QED BY <1>7, <3>1, <3>2
  <2>2. CASE d # a
    <3>1. d \in Live /\ mem'[d] = mem[d]
      BY <1>8, <1>11, <2>2
    <3>. DEFINE b == HashOf[mem[d].key]
    <3>2. PICK i \in 1 .. Len(buckets[b]) : buckets[b][i] = d
      BY <1>1, <3>1 DEF Chained, Chain
    <3>3. b \in Buckets
      BY <1>1, <3>1, LivePresent, KeyspaceAssumption
    <3>. HIDE DEF b
    <3>4. \E m \in 1 .. Len(buckets'[b]) : buckets'[b][m] = d
      <4>1. CASE b = h
        <5>1. i \in 1 .. Len(r) /\ r[i] = d
          BY <1>6, <3>2, <4>1 DEF s
        <5>. QED BY <1>7, <4>1, <5>1
      <4>2. CASE b # h
        BY <1>7, <3>2, <3>3, <4>2
      <4>. QED BY <4>1, <4>2
    <3>. QED BY <3>1, <3>4 DEF b
  <2>. QED BY <2>1, <2>2
<1>. QED BY <1>9, <1>10, <1>14, <1>15, <1>16 DEF Chained, Chain

-----------------------------------------------------------------------------
(* Each command. *)

\* A step that leaves the table.
LEMMA TableSame ==
  ASSUME KInv, UNCHANGED table, now' \in StartTime .. EndTime, Command'
  PROVE  KInv'
BY DEF KInv, table, Form, Chained, HeapSound, Live, Chain

\* A lookup that finds nothing.
LEMMA MissKept ==
  ASSUME KInv, NEW k \in Keys, Miss(k), UNCHANGED now, cmd' = Idle
  PROVE  KInv'
<1>1. CASE Present(k)
  BY <1>1, UnlinkKept DEF Miss, KInv, Command
<1>2. CASE ~ Present(k)
  <2>1. UNCHANGED table /\ now' \in StartTime .. EndTime /\ Command'
    BY <1>2 DEF Miss, KInv, Command, Form
  <2>. QED BY <2>1, TableSame
<1>. QED BY <1>1, <1>2

\* What the entry of a key may be rewritten to.
LEMMA EntryRewritten ==
  ASSUME KInv, NEW k \in Keys, Present(k), NEW x \in EntryType, x.key = k,
         mem' = [mem EXCEPT ![EntryOf(k)] = x],
         UNCHANGED <<buckets, count, now>>
  PROVE  /\ Rewritten
         /\ mem'[EntryOf(k)] = x
         /\ \A a \in Addrs \ {EntryOf(k)} : mem'[a] = mem[a]
<1>. DEFINE e == EntryOf(k)
<1>1. /\ e \in Addrs /\ e \in Live /\ mem[e].key = k
      /\ mem \in [Addrs -> EntryType \union {FREE}]
  BY EntryFacts DEF KInv, Form
<1>. HIDE DEF e
<1>2. mem' = [mem EXCEPT ![e] = x]
  BY DEF e
<1>3. mem'[e] = x /\ \A a \in Addrs \ {e} : mem'[a] = mem[a]
  BY <1>1, <1>2
<1>4. mem' \in [Addrs -> EntryType \union {FREE}]
  BY <1>1, <1>2
<1>5. FREE \notin EntryType
  BY KeyspaceAssumption DEF EntryType
<1>6. Live' = Live /\ \A a \in Live : mem'[a].key = mem[a].key
  BY <1>1, <1>3, <1>5 DEF Live
<1>. QED BY <1>3, <1>4, <1>6 DEF Rewritten, e

\* No live entry has the one time that hash_delete does not find.
Timely == \A a \in Live : mem[a].expiry # LONG_MAX

\* The wrapped time is a number.
LEMMA WrapInt ==
  ASSUME NEW t \in Int
  PROVE  WrapTime(t) \in Int
<1>1. LONG_MAX \in Nat
  BY KeyspaceAssumption
<1>2. (t + LONG_MAX + 1) % (2 * (LONG_MAX + 1)) \in Int
  BY <1>1
<1>. QED BY <1>1, <1>2 DEF WrapTime

\* SET keeps the invariant, whether its key is in the chain or not.
LEMMA SetKept ==
  ASSUME KInv, NEW k \in Keys, NEW v \in Values, SetNew(k, v) \/ SetExisting(k, v)
  PROVE  KInv'
<1>1. CASE SetNew(k, v)
  <2>. DEFINE x == [key |-> k, value |-> v, expiry |-> NEVER, indexed |-> FALSE]
  <2>1. x \in EntryType /\ x.key = k /\ x.indexed = FALSE
    BY DEF EntryType, NEVER
  <2>2. PICK a \in Addrs \ Live :
          /\ mem' = [mem EXCEPT ![a] = x]
          /\ buckets' = [buckets EXCEPT ![HashOf[k]] = Append(@, a)]
    BY <1>1 DEF SetNew
  <2>3. /\ ~ Present(k) /\ count' = count + 1 /\ UNCHANGED <<queued, capacity, now>>
        /\ cmd' = Idle
    BY <1>1 DEF SetNew, Answer
  <2>. HIDE DEF x
  <2>. QED BY <2>1, <2>2, <2>3, InsertKept DEF KInv, Command
<1>2. CASE SetExisting(k, v)
  <2>1. /\ Present(k) /\ mem' = [mem EXCEPT ![EntryOf(k)] = ValueUpdated(@, v)]
        /\ UNCHANGED <<buckets, count, queued, capacity, now>> /\ cmd' = Idle
    BY <1>2 DEF SetExisting, Answer
  <2>. DEFINE e == EntryOf(k)
              x == [mem[e] EXCEPT !.value = v]
  <2>2. e \in Addrs /\ e \in Live /\ mem[e] \in EntryType /\ mem[e].key = k
    BY <2>1, EntryFacts DEF KInv
  <2>3. x \in EntryType /\ x.key = k /\ x.indexed = mem[e].indexed
    BY <2>2 DEF EntryType
  <2>4. mem' = [mem EXCEPT ![e] = x]
    BY <2>1 DEF ValueUpdated
  <2>. HIDE DEF x
  <2>5. /\ Rewritten /\ mem'[e] = x
        /\ \A a \in Addrs \ {e} : mem'[a] = mem[a]
    BY <2>1, <2>3, <2>4, EntryRewritten
  <2>6. \A a \in Live : mem'[a].indexed = mem[a].indexed
    BY <2>3, <2>5 DEF Live
  <2>7. HeapSound'
    BY <2>1, <2>5, <2>6 DEF KInv, HeapSound, Rewritten
  <2>8. Form'
    BY <2>1, <2>5 DEF KInv, Form, Rewritten
  <2>9. Chained'
    BY <2>5, RewrittenKept DEF KInv
  <2>. QED BY <2>1, <2>7, <2>8, <2>9 DEF KInv, Command
<1>. QED BY <1>1, <1>2

\* DELETE keeps it: hash_delete finds the entry in the heap when it is there.
LEMMA DeleteKept ==
  ASSUME KInv, Timely, NEW k \in Keys, Delete(k)
  PROVE  KInv'
<1>1. UNCHANGED now /\ cmd' = Idle
  BY DEF Delete, Answer
<1>2. CASE ~ Present(k)
  <2>1. UNCHANGED table /\ Command' /\ now' \in StartTime .. EndTime
    BY <1>1, <1>2 DEF Delete, Command, KInv, Form
  <2>. QED BY <2>1, TableSame
<1>3. CASE Present(k)
  <2>1. Unlink(k, AfterDelete(EntryOf(k)))
    BY <1>3 DEF Delete
  <2>2. EntryOf(k) \in Live
    BY <1>3, EntryFacts DEF KInv
  <2>3. AfterDelete(EntryOf(k)) = queued \ {EntryOf(k)}
    BY <2>2 DEF AfterDelete, KInv, HeapSound, Timely
  <2>. QED BY <1>1, <1>3, <2>1, <2>3, UnlinkKept DEF KInv, Command
<1>. QED BY <1>2, <1>3

\* So does the lookup of hash_update_expiry, which takes the key out of the heap.
LEMMA UpdateKept ==
  ASSUME KInv, ExpireUpdate
  PROVE  KInv'
<1>1. PICK k \in Keys, d \in Durations : cmd = <<"update", k, d>>
  BY DEF KInv, Command, ExpireUpdate, Idle
<1>2. cmd[2] = k
  BY <1>1
<1>3. CASE Miss(k) /\ cmd' = Idle
  BY <1>3, MissKept DEF ExpireUpdate
<1>4. CASE /\ Found(k)
           /\ mem' = [mem EXCEPT ![EntryOf(k)].indexed = FALSE]
           /\ queued' = queued \ {EntryOf(k)}
           /\ cmd' = [cmd EXCEPT ![1] = "write"]
           /\ UNCHANGED <<buckets, count, capacity, reply>>
  <2>. DEFINE e == EntryOf(k)
              x == [mem[e] EXCEPT !.indexed = FALSE]
  <2>1. /\ Present(k) /\ queued' = queued \ {e}
        /\ UNCHANGED <<buckets, count, capacity, now>> /\ cmd' = <<"write", k, d>>
    BY <1>1, <1>4 DEF ExpireUpdate, Found
  <2>2. e \in Addrs /\ e \in Live /\ mem[e] \in EntryType /\ mem[e].key = k
    BY <2>1, EntryFacts DEF KInv
  <2>3. x \in EntryType /\ x.key = k /\ x.indexed = FALSE
    BY <2>2 DEF EntryType
  <2>4. mem' = [mem EXCEPT ![e] = x]
    BY <1>4
  <2>. HIDE DEF x
  <2>5. /\ Rewritten /\ mem'[e] = x
        /\ \A a \in Addrs \ {e} : mem'[a] = mem[a]
    BY <2>1, <2>3, <2>4, EntryRewritten
  <2>6. HeapSound'
    BY <2>1, <2>3, <2>5 DEF KInv, HeapSound, Rewritten, Live
  <2>7. Cardinality(queued') <= capacity
    <3>1. IsFiniteSet(queued) /\ Cardinality(queued) <= capacity /\ capacity \in Nat
      BY FS_Subset, KeyspaceAssumption DEF KInv, Form
    <3>2. Cardinality(queued') <= Cardinality(queued) /\ Cardinality(queued) \in Nat
          /\ Cardinality(queued') \in Nat
      <4>1. queued' \subseteq queued
        BY <2>1
      <4>. HIDE DEF e
      <4>. QED BY <3>1, <4>1, FS_Subset, FS_CardinalityType
    <3>. QED BY <3>1, <3>2
  <2>8. Form'
    BY <2>1, <2>5, <2>7 DEF KInv, Form, Rewritten
  <2>9. Chained' /\ Present(k)'
    BY <2>1, <2>5, RewrittenKept DEF KInv
  <2>10. Command'
    BY <2>1, <2>9 DEF Command
  <2>. QED BY <2>6, <2>8, <2>9, <2>10 DEF KInv
<1>. QED BY <1>2, <1>3, <1>4 DEF ExpireUpdate

\* The last step of EXPIRE rewrites the entry, which may enter the heap.
LEMMA WriteKept ==
  ASSUME KInv, ExpireWrite
  PROVE  /\ KInv' /\ Rewritten
         /\ \E k \in Keys, d \in Durations :
              /\ cmd = <<"write", k, d>> /\ Present(k) /\ cmd' = Idle
              /\ mem'[EntryOf(k)].expiry = WrapTime(now + d)
              /\ mem'[EntryOf(k)].value = mem[EntryOf(k)].value
              /\ \A a \in Addrs \ {EntryOf(k)} : mem'[a] = mem[a]
<1>1. PICK k \in Keys, d \in Durations : cmd = <<"write", k, d>> /\ Present(k)
  BY DEF KInv, Command, ExpireWrite, Idle
<1>. DEFINE e == EntryOf(k)
            t == WrapTime(now + d)
<1>2. t \in Int
  <2>1. now \in Int /\ d \in Int
    BY KeyspaceAssumption DEF KInv, Form
  <2>2. now + d \in Int
    BY <2>1
  <2>. QED BY <2>2, WrapInt
<1>3. e \in Addrs /\ e \in Live /\ mem[e] \in EntryType /\ mem[e].key = k
  BY <1>1, EntryFacts DEF KInv
<1>4. /\ queued = {a \in Live : mem[a].indexed} /\ queued \subseteq Addrs
      /\ capacity \in Nat \ {0} /\ Cardinality(queued) <= capacity
      /\ IsFiniteSet(queued)
  BY FS_Subset, KeyspaceAssumption DEF KInv, Form, HeapSound
<1>5. Cardinality(queued) \in Nat
  BY <1>4, FS_CardinalityType
<1>6. cmd' = Idle /\ UNCHANGED <<buckets, count, now>>
  BY DEF ExpireWrite
<1>7. cmd[2] = k /\ cmd[3] = d
  BY <1>1
<1>8. \/ /\ IF HeapFull THEN 2 * capacity <= MaxCapacity /\ capacity' = 2 * capacity
                    ELSE UNCHANGED capacity
         /\ mem' = [mem EXCEPT ![e].expiry = t, ![e].indexed = TRUE]
         /\ queued' = queued \union {e}
      \/ /\ mem' = [mem EXCEPT ![e].expiry = t]
         /\ UNCHANGED <<queued, capacity>>
  BY <1>7 DEF ExpireWrite
<1>9. \E x \in EntryType :
        /\ x.key = k /\ x.value = mem[e].value /\ x.expiry = t
        /\ mem' = [mem EXCEPT ![e] = x]
        /\ queued' = IF x.indexed THEN queued \union {e} ELSE queued
        /\ x.indexed \/ x.indexed = mem[e].indexed
  <2>1. CASE /\ mem' = [mem EXCEPT ![e].expiry = t, ![e].indexed = TRUE]
             /\ queued' = queued \union {e}
    <3>. DEFINE x == [mem[e] EXCEPT !.expiry = t, !.indexed = TRUE]
    <3>1. x \in EntryType /\ x.key = k /\ x.value = mem[e].value /\ x.expiry = t /\ x.indexed = TRUE
      BY <1>2, <1>3 DEF EntryType
    <3>2. mem' = [mem EXCEPT ![e] = x]
      BY <1>3, <2>1 DEF KInv, Form
    <3>. HIDE DEF x
    <3>. QED BY <2>1, <3>1, <3>2
  <2>2. CASE mem' = [mem EXCEPT ![e].expiry = t] /\ queued' = queued
    <3>. DEFINE x == [mem[e] EXCEPT !.expiry = t]
    <3>1. x \in EntryType /\ x.key = k /\ x.value = mem[e].value /\ x.expiry = t /\ x.indexed = mem[e].indexed
      BY <1>2, <1>3 DEF EntryType
    <3>2. mem' = [mem EXCEPT ![e] = x]
      BY <2>2
    <3>3. x.indexed => queued \union {e} = queued
      BY <1>3, <1>4, <3>1
    <3>. HIDE DEF x
    <3>. QED BY <2>2, <3>1, <3>2, <3>3
  <2>. QED BY <1>8, <2>1, <2>2
<1>10. PICK x \in EntryType :
        /\ x.key = k /\ x.value = mem[e].value /\ x.expiry = t
        /\ mem' = [mem EXCEPT ![e] = x]
        /\ queued' = IF x.indexed THEN queued \union {e} ELSE queued
        /\ x.indexed \/ x.indexed = mem[e].indexed
  BY <1>9
<1>11. /\ Rewritten /\ mem'[e] = x
       /\ \A a \in Addrs \ {e} : mem'[a] = mem[a]
  BY <1>1, <1>6, <1>10, EntryRewritten
<1>12. capacity' \in Nat \ {0} /\ Cardinality(queued') <= capacity'
  <2>. HIDE DEF e, t
  <2>1. CASE queued' = queued /\ UNCHANGED capacity
    BY <1>4, <2>1
  <2>2. CASE /\ IF HeapFull THEN 2 * capacity <= MaxCapacity /\ capacity' = 2 * capacity
                         ELSE UNCHANGED capacity
             /\ queued' = queued \union {e}
    <3>1. Cardinality(queued') = Cardinality(queued)
            \/ Cardinality(queued') = Cardinality(queued) + 1
      <4>1. CASE e \in queued
        <5>1. queued' = queued
          BY <2>2, <4>1
        <5>. QED BY <5>1
      <4>2. CASE e \notin queued
        BY <1>4, <2>2, <4>2, FS_AddElement
      <4>. QED BY <4>1, <4>2
    <3>2. CASE HeapFull
      BY <1>4, <1>5, <2>2, <3>1, <3>2 DEF HeapFull
    <3>3. CASE ~ HeapFull
      BY <1>4, <1>5, <2>2, <3>1, <3>3 DEF HeapFull
    <3>. QED BY <3>2, <3>3
  <2>. QED BY <1>8, <2>1, <2>2
<1>13. HeapSound'
  <2>1. queued' = {a \in Live : mem'[a].indexed}
    <3>1. \A a \in Live : a \in queued <=> mem[a].indexed
      BY <1>4
    <3>2. \A a \in Live : a \in queued' <=> mem'[a].indexed
      BY <1>3, <1>10, <1>11, <3>1 DEF Live
    <3>3. queued' \subseteq Live
      BY <1>3, <1>4, <1>10
    <3>. QED BY <3>2, <3>3
  <2>. QED BY <1>11, <2>1 DEF HeapSound, Rewritten
<1>14. Form'
  <2>1. queued' \subseteq Addrs
    BY <1>3, <1>4, <1>10
  <2>. QED BY <1>6, <1>11, <1>12, <2>1 DEF KInv, Form, Rewritten
<1>15. Chained'
  BY <1>11, RewrittenKept DEF KInv
<1>. QED BY <1>1, <1>6, <1>10, <1>11, <1>13, <1>14, <1>15 DEF KInv, Command

-----------------------------------------------------------------------------
(* The invariant. *)

\* The empty table.
LEMMA KInvInit ==
  ASSUME Init
  PROVE  KInv
<1>1. Live = {} /\ Cardinality({}) = 0 /\ IsFiniteSet({})
  BY FS_EmptySet DEF Init, Live
<1>2. mem \in [Addrs -> EntryType \union {FREE}] /\ buckets \in [Buckets -> Seq(Addrs)]
  BY DEF Init
<1>3. StartTime \in StartTime .. EndTime /\ InitCapacity \in Nat \ {0}
  BY KeyspaceAssumption
<1>4. Form
  BY <1>1, <1>2, <1>3 DEF Init, Form
<1>5. Chained
  <2>1. \A b \in Buckets : 1 .. Len(buckets[b]) = {}
    BY DEF Init
  <2>. QED BY <1>1, <2>1 DEF Chained
<1>6. HeapSound
  BY <1>1 DEF Init, HeapSound
<1>. QED BY <1>4, <1>5, <1>6 DEF KInv, Command, Init

\* Every step keeps the invariant, action by action.
LEMMA KInvStep ==
  ASSUME KInv, Timely, [Next]_vars
  PROVE  KInv'
<1>1. CASE UNCHANGED vars
  <2>1. UNCHANGED <<table, now, cmd>> /\ now' \in StartTime .. EndTime
    BY <1>1 DEF vars, KInv, Form
  <2>2. Command'
    BY <2>1 DEF KInv, Command, table, Present, Matches, Chain
  <2>. QED BY <2>1, <2>2, TableSame
<1>2. CASE Tick
  <2>1. UNCHANGED <<table, cmd>> /\ now' \in StartTime .. EndTime
    BY <1>2, KeyspaceAssumption DEF Tick, KInv, Form
  <2>2. Command'
    BY <2>1 DEF KInv, Command, table, Present, Matches, Chain
  <2>. QED BY <2>1, <2>2, TableSame
<1>3. ASSUME UNCHANGED table, UNCHANGED now, cmd' = Idle PROVE KInv'
  BY <1>3, TableSame DEF Command, KInv, Form
<1>4. ASSUME NEW k \in Keys, NEW v \in Values, SetNew(k, v) \/ SetExisting(k, v) PROVE KInv'
  BY <1>4, SetKept
<1>5. ASSUME NEW k \in Keys, SetFull(k) PROVE KInv'
  BY <1>3, <1>5 DEF SetFull, Answer
<1>6. ASSUME NEW k \in Keys, Get(k) PROVE KInv'
  BY <1>3, <1>6, MissKept DEF Get, Answer
<1>7. ASSUME NEW k \in Keys, GetExpiry(k) PROVE KInv'
  <2>1. UNCHANGED now /\ cmd' = Idle /\ (Miss(k) \/ UNCHANGED table)
    BY <1>7 DEF GetExpiry, Answer
  <2>. QED BY <1>3, <2>1, MissKept
<1>8. ASSUME NEW k \in Keys, Exists(k) PROVE KInv'
  BY <1>3, <1>8, MissKept DEF Exists, Answer
<1>9. ASSUME NEW k \in Keys, Delete(k) PROVE KInv'
  BY <1>9, DeleteKept
<1>10. CASE SetNoMem \/ BadRequest
  BY <1>3, <1>10 DEF SetNoMem, BadRequest, Answer
<1>11. ASSUME NEW k \in Keys, NEW d \in Durations, ExpireBegin(k, d) PROVE KInv'
  <2>1. CASE Miss(k) /\ Answer(<<"FALSE">>)
    BY <2>1, MissKept DEF Answer
  <2>2. CASE cmd' = <<"update", k, d>> /\ UNCHANGED <<table, now>>
    <3>1. Command' /\ now' \in StartTime .. EndTime
      BY <2>2 DEF Command, KInv, Form
    <3>. QED BY <2>2, <3>1, TableSame
  <2>. QED BY <1>11, <2>1, <2>2 DEF ExpireBegin
<1>12. CASE ExpireUpdate
  BY <1>12, UpdateKept
<1>13. CASE ExpireWrite
  BY <1>13, WriteKept
<1>. QED BY <1>1, <1>2, <1>4, <1>5, <1>6, <1>7, <1>8, <1>9, <1>10, <1>11, <1>12, <1>13 DEF Next

\* What hash_delete does to the entries.
LEMMA UnlinkEffect ==
  ASSUME KInv, NEW k \in Keys, Present(k), NEW q, Unlink(k, q)
  PROVE  /\ Live' = Live \ {EntryOf(k)} /\ queued' = q
         /\ \A a \in Addrs \ {EntryOf(k)} : mem'[a] = mem[a]
<1>. DEFINE e == EntryOf(k)
<1>1. e \in Addrs /\ e \in Live /\ mem \in [Addrs -> EntryType \union {FREE}]
  BY EntryFacts DEF KInv, Form
<1>2. mem' = [mem EXCEPT ![e] = FREE] /\ queued' = q
  BY DEF Unlink
<1>. HIDE DEF e
<1>3. mem'[e] = FREE /\ \A a \in Addrs \ {e} : mem'[a] = mem[a]
  BY <1>1, <1>2
<1>4. Live' = Live \ {e}
  BY <1>1, <1>3 DEF Live
<1>. QED BY <1>2, <1>3, <1>4 DEF e

\* What a step does to the entries: nothing, or it frees, adds or rewrites the
\* entry of one key.
Freed(k) ==
  /\ Present(k)
  /\ Live' = Live \ {EntryOf(k)} /\ queued' = queued \ {EntryOf(k)}
  /\ \A a \in Addrs \ {EntryOf(k)} : mem'[a] = mem[a]

Added(k, v) ==
  /\ ~ Present(k)
  /\ queued' = queued
  /\ \E a \in Addrs \ Live :
       /\ mem'[a] = [key |-> k, value |-> v, expiry |-> NEVER, indexed |-> FALSE]
       /\ Live' = Live \union {a}
       /\ \A c \in Addrs \ {a} : mem'[c] = mem[c]

Changed(k, v, t) ==
  /\ Present(k)
  /\ Live' = Live
  /\ mem'[EntryOf(k)].key = k
  /\ mem'[EntryOf(k)].value = v /\ mem'[EntryOf(k)].expiry = t
  /\ \A a \in Addrs \ {EntryOf(k)} : mem'[a] = mem[a]

\* A lookup that finds nothing frees the entry of the key, if it has one.
LEMMA MissEffect ==
  ASSUME KInv, NEW k \in Keys, Miss(k)
  PROVE  ~ Found(k) /\ (Freed(k) \/ (~ Present(k) /\ UNCHANGED table))
BY UnlinkEffect DEF Miss, Freed

\* DELETE frees it too, and out of the heap.
LEMMA DeleteEffect ==
  ASSUME KInv, Timely, NEW k \in Keys, Delete(k)
  PROVE  \/ Freed(k) /\ reply' = <<"OK">>
         \/ ~ Present(k) /\ UNCHANGED table /\ reply' = <<"ERR">>
<1>1. CASE Present(k)
  <2>1. Unlink(k, AfterDelete(EntryOf(k))) /\ reply' = <<"OK">>
    BY <1>1 DEF Delete, Answer
  <2>2. EntryOf(k) \in Live
    BY <1>1, EntryFacts DEF KInv
  <2>3. AfterDelete(EntryOf(k)) = queued \ {EntryOf(k)}
    BY <2>2 DEF AfterDelete, KInv, HeapSound, Timely
  <2>. QED BY <1>1, <2>1, <2>3, UnlinkEffect DEF Freed
<1>2. CASE ~ Present(k)
  BY <1>2 DEF Delete, Answer
<1>. QED BY <1>1, <1>2

\* SET of a key that is not in its chain adds an entry.
LEMMA SetNewEffect ==
  ASSUME KInv, NEW k \in Keys, NEW v \in Values, SetNew(k, v)
  PROVE  Added(k, v)
<1>. DEFINE x == [key |-> k, value |-> v, expiry |-> NEVER, indexed |-> FALSE]
<1>1. PICK a \in Addrs \ Live : mem' = [mem EXCEPT ![a] = x]
  BY DEF SetNew
<1>2. ~ Present(k) /\ queued' = queued
  BY DEF SetNew
<1>3. mem \in [Addrs -> EntryType \union {FREE}] /\ x \in EntryType /\ FREE \notin EntryType
  BY KeyspaceAssumption DEF KInv, Form, EntryType, NEVER
<1>. HIDE DEF x
<1>4. mem'[a] = x /\ \A c \in Addrs \ {a} : mem'[c] = mem[c]
  BY <1>1, <1>3
<1>5. Live' = Live \union {a}
  BY <1>3, <1>4 DEF Live
<1>. QED BY <1>2, <1>4, <1>5 DEF Added, x

\* SET of a key that is keeps its expiry time.
LEMMA SetExistingEffect ==
  ASSUME KInv, NEW k \in Keys, NEW v \in Values, SetExisting(k, v)
  PROVE  /\ Changed(k, v, mem[EntryOf(k)].expiry) /\ queued' = queued
<1>1. /\ Present(k) /\ mem' = [mem EXCEPT ![EntryOf(k)] = ValueUpdated(@, v)]
      /\ UNCHANGED <<buckets, count, queued, now>>
  BY DEF SetExisting, Answer
<1>. DEFINE e == EntryOf(k)
            x == [mem[e] EXCEPT !.value = v]
<1>2. e \in Addrs /\ mem[e] \in EntryType /\ mem[e].key = k
  BY <1>1, EntryFacts DEF KInv
<1>3. x \in EntryType /\ x.key = k /\ x.value = v /\ x.expiry = mem[e].expiry
  BY <1>2 DEF EntryType
<1>4. mem' = [mem EXCEPT ![e] = x]
  BY <1>1 DEF ValueUpdated
<1>. HIDE DEF x
<1>5. Rewritten /\ mem'[e] = x /\ \A a \in Addrs \ {e} : mem'[a] = mem[a]
  BY <1>1, <1>3, <1>4, EntryRewritten
<1>. QED BY <1>1, <1>3, <1>5 DEF Changed, Rewritten

\* The second clock reading of EXPIRE.
LEMMA UpdateEffect ==
  ASSUME KInv, ExpireUpdate
  PROVE  \E k \in Keys, d \in Durations :
           /\ cmd = <<"update", k, d>> /\ UNCHANGED now
           /\ \/ Miss(k) /\ cmd' = Idle /\ reply' = <<"NULL">>
              \/ /\ Found(k) /\ cmd' = <<"write", k, d>> /\ UNCHANGED reply
                 /\ Changed(k, mem[EntryOf(k)].value, mem[EntryOf(k)].expiry)
<1>1. PICK k \in Keys, d \in Durations : cmd = <<"update", k, d>>
  BY DEF KInv, Command, ExpireUpdate, Idle
<1>2. cmd[2] = k
  BY <1>1
<1>3. CASE /\ Found(k)
           /\ mem' = [mem EXCEPT ![EntryOf(k)].indexed = FALSE]
           /\ cmd' = [cmd EXCEPT ![1] = "write"]
           /\ UNCHANGED <<buckets, count, capacity, reply>>
  <2>. DEFINE e == EntryOf(k)
              x == [mem[e] EXCEPT !.indexed = FALSE]
  <2>1. Present(k) /\ UNCHANGED <<buckets, count, now>> /\ cmd' = <<"write", k, d>>
    BY <1>1, <1>3 DEF ExpireUpdate, Found
  <2>2. e \in Addrs /\ mem[e] \in EntryType /\ mem[e].key = k
    BY <2>1, EntryFacts DEF KInv
  <2>3. x \in EntryType /\ x.key = k /\ x.value = mem[e].value /\ x.expiry = mem[e].expiry
    BY <2>2 DEF EntryType
  <2>4. mem' = [mem EXCEPT ![e] = x]
    BY <1>3
  <2>. HIDE DEF x
  <2>5. Rewritten /\ mem'[e] = x /\ \A a \in Addrs \ {e} : mem'[a] = mem[a]
    BY <2>1, <2>3, <2>4, EntryRewritten
  <2>6. Changed(k, mem[e].value, mem[e].expiry)
    BY <2>1, <2>3, <2>5 DEF Changed, Rewritten
  <2>. QED BY <1>1, <1>3, <2>1, <2>6
<1>4. CASE Miss(k) /\ cmd' = Idle /\ reply' = <<"NULL">>
  BY <1>1, <1>4 DEF ExpireUpdate
<1>. QED BY <1>2, <1>3, <1>4 DEF ExpireUpdate

-----------------------------------------------------------------------------
(* No entry gets the one time hash_delete does not find in the heap. *)

\* There are no entries at first.
LEMMA TimelyInit ==
  ASSUME Init
  PROVE  Timely
BY DEF Init, Timely, Live

\* Only the last step of EXPIRE makes a new time.
LEMMA TimelyStep ==
  ASSUME TimesShort, KInv, Timely, [Next]_vars
  PROVE  Timely'
<1>0. NEVER # LONG_MAX
  BY KeyspaceAssumption DEF NEVER
<1>1. ASSUME UNCHANGED table PROVE Timely'
  BY <1>1 DEF Timely, Live, table
<1>2. ASSUME NEW k \in Keys, Freed(k) PROVE Timely'
  BY <1>2 DEF Timely, Freed, Live
<1>3. ASSUME NEW k \in Keys, Miss(k) PROVE Timely'
  BY <1>1, <1>2, <1>3, MissEffect
<1>4. ASSUME NEW k \in Keys, NEW v \in Values, SetNew(k, v) PROVE Timely'
  <2>1. PICK a \in Addrs \ Live :
       /\ mem'[a] = [key |-> k, value |-> v, expiry |-> NEVER, indexed |-> FALSE]
       /\ Live' = Live \union {a}
       /\ \A c \in Addrs \ {a} : mem'[c] = mem[c]
    BY <1>4, SetNewEffect DEF Added
  <2>2. mem'[a].expiry = NEVER
    BY <2>1
  <2>. QED BY <1>0, <2>1, <2>2 DEF Timely, Live
<1>5. ASSUME NEW k \in Keys, NEW v, NEW t, Changed(k, v, t), t # LONG_MAX PROVE Timely'
  BY <1>5 DEF Timely, Changed, Live
<1>6. ASSUME NEW k \in Keys, Present(k) PROVE mem[EntryOf(k)].expiry # LONG_MAX
  BY <1>6, EntryFacts DEF Timely, KInv
<1>7. ASSUME NEW k \in Keys, NEW v \in Values, SetExisting(k, v) PROVE Timely'
  <2>1. Changed(k, v, mem[EntryOf(k)].expiry)
    BY <1>7, SetExistingEffect
  <2>. QED BY <1>5, <1>6, <2>1 DEF Changed
<1>8. ASSUME NEW k \in Keys, Delete(k) PROVE Timely'
  BY <1>1, <1>2, <1>8, DeleteEffect
<1>9. CASE ExpireUpdate
  <2>1. PICK k \in Keys : Miss(k) \/ Changed(k, mem[EntryOf(k)].value, mem[EntryOf(k)].expiry)
    BY <1>9, UpdateEffect
  <2>. QED BY <1>3, <1>5, <1>6, <2>1 DEF Changed
<1>10. CASE ExpireWrite
  <2>1. PICK k \in Keys, d \in Durations :
          /\ mem'[EntryOf(k)].expiry = WrapTime(now + d)
          /\ \A a \in Addrs \ {EntryOf(k)} : mem'[a] = mem[a]
    BY <1>10, WriteKept
  <2>2. Live' = Live /\ now \in StartTime .. EndTime
    BY <1>10, WriteKept DEF Rewritten, KInv, Form
  <2>. QED BY <2>1, <2>2 DEF TimesShort, Timely, Live
<1>11. CASE UNCHANGED vars \/ Tick \/ SetNoMem \/ BadRequest
  BY <1>1, <1>11 DEF vars, Tick, SetNoMem, BadRequest
<1>12. ASSUME NEW k \in Keys, SetFull(k) \/ Get(k) \/ GetExpiry(k) \/ Exists(k) PROVE Timely'
  <2>1. UNCHANGED table \/ Miss(k)
    BY <1>12 DEF SetFull, Get, GetExpiry, Exists
  <2>. QED BY <1>1, <1>3, <2>1
<1>13. ASSUME NEW k \in Keys, NEW d \in Durations, ExpireBegin(k, d) PROVE Timely'
  BY <1>1, <1>3, <1>13 DEF ExpireBegin
<1>. QED BY <1>4, <1>7, <1>8, <1>9, <1>10, <1>11, <1>12, <1>13 DEF Next

\* The invariant holds in every reachable state.
LEMMA KInvAlways ==
  ASSUME TimesShort
  PROVE  Spec => [](KInv /\ Timely)
<1>1. Init => KInv /\ Timely
  BY KInvInit, TimelyInit
<1>2. KInv /\ Timely /\ [Next]_vars => (KInv /\ Timely)'
  BY KInvStep, TimelyStep
<1>. QED BY <1>1, <1>2, PTL DEF Spec

\* The table's state keeps its shape, and the heap fits in its array.
THEOREM TypeCorrect ==
  ASSUME TimesShort
  PROVE  Spec => []TypeOK
<1>1. ASSUME KInv PROVE TypeOK
  <2>1. \A a \in Live : mem[a] \in EntryType
    BY <1>1 DEF KInv, Form, Live
  <2>2. \A b \in Buckets : \A i \in DOMAIN buckets[b] : buckets[b][i] \in Addrs
    BY <1>1 DEF KInv, Form
  <2>3. count \in Nat
    BY <1>1, FS_Subset, FS_CardinalityType, KeyspaceAssumption DEF KInv, Form, Live
  <2>4. cmd = Idle \/ (cmd[1] \in {"update", "write"} /\ cmd[2] \in Keys)
    BY <1>1 DEF KInv, Command
  <2>. QED BY <1>1, <2>1, <2>2, <2>3, <2>4 DEF TypeOK, KInv, Form
<1>2. KInv /\ Timely => TypeOK
  BY <1>1
<1>. QED BY <1>2, KInvAlways, PTL

\* The hash table of hash.c is sound after every command: each entry once, in
\* the chain of its key's bucket, no key twice, and count right.
THEOREM ChainsStaySound ==
  ASSUME TimesShort
  PROVE  Spec => []ChainsSound
<1>1. ASSUME KInv PROVE ChainsSound
  <2>1. \A b \in Buckets : DOMAIN buckets[b] = 1 .. Len(buckets[b])
    BY <1>1 DEF KInv, Form
  <2>2. \A b \in Buckets : \A i \in DOMAIN buckets[b] :
          mem[buckets[b][i]] # FREE /\ HashOf[mem[buckets[b][i]].key] = b
    BY <1>1, <2>1 DEF KInv, Chained, Live
  <2>3. \A b \in Buckets : \A i, j \in DOMAIN buckets[b] :
          i # j => mem[buckets[b][i]].key # mem[buckets[b][j]].key
    BY <1>1, <2>1 DEF KInv, Chained
  <2>4. ASSUME NEW a \in Live
        PROVE  \E b \in Buckets : a \in {buckets[b][i] : i \in DOMAIN buckets[b]}
    <3>1. mem[a].key \in Keys
      BY <1>1, LivePresent DEF KInv
    <3>2. HashOf[mem[a].key] \in Buckets
      BY <3>1, KeyspaceAssumption
    <3>3. PICK i \in 1 .. Len(Chain(mem[a].key)) : Chain(mem[a].key)[i] = a
      BY <1>1 DEF KInv, Chained
    <3>. QED BY <2>1, <3>2, <3>3 DEF Chain
  <2>. QED BY <1>1, <2>2, <2>3, <2>4 DEF ChainsSound, KInv, Form
<1>2. KInv /\ Timely => ChainsSound
  BY <1>1
<1>. QED BY <1>2, KInvAlways, PTL

\* hash_delete and lazy_expire_and_delete never leave a freed entry in the heap:
\* it holds exactly the live entries marked as being in it.
THEOREM HeapStaysSound ==
  ASSUME TimesShort
  PROVE  Spec => []HeapSound
<1>1. KInv /\ Timely => HeapSound
  BY DEF KInv
<1>. QED BY <1>1, KInvAlways, PTL

-----------------------------------------------------------------------------
(* The heap holds the keys with an expiry time. *)

\* The step VolatileQueued is about.
Volatile ==
  \A a \in Addrs :
    /\ cmd' = Idle
    /\ Misqueued(a)'
    => \/ reply' = <<"ERR">>
       \/ Misqueued(a) /\ ~ Expiring(a)

\* No step, once its command is over, misqueues a key that was queued right.
LEMMA VolatileStep ==
  ASSUME TimesReal, KInv, KInv', Timely, [Next]_vars
  PROVE  Volatile
<1>1. ASSUME UNCHANGED table, cmd = Idle PROVE Volatile
  BY <1>1 DEF Volatile, Misqueued, Live, table, Expiring
<1>2. ASSUME NEW k \in Keys, Freed(k), cmd = Idle \/ cmd[2] = k PROVE Volatile
  <2>1. \A a \in Live : mem[a].key = k => a = EntryOf(k)
    BY <1>2, EntryFacts DEF KInv, Freed
  <2>2. \A a \in Live' : mem'[a] = mem[a] /\ a \in Live /\ a # EntryOf(k) /\ (a \in queued' <=> a \in queued)
    BY <1>2 DEF Freed, Live
  <2>. QED BY <1>2, <2>1, <2>2 DEF Volatile, Misqueued, Expiring
<1>3. ASSUME NEW k \in Keys, Miss(k), cmd = Idle PROVE Volatile
  BY <1>1, <1>2, <1>3, MissEffect
<1>4. ASSUME NEW k \in Keys, NEW v \in Values, SetNew(k, v) PROVE Volatile
  <2>1. PICK a \in Addrs \ Live :
          /\ mem'[a] = [key |-> k, value |-> v, expiry |-> NEVER, indexed |-> FALSE]
          /\ Live' = Live \union {a}
          /\ \A c \in Addrs \ {a} : mem'[c] = mem[c]
    BY <1>4, SetNewEffect DEF Added
  <2>2. queued' = queued /\ queued \subseteq Live /\ cmd = Idle
    BY <1>4 DEF SetNew, Answer, KInv, HeapSound
  <2>3. mem'[a].expiry = NEVER /\ a \notin queued'
    BY <2>1, <2>2
  <2>4. ~ Misqueued(a)'
    BY <2>1, <2>2 DEF Misqueued
  <2>5. \A c \in Live : (mem'[c] = mem[c]) /\ c # a
    BY <2>1 DEF Live
  <2>. QED BY <2>1, <2>2, <2>4, <2>5 DEF Volatile, Misqueued, Expiring
<1>5. ASSUME NEW k \in Keys, NEW v, Changed(k, v, mem[EntryOf(k)].expiry),
             cmd = Idle, queued' = queued
      PROVE  Volatile
  BY <1>5 DEF Changed, Volatile, Misqueued, Expiring, Live
<1>6. ASSUME NEW k \in Keys, NEW v \in Values, SetExisting(k, v) PROVE Volatile
  BY <1>5, <1>6, SetExistingEffect DEF SetExisting, Answer
<1>7. ASSUME NEW k \in Keys, Delete(k) PROVE Volatile
  BY <1>1, <1>2, <1>7, DeleteEffect DEF Delete, Answer
<1>8. CASE ExpireUpdate
  <2>1. PICK k \in Keys, d \in Durations :
           /\ cmd = <<"update", k, d>>
           /\ \/ Miss(k) /\ cmd' = Idle /\ reply' = <<"NULL">>
              \/ cmd' = <<"write", k, d>>
    BY <1>8, UpdateEffect
  <2>2. cmd[2] = k /\ <<"write", k, d>> # Idle
    BY <2>1 DEF Idle
  <2>3. CASE Miss(k)
    <3>1. CASE Freed(k)
      BY <1>2, <2>2, <3>1
    <3>2. CASE ~ Present(k) /\ UNCHANGED table
      <4>1. \A a \in Live : mem[a].key # k
        BY <3>2, LivePresent DEF KInv
      <4>. QED BY <2>2, <3>2, <4>1 DEF Volatile, Misqueued, Live, table, Expiring
    <3>. QED BY <2>3, <3>1, <3>2, MissEffect
  <2>. QED BY <2>1, <2>2, <2>3 DEF Volatile
<1>9. CASE ExpireWrite
  <2>1. CASE reply' = <<"ERR">>
    BY <2>1 DEF Volatile
  <2>2. CASE reply' = <<"OK">>
    <3>1. PICK k \in Keys, d \in Durations : cmd = <<"write", k, d>> /\ Present(k)
      BY <1>9 DEF KInv, Command, ExpireWrite, Idle
    <3>. DEFINE e == EntryOf(k)
    <3>2. cmd[2] = k /\ cmd[3] = d
      BY <3>1
    <3>3. queued' = queued \union {e}
      BY <1>9, <2>2, <3>2 DEF ExpireWrite
    <3>4. /\ mem'[e].expiry = WrapTime(now + d)
          /\ \A a \in Addrs \ {e} : mem'[a] = mem[a]
      <4>1. PICK j \in Keys, c \in Durations :
              cmd = <<"write", j, c>> /\ mem'[EntryOf(j)].expiry = WrapTime(now + c)
              /\ \A a \in Addrs \ {EntryOf(j)} : mem'[a] = mem[a]
        BY <1>9, WriteKept
      <4>2. j = k /\ c = d
        BY <3>1, <4>1
      <4>. QED BY <4>1, <4>2
    <3>5. mem'[e].expiry # NEVER
      BY <3>4 DEF TimesReal, KInv, Form
    <3>6. \A a \in Live : mem[a].key = k => a = e
      BY <3>1, EntryFacts DEF KInv
    <3>7. Live' = Live
      BY <1>9, WriteKept DEF Rewritten
    <3>. HIDE DEF e
    <3>. QED BY <3>2, <3>3, <3>4, <3>5, <3>6, <3>7 DEF Volatile, Misqueued, Expiring, Live
  <2>. QED BY <1>9, <2>1, <2>2 DEF ExpireWrite
<1>10. CASE UNCHANGED vars \/ Tick
  <2>1. CASE cmd = Idle
    BY <1>1, <1>10, <2>1 DEF vars, Tick
  <2>2. CASE cmd # Idle
    BY <1>10, <2>2 DEF vars, Tick, Volatile
  <2>. QED BY <2>1, <2>2
<1>11. CASE SetNoMem \/ BadRequest
  BY <1>1, <1>11 DEF SetNoMem, BadRequest, Answer
<1>12. ASSUME NEW k \in Keys, SetFull(k) \/ Get(k) \/ GetExpiry(k) \/ Exists(k) PROVE Volatile
  <2>1. cmd = Idle /\ (UNCHANGED table \/ Miss(k))
    BY <1>12 DEF SetFull, Get, GetExpiry, Exists, Answer
  <2>. QED BY <1>1, <1>3, <2>1
<1>13. ASSUME NEW k \in Keys, NEW d \in Durations, ExpireBegin(k, d) PROVE Volatile
  <2>1. cmd = Idle /\ (UNCHANGED table \/ Miss(k))
    BY <1>13 DEF ExpireBegin, Answer
  <2>. QED BY <1>1, <1>3, <2>1
<1>. QED BY <1>4, <1>6, <1>7, <1>8, <1>9, <1>10, <1>11, <1>12, <1>13 DEF Next

\* After every command the heap holds the keys with an expiry time and no
\* others, but for an EXPIRE that answered ERR.
THEOREM VolatileKeysQueued ==
  ASSUME TimesShort, TimesReal
  PROVE  Spec => VolatileQueued
<1>1. KInv /\ KInv' /\ Timely /\ [Next]_vars => Volatile
  BY VolatileStep
<1>2. [](KInv /\ Timely) /\ [][Next]_vars => [][Volatile]_vars
  <2>1. KInv /\ Timely /\ (KInv /\ Timely)' /\ [Next]_vars => [Volatile]_vars
    BY <1>1
  <2>. QED BY <2>1, PTL
<1>3. [][Volatile]_vars <=> VolatileQueued
  BY DEF Volatile, VolatileQueued
<1>. QED BY <1>2, <1>3, KInvAlways, PTL DEF Spec

-----------------------------------------------------------------------------
(* The table implements the store. *)

\* Live entries and present keys are the same.
Owns ==
  /\ \A k \in Keys : Present(k) =>
       EntryOf(k) \in Live /\ EntryOf(k) \in Addrs /\ mem[EntryOf(k)].key = k
         /\ mem[EntryOf(k)].expiry \in Int
  /\ \A a \in Live :
       mem[a].key \in Keys /\ Present(mem[a].key) /\ a = EntryOf(mem[a].key)

\* The invariant gives it.
LEMMA OwnsHolds ==
  KInv => Owns
<1>. SUFFICES ASSUME KInv PROVE Owns
  OBVIOUS
<1>1. \A k \in Keys : Present(k) =>
        /\ EntryOf(k) \in Live /\ EntryOf(k) \in Addrs /\ mem[EntryOf(k)].key = k
        /\ mem[EntryOf(k)] \in EntryType
  BY EntryFacts DEF KInv
<1>2. \A k \in Keys : Present(k) => mem[EntryOf(k)].expiry \in Int
  BY <1>1 DEF EntryType
<1>3. \A a \in Live : mem[a].key \in Keys /\ Present(mem[a].key) /\ a = EntryOf(mem[a].key)
  BY LivePresent DEF KInv
<1>. QED BY <1>1, <1>2, <1>3 DEF Owns

\* And in the next state.
LEMMA OwnsNext ==
  KInv' => Owns'
BY OwnsHolds, PTL

\* A key is visible when its entry has not expired or EXPIRE has found it.
Shows(k) ==
  Present(k) /\ (mem[EntryOf(k)].expiry = NEVER \/ mem[EntryOf(k)].expiry > now \/ k = Held)

Showing ==
  /\ VisibleKeys \subseteq Keys
  /\ \A k \in Keys : k \in VisibleKeys <=> Shows(k)

\* The definition of VisibleKeys in terms of lookups.
LEMMA ShowingHolds ==
  KInv => Showing
<1>. SUFFICES ASSUME KInv PROVE Showing
  OBVIOUS
<1>1. Owns
  BY OwnsHolds
<1>. QED BY <1>1 DEF Showing, VisibleKeys, Shows, Owns

\* And in the next state.
LEMMA ShowingNext ==
  KInv' => Showing'
BY ShowingHolds, PTL

\* Only the entry of k changes.
Only(k) ==
  /\ \A a \in Live : mem[a].key # k => a \in Live' /\ mem'[a] = mem[a]
  /\ \A a \in Live' : mem'[a].key # k => a \in Live /\ mem'[a] = mem[a]

\* The other keys look as they did.
LEMMA OthersSeen ==
  ASSUME KInv, KInv', NEW k \in Keys, Only(k), UNCHANGED now,
         Held \in {k, "none"}, Held' \in {k, "none"}
  PROVE  \A j \in Keys \ {k} :
           /\ j \in VisibleKeys' <=> j \in VisibleKeys
           /\ j \in VisibleKeys => Seen'[j] = Seen[j]
<1>1. Owns /\ Owns' /\ Showing /\ Showing'
  BY OwnsHolds, OwnsNext, ShowingHolds, ShowingNext
<1>. TAKE j \in Keys \ {k}
<1>2. j # Held /\ j # Held'
  BY KeyspaceAssumption
<1>3. ASSUME Present(j)
      PROVE  Present(j)' /\ EntryOf(j)' = EntryOf(j) /\ mem'[EntryOf(j)] = mem[EntryOf(j)]
  <2>1. EntryOf(j) \in Live /\ mem[EntryOf(j)].key = j
    BY <1>1, <1>3 DEF Owns
  <2>2. EntryOf(j) \in Live' /\ mem'[EntryOf(j)] = mem[EntryOf(j)]
    BY <2>1 DEF Only
  <2>. QED BY <1>1, <2>1, <2>2 DEF Owns
<1>4. ASSUME Present(j)' PROVE Present(j)
  <2>. DEFINE c == EntryOf(j)'
  <2>1. c \in Live' /\ mem'[c].key = j
    BY <1>1, <1>4 DEF Owns
  <2>. HIDE DEF c
  <2>2. c \in Live /\ mem[c].key = j
    BY <2>1 DEF Only
  <2>. QED BY <1>1, <2>2 DEF Owns
<1>5. j \in VisibleKeys' <=> j \in VisibleKeys
  BY <1>1, <1>2, <1>3, <1>4 DEF Showing, Shows
<1>6. ASSUME j \in VisibleKeys PROVE Seen'[j] = Seen[j]
  <2>1. Present(j)
    BY <1>1, <1>6 DEF Showing, Shows
  <2>. QED BY <1>3, <1>5, <1>6, <2>1 DEF Seen
<1>. QED BY <1>5, <1>6

\* The store's map after a step on the entry of k.
LEMMA SeenPut ==
  ASSUME KInv, KInv', NEW k \in Keys, Only(k), UNCHANGED now,
         Held \in {k, "none"}, Held' \in {k, "none"}
  PROVE  /\ k \in VisibleKeys' =>
              Seen' = [j \in VisibleKeys \union {k} |-> IF j = k THEN Seen'[k] ELSE Seen[j]]
         /\ k \notin VisibleKeys' => Seen' = [j \in VisibleKeys \ {k} |-> Seen[j]]
<1>1. \A j \in Keys \ {k} :
           /\ j \in VisibleKeys' <=> j \in VisibleKeys
           /\ j \in VisibleKeys => Seen'[j] = Seen[j]
  BY OthersSeen
<1>2. VisibleKeys \subseteq Keys /\ VisibleKeys' \subseteq Keys
  BY ShowingHolds, ShowingNext DEF Showing
<1>3. Seen' = [j \in VisibleKeys' |-> Seen'[j]]
  BY DEF Seen
<1>4. CASE k \in VisibleKeys'
  <2>1. VisibleKeys' = VisibleKeys \union {k}
    BY <1>1, <1>2, <1>4
  <2>. QED BY <1>1, <1>2, <1>3, <1>4, <2>1
<1>5. CASE k \notin VisibleKeys'
  <2>1. VisibleKeys' = VisibleKeys \ {k}
    BY <1>1, <1>2, <1>5
  <2>. QED BY <1>1, <1>2, <1>3, <1>5, <2>1
<1>. QED BY <1>4, <1>5

\* When k stays as it was, so does the map.
LEMMA SeenSame ==
  ASSUME KInv, KInv', NEW k \in Keys, Only(k), UNCHANGED now,
         Held \in {k, "none"}, Held' \in {k, "none"},
         k \in VisibleKeys <=> k \in VisibleKeys',
         k \in VisibleKeys => Seen'[k] = Seen[k]
  PROVE  Seen' = Seen
<1>1. Seen = [j \in VisibleKeys |-> Seen[j]]
  BY DEF Seen
<1>2. CASE k \in VisibleKeys
  <2>1. VisibleKeys \union {k} = VisibleKeys
    BY <1>2
  <2>2. Seen' = [j \in VisibleKeys |-> IF j = k THEN Seen'[k] ELSE Seen[j]]
    BY <1>2, <2>1, SeenPut
  <2>. QED BY <1>1, <1>2, <2>2
<1>3. CASE k \notin VisibleKeys
  <2>1. VisibleKeys \ {k} = VisibleKeys
    BY <1>3
  <2>2. Seen' = [j \in VisibleKeys |-> Seen[j]]
    BY <1>3, <2>1, SeenPut
  <2>. QED BY <1>1, <2>2
<1>. QED BY <1>2, <1>3

\* Freeing an entry takes its key out of the store's map.
LEMMA FreedSeen ==
  ASSUME KInv, KInv', NEW k \in Keys, Freed(k), UNCHANGED now, Held = "none", Held' = "none"
  PROVE  /\ Seen' = [j \in VisibleKeys \ {k} |-> Seen[j]]
         /\ k \notin VisibleKeys => Seen' = Seen
<1>1. Owns /\ Owns' /\ Showing /\ Showing'
  BY OwnsHolds, OwnsNext, ShowingHolds, ShowingNext
<1>2. \A a \in Live' : a \in Live /\ mem'[a] = mem[a] /\ a # EntryOf(k)
  BY DEF Freed, Live
<1>3. Only(k)
  <2>1. mem[EntryOf(k)].key = k
    BY <1>1 DEF Freed, Owns
  <2>2. \A a \in Live : a # EntryOf(k) => a \in Live' /\ mem'[a] = mem[a]
    BY DEF Freed, Live
  <2>. QED BY <1>2, <2>1, <2>2 DEF Only
<1>4. ~ Present(k)'
  <2>. SUFFICES ASSUME Present(k)' PROVE FALSE
    OBVIOUS
  <2>. DEFINE c == EntryOf(k)'
  <2>1. c \in Live' /\ mem'[c].key = k
    BY <1>1 DEF Owns
  <2>. HIDE DEF c
  <2>2. c \in Live /\ mem[c].key = k /\ c # EntryOf(k)
    BY <1>2, <2>1
  <2>. QED BY <1>1, <2>2 DEF Owns
<1>5. k \notin VisibleKeys'
  BY <1>1, <1>4 DEF Showing, Shows
<1>6. Seen' = [j \in VisibleKeys \ {k} |-> Seen[j]]
  BY <1>3, <1>5, SeenPut
<1>7. k \notin VisibleKeys => Seen' = Seen
  BY <1>3, <1>5, SeenSame
<1>. QED BY <1>6, <1>7

\* Adding one puts a key in that does not expire.
LEMMA AddedSeen ==
  ASSUME KInv, KInv', NEW k \in Keys, NEW v, Added(k, v), UNCHANGED now,
         Held = "none", Held' = "none"
  PROVE  /\ k \notin VisibleKeys
         /\ Seen' = [j \in VisibleKeys \union {k} |->
                       IF j = k THEN [value |-> v, expiry |-> NEVER] ELSE Seen[j]]
<1>1. Owns /\ Owns' /\ Showing /\ Showing'
  BY OwnsHolds, OwnsNext, ShowingHolds, ShowingNext
<1>2. PICK a \in Addrs \ Live :
       /\ mem'[a] = [key |-> k, value |-> v, expiry |-> NEVER, indexed |-> FALSE]
       /\ Live' = Live \union {a}
       /\ \A c \in Addrs \ {a} : mem'[c] = mem[c]
  BY DEF Added
<1>3. mem'[a].key = k /\ mem'[a].value = v /\ mem'[a].expiry = NEVER /\ a \in Live'
  BY <1>2
<1>4. \A c \in Live : c # a /\ mem'[c] = mem[c]
  BY <1>2 DEF Live
<1>5. Only(k)
  BY <1>2, <1>3, <1>4 DEF Only
<1>6. Present(k)' /\ EntryOf(k)' = a
  BY <1>1, <1>3 DEF Owns
<1>7. k \in VisibleKeys' /\ k \notin VisibleKeys
  BY <1>1, <1>3, <1>6 DEF Showing, Shows, Added
<1>8. Seen'[k] = [value |-> v, expiry |-> NEVER]
  BY <1>3, <1>6, <1>7 DEF Seen
<1>9. Seen' = [j \in VisibleKeys \union {k} |-> IF j = k THEN Seen'[k] ELSE Seen[j]]
  BY <1>5, <1>7, SeenPut
<1>. QED BY <1>7, <1>8, <1>9

\* Rewriting one may hide or show its key.
LEMMA ChangedSeen ==
  ASSUME KInv, KInv', NEW k \in Keys, NEW v, NEW t, Changed(k, v, t), UNCHANGED now,
         Held \in {k, "none"}, Held' \in {k, "none"}
  PROVE  /\ Only(k)
         /\ k \in VisibleKeys' <=> (t = NEVER \/ t > now \/ k = Held')
         /\ k \in VisibleKeys' => Seen'[k] = [value |-> v, expiry |-> t]
<1>1. Owns /\ Owns' /\ Showing /\ Showing'
  BY OwnsHolds, OwnsNext, ShowingHolds, ShowingNext
<1>0. PICK e : e = EntryOf(k)
  OBVIOUS
<1>2. /\ e \in Live /\ mem[e].key = k /\ Live' = Live /\ mem'[e].key = k
      /\ \A a \in Live \ {e} : mem'[a] = mem[a]
      /\ mem'[e].value = v /\ mem'[e].expiry = t
  BY <1>0, <1>1 DEF Changed, Owns, Live
<1>3. Only(k)
  BY <1>2 DEF Only
<1>4. Present(k)' /\ EntryOf(k)' = e
  BY <1>1, <1>2 DEF Owns
<1>5. k \in VisibleKeys' <=> (t = NEVER \/ t > now \/ k = Held')
  BY <1>1, <1>2, <1>4 DEF Showing, Shows
<1>6. k \in VisibleKeys' => Seen'[k] = [value |-> v, expiry |-> t]
  BY <1>2, <1>4 DEF Seen
<1>. QED BY <1>3, <1>5, <1>6

\* When no EXPIRE is half way, a key is visible when a lookup finds it.
LEMMA FoundVisible ==
  ASSUME KInv, NEW k \in Keys, Held = "none"
  PROVE  /\ Found(k) <=> k \in VisibleKeys
         /\ k \in VisibleKeys => Seen[k] = [value  |-> mem[EntryOf(k)].value,
                                            expiry |-> mem[EntryOf(k)].expiry]
<1>1. Owns /\ Showing /\ k # Held
  BY OwnsHolds, ShowingHolds, KeyspaceAssumption
<1>. QED BY <1>1 DEF Found, Expired, Showing, Shows, Seen

\* Held in terms of the EXPIRE in progress.
LEMMA HeldFacts ==
  /\ cmd = Idle => Held = "none"
  /\ cmd' = Idle => Held' = "none"
  /\ \A k, d : cmd = <<"update", k, d>> => Held = "none"
  /\ \A k, d : cmd = <<"write", k, d>> => Held = k
  /\ \A k, d : cmd' = <<"update", k, d>> => Held' = "none"
  /\ \A k, d : cmd' = <<"write", k, d>> => Held' = k
BY DEF Idle, Held

\* A step that changes no table and no command.
LEMMA TableSeen ==
  ASSUME UNCHANGED <<table, cmd, now>>
  PROVE  Seen' = Seen /\ Held' = Held
<1>1. Held' = Held /\ VisibleKeys' = VisibleKeys /\ \A k : EntryOf(k)' = EntryOf(k)
  BY DEF table, Held, VisibleKeys, Live, EntryOf, Chain, Position, Matches
<1>. QED BY <1>1 DEF Seen, table

\* A lookup that finds nothing.
LEMMA MissSeen ==
  ASSUME KInv, KInv', NEW k \in Keys, Miss(k), UNCHANGED now, Held = "none", Held' = "none"
  PROVE  k \notin VisibleKeys /\ Seen' = Seen
<1>1. k \notin VisibleKeys
  BY MissEffect, FoundVisible
<1>2. CASE Freed(k)
  BY <1>1, <1>2, FreedSeen
<1>3. CASE UNCHANGED table
  <2>1. /\ VisibleKeys' = VisibleKeys /\ \A j : EntryOf(j)' = EntryOf(j)
        /\ mem' = mem
    BY <1>3 DEF table, VisibleKeys, Live, EntryOf, Chain, Position, Matches
  <2>. QED BY <1>1, <2>1 DEF Seen
<1>. QED BY <1>2, <1>3, MissEffect

\* SET is the store's SET, or is lost in an expired entry.
LEMMA SetStored ==
  ASSUME KInv, KInv', NEW k \in Keys, NEW v \in Values, SetNew(k, v) \/ SetExisting(k, v)
  PROVE  Store!SetDone(k, v) \/ Store!SetLost(k)
<1>1. /\ reply' = <<"OK">> /\ cmd = Idle /\ cmd' = Idle /\ UNCHANGED now
  BY DEF SetNew, SetExisting, Answer
<1>2. Held = "none" /\ Held' = "none" /\ k # "none"
  BY <1>1, HeldFacts, KeyspaceAssumption
<1>3. DOMAIN Seen = VisibleKeys /\ Store!NEVER = NEVER
  BY DEF Seen, NEVER, Store!NEVER
<1>4. CASE SetNew(k, v)
  <2>1. /\ k \notin VisibleKeys
        /\ Seen' = [j \in VisibleKeys \union {k} |->
                      IF j = k THEN [value |-> v, expiry |-> NEVER] ELSE Seen[j]]
    BY <1>1, <1>2, <1>4, SetNewEffect, AddedSeen
  <2>. QED BY <1>1, <1>3, <2>1 DEF Store!SetDone, Store!Put
<1>5. CASE SetExisting(k, v)
  <2>1. Changed(k, v, mem[EntryOf(k)].expiry)
    BY <1>5, SetExistingEffect
  <2>2. PICK t : t = mem[EntryOf(k)].expiry
    OBVIOUS
  <2>3. /\ Only(k)
        /\ k \in VisibleKeys' <=> (t = NEVER \/ t > now \/ k = Held')
        /\ k \in VisibleKeys' => Seen'[k] = [value |-> v, expiry |-> t]
    BY <1>1, <1>2, <2>1, <2>2, ChangedSeen
  <2>4. k \in VisibleKeys <=> (t = NEVER \/ t > now)
    BY <1>2, <2>1, <2>2, ShowingHolds DEF Showing, Shows, Changed
  <2>5. CASE k \in VisibleKeys
    <3>1. Seen[k].expiry = t
      BY <2>2, <2>5 DEF Seen
    <3>2. Seen' = [j \in VisibleKeys \union {k} |->
                     IF j = k THEN [value |-> v, expiry |-> t] ELSE Seen[j]]
      BY <1>1, <1>2, <2>3, <2>4, <2>5, SeenPut
    <3>. QED BY <1>1, <1>3, <2>5, <3>1, <3>2 DEF Store!SetDone, Store!Put
  <2>6. CASE k \notin VisibleKeys
    <3>1. k \notin VisibleKeys'
      BY <1>2, <2>3, <2>4, <2>6
    <3>2. Seen' = Seen
      BY <1>1, <1>2, <2>3, <2>6, <3>1, SeenSame
    <3>. QED BY <1>1, <1>3, <2>6, <3>2 DEF Store!SetLost
  <2>. QED BY <2>5, <2>6
<1>. QED BY <1>4, <1>5

\* The commands that read.
LEMMA ReadStored ==
  ASSUME KInv, KInv', NEW k \in Keys, Get(k) \/ GetExpiry(k) \/ Exists(k)
  PROVE  Store!Get(k) \/ Store!GetExpiry(k) \/ Store!Exists(k)
<1>1. cmd = Idle /\ cmd' = Idle /\ UNCHANGED now
  BY DEF Get, GetExpiry, Exists, Answer
<1>2. Held = "none" /\ Held' = "none"
  BY <1>1, HeldFacts
<1>3. /\ DOMAIN Seen = VisibleKeys /\ Store!NEVER = NEVER
      /\ Found(k) <=> k \in VisibleKeys
      /\ k \in VisibleKeys => Seen[k] = [value  |-> mem[EntryOf(k)].value,
                                         expiry |-> mem[EntryOf(k)].expiry]
  BY <1>2, FoundVisible DEF Seen, NEVER, Store!NEVER
<1>4. Seen' = Seen
  <2>1. Miss(k) \/ UNCHANGED table
    BY DEF Get, GetExpiry, Exists
  <2>. QED BY <1>1, <1>2, <2>1, MissSeen, TableSeen
<1>5. k \in VisibleKeys => Seen[k].value = mem[EntryOf(k)].value
                           /\ Seen[k].expiry = mem[EntryOf(k)].expiry
  BY <1>3
<1>6. CASE Get(k)
  <2>1. reply' = IF k \in VisibleKeys THEN <<"VALUE", Seen[k].value>> ELSE <<"ERR">>
    BY <1>3, <1>5, <1>6 DEF Get, Miss, Answer
  <2>. QED BY <1>3, <1>4, <2>1 DEF Store!Get
<1>7. CASE GetExpiry(k)
  <2>1. reply' = IF k \notin VisibleKeys THEN <<"ERR">>
                 ELSE IF Seen[k].expiry = NEVER THEN <<"NULL">>
                 ELSE <<"EXPIRY", Seen[k].expiry>>
    BY <1>3, <1>5, <1>7 DEF GetExpiry, Miss, Answer
  <2>. QED BY <1>3, <1>4, <2>1 DEF Store!GetExpiry
<1>8. CASE Exists(k)
  <2>1. reply' = IF k \in VisibleKeys THEN <<"TRUE">> ELSE <<"FALSE">>
    BY <1>3, <1>8 DEF Exists, Miss, Answer
  <2>. QED BY <1>3, <1>4, <2>1 DEF Store!Exists
<1>. QED BY <1>6, <1>7, <1>8

\* DELETE is the store's.
LEMMA DeleteStored ==
  ASSUME KInv, KInv', Timely, NEW k \in Keys, Delete(k)
  PROVE  Store!Delete(k)
<1>1. cmd = Idle /\ cmd' = Idle /\ UNCHANGED now
  BY DEF Delete, Answer
<1>2. Held = "none" /\ Held' = "none"
  BY <1>1, HeldFacts
<1>3. DOMAIN Seen = VisibleKeys /\ Seen = [j \in VisibleKeys |-> Seen[j]]
  BY DEF Seen
<1>4. CASE Freed(k) /\ reply' = <<"OK">>
  <2>1. Seen' = [j \in VisibleKeys \ {k} |-> Seen[j]]
    BY <1>1, <1>2, <1>4, FreedSeen
  <2>. QED BY <1>3, <1>4, <2>1 DEF Store!Delete
<1>5. CASE ~ Present(k) /\ UNCHANGED table /\ reply' = <<"ERR">>
  <2>1. k \notin VisibleKeys
    BY <1>5, ShowingHolds DEF Showing, Shows
  <2>2. VisibleKeys \ {k} = VisibleKeys
    BY <2>1
  <2>3. Seen' = [j \in VisibleKeys \ {k} |-> Seen[j]]
    BY <1>1, <1>3, <1>5, <2>2, TableSeen
  <2>. QED BY <1>3, <1>5, <2>1, <2>3 DEF Store!Delete
<1>. QED BY <1>4, <1>5, DeleteEffect

\* EXPIRE finds its key, or answers that it has gone.
LEMMA UpdateStored ==
  ASSUME KInv, KInv', ExpireUpdate
  PROVE  /\ UNCHANGED now
         /\ Held = "none"
         /\ \E k \in Keys : \/ Store!ExpireFind(k)
                            \/ Store!ExpireMissing(k) /\ Held' = "none"
<1>1. PICK k \in Keys, d \in Durations :
           /\ cmd = <<"update", k, d>> /\ UNCHANGED now
           /\ \/ Miss(k) /\ cmd' = Idle /\ reply' = <<"NULL">>
              \/ /\ Found(k) /\ cmd' = <<"write", k, d>> /\ UNCHANGED reply
                 /\ Changed(k, mem[EntryOf(k)].value, mem[EntryOf(k)].expiry)
  BY UpdateEffect
<1>2. Held = "none"
  BY <1>1, HeldFacts
<1>3. DOMAIN Seen = VisibleKeys
  BY DEF Seen
<1>4. CASE Miss(k) /\ cmd' = Idle /\ reply' = <<"NULL">>
  <2>1. Held' = "none"
    BY <1>4, HeldFacts
  <2>2. k \notin VisibleKeys /\ Seen' = Seen
    BY <1>1, <1>2, <1>4, <2>1, MissSeen
  <2>. QED BY <1>1, <1>2, <1>3, <1>4, <2>1, <2>2 DEF Store!ExpireMissing
<1>5. CASE /\ Found(k) /\ cmd' = <<"write", k, d>> /\ UNCHANGED reply
           /\ Changed(k, mem[EntryOf(k)].value, mem[EntryOf(k)].expiry)
  <2>1. Held' = k
    BY <1>5, HeldFacts
  <2>2. /\ k \in VisibleKeys
        /\ Seen[k] = [value |-> mem[EntryOf(k)].value, expiry |-> mem[EntryOf(k)].expiry]
    BY <1>2, <1>5, FoundVisible
  <2>3. /\ Only(k) /\ k \in VisibleKeys'
        /\ Seen'[k] = Seen[k]
    BY <1>1, <1>2, <1>5, <2>1, <2>2, ChangedSeen
  <2>4. Seen' = Seen
    BY <1>1, <1>2, <2>1, <2>2, <2>3, SeenSame
  <2>. QED BY <1>1, <1>2, <1>3, <1>5, <2>1, <2>2, <2>4 DEF Store!ExpireFind
<1>. QED BY <1>1, <1>4, <1>5

\* EXPIRE gives the key its time, and the key disappears if that is past.
LEMMA WriteStored ==
  ASSUME KInv, KInv', ExpireWrite
  PROVE  UNCHANGED now /\ \E d \in Durations : Store!ExpireDone(d)
<1>1. PICK k \in Keys, d \in Durations :
              /\ cmd = <<"write", k, d>> /\ Present(k) /\ cmd' = Idle
              /\ mem'[EntryOf(k)].expiry = WrapTime(now + d)
              /\ mem'[EntryOf(k)].value = mem[EntryOf(k)].value
              /\ \A a \in Addrs \ {EntryOf(k)} : mem'[a] = mem[a]
  BY WriteKept
<1>2. Rewritten /\ UNCHANGED now
  BY WriteKept DEF ExpireWrite
<1>3. PICK t : t = WrapTime(now + d)
  OBVIOUS
<1>4. PICK v : v = mem[EntryOf(k)].value
  OBVIOUS
<1>5. mem'[EntryOf(k)].key = k
  BY <1>1, <1>2, OwnsHolds DEF Owns, Rewritten
<1>6. Changed(k, v, t)
  BY <1>1, <1>2, <1>3, <1>4, <1>5 DEF Changed, Rewritten
<1>7. Held = k /\ Held' = "none" /\ k # "none"
  BY <1>1, HeldFacts, KeyspaceAssumption
<1>8. /\ Only(k)
      /\ k \in VisibleKeys' <=> (t = NEVER \/ t > now)
      /\ k \in VisibleKeys' => Seen'[k] = [value |-> v, expiry |-> t]
  BY <1>2, <1>6, <1>7, ChangedSeen
<1>9. k \in VisibleKeys
  BY <1>1, <1>7, ShowingHolds DEF Showing, Shows
<1>10. reply' \in {<<"OK">>, <<"ERR">>}
  BY DEF ExpireWrite
\* The other keys are visible without being held.
<1>11. \A j \in VisibleKeys \ {k} : Seen[j].expiry = NEVER \/ Seen[j].expiry > now
  BY <1>7, ShowingHolds DEF Showing, Shows, Seen
<1>12. /\ DOMAIN Seen = VisibleKeys /\ VisibleKeys \subseteq Keys
       /\ Seen[k].value = v
  BY <1>4, <1>9, ShowingHolds DEF Seen, Showing
<1>. DEFINE E == [Seen[k] EXCEPT !.expiry = t]
            M == [j \in VisibleKeys \union {k} |-> IF j = k THEN E ELSE Seen[j]]
<1>13. E = [value |-> v, expiry |-> t]
  BY <1>4, <1>9, <1>12 DEF Seen
<1>. HIDE DEF E
<1>14. /\ DOMAIN M = VisibleKeys \union {k} /\ M[k] = E
       /\ \A j \in VisibleKeys \ {k} : M[j] = Seen[j]
  OBVIOUS
<1>15. E.expiry = t
  BY <1>13
<1>. HIDE DEF M
<1>16. {j \in DOMAIN M : M[j].expiry = NEVER \/ M[j].expiry > now} = VisibleKeys'
  <2>1. \A j \in Keys \ {k} : j \in VisibleKeys' <=> j \in VisibleKeys
    BY <1>2, <1>7, <1>8, OthersSeen
  <2>2. VisibleKeys' \subseteq Keys
    BY ShowingNext DEF Showing
  <2>. QED BY <1>8, <1>9, <1>11, <1>12, <1>14, <1>15, <2>1, <2>2
<1>17. Seen' = [j \in VisibleKeys' |-> M[j]]
  <2>1. \A j \in VisibleKeys' : Seen'[j] = M[j]
    <3>1. \A j \in VisibleKeys' \ {k} : j \in VisibleKeys /\ Seen'[j] = Seen[j]
      BY <1>2, <1>7, <1>8, OthersSeen, ShowingNext DEF Showing
    <3>. QED BY <1>8, <1>13, <1>14, <3>1
  <2>2. Seen' = [j \in VisibleKeys' |-> Seen'[j]]
    BY DEF Seen
  <2>. QED BY <2>1, <2>2
<1>18. Store!Visible(M, now, "none") = Seen'
  <2>1. \A j \in DOMAIN M : j # "none"
    BY <1>12, <1>14, KeyspaceAssumption
  <2>2. {j \in DOMAIN M : j = "none" \/ Store!Unexpired(M[j].expiry, now)} = VisibleKeys'
    BY <1>16, <2>1 DEF Store!Unexpired, Store!NEVER, NEVER
  <2>. QED BY <1>17, <2>2 DEF Store!Visible
<1>19. Store!Put(k, E) = M
  BY <1>12 DEF Store!Put, M
<1>20. Store!WrapTime(now + d) = t
  BY <1>3 DEF Store!WrapTime, WrapTime
<1>21. Store!ExpireDone(d)
  BY <1>7, <1>10, <1>18, <1>19, <1>20 DEF Store!ExpireDone, E
<1>. QED BY <1>2, <1>21

\* When the clock advances, keys disappear without a step of the table.
LEMMA TickStored ==
  ASSUME KInv, KInv', Tick
  PROVE  Store!Tick
<1>1. now' = now + 1 /\ now \in Int /\ UNCHANGED <<table, cmd, reply>>
  BY KeyspaceAssumption DEF Tick, KInv, Form
<1>2. /\ \A k : EntryOf(k)' = EntryOf(k) /\ (Present(k)' <=> Present(k))
      /\ Held' = Held /\ mem' = mem
  BY <1>1 DEF table, EntryOf, Chain, Position, Matches, Present, Held
<1>3. Showing /\ Showing' /\ Owns
  BY ShowingHolds, ShowingNext, OwnsHolds
<1>4. DOMAIN Seen = VisibleKeys
      /\ \A k \in VisibleKeys : Seen[k].expiry = mem[EntryOf(k)].expiry /\ Seen[k].expiry \in Int
  BY <1>3 DEF Seen, Showing, Shows, Owns
<1>5. VisibleKeys' = {j \in VisibleKeys : j = Held \/ Seen[j].expiry = NEVER
                                            \/ Seen[j].expiry > now'}
  <2>1. \A j \in Keys : j \in VisibleKeys' <=>
          (Present(j) /\ (mem[EntryOf(j)].expiry = NEVER \/ mem[EntryOf(j)].expiry > now'
                           \/ j = Held))
    BY <1>2, <1>3 DEF Showing, Shows
  <2>2. \A j \in Keys : j \in VisibleKeys <=>
          (Present(j) /\ (mem[EntryOf(j)].expiry = NEVER \/ mem[EntryOf(j)].expiry > now
                           \/ j = Held))
    BY <1>3 DEF Showing, Shows
  <2>3. \A j \in Keys : Present(j) => mem[EntryOf(j)].expiry \in Int
    BY <1>3 DEF Owns
  <2>4. VisibleKeys \subseteq Keys /\ VisibleKeys' \subseteq Keys
    BY <1>3 DEF Showing
  <2>. QED BY <1>1, <1>4, <2>1, <2>2, <2>3, <2>4
<1>6. Seen' = [j \in VisibleKeys' |-> Seen[j]]
  <2>1. Seen' = [j \in VisibleKeys' |-> [value  |-> mem[EntryOf(j)].value,
                                         expiry |-> mem[EntryOf(j)].expiry]]
    BY <1>2 DEF Seen
  <2>2. \A j \in VisibleKeys' : Seen[j] = [value  |-> mem[EntryOf(j)].value,
                                           expiry |-> mem[EntryOf(j)].expiry]
    BY <1>5 DEF Seen
  <2>. QED BY <2>1, <2>2
<1>7. Store!Visible(Seen, now', Held) = Seen'
  BY <1>4, <1>5, <1>6 DEF Store!Visible, Store!Unexpired, Store!NEVER, NEVER
<1>. QED BY <1>1, <1>2, <1>7 DEF Store!Tick

\* The empty table is the empty store.
LEMMA StoreInit ==
  ASSUME Init
  PROVE  Store!Init
<1>1. Live = {} /\ cmd = Idle
  BY DEF Init, Live
<1>2. VisibleKeys = {}
  BY <1>1 DEF VisibleKeys
<1>3. Seen = [k \in {} |-> Store!NEVER]
  BY <1>2 DEF Seen
<1>4. Held = "none"
  BY <1>1, HeldFacts
<1>. QED BY <1>3, <1>4 DEF Store!Init, Init

\* Every step of the table is a step of the store, or none.
LEMMA StoreStep ==
  ASSUME KInv, KInv', Timely, [Next]_vars
  PROVE  [Store!Next]_(Store!vars)
<1>1. ASSUME Store!Request, Held = "none", Held' = "none", UNCHANGED now
      PROVE  Store!Next
  BY <1>1 DEF Store!Next
<1>2. ASSUME cmd = Idle, cmd' = Idle PROVE Held = "none" /\ Held' = "none"
  BY <1>2, HeldFacts
<1>3. ASSUME NEW k \in Keys, NEW v \in Values, SetNew(k, v) \/ SetExisting(k, v)
      PROVE  Store!Next
  <2>1. cmd = Idle /\ cmd' = Idle /\ UNCHANGED now
    BY <1>3 DEF SetNew, SetExisting, Answer
  <2>2. Store!Request
    BY <1>3, SetStored DEF Store!Request
  <2>. QED BY <1>1, <1>2, <2>1, <2>2
<1>4. ASSUME UNCHANGED table, cmd = Idle, cmd' = Idle, UNCHANGED now,
             reply' \in {<<"ERR">>, <<>>}
      PROVE  Store!Next
  <2>1. Seen' = Seen
    BY <1>4, TableSeen
  <2>2. Store!Request
    BY <1>4, <2>1 DEF Store!Request, Store!BadRequest
  <2>. QED BY <1>1, <1>2, <1>4, <2>2
<1>5. ASSUME NEW k \in Keys, SetFull(k) PROVE Store!Next
  BY <1>4, <1>5 DEF SetFull, Answer
<1>6. CASE SetNoMem \/ BadRequest
  BY <1>4, <1>6 DEF SetNoMem, BadRequest, Answer
<1>7. ASSUME NEW k \in Keys, Get(k) \/ GetExpiry(k) \/ Exists(k) PROVE Store!Next
  <2>1. cmd = Idle /\ cmd' = Idle /\ UNCHANGED now
    BY <1>7 DEF Get, GetExpiry, Exists, Answer
  <2>2. Store!Request
    BY <1>7, ReadStored DEF Store!Request
  <2>. QED BY <1>1, <1>2, <2>1, <2>2
<1>8. ASSUME NEW k \in Keys, Delete(k) PROVE Store!Next
  <2>1. cmd = Idle /\ cmd' = Idle /\ UNCHANGED now
    BY <1>8 DEF Delete, Answer
  <2>2. Store!Request
    BY <1>8, DeleteStored DEF Store!Request
  <2>. QED BY <1>1, <1>2, <2>1, <2>2
<1>9. ASSUME NEW k \in Keys, NEW d \in Durations, ExpireBegin(k, d)
      PROVE  [Store!Next]_(Store!vars)
  <2>1. CASE Miss(k) /\ Answer(<<"FALSE">>)
    <3>1. cmd = Idle /\ cmd' = Idle /\ UNCHANGED now /\ reply' = <<"FALSE">>
      BY <2>1 DEF Answer
    <3>2. k \notin VisibleKeys /\ Seen' = Seen /\ DOMAIN Seen = VisibleKeys
      BY <1>2, <2>1, <3>1, MissSeen DEF Seen
    <3>3. Store!Request
      BY <3>1, <3>2 DEF Store!Request, Store!ExpireMissing
    <3>. QED BY <1>1, <1>2, <3>1, <3>3
  <2>2. CASE cmd = Idle /\ cmd' = <<"update", k, d>> /\ UNCHANGED <<table, now, reply>>
    <3>1. Held = "none" /\ Held' = "none"
      BY <2>2, HeldFacts
    <3>2. VisibleKeys' = VisibleKeys /\ mem' = mem /\ \A j : EntryOf(j)' = EntryOf(j)
      BY <2>2, <3>1 DEF table, VisibleKeys, Live, EntryOf, Chain, Position, Matches
    <3>3. Seen' = Seen
      BY <3>2 DEF Seen
    <3>. QED BY <2>2, <3>1, <3>3 DEF Store!vars
  <2>. QED BY <1>9, <2>1, <2>2 DEF ExpireBegin
<1>10. CASE ExpireUpdate
  <2>1. PICK k \in Keys : Store!ExpireFind(k) \/ (Store!ExpireMissing(k) /\ Held' = "none")
    BY <1>10, UpdateStored
  <2>2. UNCHANGED now /\ Held = "none"
    BY <1>10, UpdateStored
  <2>3. CASE Store!ExpireFind(k)
    BY <2>2, <2>3 DEF Store!Next
  <2>4. CASE Store!ExpireMissing(k) /\ Held' = "none"
    <3>1. Store!Request
      BY <2>4 DEF Store!Request
    <3>. QED BY <1>1, <2>2, <2>4, <3>1
  <2>. QED BY <2>1, <2>3, <2>4
<1>11. CASE ExpireWrite
  BY <1>11, WriteStored DEF Store!Next
<1>12. CASE Tick
  BY <1>12, TickStored DEF Store!Next
<1>13. CASE UNCHANGED vars
  <2>1. UNCHANGED <<table, cmd, now>> /\ UNCHANGED <<now, reply>>
    BY <1>13 DEF vars
  <2>. QED BY <2>1, TableSeen DEF Store!vars
<1>. QED BY <1>3, <1>5, <1>6, <1>7, <1>8, <1>9, <1>10, <1>11, <1>12, <1>13 DEF Next

\* The hash table and the heap with lazy deletion are a map with expiring keys.
THEOREM ImplementsStore ==
  ASSUME TimesShort
  PROVE  Spec => StoreSpec
<1>1. Init => Store!Init
  BY StoreInit
<1>2. KInv /\ Timely /\ (KInv /\ Timely)' /\ [Next]_vars => [Store!Next]_(Store!vars)
  BY StoreStep
<1>. QED BY <1>1, <1>2, KInvAlways, PTL DEF Spec, StoreSpec, Store!Spec
=============================================================================
