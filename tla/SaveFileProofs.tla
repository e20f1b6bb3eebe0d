--------------------------- MODULE SaveFileProofs --------------------------
(***************************************************************************)
(* Proofs about the savefile, for any keys and values and whatever the     *)
(* file holds: the table that is rebuilt is one that hash.c could have     *)
(* built.  Texts are not typed, a file cut short by a crash can hold       *)
(* anything; the chains are.                                               *)
(***************************************************************************)
EXTENDS SaveFile, TLAPS, SequenceTheorems

-----------------------------------------------------------------------------
(* Chains. *)

\* A record with the fields of a struct entry.
IsEntry(e) == e = [key |-> e.key, value |-> e.value, expiry |-> e.expiry]

\* A chain of bucket h holds entries that hash to h, each key once.
Chain(c, h) ==
  /\ \E S : c \in Seq(S)
  /\ \A i \in 1 .. Len(c) : IsEntry(c[i]) /\ HashOf(c[i].key) = h
  /\ \A i, j \in 1 .. Len(c) : c[i].key = c[j].key => i = j

\* A table has a chain for every bucket.
Table(b) ==
  /\ b = [h \in 1 .. NBuckets |-> b[h]]
  /\ \A h \in 1 .. NBuckets : Chain(b[h], h)

\* A chain is a sequence.
LEMMA ChainFacts ==
  ASSUME NEW c, NEW h, Chain(c, h)
  PROVE  Len(c) \in Nat /\ DOMAIN c = 1 .. Len(c) /\ c \in Seq({c[i] : i \in 1 .. Len(c)})
<1>1. PICK S : c \in Seq(S)
  BY DEF Chain
<1>2. Len(c) \in Nat /\ DOMAIN c = 1 .. Len(c) /\ c = [i \in 1 .. Len(c) |-> c[i]]
  BY <1>1
<1>. QED BY <1>2

\* hash_insert of a key that the chain does not hold.
LEMMA ChainAppend ==
  ASSUME NEW c, NEW h, Chain(c, h), NEW k, NEW v, HashOf(k) = h,
         \A i \in 1 .. Len(c) : c[i].key # k
  PROVE  /\ Chain(Append(c, [key |-> k, value |-> v, expiry |-> NEVER]), h)
         /\ \E i \in DOMAIN Append(c, [key |-> k, value |-> v, expiry |-> NEVER]) :
              Append(c, [key |-> k, value |-> v, expiry |-> NEVER])[i].key = k
<1>1. PICK e : e = [key |-> k, value |-> v, expiry |-> NEVER]
  OBVIOUS
<1>2. IsEntry(e) /\ e.key = k
  BY <1>1 DEF IsEntry
<1>3. PICK S : c \in Seq(S \union {e}) /\ Len(c) \in Nat
  <2>1. PICK S : c \in Seq(S)
    BY DEF Chain
  <2>2. c \in Seq(S \union {e}) /\ Len(c) \in Nat
    BY <2>1
  <2>. QED BY <2>2
<1>4. PICK d : d = Append(c, e)
  OBVIOUS
<1>5. /\ d \in Seq(S \union {e}) /\ Len(d) = Len(c) + 1 /\ DOMAIN d = 1 .. Len(c) + 1
      /\ \A i \in 1 .. Len(c) : d[i] = c[i]
      /\ d[Len(c) + 1] = e
  BY <1>3, <1>4
<1>6. \A i \in 1 .. Len(c) + 1 : i \in 1 .. Len(c) \/ i = Len(c) + 1
  BY <1>3
<1>7. \A i \in 1 .. Len(d) : IsEntry(d[i]) /\ HashOf(d[i].key) = h
  BY <1>2, <1>5, <1>6 DEF Chain
<1>8. \A i, j \in 1 .. Len(d) : d[i].key = d[j].key => i = j
  BY <1>2, <1>5, <1>6 DEF Chain
<1>9. Len(c) + 1 \in DOMAIN d
  BY <1>3, <1>5
<1>. QED BY <1>1, <1>2, <1>4, <1>5, <1>7, <1>8, <1>9 DEF Chain

\* An assignment to a field other than the key.
LEMMA ChainUpdate ==
  ASSUME NEW c, NEW h, Chain(c, h), NEW i \in 1 .. Len(c),
         NEW e, IsEntry(e), e.key = c[i].key
  PROVE  /\ Chain([c EXCEPT ![i] = e], h)
         /\ DOMAIN [c EXCEPT ![i] = e] = DOMAIN c
         /\ \A j \in DOMAIN c : [c EXCEPT ![i] = e][j].key = c[j].key
<1>1. PICK S : c \in Seq(S \union {e})
  <2>1. PICK S : c \in Seq(S)
    BY DEF Chain
  <2>2. c \in Seq(S \union {e})
    BY <2>1
  <2>. QED BY <2>2
<1>2. PICK d : d = [c EXCEPT ![i] = e]
  OBVIOUS
<1>3. /\ d \in Seq(S \union {e}) /\ Len(d) = Len(c) /\ DOMAIN d = DOMAIN c /\ Len(c) \in Nat
      /\ DOMAIN c = 1 .. Len(c)
      /\ d[i] = e /\ \A j \in 1 .. Len(c) : j # i => d[j] = c[j]
  BY <1>1, <1>2
<1>4. \A j \in 1 .. Len(c) : d[j].key = c[j].key /\ IsEntry(d[j])
  BY <1>3 DEF Chain
<1>. QED BY <1>2, <1>3, <1>4 DEF Chain

\* hash_delete of an entry of the chain.
LEMMA ChainRemove ==
  ASSUME NEW c, NEW h, Chain(c, h), NEW i \in 1 .. Len(c)
  PROVE  Chain(RemoveAt(c, i), h)
<1>1. PICK S : c \in Seq(S)
  BY DEF Chain
<1>2. PICK n \in Nat : n = Len(c) /\ i \in 1 .. n
  BY <1>1
<1>3. PICK d : d = RemoveAt(c, i)
  OBVIOUS
<1>4. PICK l, r : l = SubSeq(c, 1, i - 1) /\ r = SubSeq(c, i + 1, n)
  OBVIOUS
<1>5. /\ l \in Seq(S) /\ Len(l) = i - 1 /\ \A j \in 1 .. i - 1 : l[j] = c[j]
      /\ r \in Seq(S) /\ Len(r) = n - i /\ \A j \in 1 .. n - i : r[j] = c[j + i]
  BY <1>1, <1>2, <1>4
<1>6. d = l \o r
  BY <1>2, <1>3, <1>4 DEF RemoveAt
<1>7. /\ d \in Seq(S) /\ Len(d) = n - 1
      /\ \A j \in 1 .. n - 1 : d[j] = IF j < i THEN c[j] ELSE c[j + 1]
  <2>1. d \in Seq(S) /\ Len(d) = Len(l) + Len(r)
    BY <1>5, <1>6, ConcatProperties
  <2>2. \A j \in 1 .. Len(l) + Len(r) :
          d[j] = IF j <= Len(l) THEN l[j] ELSE r[j - Len(l)]
    BY <1>5, <1>6, ConcatProperties
  <2>3. Len(d) = n - 1
    BY <1>2, <1>5, <2>1
  <2>. SUFFICES ASSUME NEW j \in 1 .. n - 1
                PROVE  d[j] = IF j < i THEN c[j] ELSE c[j + 1]
    BY <2>1, <2>3
  <2>4. CASE j < i
    <3>1. j \in 1 .. i - 1 /\ j <= i - 1 /\ j \in 1 .. (i - 1) + (n - i)
      BY <1>2, <2>4
    <3>. QED BY <1>5, <2>2, <2>4, <3>1
  <2>5. CASE ~ (j < i)
    <3>1. /\ j - (i - 1) \in 1 .. n - i /\ ~ (j <= i - 1) /\ j \in 1 .. (i - 1) + (n - i)
          /\ (j - (i - 1)) + i = j + 1
      BY <1>2, <2>5
    <3>2. d[j] = r[j - (i - 1)]
      BY <1>5, <2>2, <3>1
    <3>3. r[j - (i - 1)] = c[(j - (i - 1)) + i]
      BY <1>5, <3>1
    <3>. QED BY <2>5, <3>1, <3>2, <3>3
  <2>. QED BY <2>4, <2>5
<1>8. \A j \in 1 .. n - 1 : \E m \in 1 .. n : d[j] = c[m] /\ m = IF j < i THEN j ELSE j + 1
  BY <1>2, <1>7
<1>9. \A j \in 1 .. Len(d) : IsEntry(d[j]) /\ HashOf(d[j].key) = h
  BY <1>2, <1>7, <1>8 DEF Chain
<1>10. \A j, m \in 1 .. Len(d) : d[j].key = d[m].key => j = m
  <2>. SUFFICES ASSUME NEW j \in 1 .. n - 1, NEW m \in 1 .. n - 1, d[j].key = d[m].key
                PROVE  j = m
    BY <1>7
  <2>1. PICK a \in 1 .. n : d[j] = c[a] /\ a = IF j < i THEN j ELSE j + 1
    BY <1>8
  <2>2. PICK b \in 1 .. n : d[m] = c[b] /\ b = IF m < i THEN m ELSE m + 1
    BY <1>8
  <2>3. a = b
    BY <1>2, <2>1, <2>2 DEF Chain
  <2>. QED BY <1>2, <2>1, <2>2, <2>3
<1>. QED BY <1>3, <1>7, <1>9, <1>10 DEF Chain

-----------------------------------------------------------------------------
(* The table: what hash_insert, hash_delete and an assignment keep. *)

\* The table with another chain in bucket h, and with another entry for k.
WithChain(b, h, c) == [b EXCEPT ![h] = c]
WithEntry(b, k, e) ==
  WithChain(b, HashOf(k), [b[HashOf(k)] EXCEPT ![Place(b, k)] = e])

\* The table changes in one chain; a bucket that does not exist is not written.
LEMMA TableSet ==
  ASSUME NEW b, Table(b), NEW h, NEW c, h \in 1 .. NBuckets => Chain(c, h)
  PROVE  /\ Table(WithChain(b, h, c))
         /\ h \in 1 .. NBuckets => WithChain(b, h, c)[h] = c
<1>1. PICK d : d = [b EXCEPT ![h] = c]
  OBVIOUS
<1>2. b = [g \in 1 .. NBuckets |-> b[g]]
  BY DEF Table
<1>3. /\ d = [g \in 1 .. NBuckets |-> d[g]]
      /\ \A g \in 1 .. NBuckets : d[g] = IF g = h THEN c ELSE b[g]
  BY <1>1, <1>2
<1>4. ASSUME NEW g \in 1 .. NBuckets
      PROVE  Chain(d[g], g)
  <2>1. CASE g = h
    BY <1>3, <2>1
  <2>2. CASE g # h
    BY <1>3, <2>2 DEF Table
  <2>. QED BY <2>1, <2>2
<1>5. Table(d)
  BY <1>3, <1>4 DEF Table
<1>. QED BY <1>1, <1>3, <1>5 DEF WithChain

\* The place of a key that its chain holds.
LEMMA PlaceFound ==
  ASSUME NEW b, Table(b), NEW k, HashOf(k) \in 1 .. NBuckets, Places(b, k) # {}
  PROVE  /\ Place(b, k) \in 1 .. Len(b[HashOf(k)])
         /\ b[HashOf(k)][Place(b, k)].key = k
         /\ IsEntry(b[HashOf(k)][Place(b, k)])
<1>1. Chain(b[HashOf(k)], HashOf(k))
  BY DEF Table
<1>2. DOMAIN b[HashOf(k)] = 1 .. Len(b[HashOf(k)])
  BY <1>1, ChainFacts
<1>3. Place(b, k) \in Places(b, k)
  BY DEF Place
<1>4. /\ Place(b, k) \in 1 .. Len(b[HashOf(k)])
      /\ b[HashOf(k)][Place(b, k)].key = k
  BY <1>2, <1>3 DEF Places
<1>. QED BY <1>1, <1>4 DEF Chain

\* The fields of the entry at a place are assigned: the key stays where it is.
LEMMA TableAssign ==
  ASSUME NEW b, Table(b), NEW k, NEW e,
         HashOf(k) \in 1 .. NBuckets => Places(b, k) # {} /\ IsEntry(e) /\ e.key = k
  PROVE  /\ Table(WithEntry(b, k, e))
         /\ HashOf(k) \in 1 .. NBuckets =>
              Places(WithEntry(b, k, e), k) = Places(b, k)
<1>1. PICK h : h = HashOf(k)
  OBVIOUS
<1>2. PICK c : c = [b[h] EXCEPT ![Place(b, k)] = e]
  OBVIOUS
<1>3. PICK d : d = WithChain(b, h, c)
  OBVIOUS
<1>4. ASSUME h \in 1 .. NBuckets
      PROVE  /\ Chain(c, h)
             /\ DOMAIN c = DOMAIN b[h]
             /\ \A j \in DOMAIN b[h] : c[j].key = b[h][j].key
  <2>1. Chain(b[h], h)
    BY <1>4 DEF Table
  <2>2. /\ Place(b, k) \in 1 .. Len(b[h]) /\ b[h][Place(b, k)].key = k
        /\ IsEntry(e) /\ e.key = k
    BY <1>1, <1>4, PlaceFound
  <2>. QED BY <1>2, <2>1, <2>2, ChainUpdate
<1>5. Table(d) /\ (h \in 1 .. NBuckets => d[h] = c)
  BY <1>3, <1>4, TableSet
<1>6. ASSUME h \in 1 .. NBuckets
      PROVE  Places(d, k) = Places(b, k)
  BY <1>1, <1>4, <1>5, <1>6 DEF Places
<1>7. d = WithEntry(b, k, e)
  BY <1>1, <1>2, <1>3 DEF WithEntry
<1>. QED BY <1>1, <1>5, <1>6, <1>7

\* hash_insert: the table stays one, and it then holds the key.
LEMMA InsertKept ==
  ASSUME NEW b, Table(b), NEW k, NEW v
  PROVE  /\ Table(HashInsert(b, k, v))
         /\ HashOf(k) \in 1 .. NBuckets => Places(HashInsert(b, k, v), k) # {}
<1>1. CASE Places(b, k) = {}
  <2>1. PICK c : c = Append(b[HashOf(k)], [key |-> k, value |-> v, expiry |-> NEVER])
    OBVIOUS
  <2>2. HashInsert(b, k, v) = WithChain(b, HashOf(k), c)
    BY <1>1, <2>1 DEF HashInsert, WithChain
  <2>3. ASSUME HashOf(k) \in 1 .. NBuckets
        PROVE  Chain(c, HashOf(k)) /\ \E i \in DOMAIN c : c[i].key = k
    <3>1. Chain(b[HashOf(k)], HashOf(k))
      BY <2>3 DEF Table
    <3>2. DOMAIN b[HashOf(k)] = 1 .. Len(b[HashOf(k)])
      BY <3>1, ChainFacts
    <3>3. \A i \in 1 .. Len(b[HashOf(k)]) : b[HashOf(k)][i].key # k
      BY <1>1, <3>2 DEF Places
    <3>. QED BY <2>1, <3>1, <3>3, ChainAppend
  <2>4. /\ Table(HashInsert(b, k, v))
        /\ HashOf(k) \in 1 .. NBuckets => HashInsert(b, k, v)[HashOf(k)] = c
    BY <2>2, <2>3, TableSet
  <2>5. ASSUME HashOf(k) \in 1 .. NBuckets
        PROVE  Places(HashInsert(b, k, v), k) # {}
    BY <2>3, <2>4, <2>5 DEF Places
  <2>. QED BY <2>4, <2>5
<1>2. CASE Places(b, k) # {}
  <2>1. PICK e : e = [b[HashOf(k)][Place(b, k)] EXCEPT !.value = v]
    OBVIOUS
  <2>2. HashInsert(b, k, v) = WithEntry(b, k, e)
    <3>1. HashInsert(b, k, v) = [b EXCEPT ![HashOf(k)][Place(b, k)].value = v]
      BY <1>2 DEF HashInsert
    <3>2. CASE HashOf(k) \in DOMAIN b
      BY <2>1, <3>1, <3>2 DEF WithEntry, WithChain
    <3>3. CASE HashOf(k) \notin DOMAIN b
      BY <3>1, <3>3 DEF WithEntry, WithChain
    <3>. QED BY <3>2, <3>3
  <2>3. ASSUME HashOf(k) \in 1 .. NBuckets
        PROVE  IsEntry(e) /\ e.key = k
    <3>1. PICK g : g = b[HashOf(k)][Place(b, k)]
      OBVIOUS
    <3>2. IsEntry(g) /\ g.key = k
      BY <1>2, <2>3, <3>1, PlaceFound
    <3>3. e = [key |-> k, value |-> v, expiry |-> g.expiry]
      BY <2>1, <3>1, <3>2 DEF IsEntry
    <3>. QED BY <3>3 DEF IsEntry
  <2>. QED BY <1>2, <2>2, <2>3, TableAssign
<1>. QED BY <1>1, <1>2

\* An assignment to expiry.
LEMMA TimeKept ==
  ASSUME NEW b, Table(b), NEW k, NEW t, HashOf(k) \in 1 .. NBuckets => Places(b, k) # {}
  PROVE  Table(SetTime(b, k, t))
<1>1. PICK e : e = [b[HashOf(k)][Place(b, k)] EXCEPT !.expiry = t]
  OBVIOUS
<1>2. SetTime(b, k, t) = WithEntry(b, k, e)
  <2>1. SetTime(b, k, t) = [b EXCEPT ![HashOf(k)][Place(b, k)].expiry = t]
    BY DEF SetTime
  <2>. QED BY <1>1, <2>1 DEF WithEntry, WithChain
<1>3. ASSUME HashOf(k) \in 1 .. NBuckets
      PROVE  IsEntry(e) /\ e.key = k
  <2>1. PICK g : g = b[HashOf(k)][Place(b, k)]
    OBVIOUS
  <2>2. IsEntry(g) /\ g.key = k
    BY <1>3, <2>1, PlaceFound
  <2>3. e = [key |-> k, value |-> g.value, expiry |-> t]
    BY <1>1, <2>1, <2>2 DEF IsEntry
  <2>. QED BY <2>3 DEF IsEntry
<1>. QED BY <1>2, <1>3, TableAssign

\* hash_delete.
LEMMA DeleteKept ==
  ASSUME NEW b, Table(b), NEW k, HashOf(k) \in 1 .. NBuckets => Places(b, k) # {}
  PROVE  Table(HashDelete(b, k))
<1>1. PICK c : c = RemoveAt(b[HashOf(k)], Place(b, k))
  OBVIOUS
<1>2. HashDelete(b, k) = WithChain(b, HashOf(k), c)
  BY <1>1 DEF HashDelete, WithChain
<1>3. ASSUME HashOf(k) \in 1 .. NBuckets
      PROVE  Chain(c, HashOf(k))
  <2>1. Chain(b[HashOf(k)], HashOf(k)) /\ Place(b, k) \in 1 .. Len(b[HashOf(k)])
    BY <1>3, PlaceFound DEF Table
  <2>. QED BY <1>1, <2>1, ChainRemove
<1>. QED BY <1>2, <1>3, TableSet

\* What the rebuild makes of an entry, whatever its fields are.
LEMMA LoadedKept ==
  ASSUME NEW f, Table(buckets)
  PROVE  Table(Loaded(f))
<1>1. PICK b : b = HashInsert(buckets, f[1], f[2])
  OBVIOUS
<1>2. PICK t : t = ParseTime(f[3])
  OBVIOUS
<1>3. Table(b) /\ (HashOf(f[1]) \in 1 .. NBuckets => Places(b, f[1]) # {})
  BY <1>1, InsertKept
<1>4. Table(b) /\ Table(HashDelete(b, f[1])) /\ Table(SetTime(b, f[1], t))
  BY <1>3, DeleteKept, TimeKept
<1>5. Loaded(f) \in {b, HashDelete(b, f[1]), SetTime(b, f[1], t)}
  BY <1>1, <1>2 DEF Loaded
<1>. QED BY <1>4, <1>5

-----------------------------------------------------------------------------
(* The inductive invariant: TypeOK, with the shape of the chains on which   *)
(* Append, EXCEPT and RemoveAt depend.  Nothing is said of text, items and  *)
(* disk but where they are empty: no step needs more, whatever is read.     *)

\* Nothing is left of a file but while it is read or written.
Reading == /\ pc # "loading" => items = <<>>
           /\ pc \notin {"loading", "saving"} => text = <<>>

\* The invariant.
Inv ==
  /\ pc \in {"down", "loading", "up", "saving"}
  /\ queued \subseteq Keys
  /\ Table(buckets)
  /\ Reading

\* A table without entries, as main makes it.
LEMMA EmptyTable == Table(NoEntries)
<1>1. ASSUME NEW h \in 1 .. NBuckets
      PROVE  Chain(NoEntries[h], h)
  <2>1. NoEntries[h] = <<>> /\ <<>> \in Seq({}) /\ Len(<<>>) = 0
    BY DEF NoEntries
  <2>2. 1 .. 0 = {}
    OBVIOUS
  <2>. QED BY <2>1, <2>2 DEF Chain
<1>. QED BY <1>1 DEF Table, NoEntries

\* A death leaves nothing in memory, so the invariant as at the start.
LEMMA DeathKept ==
  ASSUME Dies
  PROVE  Inv'
<1>1. Table(buckets)'
  BY EmptyTable DEF Dies, Table, NoEntries
<1>. QED BY <1>1 DEF Inv, Reading, Dies

\* The commands of clients, and every step of SAVE and of the rebuild.
LEMMA InvStep ==
  ASSUME Inv, [Next]_vars
  PROVE  Inv'
<1>1. Table(buckets)
  BY DEF Inv
<1>2. ASSUME buckets' = buckets
      PROVE  Table(buckets)'
  BY <1>1, <1>2 DEF Table
<1>3. ASSUME NEW b, buckets' = b, Table(b)
      PROVE  Table(buckets)'
  BY <1>3 DEF Table
<1>4. CASE LoadItem
  <2>1. PICK f : buckets' = Loaded(f)
    BY <1>4 DEF LoadItem
  <2>2. Table(buckets)'
    BY <1>1, <1>3, <2>1, LoadedKept
  <2>. QED BY <1>4, <2>2 DEF LoadItem, Inv, Reading
<1>5. ASSUME NEW k, NEW v, Set(k, v)
      PROVE  Inv'
  <2>1. Table(buckets)'
    BY <1>1, <1>3, <1>5, InsertKept DEF Set
  <2>. QED BY <1>5, <2>1 DEF Set, Inv, Reading
<1>6. ASSUME NEW k \in Keys, NEW d, Expire(k, d)
      PROVE  Inv'
  <2>1. Table(buckets)'
    BY <1>1, <1>3, <1>6, TimeKept DEF Expire
  <2>. QED BY <1>6, <2>1 DEF Expire, Inv, Reading
<1>7. ASSUME NEW k, Delete(k)
      PROVE  Inv'
  <2>1. Table(buckets)'
    BY <1>1, <1>3, <1>7, DeleteKept DEF Delete
  <2>. QED BY <1>7, <2>1 DEF Delete, Inv, Reading
<1>8. CASE LoadCrash \/ Stop
  BY <1>8, DeathKept DEF LoadCrash, Stop
<1>9. CASE Tick
  BY <1>2, <1>9 DEF Tick, Inv, Reading
<1>10. CASE StartEmpty \/ StartRebuild
  BY <1>2, <1>10 DEF StartEmpty, StartRebuild, Inv, Reading
<1>11. CASE LoadLine
  BY <1>2, <1>11 DEF LoadLine, Inv, Reading
<1>12. CASE LoadEnd
  BY <1>2, <1>12 DEF LoadEnd, Inv, Reading
<1>13. ASSUME NEW B, SaveBegin(B)
       PROVE  Inv'
  BY <1>2, <1>13 DEF SaveBegin, Inv, Reading
<1>14. CASE SaveRefused
  BY <1>2, <1>14 DEF SaveRefused, Inv, Reading
<1>15. CASE SaveFlush
  BY <1>2, <1>15 DEF SaveFlush, Inv, Reading
<1>16. CASE SaveEnd
  BY <1>2, <1>16 DEF SaveEnd, Inv, Reading
<1>17. CASE UNCHANGED vars
  BY <1>2, <1>17 DEF vars, Inv, Reading
<1>18. ASSUME Next
       PROVE  \/ LoadItem \/ LoadCrash \/ Stop \/ Tick \/ StartEmpty \/ StartRebuild
              \/ LoadLine \/ LoadEnd \/ SaveRefused \/ SaveFlush \/ SaveEnd
              \/ \E k, v : Set(k, v)
              \/ \E k \in Keys : \E d : Expire(k, d)
              \/ \E k : Delete(k)
              \/ \E B : SaveBegin(B)
  BY <1>18 DEF Next
<1>. QED
  BY <1>4, <1>5, <1>6, <1>7, <1>8, <1>9, <1>10, <1>11, <1>12, <1>13, <1>14,
     <1>15, <1>16, <1>17, <1>18

\* Every entry is in the chain its key hashes to and no chain holds a key
\* twice, also while a table is rebuilt, whatever the file holds after a crash,
\* so that a lookup finds the one entry there is (hash.c:40).  What is being
\* read or written is kept no longer than the rebuild or the SAVE.
THEOREM TableWellFormed == Spec => []TypeOK
<1>1. Init => Inv
  <2>. SUFFICES ASSUME Init PROVE Inv
    OBVIOUS
  <2>1. Table(buckets)
    BY EmptyTable DEF Init
  <2>. QED BY <2>1 DEF Init, Inv, Reading
<1>2. Inv /\ [Next]_vars => Inv'
  BY InvStep
<1>3. Inv => TypeOK
  <2>. SUFFICES ASSUME Inv PROVE TypeOK
    OBVIOUS
  <2>1. ASSUME NEW h \in 1 .. NBuckets, NEW i \in DOMAIN buckets[h], NEW j \in DOMAIN buckets[h]
        PROVE  /\ HashOf(buckets[h][i].key) = h
               /\ i # j => buckets[h][i].key # buckets[h][j].key
    <3>1. Chain(buckets[h], h)
      BY DEF Inv, Table
    <3>2. DOMAIN buckets[h] = 1 .. Len(buckets[h])
      BY <3>1, ChainFacts
    <3>. QED BY <3>1, <3>2 DEF Chain
  <2>. QED BY <2>1 DEF Inv, Reading, TypeOK
<1>. QED BY <1>1, <1>2, <1>3, PTL DEF Spec

=============================================================================
