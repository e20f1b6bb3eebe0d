------------------------------ MODULE Keyspace ------------------------------
(***************************************************************************)
(* The keyspace of sahDB: the chained hash table of src/hash.c, the Entry  *)
(* records both it and the expiry heap point to, and the commands of       *)
(* src/command.c that read and write them.                                 *)
(*                                                                         *)
(* Entries live at addresses, so that a pointer left behind in the heap    *)
(* after free can be told from a live one; malloc and realloc may fail at  *)
(* any time.  The heap is the set of addresses queued in it (what   *)
(* TTLHeap.tla shows the array to implement) and its array's capacity.     *)
(*                                                                         *)
(* A command that reads the clock once is one action.  EXPIRE reads it     *)
(* three times, and the clock may advance between two readings, so it is   *)
(* three.                                                                  *)
(***************************************************************************)
EXTENDS Integers, Sequences, FiniteSets, SequencesExt

CONSTANTS Keys,          \* the keys clients use
          Values,        \* the values they store
          Addrs,         \* bound: the memory entries are allocated in
          Buckets,       \* the buckets of the hash table (0 .. MOD-1)
          HashOf,        \* string_folding_hash
          Durations,     \* the arguments of EXPIRE, in seconds
          StartTime,     \* the clock when the server starts
          EndTime,       \* bound: the clock stops here
          LONG_MAX,      \* the largest time_t
          MAX_ALLOWED,   \* the table's limit on count (LONG_MAX in the code)
          InitCapacity,  \* the heap array's first capacity
          MaxCapacity,   \* the largest array realloc can return
          FREE           \* the content of an address that is not allocated

ASSUME KeyspaceAssumption ==
  /\ HashOf \in [Keys -> Buckets]
  /\ Durations \subseteq Int
  /\ StartTime \in Nat /\ EndTime \in Nat /\ LONG_MAX \in Nat
  /\ StartTime <= EndTime /\ EndTime < LONG_MAX
  /\ InitCapacity \in Nat \ {0} /\ MaxCapacity \in Nat
  /\ MAX_ALLOWED \in Nat
  /\ IsFiniteSet(Addrs)
  /\ "none" \notin Keys
  /\ FREE \notin [key : Keys, value : Values, expiry : Int, indexed : BOOLEAN]

VARIABLES mem,       \* mem[a] is the Entry at address a
          buckets,   \* ht->buckets, each chain a sequence of addresses
          count,     \* ht->count
          queued,    \* the addresses in the expiry heap
          capacity,  \* ttl->capacity
          now,       \* the clock, time(NULL)
          cmd,       \* the EXPIRE in progress, or Idle
          reply      \* the answer to the last request, <<>> if it was empty

table == <<mem, buckets, count, queued, capacity>>
vars == <<table, now, cmd, reply>>

NEVER == -1          \* the expiry field of a key that does not expire
Idle == <<"idle">>

-----------------------------------------------------------------------------
\* Lookups

Live == {a \in Addrs : mem[a] # FREE}

Chain(k) == buckets[HashOf[k]]

Matches(k) == {i \in DOMAIN Chain(k) : mem[Chain(k)[i]].key = k}

\* Fault: the walk stops before it has compared the chain's last entry.
PresentBeforeLast(k) == \E i \in Matches(k) : i < Len(Chain(k))

Present(k) == Matches(k) # {}

\* Where the walk down the chain stops, and the entry it stops at.
Position(k) == CHOOSE i \in Matches(k) : \A j \in Matches(k) : i <= j
EntryOf(k) == Chain(k)[Position(k)]

\* lazy_expire_and_delete's test, and a fault: one second late.
ExpiredLate(a) == ~ (mem[a].expiry >= now \/ mem[a].expiry = NEVER)
Expired(a) == ~ (mem[a].expiry > now \/ mem[a].expiry = NEVER)

Found(k) == Present(k) /\ ~ Expired(EntryOf(k))

\* time_t arithmetic wraps at its width.
WrapTime(t) ==
  ((t + LONG_MAX + 1) % (2 * (LONG_MAX + 1))) - (LONG_MAX + 1)

-----------------------------------------------------------------------------
\* Steps shared by the commands

ChainWithout(k) == RemoveAt(Chain(k), Position(k))

\* add_kv_in_arr's update of an entry; fault: it replaces the entry by the new
\* one, in its place.
ValueReplaced(e, v) == [e EXCEPT !.value = v, !.expiry = NEVER, !.indexed = FALSE]
ValueUpdated(e, v) == [e EXCEPT !.value = v]

\* ttl->size has reached ttl->capacity; fault: one insertion too late.
HeapFullLate == Cardinality(queued) > capacity
HeapFull == Cardinality(queued) = capacity

\* hash_delete's unlinking and freeing of a key that is present, leaving q
\* in the heap.
Unlink(k, q) ==
  /\ buckets' = [buckets EXCEPT ![HashOf[k]] = ChainWithout(k)]
  /\ count' = count - 1
  /\ mem' = [mem EXCEPT ![EntryOf(k)] = FREE]
  /\ queued' = q
  /\ UNCHANGED capacity

\* The heap after hash_delete's own call of heap_remove; fault: without it.
AfterDeleteKept(a) == queued
AfterDelete(a) ==
  IF mem[a].indexed /\ mem[a].expiry # LONG_MAX THEN queued \ {a} ELSE queued

\* A lookup that finds nothing, after purging k if it has expired:
\* lazy_expire_and_delete removes the entry from the heap before hash_delete.
Miss(k) ==
  /\ ~ Found(k)
  /\ IF Present(k) THEN Unlink(k, queued \ {EntryOf(k)}) ELSE UNCHANGED table

Answer(r) == cmd = Idle /\ reply' = r /\ UNCHANGED <<cmd, now>>

-----------------------------------------------------------------------------

Init ==
  /\ mem = [a \in Addrs |-> FREE]
  /\ buckets = [b \in Buckets |-> <<>>]
  /\ count = 0
  /\ queued = {}
  /\ capacity = InitCapacity
  /\ now = StartTime
  /\ cmd = Idle
  /\ reply = <<>>

Tick ==
  /\ now < EndTime
  /\ now' = now + 1
  /\ UNCHANGED <<table, cmd, reply>>

\* SET of a key that is not in its chain: a new entry at the chain's end.
SetNew(k, v) ==
  /\ Answer(<<"OK">>)
  /\ ~ Present(k)
  /\ count + 1 < MAX_ALLOWED
  /\ \E a \in Addrs \ Live :
       /\ mem' = [mem EXCEPT ![a] = [key |-> k, value |-> v, expiry |-> NEVER,
                                     indexed |-> FALSE]]
       /\ buckets' = [buckets EXCEPT ![HashOf[k]] = Append(@, a)]
  /\ count' = count + 1
  /\ UNCHANGED <<queued, capacity>>

\* SET of a key that is in its chain, expired or not, also in a full table.
\* The new entry allocated for it is freed again.
SetExisting(k, v) ==
  /\ Answer(<<"OK">>)
  /\ Addrs # Live
  /\ Present(k)
  /\ mem' = [mem EXCEPT ![EntryOf(k)] = ValueUpdated(@, v)]
  /\ UNCHANGED <<buckets, count, queued, capacity>>

SetFull(k) ==
  /\ Answer(<<"ERR">>)
  /\ Addrs # Live
  /\ ~ Present(k)
  /\ count + 1 >= MAX_ALLOWED
  /\ UNCHANGED table

\* SET when malloc fails: nothing is written to the reply.
SetNoMem == Answer(<<>>) /\ UNCHANGED table

Get(k) ==
  \/ Found(k) /\ Answer(<<"VALUE", mem[EntryOf(k)].value>>) /\ UNCHANGED table
  \/ Miss(k) /\ Answer(<<"ERR">>)

GetExpiry(k) ==
  \/ /\ Found(k)
     /\ LET t == mem[EntryOf(k)].expiry
        IN  Answer(IF t # NEVER THEN <<"EXPIRY", t>> ELSE <<"NULL">>)
     /\ UNCHANGED table
  \/ Miss(k) /\ Answer(<<"ERR">>)

Exists(k) ==
  \/ Found(k) /\ Answer(<<"TRUE">>) /\ UNCHANGED table
  \/ Miss(k) /\ Answer(<<"FALSE">>)

\* DELETE does not look at the expiry time.
Delete(k) ==
  \/ Present(k) /\ Answer(<<"OK">>) /\ Unlink(k, AfterDelete(EntryOf(k)))
  \/ ~ Present(k) /\ Answer(<<"ERR">>) /\ UNCHANGED table

\* EXPIRE, first reading of the clock: hash_exists.
ExpireBegin(k, d) ==
  \/ /\ cmd = Idle
     /\ Found(k)
     /\ cmd' = <<"update", k, d>>
     /\ UNCHANGED <<table, now, reply>>
  \/ Miss(k) /\ Answer(<<"FALSE">>)

\* Second reading: hash_update_expiry looks the key up again and takes it out
\* of the heap.
ExpireUpdate ==
  /\ cmd[1] = "update"
  /\ LET k == cmd[2]
     IN  \/ /\ Found(k)
            /\ mem' = [mem EXCEPT ![EntryOf(k)].indexed = FALSE]
            /\ queued' = queued \ {EntryOf(k)}
            /\ cmd' = [cmd EXCEPT ![1] = "write"]
            /\ UNCHANGED <<buckets, count, capacity, reply>>
         \/ Miss(k) /\ cmd' = Idle /\ reply' = <<"NULL">>
  /\ UNCHANGED now

\* Third reading: the expiry time, and heap_insert, which doubles a full array.
ExpireWrite ==
  /\ cmd[1] = "write"
  /\ LET a == EntryOf(cmd[2])
         t == WrapTime(now + cmd[3])
     IN  \/ /\ IF HeapFull THEN 2 * capacity <= MaxCapacity /\ capacity' = 2 * capacity
                       ELSE UNCHANGED capacity
            /\ mem' = [mem EXCEPT ![a].expiry = t, ![a].indexed = TRUE]
            /\ queued' = queued \union {a}
            /\ reply' = <<"OK">>
         \/ /\ HeapFull
            /\ mem' = [mem EXCEPT ![a].expiry = t]
            /\ reply' = <<"ERR">>
            /\ UNCHANGED <<queued, capacity>>
  /\ cmd' = Idle
  /\ UNCHANGED <<buckets, count, now>>

\* A request with the wrong number of arguments, or GET with an option that
\* is not "ex", which is answered with an empty line.
BadRequest ==
  /\ Answer(<<"ERR">>) \/ Answer(<<>>)
  /\ UNCHANGED table

Next ==
  \/ Tick
  \/ \E k \in Keys, v \in Values : SetNew(k, v) \/ SetExisting(k, v)
  \/ \E k \in Keys :
       SetFull(k) \/ Get(k) \/ GetExpiry(k) \/ Exists(k) \/ Delete(k)
  \/ SetNoMem
  \/ \E k \in Keys, d \in Durations : ExpireBegin(k, d)
  \/ ExpireUpdate
  \/ ExpireWrite
  \/ BadRequest

Spec == Init /\ [][Next]_vars

-----------------------------------------------------------------------------
\* Conditions on the durations

\* None takes the clock to the one time that hash_delete does not find in the
\* heap (hash.c:161), or to the one that means never.
TimesShort ==
  \A t \in StartTime .. EndTime, d \in Durations : WrapTime(t + d) # LONG_MAX
TimesReal ==
  \A t \in StartTime .. EndTime, d \in Durations : WrapTime(t + d) # NEVER

-----------------------------------------------------------------------------
\* Properties

EntryType == [key : Keys, value : Values, expiry : Int, indexed : BOOLEAN]

TypeOK ==
  /\ \A a \in Live : mem[a] \in EntryType
  /\ \A b \in Buckets : \A i \in DOMAIN buckets[b] : buckets[b][i] \in Addrs
  /\ count \in Nat
  /\ queued \subseteq Addrs
  /\ Cardinality(queued) <= capacity
  /\ now \in StartTime .. EndTime
  /\ cmd = Idle \/ (cmd[1] \in {"update", "write"} /\ cmd[2] \in Keys)

\* The table is sound: the chains hold exactly the allocated entries, each
\* once, in the bucket of its key, no key twice, and count counts them.  A
\* key found twice would come back after DELETE (hash.c:135).
ChainsSound ==
  /\ \A b \in Buckets : \A i, j \in DOMAIN buckets[b] :
       /\ mem[buckets[b][i]] # FREE
       /\ HashOf[mem[buckets[b][i]].key] = b
       /\ i # j => mem[buckets[b][i]].key # mem[buckets[b][j]].key
  /\ \A a \in Live : \E b \in Buckets : a \in {buckets[b][i] : i \in DOMAIN buckets[b]}
  /\ count = Cardinality(Live)

\* The heap and the table agree: the heap holds exactly the entries that
\* claim to be in it, so it never points to freed memory (hash.c:161).
HeapSound == queued = {a \in Live : mem[a].indexed}

Misqueued(a) == a \in Live /\ (mem[a].expiry = NEVER <=> a \in queued)

Expiring(a) == cmd # Idle /\ a \in Live /\ mem[a].key = cmd[2]

\* The heap holds the keys with an expiry time and no others (ttl.h:10): no
\* command, once it is over, has left out or dropped one or queued another,
\* but an EXPIRE that was answered ERR.
VolatileQueued ==
  [][\A a \in Addrs :
       /\ cmd' = Idle
       /\ Misqueued(a)'
       => \/ reply' = <<"ERR">>
          \/ Misqueued(a) /\ ~ Expiring(a)]_vars

-----------------------------------------------------------------------------
\* What a client sees

\* The key whose expiry time the running EXPIRE is about to write.
Held == IF cmd[1] = "write" THEN cmd[2] ELSE "none"

\* The keys in the table that the clock has not overtaken, and that one.
VisibleKeys ==
  {k \in Keys : \E a \in Live :
     /\ mem[a].key = k
     /\ mem[a].expiry = NEVER \/ mem[a].expiry > now \/ k = Held}

\* What they hold.
Seen ==
  [k \in VisibleKeys |-> [value  |-> mem[EntryOf(k)].value,
                          expiry |-> mem[EntryOf(k)].expiry]]

Store == INSTANCE KVStore WITH live <- Seen, held <- Held

\* Every command has the effect and the answer a map with expiring keys would
\* give: no expired value is served, no key but the named one changes, and a
\* key that has disappeared comes back only through a SET of it.
StoreSpec == Store!Spec

\* SET that is answered OK stores its value (command.h:45).
SetTakesEffect ==
  [][\A k \in Keys, v \in Values :
       SetExisting(k, v) => k \in VisibleKeys']_vars
=============================================================================
