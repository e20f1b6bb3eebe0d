------------------------------ MODULE SaveFile ------------------------------
(***************************************************************************)
(* The savefile of src/dbsave.c: SAVE writes the hash table to a text      *)
(* file, and a server started with --savefile rebuilds the table from it.  *)
(*                                                                         *)
(* Text is a sequence of atoms: the separators, one atom per piece of a    *)
(* key or value (which may contain separators), one per number.  A crash   *)
(* during SAVE leaves whatever prefix of the text had reached the disk.    *)
(* The table is kept as its chains; Keyspace.tla models the commands in    *)
(* full, and the three here are its effects on key, value and expiry time. *)
(***************************************************************************)
EXTENDS Integers, Sequences, FiniteSets, SequencesExt

CONSTANTS Keys,          \* texts: non-empty sequences of atoms
          Writes,        \* what clients SET: pairs of a key and a value
          NBuckets,      \* ht->size
          HashOf(_),     \* string_folding_hash
          Durations,     \* the arguments of EXPIRE
          StartTime, EndTime,  \* bound: the clock's range
          LONG_MAX,      \* the largest time_t
          MAX_LINE,      \* the atoms one fgets reads at most (MAX_RESP_LEN)
          NOFILE         \* no file at this path

ASSUME SaveFileAssumption ==
  /\ NBuckets \in Nat \ {0} /\ MAX_LINE \in Nat \ {0}
  /\ Durations \subseteq Int
  /\ StartTime \in Nat /\ EndTime \in Nat /\ LONG_MAX \in Nat
  /\ StartTime <= EndTime /\ EndTime < LONG_MAX

VARIABLES buckets,   \* the chains: sequences of [key, value, expiry]
          queued,    \* the keys in the expiry heap
          now,       \* the clock
          pc,        \* "down", "loading", "up" or "saving"
          disk,      \* the text in the savefile
          text,      \* what is left to write (saving) or to read (loading)
          items,     \* the entries left in the line being read
          inData,    \* process_save: between two "$" lines
          reply,     \* the answer to the last SAVE
          snapshot   \* the table that disk holds, or is being given: <<>>
                      \* if disk is not the work of a whole SAVE (history)

vars == <<buckets, queued, now, pc, disk, text, items, inData, reply, snapshot>>

NEVER == -1
NoEntries == [b \in 1 .. NBuckets |-> <<>>]

-----------------------------------------------------------------------------
\* Writing: get_kv_from_bucket and fetch_dataset_from_memory

Numeral(t) == <<"numeral", t>>

\* A negative time is printed as unsigned, beyond LONG_MAX; LONG_MAX as -1.
ExpiryText(t) ==
  IF t = LONG_MAX THEN <<"-1">> ELSE IF t < 0 THEN <<"huge">> ELSE Numeral(t)

EntryText(e) == e.key \o <<<<"!">>>> \o e.value \o <<<<"!">>, ExpiryText(e.expiry)>>

\* The entries of a chain, separated by "|".
ChainText(c) ==
  Front(FlattenSeq([i \in DOMAIN c |-> Append(EntryText(c[i]), <<"|">>)]))

BucketText(c) ==
  IF c = <<>> THEN <<>>
  ELSE <<<<"$">>, <<"nl">>>> \o ChainText(c) \o <<<<"nl">>, <<"$">>, <<"nl">>>>

\* A bucket for which calloc fails is passed over like an empty one.
LeftOut(B) == [b \in 1 .. NBuckets |-> IF b \in B THEN <<>> ELSE buckets[b]]

FileText(b) ==
  <<<<"SahDB001">>, <<"nl">>>> \o FlattenSeq([i \in DOMAIN b |-> BucketText(b[i])])

-----------------------------------------------------------------------------
\* Reading: fgets, strtok_r and atol

\* Where the line at the head of s ends: at a newline, or at fgets' limit.
LineLength(s) ==
  CHOOSE n \in 1 .. Len(s) :
    /\ n = MAX_LINE \/ n = Len(s) \/ s[n] = <<"nl">>
    /\ \A m \in 1 .. n - 1 : s[m] # <<"nl">> /\ m < MAX_LINE

Chomp(line) == IF Last(line) = <<"nl">> THEN Front(line) ELSE line

\* The tokens of s between separators d; strtok_r skips empty ones.
Tokens(s, d) ==
  LET starts == {i \in DOMAIN s : s[i] # d /\ (i = 1 \/ s[i - 1] = d)}
      Stop(i) == CHOOSE j \in i .. Len(s) :
                   /\ j = Len(s) \/ s[j + 1] = d
                   /\ \A m \in i .. j : s[m] # d
      order == SetToSortSeq(starts, <)
  IN  [n \in DOMAIN order |-> SubSeq(s, order[n], Stop(order[n]))]

\* atol saturates; text that is not a number counts as zero.
ParseTime(s) ==
  IF s[1] = <<"huge">> THEN LONG_MAX
  ELSE IF \E t \in 0 .. LONG_MAX : s[1] = Numeral(t) THEN s[1][2] ELSE 0

-----------------------------------------------------------------------------
\* The table

Places(b, k) == {i \in DOMAIN b[HashOf(k)] : b[HashOf(k)][i].key = k}
Place(b, k) == CHOOSE i \in Places(b, k) : TRUE

\* hash_insert, hash_delete and an assignment to expiry; fault: an insertion
\* that does not look for the key.
HashInsertBlind(b, k, v) ==
  [b EXCEPT ![HashOf(k)] = Append(@, [key |-> k, value |-> v, expiry |-> NEVER])]
HashInsert(b, k, v) ==
  IF Places(b, k) = {}
    THEN [b EXCEPT ![HashOf(k)] =
            Append(@, [key |-> k, value |-> v, expiry |-> NEVER])]
    ELSE [b EXCEPT ![HashOf(k)][Place(b, k)].value = v]
HashDelete(b, k) == [b EXCEPT ![HashOf(k)] = RemoveAt(@, Place(b, k))]
SetTime(b, k, t) == [b EXCEPT ![HashOf(k)][Place(b, k)].expiry = t]

Entry(b, k) == b[HashOf(k)][Place(b, k)]

Unexpired(e) == e.expiry = NEVER \/ e.expiry > now

\* What a line gives to insert; fault: also outside the "$" lines.
AnyLineItems(line) == Tokens(line, <<"|">>)
LineItems(line) == IF inData THEN Tokens(line, <<"|">>) ELSE <<>>

\* The table after an entry with fields f has been read: a time that has
\* passed deletes the key, another is assigned.  Fault: times are not read.
LoadedUntimed(f) == HashInsert(buckets, f[1], f[2])
Loaded(f) ==
  LET inserted == HashInsert(buckets, f[1], f[2])
      t == ParseTime(f[3])
  IN  IF Len(f) = 2 \/ f[3] = <<<<"-1">>>> THEN inserted
      ELSE IF t <= now \/ ~ Unexpired(Entry(inserted, f[1]))
             THEN HashDelete(inserted, f[1])
      ELSE SetTime(inserted, f[1], t)

-----------------------------------------------------------------------------

Init ==
  /\ buckets = NoEntries /\ queued = {}
  /\ now = StartTime
  /\ pc = "down"
  /\ disk = NOFILE /\ text = <<>> /\ items = <<>> /\ inData = FALSE
  /\ reply = "none"
  /\ snapshot = <<>>

Tick ==
  /\ now < EndTime
  /\ now' = now + 1
  /\ UNCHANGED <<buckets, queued, pc, disk, text, items, inData, reply, snapshot>>

\* main without --savefile, or with one that cannot be opened.
StartEmpty ==
  /\ pc = "down"
  /\ pc' = "up"
  /\ UNCHANGED <<buckets, queued, now, disk, text, items, inData, reply, snapshot>>

\* main with --savefile: rebuild_from_savefile opens the file.
StartRebuild ==
  /\ pc = "down"
  /\ disk # NOFILE
  /\ pc' = "loading"
  /\ text' = disk
  /\ UNCHANGED <<buckets, queued, now, disk, items, inData, reply, snapshot>>

\* One fgets and the test for "$"; a data line becomes its entries.
LoadLine ==
  /\ pc = "loading"
  /\ items = <<>>
  /\ text # <<>>
  /\ LET n    == LineLength(text)
         line == Chomp(SubSeq(text, 1, n))
     IN  /\ text' = SubSeq(text, n + 1, Len(text))
         /\ IF line = <<<<"$">>>> THEN inData' = ~ inData /\ UNCHANGED items
            ELSE /\ items' = LineItems(line)
                 /\ UNCHANGED inData
  /\ UNCHANGED <<buckets, queued, now, pc, disk, reply, snapshot>>

\* One entry of a data line.  Its time is assigned without queueing it.
LoadItem ==
  /\ pc = "loading"
  /\ items # <<>>
  /\ LET f == Tokens(Head(items), <<"!">>)
     IN  Len(f) >= 2 /\ buckets' = Loaded(f)
  /\ items' = Tail(items)
  /\ UNCHANGED <<queued, now, pc, disk, text, inData, reply, snapshot>>

LoadEnd ==
  /\ pc = "loading"
  /\ items = <<>> /\ text = <<>>
  /\ pc' = "up"
  /\ UNCHANGED <<buckets, queued, now, disk, text, items, inData, reply, snapshot>>

\* The process is gone, and its memory with it.
Dies ==
  /\ pc' = "down"
  /\ buckets' = NoEntries /\ queued' = {}
  /\ text' = <<>> /\ items' = <<>> /\ inData' = FALSE
  /\ reply' = "none"

\* An entry without a value: hash_insert is given a null pointer.
LoadCrash ==
  /\ pc = "loading"
  /\ items # <<>>
  /\ Len(Tokens(Head(items), <<"!">>)) < 2
  /\ Dies
  /\ UNCHANGED <<now, disk, snapshot>>

\* SHUTDOWN, which does not save, or a kill at any moment.
Stop ==
  /\ pc # "down"
  /\ Dies
  /\ snapshot' = IF pc = "saving" THEN <<>> ELSE snapshot
  /\ UNCHANGED <<now, disk>>

Set(k, v) ==
  /\ pc = "up"
  /\ buckets' = HashInsert(buckets, k, v)
  /\ reply' = "none"
  /\ UNCHANGED <<queued, now, pc, disk, text, items, inData, snapshot>>

\* EXPIRE of a key that is visible.
Expire(k, d) ==
  /\ pc = "up"
  /\ Places(buckets, k) # {}
  /\ Unexpired(Entry(buckets, k))
  /\ buckets' = SetTime(buckets, k, now + d)
  /\ queued' = queued \union {k}
  /\ reply' = "none"
  /\ UNCHANGED <<now, pc, disk, text, items, inData, snapshot>>

Delete(k) ==
  /\ pc = "up"
  /\ Places(buckets, k) # {}
  /\ buckets' = HashDelete(buckets, k)
  /\ queued' = queued \ {k}
  /\ reply' = "none"
  /\ UNCHANGED <<now, pc, disk, text, items, inData, snapshot>>

\* SAVE: fopen with "w" empties the file, and calloc may fail for buckets B.
SaveBegin(B) ==
  /\ pc = "up"
  /\ pc' = "saving"
  /\ disk' = <<>>
  /\ text' = FileText(LeftOut(B))
  /\ snapshot' = LeftOut(B)
  /\ UNCHANGED <<buckets, queued, now, items, inData, reply>>

\* SAVE when the file cannot be opened, or with an argument.
SaveRefused ==
  /\ pc = "up"
  /\ reply' = "OK"
  /\ UNCHANGED <<buckets, queued, now, pc, disk, text, items, inData, snapshot>>

\* More of the text reaches the disk.
SaveFlush ==
  /\ pc = "saving"
  /\ text # <<>>
  /\ disk' = Append(disk, Head(text))
  /\ text' = Tail(text)
  /\ UNCHANGED <<buckets, queued, now, pc, items, inData, reply, snapshot>>

SaveEnd ==
  /\ pc = "saving"
  /\ text = <<>>
  /\ pc' = "up"
  /\ reply' = "OK"
  /\ UNCHANGED <<buckets, queued, now, disk, text, items, inData, snapshot>>

Next ==
  \/ Tick
  \/ StartEmpty \/ StartRebuild
  \/ LoadLine \/ LoadItem \/ LoadEnd \/ LoadCrash
  \/ Stop
  \/ \E w \in Writes : Set(w[1], w[2])
  \/ \E k \in Keys, d \in Durations : Expire(k, d)
  \/ \E k \in Keys : Delete(k)
  \/ \E B \in SUBSET {b \in 1 .. NBuckets : buckets[b] # <<>>} : SaveBegin(B)
  \/ SaveRefused \/ SaveFlush \/ SaveEnd

Spec == Init /\ [][Next]_vars

-----------------------------------------------------------------------------
\* Properties

Entries(b) == UNION {ToSet(b[i]) : i \in 1 .. NBuckets}

TypeOK ==
  /\ pc \in {"down", "loading", "up", "saving"}
  /\ queued \subseteq Keys
  /\ \A b \in 1 .. NBuckets : \A i, j \in DOMAIN buckets[b] :
       /\ HashOf(buckets[b][i].key) = b
       /\ i # j => buckets[b][i].key # buckets[b][j].key
  /\ pc # "loading" => items = <<>>
  /\ pc \notin {"loading", "saving"} => text = <<>>

\* What clients can see in b: LONG_MAX is as good as no expiry time.
Seen(b) ==
  {[e EXCEPT !.expiry = IF @ = LONG_MAX THEN NEVER ELSE @] :
     e \in {x \in Entries(b) : Unexpired(x)}}

\* A server rebuilt from a file that a SAVE completed shows its clients what
\* was saved, less what has expired since (Testing.md:6, 9); a bucket without
\* memory loses its own keys and no others.  A SAVE that could not open the
\* file has left the last one good.
RestoredAsSaved ==
  [][LoadEnd /\ snapshot # <<>> => Seen(buckets') = Seen(snapshot)]_vars

\* Only a file that a SAVE did not complete can crash the rebuild.
CompleteFileLoads == [][LoadCrash => snapshot = <<>>]_vars

\* A server killed during SAVE recovers when it is restarted (Testing.md:31).
RecoveryCompletes == [][~ LoadCrash]_vars
=============================================================================
