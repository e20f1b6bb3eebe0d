---------------------------- MODULE ExpiryQueue ----------------------------
(***************************************************************************)
(* What the TTL heap of src/ttl.c promises its caller: a set of queued     *)
(* entries, each with an expiry time fixed while it is queued, from which  *)
(* any entry can be removed and an earliest one popped.  TTLHeap.tla is    *)
(* the array implementation and is shown to implement this module.         *)
(***************************************************************************)
EXTENDS Integers

CONSTANTS Entries,   \* the Entry records that may be queued
          Times,     \* the expiry times in use
          NULL       \* what heap_pop returns on an empty heap

VARIABLES queued,    \* the queued entries
          expiry,    \* the expiry time of every entry
          ret        \* what the last call returned

vars == <<queued, expiry, ret>>

Init ==
  /\ queued = {}
  /\ expiry \in [Entries -> Times]
  /\ ret = NULL

\* The caller gives e its expiry time and queues it.
Enqueue(e, t) ==
  /\ e \notin queued
  /\ queued' = queued \union {e}
  /\ expiry' = [expiry EXCEPT ![e] = t]
  /\ ret' = "OK"

\* As Enqueue, but memory is exhausted: the expiry time stays, e is not queued.
Refuse(e, t) ==
  /\ e \notin queued
  /\ expiry' = [expiry EXCEPT ![e] = t]
  /\ ret' = "NOMEM"
  /\ UNCHANGED queued

Dequeue(e) ==
  /\ queued' = queued \ {e}
  /\ ret' = IF e \in queued THEN "OK" ELSE "NOTEXIST"
  /\ UNCHANGED expiry

\* Pops an entry that no queued entry precedes.
PopEarliest ==
  /\ \/ queued = {} /\ ret' = NULL
     \/ ret' \in {e \in queued : \A f \in queued : expiry[e] <= expiry[f]}
  /\ queued' = queued \ {ret'}
  /\ UNCHANGED expiry

Next ==
  \/ \E e \in Entries, t \in Times : Enqueue(e, t) \/ Refuse(e, t)
  \/ \E e \in Entries : Dequeue(e)
  \/ PopEarliest

Spec == Init /\ [][Next]_vars
=============================================================================
