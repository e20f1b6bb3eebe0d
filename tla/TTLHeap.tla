------------------------------ MODULE TTLHeap ------------------------------
(***************************************************************************)
(* The binary min-heap of src/ttl.c: an array of pointers to Entry         *)
(* records ordered by Entry.expiry, each entry carrying its own position   *)
(* in Entry.heap_index so that it can be removed without a search.         *)
(*                                                                         *)
(* A call is one action for its straight-line part and one action per      *)
(* iteration of the loop (shift_up) or of the recursion (heapify) that     *)
(* restores the order; pc and cur say which one is running and where.      *)
(* Slots at or beyond size are never read, so heap holds 0 .. size-1 only. *)
(***************************************************************************)
EXTENDS Integers

CONSTANTS Entries,       \* the Entry records that may be queued
          Times,         \* the expiry times the caller assigns
          InitCapacity,  \* ttl_init's capacity (16 in the code)
          MaxCapacity,   \* the largest array realloc can return
          SIZE_MAX,      \* the heap_index of an entry that is not queued
          NULL           \* what heap_pop returns on an empty heap

ASSUME HeapAssumption ==
  /\ Times \subseteq Int
  /\ InitCapacity \in Nat \ {0}
  /\ MaxCapacity \in Nat
  /\ InitCapacity <= MaxCapacity
  /\ SIZE_MAX \in Nat
  /\ MaxCapacity < SIZE_MAX
  /\ NULL \notin Entries

VARIABLES heap,        \* heap[k] is the entry in slot k
          size,        \* h->size
          capacity,    \* h->capacity
          expiry,      \* expiry[e] is e->expiry
          heap_index,  \* heap_index[e] is e->heap_index
          pc,          \* "idle", or the loop that is running: "up", "down"
          cur,         \* the loop's index i
          ret          \* what the last call returned

vars == <<heap, size, capacity, expiry, heap_index, pc, cur, ret>>

-----------------------------------------------------------------------------
\* Array helpers

Slots == 0 .. size - 1

PARENT(k) == (k - 1) \div 2
LEFT(k)   == k * 2 + 1
RIGHT(k)  == k * 2 + 2

\* compare_ttl on slots a and b of the array h.
Precedes(h, a, b) == expiry[h[a]] <= expiry[h[b]]

\* Faults: swap_nodes without its temporary, and without its last line.
SwapSlotsHalf(h, a, b) == [h EXCEPT ![a] = h[b]]
SwapIndexesHalf(ix, h, a, b) == [ix EXCEPT ![h[b]] = a]

\* swap_nodes: the two slots, then the two back pointers.
SwapSlots(h, a, b) == [h EXCEPT ![a] = h[b], ![b] = h[a]]
SwapIndexes(ix, h, a, b) == [ix EXCEPT ![h[b]] = a, ![h[a]] = b]

Truncate(h, n) == [k \in 0 .. n - 1 |-> h[k]]

\* heap_remove's test that e is where its heap_index says.
LeadsBack(e) == heap_index[e] \in Slots /\ heap[heap_index[e]] = e

\* The array has no room for another entry.
FullLate == size > capacity     \* fault: one insertion too late
Full == size = capacity

\* How heap_remove restores the order from the hole i it has filled.
DirectionUp(h, i) == IF i > 0 THEN "up" ELSE "down"     \* fault: no comparison
DirectionDown(h, i) == "down"                           \* fault: no upward case
Direction(h, i) == IF i > 0 /\ Precedes(h, i, PARENT(i)) THEN "up" ELSE "down"

\* Fault: heapify forgets the right child.
SmallestLeft(h, n, k) ==
  IF LEFT(k) < n /\ Precedes(h, LEFT(k), k) THEN LEFT(k) ELSE k

\* heapify's choice among k and its children, in its order and with its ties.
Smallest(h, n, k) ==
  LET l == LEFT(k)
      r == RIGHT(k)
      m == IF l < n /\ Precedes(h, l, k) THEN l ELSE k
  IN  IF r < n /\ Precedes(h, r, m) THEN r ELSE m

-----------------------------------------------------------------------------

\* ttl_init; the entries' times are whatever they were created with.
Init ==
  /\ heap = [k \in 0 .. -1 |-> NULL]
  /\ size = 0
  /\ capacity = InitCapacity
  /\ expiry \in [Entries -> Times]
  /\ heap_index = [e \in Entries |-> SIZE_MAX]
  /\ pc = "idle"
  /\ cur = 0
  /\ ret = NULL

\* heap_insert, called by hash_update_expiry for an entry that is not queued
\* and whose expiry it has just set.  A full array is doubled first.
HeapInsert(e, t) ==
  /\ pc = "idle"
  /\ heap_index[e] = SIZE_MAX
  /\ IF Full
       THEN 2 * capacity <= MaxCapacity /\ capacity' = 2 * capacity
       ELSE UNCHANGED capacity
  /\ expiry' = [expiry EXCEPT ![e] = t]
  /\ heap' = [k \in 0 .. size |-> IF k = size THEN e ELSE heap[k]]
  /\ heap_index' = [heap_index EXCEPT ![e] = size]
  /\ size' = size + 1
  /\ pc' = "up"
  /\ cur' = size
  /\ ret' = "OK"

\* As HeapInsert, but realloc fails: only the caller's write to expiry stays.
HeapInsertNoMem(e, t) ==
  /\ pc = "idle"
  /\ heap_index[e] = SIZE_MAX
  /\ Full
  /\ expiry' = [expiry EXCEPT ![e] = t]
  /\ ret' = "NOMEM"
  /\ UNCHANGED <<heap, size, capacity, heap_index, pc, cur>>

\* One iteration of shift_up's while loop, or its exit.
ShiftUp ==
  /\ pc = "up"
  /\ IF cur > 0 /\ Precedes(heap, cur, PARENT(cur))
       THEN /\ heap' = SwapSlots(heap, cur, PARENT(cur))
            /\ heap_index' = SwapIndexes(heap_index, heap, cur, PARENT(cur))
            /\ cur' = PARENT(cur)
            /\ UNCHANGED pc
       ELSE /\ pc' = "idle"
            /\ UNCHANGED <<heap, heap_index, cur>>
  /\ UNCHANGED <<size, capacity, expiry, ret>>

\* Fault: heapify swaps and recurses also when slot cur is the smallest.
HeapifySpin ==
  /\ pc = "down"
  /\ LET s == Smallest(heap, size, cur)
     IN  /\ heap' = SwapSlots(heap, cur, s)
         /\ heap_index' = SwapIndexes(heap_index, heap, cur, s)
         /\ cur' = s
  /\ UNCHANGED <<pc, size, capacity, expiry, ret>>

\* One level of heapify: swap with the smaller child and recurse, or return.
Heapify ==
  /\ pc = "down"
  /\ LET s == Smallest(heap, size, cur)
     IN  IF s # cur
           THEN /\ heap' = SwapSlots(heap, cur, s)
                /\ heap_index' = SwapIndexes(heap_index, heap, cur, s)
                /\ cur' = s
                /\ UNCHANGED pc
           ELSE /\ pc' = "idle"
                /\ UNCHANGED <<heap, heap_index, cur>>
  /\ UNCHANGED <<size, capacity, expiry, ret>>

\* heap_pop on an empty heap.
HeapPopEmpty ==
  /\ pc = "idle"
  /\ size = 0
  /\ ret' = NULL
  /\ UNCHANGED <<heap, size, capacity, expiry, heap_index, pc, cur>>

\* heap_pop: the root is swapped with the last slot, which is dropped.  The
\* code resets the popped entry's heap_index after heapify, which never reads
\* it; the model does so at once.
HeapPop ==
  /\ pc = "idle"
  /\ size > 0
  /\ LET min  == heap[0]
         last == size - 1
     IN  /\ heap' = Truncate(SwapSlots(heap, 0, last), last)
         /\ heap_index' = [SwapIndexes(heap_index, heap, 0, last)
                             EXCEPT ![min] = SIZE_MAX]
         /\ size' = last
         /\ ret' = min
         /\ pc' = IF last > 0 THEN "down" ELSE "idle"
         /\ cur' = 0
  /\ UNCHANGED <<capacity, expiry>>

\* heap_remove for an entry whose heap_index does not lead back to it.
HeapRemoveAbsent(e) ==
  /\ pc = "idle"
  /\ ~ LeadsBack(e)
  /\ ret' = "NOTEXIST"
  /\ UNCHANGED <<heap, size, capacity, expiry, heap_index, pc, cur>>

\* heap_remove for a queued entry: the last slot is dropped, or it is swapped
\* into the hole and moved up or down from there.
HeapRemove(e) ==
  /\ pc = "idle"
  /\ LeadsBack(e)
  /\ LET i    == heap_index[e]
         last == size - 1
         swapped == SwapSlots(heap, i, last)
     IN  /\ heap' = Truncate(swapped, last)
         /\ heap_index' = [SwapIndexes(heap_index, heap, i, last)
                             EXCEPT ![e] = SIZE_MAX]
         /\ size' = last
         /\ cur' = i
         /\ pc' = IF i = last THEN "idle" ELSE Direction(swapped, i)
         /\ ret' = "OK"
  /\ UNCHANGED <<capacity, expiry>>

Restore == ShiftUp \/ Heapify

Next ==
  \/ \E e \in Entries, t \in Times : HeapInsert(e, t) \/ HeapInsertNoMem(e, t)
  \/ Restore
  \/ HeapPopEmpty
  \/ HeapPop
  \/ \E e \in Entries : HeapRemoveAbsent(e) \/ HeapRemove(e)

Spec == Init /\ [][Next]_vars

\* A call that has started runs on: the process is single threaded.
FairSpec == Spec /\ WF_vars(Restore)

-----------------------------------------------------------------------------
\* Properties

TypeOK ==
  /\ size \in Nat
  /\ capacity \in Nat \ {0}
  /\ size <= capacity
  /\ capacity <= MaxCapacity
  /\ heap \in [Slots -> Entries]
  /\ expiry \in [Entries -> Times]
  /\ heap_index \in [Entries -> Nat]
  /\ pc \in {"idle", "up", "down"}
  /\ cur \in Nat
  /\ pc # "idle" => cur < size

\* Every slot's entry points back to that slot, and an entry that claims a
\* slot is in it: heap_remove (ttl.c:79) trusts heap_index instead of
\* searching, at every moment, also between two swaps of a loop.
BackPointers ==
  /\ \A k \in Slots : heap_index[heap[k]] = k
  /\ \A e \in Entries : heap_index[e] # SIZE_MAX => LeadsBack(e)

\* Slot k does not expire before its parent.
Ordered(k) == expiry[heap[PARENT(k)]] <= expiry[heap[k]]

\* Between calls the array is a min-heap (ttl.h:10): no insertion, pop or
\* removal from the middle leaves an entry above one that expires earlier.
MinHeap == pc = "idle" => \A k \in Slots \ {0} : Ordered(k)

\* Between calls the root is an entry that no other queued entry precedes,
\* which is what heap_pop (ttl.c:65) hands to its caller.
RootIsEarliest ==
  pc = "idle" /\ size > 0 =>
    \A k \in Slots : expiry[heap[0]] <= expiry[heap[k]]

\* While a loop runs only the slot at cur may be out of order, upwards
\* ("up") or downwards ("down"); cur's children are in order with its parent.
AlmostOrdered ==
  /\ pc = "up" => \A k \in Slots \ {0, cur} : Ordered(k)
  /\ pc = "down" => \A k \in Slots \ {0} : PARENT(k) # cur => Ordered(k)
  /\ pc # "idle" /\ cur > 0 =>
       \A k \in Slots \ {0} :
         PARENT(k) = cur => expiry[heap[PARENT(cur)]] <= expiry[heap[k]]

\* The inductive invariant behind MinHeap and RootIsEarliest.
HeapInv == TypeOK /\ BackPointers /\ MinHeap /\ AlmostOrdered

\* Every call returns: with ties swapped as compare_ttl (ttl.c:15) does, the
\* loops still move strictly towards the root or towards the leaves.
CallsReturn == pc # "idle" ~> pc = "idle"

-----------------------------------------------------------------------------
\* The heap implements the expiry queue; the loops' steps are invisible.

Queued == {heap[k] : k \in Slots}

Queue == INSTANCE ExpiryQueue WITH queued <- Queued

\* Every step of the heap is a step of the expiry queue or invisible there:
\* heap_pop returns an earliest queued entry, and insertion and removal
\* change the queued set by exactly the entry they name.
QueueSpec == Queue!Spec
=============================================================================
