--------------------------- MODULE TTLHeapProofs ---------------------------
(***************************************************************************)
(* Proofs about the TTL heap, for any set of entries, any expiry times and *)
(* any capacity.  The argument has three layers: the array and its back    *)
(* pointers (Struct), the order with one hole at cur (Order), and what     *)
(* follows from them between calls (the root, the expiry queue).           *)
(***************************************************************************)
EXTENDS TTLHeap, WellFoundedInduction, TLAPS

Struct == TypeOK /\ BackPointers

Order == MinHeap /\ AlmostOrdered

\* Index arithmetic of the PARENT, LEFT and RIGHT macros.
LEMMA ParentFacts ==
  \A k \in Nat \ {0} : PARENT(k) \in Nat /\ PARENT(k) < k
BY DEF PARENT

LEMMA ChildFacts ==
  \A k \in Nat : \A j \in Nat \ {0} :
    PARENT(j) = k <=> j = LEFT(k) \/ j = RIGHT(k)
BY DEF PARENT, LEFT, RIGHT

\* heapify's choice is k or a child of k, and precedes k and both children.
LEMMA SmallestFacts ==
  ASSUME Struct, NEW k \in Slots
  PROVE  LET s == Smallest(heap, size, k) IN
         /\ s \in Slots
         /\ s # k => s # 0 /\ PARENT(s) = k
         /\ expiry[heap[s]] <= expiry[heap[k]]
         /\ \A j \in Slots \ {0} :
              PARENT(j) = k => expiry[heap[s]] <= expiry[heap[j]]
<1>. DEFINE s == Smallest(heap, size, k)
            l == LEFT(k)
            r == RIGHT(k)
<1>1. /\ k \in Nat /\ l \in Nat /\ r \in Nat /\ l > 0 /\ r > 0 /\ size \in Nat
      /\ PARENT(l) = k /\ PARENT(r) = k
      /\ \A j \in Slots \ {0} : PARENT(j) = k => j = l \/ j = r
  BY ChildFacts DEF Struct, TypeOK, Slots, LEFT, RIGHT
<1>2. \A j \in Slots : heap[j] \in Entries /\ expiry[heap[j]] \in Int
  BY HeapAssumption DEF Struct, TypeOK
<1>3. \A j \in Nat : j < size <=> j \in Slots
  BY DEF Struct, TypeOK, Slots
<1>. HIDE DEF l, r
<1>4. s = LET m == IF l < size /\ Precedes(heap, l, k) THEN l ELSE k
          IN  IF r < size /\ Precedes(heap, r, m) THEN r ELSE m
  BY DEF Smallest, l, r
<1>5. QED
  BY <1>1, <1>2, <1>3, <1>4 DEF Precedes

-----------------------------------------------------------------------------
(* The array and its back pointers, as facts about any array h of n slots  *)
(* and any assignment ix of back pointers.                                 *)

Linked(h, n, ix) ==
  /\ h \in [0 .. n - 1 -> Entries]
  /\ ix \in [Entries -> Nat]
  /\ \A k \in 0 .. n - 1 : ix[h[k]] = k
  /\ \A e \in Entries : ix[e] # SIZE_MAX =>
                          ix[e] \in 0 .. n - 1 /\ h[ix[e]] = e

Scalars ==
  /\ size \in Nat /\ capacity \in Nat \ {0} /\ cur \in Nat
  /\ size <= capacity /\ capacity <= MaxCapacity
  /\ expiry \in [Entries -> Times]
  /\ pc \in {"idle", "up", "down"}
  /\ pc # "idle" => cur < size

LEMMA StructLinked == Struct <=> Scalars /\ Linked(heap, size, heap_index)
BY DEF Struct, TypeOK, BackPointers, LeadsBack, Slots, Scalars, Linked

\* swap_nodes keeps slots and back pointers linked.
LEMMA SwapLinked ==
  ASSUME NEW n \in Nat, n < SIZE_MAX, NEW h, NEW ix, Linked(h, n, ix),
         NEW a \in 0 .. n - 1, NEW b \in 0 .. n - 1
  PROVE  /\ Linked(SwapSlots(h, a, b), n, SwapIndexes(ix, h, a, b))
         /\ \A e \in Entries :
              ix[e] = SIZE_MAX <=> SwapIndexes(ix, h, a, b)[e] = SIZE_MAX
<1>. DEFINE g == SwapSlots(h, a, b)
            jx == SwapIndexes(ix, h, a, b)
<1>0. /\ h \in [0 .. n - 1 -> Entries] /\ ix \in [Entries -> Nat]
      /\ a \in Nat /\ b \in Nat /\ ix[h[a]] = a /\ ix[h[b]] = b
  BY DEF Linked
<1>g. /\ g \in [0 .. n - 1 -> Entries]
      /\ g[a] = h[b] /\ g[b] = h[a]
      /\ \A k \in (0 .. n - 1) \ {a, b} : g[k] = h[k]
  BY <1>0 DEF SwapSlots
<1>x. /\ jx \in [Entries -> Nat]
      /\ jx[h[b]] = a /\ jx[h[a]] = b
      /\ \A e \in Entries \ {h[a], h[b]} : jx[e] = ix[e]
  BY <1>0 DEF SwapIndexes
<1>2. /\ \A k \in 0 .. n - 1 : h[k] \in Entries /\ ix[h[k]] = k /\ k # SIZE_MAX
      /\ \A e \in Entries : ix[e] # SIZE_MAX =>
                              ix[e] \in 0 .. n - 1 /\ h[ix[e]] = e
  BY HeapAssumption DEF Linked
<1>. HIDE DEF g, jx
<1>3. \A k \in 0 .. n - 1 : jx[g[k]] = k
  BY <1>g, <1>x, <1>2
<1>4. \A e \in Entries : jx[e] # SIZE_MAX =>
                           jx[e] \in 0 .. n - 1 /\ g[jx[e]] = e
  <2>. SUFFICES ASSUME NEW e \in Entries, jx[e] # SIZE_MAX
                PROVE  jx[e] \in 0 .. n - 1 /\ g[jx[e]] = e
    OBVIOUS
  <2>1. CASE e = h[a] \/ e = h[b]
    BY <2>1, <1>g, <1>x
  <2>2. CASE e # h[a] /\ e # h[b]
    BY <2>2, <1>g, <1>x, <1>2
  <2>3. QED BY <2>1, <2>2
<1>5. \A e \in Entries : ix[e] = SIZE_MAX <=> jx[e] = SIZE_MAX
  <2>1. a # SIZE_MAX /\ b # SIZE_MAX /\ ix[h[a]] = a /\ ix[h[b]] = b
    BY <1>2
  <2>. TAKE e \in Entries
  <2>2. CASE e = h[a] \/ e = h[b]
    BY <1>x, <2>1, <2>2
  <2>3. CASE e # h[a] /\ e # h[b]
    <3>1. jx[e] = ix[e]
      BY <1>x, <2>3
    <3>. QED BY <3>1
  <2>4. QED BY <2>2, <2>3
<1>6. QED BY <1>g, <1>x, <1>3, <1>4, <1>5 DEF Linked, g, jx

\* Dropping the last slot and unlinking the entry in it.
LEMMA TruncateLinked ==
  ASSUME NEW n \in Nat, n + 1 < SIZE_MAX, NEW h, NEW ix, Linked(h, n + 1, ix)
  PROVE  Linked(Truncate(h, n), n, [ix EXCEPT ![h[n]] = SIZE_MAX])
<1>. DEFINE g == Truncate(h, n)
            jx == [ix EXCEPT ![h[n]] = SIZE_MAX]
<1>1. /\ \A k \in 0 .. n : h[k] \in Entries /\ ix[h[k]] = k
      /\ \A e \in Entries : ix[e] # SIZE_MAX => ix[e] \in 0 .. n /\ h[ix[e]] = e
      /\ ix \in [Entries -> Nat]
      /\ n \in 0 .. n /\ 0 .. n - 1 = (0 .. n) \ {n}
  BY DEF Linked
<1>2. /\ g \in [0 .. n - 1 -> Entries]
      /\ \A k \in 0 .. n - 1 : g[k] = h[k]
  BY <1>1 DEF Truncate
<1>3. /\ jx \in [Entries -> Nat]
      /\ jx[h[n]] = SIZE_MAX
      /\ \A e \in Entries \ {h[n]} : jx[e] = ix[e]
  BY <1>1, HeapAssumption
<1>. HIDE DEF g, jx
<1>4. \A k \in 0 .. n - 1 : jx[g[k]] = k
  BY <1>1, <1>2, <1>3, SMTT(60)
<1>5. \A e \in Entries : jx[e] # SIZE_MAX =>
                           jx[e] \in 0 .. n - 1 /\ g[jx[e]] = e
  BY <1>1, <1>2, <1>3
<1>6. QED BY <1>2, <1>3, <1>4, <1>5 DEF Linked, g, jx

\* Appending an entry that is not queued.
LEMMA AppendLinked ==
  ASSUME NEW n \in Nat, n < SIZE_MAX, NEW h, NEW ix, Linked(h, n, ix),
         NEW e \in Entries, ix[e] = SIZE_MAX
  PROVE  Linked([k \in 0 .. n |-> IF k = n THEN e ELSE h[k]], n + 1,
                [ix EXCEPT ![e] = n])
<1>. DEFINE g == [k \in 0 .. n |-> IF k = n THEN e ELSE h[k]]
            jx == [ix EXCEPT ![e] = n]
<1>1. /\ \A k \in 0 .. n - 1 : h[k] \in Entries /\ ix[h[k]] = k /\ k # SIZE_MAX
      /\ \A f \in Entries : ix[f] # SIZE_MAX =>
                              ix[f] \in 0 .. n - 1 /\ h[ix[f]] = f
      /\ ix \in [Entries -> Nat]
      /\ n \in 0 .. n /\ 0 .. n - 1 = (0 .. n) \ {n}
      /\ 0 .. (n + 1) - 1 = 0 .. n
  BY HeapAssumption DEF Linked
<1>2. /\ g \in [0 .. n -> Entries]
      /\ g[n] = e
      /\ \A k \in 0 .. n - 1 : g[k] = h[k]
  BY <1>1
<1>3. /\ jx \in [Entries -> Nat]
      /\ jx[e] = n
      /\ \A f \in Entries \ {e} : jx[f] = ix[f]
  BY <1>1
<1>. HIDE DEF g, jx
<1>4. \A k \in 0 .. n : jx[g[k]] = k
  BY <1>1, <1>2, <1>3, SMTT(60)
<1>5. \A f \in Entries : jx[f] # SIZE_MAX => jx[f] \in 0 .. n /\ g[jx[f]] = f
  BY <1>1, <1>2, <1>3
<1>6. QED BY <1>1, <1>2, <1>3, <1>4, <1>5 DEF Linked, g, jx

-----------------------------------------------------------------------------
\* The array and its back pointers survive every step.
LEMMA StructInit == Init => Struct
BY HeapAssumption DEF Init, Struct, TypeOK, BackPointers, Slots

LEMMA StructStep == Struct /\ [Next]_vars => Struct'
<1>. SUFFICES ASSUME Struct, [Next]_vars PROVE Scalars' /\ Linked(heap, size, heap_index)'
  BY StructLinked, PTL
<1>0. Scalars /\ Linked(heap, size, heap_index) /\ size \in Nat /\ size < SIZE_MAX
  BY StructLinked, HeapAssumption DEF Scalars
<1>1. ASSUME NEW e \in Entries, NEW t \in Times, HeapInsert(e, t)
      PROVE  Scalars' /\ Linked(heap, size, heap_index)'
  <2>1. Scalars'
    BY <1>0, <1>1, HeapAssumption DEF HeapInsert, Full, Scalars
  <2>2. Linked(heap', size + 1, heap_index')
    BY <1>0, <1>1, AppendLinked DEF HeapInsert, Full
  <2>3. QED BY <1>1, <2>1, <2>2 DEF HeapInsert, Full
<1>2. ASSUME NEW e \in Entries, NEW t \in Times, HeapInsertNoMem(e, t)
      PROVE  Scalars' /\ Linked(heap, size, heap_index)'
  BY <1>0, <1>2 DEF HeapInsertNoMem, Full, Scalars
<1>3. CASE ShiftUp
  <2>1. CASE cur > 0 /\ Precedes(heap, cur, PARENT(cur))
    <3>1. cur \in 0 .. size - 1 /\ PARENT(cur) \in 0 .. size - 1
      BY <1>0, <1>3, <2>1, ParentFacts DEF ShiftUp, Scalars
    <3>2. Linked(heap', size, heap_index')
      BY <1>0, <1>3, <2>1, <3>1, SwapLinked DEF ShiftUp
    <3>3. QED BY <1>0, <1>3, <2>1, <3>1, <3>2 DEF ShiftUp, Scalars
  <2>2. CASE ~ (cur > 0 /\ Precedes(heap, cur, PARENT(cur)))
    BY <1>0, <1>3, <2>2 DEF ShiftUp, Scalars
  <2>3. QED BY <2>1, <2>2
<1>4. CASE Heapify
  <2>. DEFINE s == Smallest(heap, size, cur)
  <2>1. cur \in 0 .. size - 1 /\ s \in 0 .. size - 1
    BY <1>0, <1>4, SmallestFacts DEF Heapify, Scalars, Slots
  <2>2. CASE s # cur
    <3>1. Linked(heap', size, heap_index')
      BY <1>0, <1>4, <2>1, <2>2, SwapLinked DEF Heapify
    <3>2. QED BY <1>0, <1>4, <2>1, <2>2, <3>1 DEF Heapify, Scalars
  <2>3. CASE s = cur
    BY <1>0, <1>4, <2>3 DEF Heapify, Scalars
  <2>4. QED BY <2>2, <2>3
<1>5. CASE HeapPopEmpty
  BY <1>0, <1>5 DEF HeapPopEmpty, Scalars
<1>6. CASE HeapPop
  <2>. DEFINE last == size - 1
  <2>1. last \in Nat /\ last \in 0 .. size - 1 /\ 0 \in 0 .. size - 1
        /\ size = last + 1
    BY <1>0, <1>6 DEF HeapPop
  <2>2. Linked(SwapSlots(heap, 0, last), size, SwapIndexes(heap_index, heap, 0, last))
    BY <1>0, <2>1, SwapLinked
  <2>3. SwapSlots(heap, 0, last)[last] = heap[0]
    BY <1>0, <2>1 DEF SwapSlots, Linked
  <2>4. Linked(heap', last, heap_index')
    BY <1>0, <1>6, <2>1, <2>2, <2>3, TruncateLinked DEF HeapPop
  <2>5. QED BY <1>0, <1>6, <2>1, <2>4 DEF HeapPop, Scalars
<1>7. ASSUME NEW e \in Entries, HeapRemoveAbsent(e)
      PROVE  Scalars' /\ Linked(heap, size, heap_index)'
  BY <1>0, <1>7 DEF HeapRemoveAbsent, Scalars
<1>8. ASSUME NEW e \in Entries, HeapRemove(e)
      PROVE  Scalars' /\ Linked(heap, size, heap_index)'
  <2>. DEFINE i == heap_index[e]
              last == size - 1
  <2>1. last \in Nat /\ last \in 0 .. size - 1 /\ i \in 0 .. size - 1
        /\ heap[i] = e /\ size = last + 1
    BY <1>0, <1>8 DEF HeapRemove, Direction, LeadsBack, Slots
  <2>2. Linked(SwapSlots(heap, i, last), size, SwapIndexes(heap_index, heap, i, last))
    BY <1>0, <2>1, SwapLinked
  <2>3. SwapSlots(heap, i, last)[last] = e
    BY <1>0, <2>1 DEF SwapSlots, Linked
  <2>4. Linked(heap', last, heap_index')
    BY <1>0, <1>8, <2>1, <2>2, <2>3, TruncateLinked DEF HeapRemove, Direction
  <2>5. QED BY <1>0, <1>8, <2>1, <2>4 DEF HeapRemove, Direction, Scalars
<1>9. CASE UNCHANGED vars
  BY <1>0, <1>9 DEF vars, Scalars
<1>10. QED
  BY <1>1, <1>2, <1>3, <1>4, <1>5, <1>6, <1>7, <1>8, <1>9 DEF Next, Restore
-----------------------------------------------------------------------------
(* The order, as facts about any array w of n expiry times: fully ordered, *)
(* or with a hole at i through which a time is moving up or down.          *)

Heaped(w, n) == \A k \in 0 .. n - 1 : k # 0 => w[PARENT(k)] <= w[k]

Bridged(w, n, i) ==
  i # 0 => \A k \in 0 .. n - 1 : k # 0 /\ PARENT(k) = i => w[PARENT(i)] <= w[k]

UpHole(w, n, i) ==
  /\ \A k \in 0 .. n - 1 : k # 0 /\ k # i => w[PARENT(k)] <= w[k]
  /\ Bridged(w, n, i)

DownHole(w, n, i) ==
  /\ \A k \in 0 .. n - 1 : k # 0 /\ PARENT(k) # i => w[PARENT(k)] <= w[k]
  /\ Bridged(w, n, i)

\* v is w with the times in slots a and b exchanged.
Swapped(v, w, n, a, b) ==
  /\ w \in [0 .. n - 1 -> Int]
  /\ v \in [0 .. n - 1 -> Int]
  /\ v[a] = w[b] /\ v[b] = w[a]
  /\ \A k \in 0 .. n - 1 : k # a /\ k # b => v[k] = w[k]

LEMMA SlotFacts ==
  \A n \in Nat : \A k \in 0 .. n - 1 :
    /\ k \in Nat
    /\ k # 0 => PARENT(k) \in 0 .. n - 1 /\ PARENT(k) < k
BY ParentFacts

LEMMA UpSwap ==
  ASSUME NEW n \in Nat, NEW i \in 0 .. n - 1, i # 0, NEW w, NEW v,
         UpHole(w, n, i), Swapped(v, w, n, i, PARENT(i)), w[i] <= w[PARENT(i)]
  PROVE  UpHole(v, n, PARENT(i))
<1>. DEFINE p == PARENT(i)
<1>1. p \in 0 .. n - 1 /\ p < i /\ p # i
  BY SlotFacts
<1>2. /\ \A k \in 0 .. n - 1 : w[k] \in Int /\ v[k] \in Int
      /\ v[i] = w[p] /\ v[p] = w[i]
      /\ \A k \in 0 .. n - 1 : k # i /\ k # p => v[k] = w[k]
  BY DEF Swapped
<1>3. /\ \A k \in 0 .. n - 1 : k # 0 /\ k # i => w[PARENT(k)] <= w[k]
      /\ \A k \in 0 .. n - 1 : k # 0 /\ PARENT(k) = i => w[p] <= w[k]
  BY DEF UpHole, Bridged
<1>4. w[i] <= w[p] /\ PARENT(i) = p
  OBVIOUS
<1>. HIDE DEF p
<1>5. ASSUME NEW k \in 0 .. n - 1, k # 0, k # p PROVE v[PARENT(k)] <= v[k]
  <2>1. PARENT(k) \in 0 .. n - 1 /\ PARENT(k) # k
    BY <1>5, SlotFacts
  <2>2. CASE k = i
    BY <2>2, <1>2, <1>4
  <2>3. CASE k # i /\ PARENT(k) = i
    BY <2>3, <1>2, <1>3, <1>5
  <2>4. CASE k # i /\ PARENT(k) = p
    <3>1. w[p] <= w[k]
      BY <2>4, <1>3, <1>5
    <3>2. w[p] \in Int /\ w[k] \in Int /\ w[i] \in Int
      BY <1>1, <1>2
    <3>3. QED BY <2>4, <3>1, <3>2, <1>2, <1>4, <1>5
  <2>5. CASE k # i /\ PARENT(k) # i /\ PARENT(k) # p
    BY <2>1, <2>5, <1>2, <1>3, <1>5
  <2>6. QED BY <2>2, <2>3, <2>4, <2>5
<1>6. ASSUME p # 0, NEW k \in 0 .. n - 1, k # 0, PARENT(k) = p
      PROVE  v[PARENT(p)] <= v[k]
  <2>1. PARENT(p) \in 0 .. n - 1 /\ PARENT(p) # p /\ PARENT(p) # i /\ k # p
    BY <1>1, <1>6, SlotFacts
  <2>2. w[PARENT(p)] <= w[p] /\ v[PARENT(p)] = w[PARENT(p)]
    BY <2>1, <1>1, <1>2, <1>3, <1>6
  <2>3. CASE k = i
    BY <2>2, <2>3, <1>2
  <2>4. CASE k # i
    <3>1. w[p] <= w[k] /\ v[k] = w[k]
      BY <2>1, <2>4, <1>2, <1>3, <1>6
    <3>2. w[p] \in Int /\ w[k] \in Int /\ w[PARENT(p)] \in Int
      BY <2>1, <1>1, <1>2
    <3>3. QED BY <2>2, <3>1, <3>2
  <2>5. QED BY <2>3, <2>4
<1>7. UpHole(v, n, p)
  BY <1>5, <1>6 DEF UpHole, Bridged
<1>8. QED BY <1>7 DEF p

LEMMA UpStop ==
  ASSUME NEW n \in Nat, NEW i, NEW w, UpHole(w, n, i),
         i # 0 => w[PARENT(i)] <= w[i]
  PROVE  Heaped(w, n)
BY DEF UpHole, Heaped

LEMMA DownSwap ==
  ASSUME NEW n \in Nat, NEW i \in 0 .. n - 1, NEW s \in 0 .. n - 1,
         s # 0, PARENT(s) = i, NEW w, NEW v,
         DownHole(w, n, i), Swapped(v, w, n, i, s), w[s] <= w[i],
         \A k \in 0 .. n - 1 : k # 0 /\ PARENT(k) = i => w[s] <= w[k]
  PROVE  DownHole(v, n, s)
<1>1. i # s
  BY SlotFacts
<1>2. /\ \A k \in 0 .. n - 1 : w[k] \in Int /\ v[k] \in Int
      /\ v[i] = w[s] /\ v[s] = w[i]
      /\ \A k \in 0 .. n - 1 : k # i /\ k # s => v[k] = w[k]
  BY DEF Swapped
<1>3. /\ \A k \in 0 .. n - 1 : k # 0 /\ PARENT(k) # i => w[PARENT(k)] <= w[k]
      /\ i # 0 => w[PARENT(i)] <= w[s]
  BY DEF DownHole, Bridged
<1>4. ASSUME NEW k \in 0 .. n - 1, k # 0, PARENT(k) # s
      PROVE  v[PARENT(k)] <= v[k]
  <2>1. PARENT(k) \in 0 .. n - 1 /\ PARENT(k) # k
    BY <1>4, SlotFacts
  <2>2. CASE k = s
    BY <2>2, <1>2
  <2>3. CASE k # s /\ PARENT(k) = i
    BY <2>1, <2>3, <1>2, <1>4
  <2>4. CASE k = i
    BY <2>1, <2>4, <1>2, <1>3, <1>4
  <2>5. CASE k # s /\ k # i /\ PARENT(k) # i
    BY <2>1, <2>5, <1>2, <1>3, <1>4
  <2>6. QED BY <2>2, <2>3, <2>4, <2>5
<1>5. ASSUME NEW k \in 0 .. n - 1, k # 0, PARENT(k) = s
      PROVE  v[PARENT(s)] <= v[k]
  <2>1. k # s /\ k # i
    <3>1. s < k /\ i < s /\ k \in Int /\ s \in Int /\ i \in Int
      BY <1>5, SlotFacts
    <3>2. QED BY <3>1
  <2>2. QED BY <2>1, <1>1, <1>2, <1>3, <1>5
<1>6. QED BY <1>4, <1>5 DEF DownHole, Bridged

LEMMA DownStop ==
  ASSUME NEW n \in Nat, NEW i \in 0 .. n - 1, NEW w, DownHole(w, n, i),
         \A k \in 0 .. n - 1 : k # 0 /\ PARENT(k) = i => w[i] <= w[k]
  PROVE  Heaped(w, n)
BY DEF DownHole, Heaped

LEMMA AppendHole ==
  ASSUME NEW n \in Nat, NEW w, NEW v, Heaped(w, n),
         \A k \in 0 .. n - 1 : v[k] = w[k]
  PROVE  UpHole(v, n + 1, n)
<1>1. \A k \in 0 .. n : /\ k # n => k \in 0 .. n - 1
                        /\ k # 0 => PARENT(k) \in 0 .. n - 1 /\ PARENT(k) # n
  BY ParentFacts
<1>2. 0 .. (n + 1) - 1 = 0 .. n
  OBVIOUS
<1>3. QED BY <1>1, <1>2 DEF Heaped, UpHole, Bridged

\* v is w without its last time, or with that time moved into slot i.
Moved(v, w, n, i) ==
  /\ w \in [0 .. n -> Int]
  /\ v \in [0 .. n - 1 -> Int]
  /\ \A k \in 0 .. n - 1 : k # i => v[k] = w[k]

LEMMA RemoveLast ==
  ASSUME NEW n \in Nat, NEW w, NEW v, Heaped(w, n + 1), Moved(v, w, n, n)
  PROVE  Heaped(v, n)
<1>1. \A k \in 0 .. n - 1 : k # n /\ k \in 0 .. (n + 1) - 1
  OBVIOUS
<1>2. QED BY <1>1, SlotFacts DEF Heaped, Moved

LEMMA RemoveHole ==
  ASSUME NEW n \in Nat, NEW w, NEW v, NEW i \in 0 .. n - 1,
         Heaped(w, n + 1), Moved(v, w, n, i)
  PROVE  /\ i # 0 /\ v[i] <= v[PARENT(i)] => UpHole(v, n, i)
         /\ ~ (i # 0 /\ v[i] <= v[PARENT(i)]) => DownHole(v, n, i)
<1>1. \A k \in 0 .. n - 1 : k # 0 => w[PARENT(k)] <= w[k]
  BY DEF Heaped
<1>2. /\ \A k \in 0 .. n - 1 : w[k] \in Int /\ v[k] \in Int
      /\ \A k \in 0 .. n - 1 : k # i => v[k] = w[k]
  BY DEF Moved
<1>3. ASSUME NEW k \in 0 .. n - 1, k # 0, k # i, PARENT(k) # i
      PROVE  v[PARENT(k)] <= v[k]
  BY <1>1, <1>2, <1>3, SlotFacts
<1>4. ASSUME i # 0, NEW k \in 0 .. n - 1, k # 0, PARENT(k) = i
      PROVE  v[PARENT(i)] <= v[k]
  <2>1. PARENT(i) \in 0 .. n - 1 /\ PARENT(i) # i /\ k # i
    BY <1>4, SlotFacts
  <2>2. w[PARENT(i)] <= w[i] /\ w[i] <= w[k]
    BY <1>1, <1>4
  <2>3. w[PARENT(i)] \in Int /\ w[i] \in Int /\ w[k] \in Int
    BY <1>2, <2>1
  <2>4. v[PARENT(i)] = w[PARENT(i)] /\ v[k] = w[k]
    BY <1>2, <2>1
  <2>5. QED BY <2>2, <2>3, <2>4
<1>5. Bridged(v, n, i)
  BY <1>4 DEF Bridged
<1>6. ASSUME i # 0, v[i] <= v[PARENT(i)] PROVE UpHole(v, n, i)
  <2>1. ASSUME NEW k \in 0 .. n - 1, k # 0, PARENT(k) = i PROVE v[i] <= v[k]
    <3>1. PARENT(i) \in 0 .. n - 1
      BY <1>6, SlotFacts
    <3>2. v[i] \in Int /\ v[PARENT(i)] \in Int /\ v[k] \in Int
      BY <1>2, <3>1
    <3>3. QED BY <1>4, <1>6, <2>1, <3>2
  <2>2. QED BY <1>3, <1>5, <2>1 DEF UpHole
<1>7. ASSUME ~ (i # 0 /\ v[i] <= v[PARENT(i)]) PROVE DownHole(v, n, i)
  <2>1. ASSUME i # 0 PROVE v[PARENT(i)] <= v[i]
    <3>1. PARENT(i) \in 0 .. n - 1
      BY <2>1, SlotFacts
    <3>2. v[i] \in Int /\ v[PARENT(i)] \in Int
      BY <1>2, <3>1
    <3>3. QED BY <1>7, <2>1, <3>2
  <2>2. QED BY <1>3, <1>5, <2>1 DEF DownHole
<1>8. QED BY <1>6, <1>7

-----------------------------------------------------------------------------
(* The heap's own times, and the order restated in the terms above.        *)

Due == [k \in 0 .. size - 1 |-> expiry[heap[k]]]

HeapedOrHole ==
  /\ pc = "idle" => Heaped(Due, size)
  /\ pc = "up"   => UpHole(Due, size, cur)
  /\ pc = "down" => DownHole(Due, size, cur)

LEMMA DueFacts ==
  ASSUME Struct
  PROVE  /\ Due \in [0 .. size - 1 -> Int]
         /\ \A k \in 0 .. size - 1 : Due[k] = expiry[heap[k]]
         /\ \A k \in 0 .. size - 1 : heap[k] \in Entries
         /\ expiry \in [Entries -> Times]
         /\ heap \in [0 .. size - 1 -> Entries]
         /\ size \in Nat
         /\ pc # "idle" => cur \in 0 .. size - 1
         /\ pc \in {"idle", "up", "down"}
<1>1. /\ expiry \in [Entries -> Times] /\ heap \in [0 .. size - 1 -> Entries]
      /\ size \in Nat /\ pc \in {"idle", "up", "down"} /\ Times \subseteq Int
      /\ cur \in Nat /\ (pc # "idle" => cur < size)
  BY HeapAssumption DEF Struct, TypeOK, Slots
<1>2. pc # "idle" => cur \in 0 .. size - 1
  BY <1>1
<1>3. \A k \in 0 .. size - 1 : heap[k] \in Entries /\ expiry[heap[k]] \in Int
  BY <1>1
<1>4. /\ Due \in [0 .. size - 1 -> Int]
      /\ \A k \in 0 .. size - 1 : Due[k] = expiry[heap[k]]
  BY <1>3 DEF Due
<1>5. QED BY <1>1, <1>2, <1>3, <1>4

LEMMA OrderForm == ASSUME Struct PROVE Order <=> HeapedOrHole
<1>1. \A k \in 0 .. size - 1 :
        /\ Due[k] = expiry[heap[k]]
        /\ k # 0 => PARENT(k) \in 0 .. size - 1 /\ k > 0
        /\ k = 0 => ~ k > 0
  BY DueFacts, SlotFacts
<1>2. cur \in Nat /\ (pc # "idle" => cur \in 0 .. size - 1)
  BY DueFacts DEF Struct, TypeOK
<1>3. pc = "idle" => (Order <=> HeapedOrHole)
  BY <1>1 DEF Order, MinHeap, AlmostOrdered, HeapedOrHole, Heaped, Slots, Ordered
<1>4. pc = "up" => (Order <=> HeapedOrHole)
  BY <1>1, <1>2 DEF Order, MinHeap, AlmostOrdered, HeapedOrHole, UpHole, Bridged,
                    Slots, Ordered
<1>5. pc = "down" => (Order <=> HeapedOrHole)
  BY <1>1, <1>2 DEF Order, MinHeap, AlmostOrdered, HeapedOrHole, DownHole, Bridged,
                    Slots, Ordered
<1>6. QED BY <1>3, <1>4, <1>5, DueFacts

LEMMA OrderInit == Init => Order
BY DEF Init, Order, MinHeap, AlmostOrdered, Slots

LEMMA OrderStep == Struct /\ Struct' /\ Order /\ [Next]_vars => Order'
<1>. SUFFICES ASSUME Struct, Struct', HeapedOrHole, [Next]_vars
              PROVE  HeapedOrHole'
  BY OrderForm, PTL
<1>0. /\ Due \in [0 .. size - 1 -> Int]
      /\ \A k \in 0 .. size - 1 : Due[k] = expiry[heap[k]]
      /\ \A k \in 0 .. size - 1 : heap[k] \in Entries
      /\ expiry \in [Entries -> Times]
      /\ heap \in [0 .. size - 1 -> Entries]
      /\ size \in Nat
      /\ pc # "idle" => cur \in 0 .. size - 1
  BY DueFacts
<1>n. /\ Due' \in [0 .. size' - 1 -> Int]
      /\ \A k \in 0 .. size' - 1 : Due'[k] = expiry'[heap'[k]]
  <2>1. /\ heap' \in [0 .. size' - 1 -> Entries]
        /\ expiry' \in [Entries -> Times] /\ Times \subseteq Int
    BY HeapAssumption DEF Struct, TypeOK, Slots
  <2>2. Due' = [k \in 0 .. size' - 1 |-> expiry'[heap'[k]]]
    BY DEF Due
  <2>3. QED BY <2>1, <2>2
<1>1. ASSUME NEW e \in Entries, NEW t \in Times, HeapInsert(e, t)
      PROVE  HeapedOrHole'
  <2>1. \A k \in 0 .. size - 1 : heap[k] # e
    BY <1>1, HeapAssumption
       DEF HeapInsert, Full, Struct, TypeOK, BackPointers, Slots
  <2>2. \A k \in 0 .. size - 1 : k \in 0 .. size' - 1 /\ heap'[k] = heap[k]
    BY <1>0, <1>1 DEF HeapInsert, Full
  <2>3. \A k \in 0 .. size - 1 : Due'[k] = Due[k]
    BY <1>0, <1>n, <1>1, <2>1, <2>2 DEF HeapInsert, Full
  <2>4. Heaped(Due, size)
    BY <1>1 DEF HeapInsert, Full, HeapedOrHole
  <2>5. UpHole(Due', size + 1, size)
    BY <1>0, <2>3, <2>4, AppendHole
  <2>6. QED BY <1>1, <2>5 DEF HeapInsert, Full, HeapedOrHole
<1>2. ASSUME NEW e \in Entries, NEW t \in Times, HeapInsertNoMem(e, t)
      PROVE  HeapedOrHole'
  <2>1. \A k \in 0 .. size - 1 : heap[k] # e
    BY <1>2, HeapAssumption
       DEF HeapInsertNoMem, Full, Struct, TypeOK, BackPointers, Slots
  <2>2. Due' = Due
    BY <1>0, <1>2, <2>1 DEF HeapInsertNoMem, Full, Due
  <2>3. QED BY <1>2, <2>2 DEF HeapInsertNoMem, Full, HeapedOrHole
<1>3. CASE ShiftUp
  <2>. DEFINE p == PARENT(cur)
  <2>0. /\ size' = size /\ expiry' = expiry
        /\ cur \in 0 .. size - 1 /\ cur \in Nat /\ pc = "up"
        /\ UpHole(Due, size, cur)
    BY <1>0, <1>3 DEF ShiftUp, HeapedOrHole
  <2>1. CASE cur # 0 /\ Due[cur] <= Due[p]
    <3>1. p \in 0 .. size - 1
      BY <1>0, <2>0, <2>1, SlotFacts
    <3>2. heap' = SwapSlots(heap, cur, p) /\ cur' = p /\ pc' = "up"
      BY <1>0, <1>3, <2>0, <2>1, <3>1 DEF ShiftUp, Precedes
    <3>3. Swapped(Due', Due, size, cur, p)
      <4>1. /\ heap'[cur] = heap[p] /\ heap'[p] = heap[cur]
            /\ \A k \in 0 .. size - 1 : k # cur /\ k # p => heap'[k] = heap[k]
        BY <1>0, <2>0, <3>1, <3>2 DEF SwapSlots
      <4>. HIDE DEF p
      <4>2. /\ Due'[cur] = Due[p] /\ Due'[p] = Due[cur]
            /\ \A k \in 0 .. size - 1 : k # cur /\ k # p => Due'[k] = Due[k]
        BY <1>0, <1>n, <2>0, <3>1, <4>1
      <4>3. QED BY <1>0, <1>n, <2>0, <4>2 DEF Swapped
    <3>4. UpHole(Due', size, p)
      BY <1>0, <2>0, <2>1, <3>3, UpSwap
    <3>5. QED BY <2>0, <3>2, <3>4 DEF HeapedOrHole
  <2>2. CASE ~ (cur # 0 /\ Due[cur] <= Due[p])
    <3>1. cur # 0 => p \in 0 .. size - 1 /\ Due[p] \in Int /\ Due[cur] \in Int
      BY <1>0, <2>0, SlotFacts
    <3>2. heap' = heap /\ pc' = "idle"
      BY <1>0, <1>3, <2>0, <2>2, <3>1 DEF ShiftUp, Precedes
    <3>3. Due' = Due
      BY <2>0, <3>2 DEF Due
    <3>4. Heaped(Due, size)
      BY <1>0, <2>0, <2>2, <3>1, UpStop
    <3>5. QED BY <2>0, <3>2, <3>3, <3>4 DEF HeapedOrHole
  <2>3. QED BY <2>1, <2>2
<1>4. CASE Heapify
  <2>. DEFINE s == Smallest(heap, size, cur)
  <2>0. /\ size' = size /\ expiry' = expiry
        /\ cur \in 0 .. size - 1 /\ cur \in Slots /\ pc = "down"
        /\ DownHole(Due, size, cur)
    BY <1>0, <1>4 DEF Heapify, HeapedOrHole, Slots
  <2>1. /\ s \in 0 .. size - 1
        /\ s # cur => s # 0 /\ PARENT(s) = cur
        /\ Due[s] <= Due[cur]
        /\ \A k \in 0 .. size - 1 : k # 0 /\ PARENT(k) = cur => Due[s] <= Due[k]
    BY <1>0, <2>0, SmallestFacts DEF Slots
  <2>2. CASE s # cur
    <3>1. heap' = SwapSlots(heap, cur, s) /\ cur' = s /\ pc' = "down"
      BY <1>4, <2>0, <2>2 DEF Heapify
    <3>. HIDE DEF s
    <3>2. Swapped(Due', Due, size, cur, s)
      <4>1. /\ heap'[cur] = heap[s] /\ heap'[s] = heap[cur]
            /\ \A k \in 0 .. size - 1 : k # cur /\ k # s => heap'[k] = heap[k]
        BY <1>0, <2>0, <2>1, <3>1 DEF SwapSlots
      <4>2. QED BY <1>0, <1>n, <2>0, <2>1, <4>1 DEF Swapped
    <3>3. DownHole(Due', size, s)
      BY <1>0, <2>0, <2>1, <2>2, <3>2, DownSwap
    <3>4. QED BY <2>0, <3>1, <3>3 DEF HeapedOrHole
  <2>3. CASE s = cur
    <3>1. heap' = heap /\ pc' = "idle"
      BY <1>4, <2>0, <2>3 DEF Heapify
    <3>2. Due' = Due
      BY <2>0, <3>1 DEF Due
    <3>3. Heaped(Due, size)
      BY <1>0, <2>0, <2>1, <2>3, DownStop
    <3>4. QED BY <2>0, <3>1, <3>2, <3>3 DEF HeapedOrHole
  <2>4. QED BY <2>2, <2>3
<1>5. CASE HeapPopEmpty
  BY <1>5 DEF HeapPopEmpty, HeapedOrHole, Due
<1>6. CASE HeapPop
  <2>. DEFINE last == size - 1
  <2>0. /\ last \in Nat /\ size = last + 1 /\ size' = last /\ expiry' = expiry
        /\ Heaped(Due, last + 1) /\ cur' = 0
        /\ pc' = IF last > 0 THEN "down" ELSE "idle"
        /\ heap' = Truncate(SwapSlots(heap, 0, last), last)
    BY <1>0, <1>6 DEF HeapPop, HeapedOrHole
  <2>1. \A k \in 0 .. last - 1 : k # 0 => heap'[k] = heap[k]
    BY <1>0, <2>0 DEF Truncate, SwapSlots
  <2>2. Moved(Due', Due, last, 0)
    <3>. HIDE DEF last
    <3>1. \A k \in 0 .. last - 1 : k # 0 => Due'[k] = Due[k]
      <4>1. \A k \in 0 .. last - 1 : k \in 0 .. size - 1 /\ k \in 0 .. size' - 1
        BY <2>0
      <4>2. \A k \in 0 .. last - 1 : k # 0 => expiry'[heap'[k]] = expiry[heap[k]]
        BY <2>0, <2>1
      <4>3. QED BY <1>0, <1>n, <4>1, <4>2
    <3>2. size - 1 = last /\ size' = last
      BY <2>0 DEF last
    <3>3. Due \in [0 .. last -> Int] /\ Due' \in [0 .. last - 1 -> Int]
      BY <1>0, <1>n, <3>2
    <3>4. QED BY <3>1, <3>3 DEF Moved
  <2>3. CASE last = 0
    <3>1. Heaped(Due', 0)
      BY DEF Heaped
    <3>2. QED BY <2>0, <2>3, <3>1 DEF HeapedOrHole
  <2>4. CASE last # 0
    <3>1. 0 \in 0 .. last - 1 /\ pc' = "down"
      BY <2>0, <2>4
    <3>2. DownHole(Due', last, 0)
      BY <2>0, <2>2, <3>1, RemoveHole
    <3>3. QED BY <2>0, <3>1, <3>2 DEF HeapedOrHole
  <2>5. QED BY <2>3, <2>4
<1>7. ASSUME NEW e \in Entries, HeapRemoveAbsent(e)
      PROVE  HeapedOrHole'
  BY <1>7 DEF HeapRemoveAbsent, HeapedOrHole, Due
<1>8. ASSUME NEW e \in Entries, HeapRemove(e)
      PROVE  HeapedOrHole'
  <2>. DEFINE i == heap_index[e]
              last == size - 1
              swapped == SwapSlots(heap, i, last)
  <2>0. /\ last \in Nat /\ size = last + 1 /\ size' = last /\ expiry' = expiry
        /\ i \in 0 .. last /\ i \in Nat
        /\ Heaped(Due, last + 1) /\ cur' = i
        /\ heap' = Truncate(swapped, last)
    BY <1>0, <1>8 DEF HeapRemove, Direction, HeapedOrHole, LeadsBack, Slots
  <2>p. pc' = IF i = last THEN "idle"
              ELSE IF i > 0 /\ Precedes(swapped, i, PARENT(i)) THEN "up" ELSE "down"
    BY <1>8 DEF HeapRemove, Direction
  <2>1. \A k \in 0 .. last - 1 : k # i => heap'[k] = heap[k]
    BY <1>0, <2>0 DEF Truncate, SwapSlots
  <2>2. Moved(Due', Due, last, i)
    <3>. HIDE DEF i, last, swapped
    <3>1. \A k \in 0 .. last - 1 : k # i => Due'[k] = Due[k]
      <4>1. \A k \in 0 .. last - 1 : k \in 0 .. size - 1 /\ k \in 0 .. size' - 1
        BY <2>0
      <4>2. \A k \in 0 .. last - 1 : k # i => expiry'[heap'[k]] = expiry[heap[k]]
        BY <2>0, <2>1
      <4>3. QED BY <1>0, <1>n, <4>1, <4>2
    <3>2. size - 1 = last /\ size' = last
      BY <2>0 DEF last
    <3>3. Due \in [0 .. last -> Int] /\ Due' \in [0 .. last - 1 -> Int]
      BY <1>0, <1>n, <3>2
    <3>4. QED BY <3>1, <3>3 DEF Moved
  <2>3. \A k \in 0 .. last - 1 : heap'[k] = swapped[k]
    BY <2>0 DEF Truncate
  <2>. HIDE DEF i, last, swapped
  <2>4. CASE i = last
    <3>1. Heaped(Due', last)
      BY <2>0, <2>2, <2>4, RemoveLast
    <3>2. QED BY <2>0, <2>p, <2>4, <3>1 DEF HeapedOrHole
  <2>5. CASE i # last
    <3>1. i \in 0 .. last - 1
      BY <2>0, <2>5
    <3>2. i # 0 => /\ PARENT(i) \in 0 .. last - 1
                   /\ Precedes(swapped, i, PARENT(i)) <=> Due'[i] <= Due'[PARENT(i)]
      BY <1>n, <2>0, <2>3, <3>1, SlotFacts DEF Precedes
    <3>3. /\ i # 0 /\ Due'[i] <= Due'[PARENT(i)] => UpHole(Due', last, i)
          /\ ~ (i # 0 /\ Due'[i] <= Due'[PARENT(i)]) => DownHole(Due', last, i)
      BY <2>0, <2>2, <3>1, RemoveHole
    <3>4. pc' = IF i # 0 /\ Due'[i] <= Due'[PARENT(i)] THEN "up" ELSE "down"
      BY <2>0, <2>p, <2>5, <3>2
    <3>5. QED BY <2>0, <3>3, <3>4 DEF HeapedOrHole
  <2>6. QED BY <2>4, <2>5
<1>9. CASE UNCHANGED vars
  BY <1>9 DEF vars, HeapedOrHole, Due
<1>10. QED
  BY <1>1, <1>2, <1>3, <1>4, <1>5, <1>6, <1>7, <1>8, <1>9 DEF Next, Restore

-----------------------------------------------------------------------------
(* The invariant as a whole, and what it says between calls.               *)

LEMMA Invariance == Spec => [](Struct /\ Order)
<1>1. Init => Struct /\ Order
  BY StructInit, OrderInit
<1>2. Struct /\ Order /\ [Next]_vars => (Struct /\ Order)'
  BY StructStep, OrderStep
<1>3. QED BY <1>1, <1>2, PTL DEF Spec

\* If some slot were due before the root, the least such slot would be due
\* before its parent, which is ordered with the root.
LEMMA RootLemma == Struct /\ Order => RootIsEarliest
<1>. SUFFICES ASSUME Struct, Order, pc = "idle", size > 0
              PROVE  \A k \in Slots : expiry[heap[0]] <= expiry[heap[k]]
  BY DEF RootIsEarliest
<1>1. /\ Due \in [0 .. size - 1 -> Int]
      /\ \A k \in 0 .. size - 1 : Due[k] = expiry[heap[k]]
      /\ size \in Nat /\ 0 \in 0 .. size - 1
  BY DueFacts
<1>2. \A k \in 0 .. size - 1 : k # 0 => Due[PARENT(k)] <= Due[k]
  BY OrderForm DEF HeapedOrHole, Heaped
<1>. DEFINE Early == {k \in 0 .. size - 1 : ~ (Due[0] <= Due[k])}
<1>3. Early = {}
  <2>. SUFFICES ASSUME Early # {} PROVE FALSE
    OBVIOUS
  <2>1. Early \subseteq Nat
    BY <1>1
  <2>2. PICK k \in Early : \A j \in Early : ~ (<<j, k>> \in OpToRel(<, Nat))
    BY <2>1, NatLessThanWellFounded, WFMin
  <2>3. k \in 0 .. size - 1 /\ ~ (Due[0] <= Due[k]) /\ k # 0
    BY <1>1
  <2>4. PARENT(k) \in 0 .. size - 1 /\ PARENT(k) < k /\ PARENT(k) \in Nat /\ k \in Nat
    BY <1>1, <2>3, SlotFacts
  <2>5. Due[0] <= Due[PARENT(k)]
    BY <2>2, <2>4 DEF OpToRel
  <2>6. Due[PARENT(k)] <= Due[k]
    BY <1>2, <2>3
  <2>7. Due[0] \in Int /\ Due[PARENT(k)] \in Int /\ Due[k] \in Int
    BY <1>1, <2>3, <2>4
  <2>8. QED BY <2>3, <2>5, <2>6, <2>7
<1>4. QED BY <1>1, <1>3 DEF Slots

\* Every reachable state is well formed: the array never outgrows the memory
\* heap_insert obtained, and a running loop's index lies inside it.
THEOREM TypeCorrect == Spec => []TypeOK
BY Invariance, PTL DEF Struct

\* heap_index leads back to its slot after every swap, so heap_remove finds
\* exactly the entry it is asked for (ttl.c:79-82).
THEOREM PointersLeadBack == Spec => []BackPointers
BY Invariance, PTL DEF Struct

\* Between calls the array is a min-heap, for any number of entries and times.
THEOREM HeapOrdered == Spec => []MinHeap
BY Invariance, PTL DEF Order

\* While shift_up or heapify runs, no slot but the one it has reached is out
\* of order, and the entry there only with its parent or with its children.
THEOREM LoopsLocal == Spec => []AlmostOrdered
BY Invariance, PTL DEF Order

\* Between calls slot 0 holds an earliest entry, which heap_pop returns.
THEOREM RootEarliest == Spec => []RootIsEarliest
BY Invariance, RootLemma, PTL

-----------------------------------------------------------------------------
(* The heap implements the expiry queue.  The queued entries are those with *)
(* a back pointer, so each step's effect on them is read off heap_index.    *)

QueuedIsIndexed == Queued = {e \in Entries : heap_index[e] # SIZE_MAX}

LEMMA QueuedByIndex == ASSUME Struct PROVE QueuedIsIndexed
<1>1. /\ \A k \in Slots : heap[k] \in Entries /\ heap_index[heap[k]] = k
      /\ \A k \in Slots : k # SIZE_MAX
      /\ \A e \in Entries : heap_index[e] # SIZE_MAX =>
                              heap_index[e] \in Slots /\ heap[heap_index[e]] = e
  BY HeapAssumption DEF Struct, TypeOK, BackPointers, LeadsBack, Slots
<1>2. QED BY <1>1 DEF QueuedIsIndexed, Queued

LEMMA QueueInit == Init => Queue!Init
BY DEF Init, Queue!Init, Queued, Slots

LEMMA QueueStep ==
  ASSUME Struct, Struct', RootIsEarliest, [Next]_vars
  PROVE  [Queue!Next]_(Queue!vars)
<1>0. QueuedIsIndexed /\ QueuedIsIndexed'
  BY QueuedByIndex, PTL
<1>1. /\ Queued = {e \in Entries : heap_index[e] # SIZE_MAX}
      /\ Queued' = {e \in Entries : heap_index'[e] # SIZE_MAX}
  BY <1>0 DEF QueuedIsIndexed
<1>2. /\ heap_index \in [Entries -> Nat]
      /\ Linked(heap, size, heap_index)
      /\ size \in Nat /\ size < SIZE_MAX
  BY StructLinked, HeapAssumption DEF Struct, TypeOK
<1>3. ASSUME NEW e \in Entries, NEW t \in Times, HeapInsert(e, t)
      PROVE  Queue!Enqueue(e, t)
  <2>1. e \notin Queued /\ Queued' = Queued \union {e}
    BY <1>1, <1>2, <1>3 DEF HeapInsert, Full
  <2>2. QED BY <1>3, <2>1 DEF HeapInsert, Full, Queue!Enqueue
<1>4. ASSUME NEW e \in Entries, NEW t \in Times, HeapInsertNoMem(e, t)
      PROVE  Queue!Refuse(e, t)
  BY <1>1, <1>4 DEF HeapInsertNoMem, Full, Queue!Refuse
<1>5. CASE ShiftUp
  <2>1. CASE cur > 0 /\ Precedes(heap, cur, PARENT(cur))
    <3>1. cur \in 0 .. size - 1 /\ PARENT(cur) \in 0 .. size - 1
      BY <1>5, <2>1, ParentFacts DEF ShiftUp, Struct, TypeOK
    <3>2. \A e \in Entries : heap_index[e] = SIZE_MAX <=> heap_index'[e] = SIZE_MAX
      BY <1>2, <1>5, <2>1, <3>1, SwapLinked DEF ShiftUp
    <3>3. QED BY <1>1, <1>5, <3>2 DEF ShiftUp, Queue!vars
  <2>2. CASE ~ (cur > 0 /\ Precedes(heap, cur, PARENT(cur)))
    BY <1>1, <1>5, <2>2 DEF ShiftUp, Queue!vars
  <2>3. QED BY <2>1, <2>2
<1>6. CASE Heapify
  <2>. DEFINE s == Smallest(heap, size, cur)
  <2>1. cur \in 0 .. size - 1 /\ s \in 0 .. size - 1
    BY <1>6, SmallestFacts DEF Heapify, Struct, TypeOK, Slots
  <2>2. CASE s # cur
    <3>1. \A e \in Entries : heap_index[e] = SIZE_MAX <=> heap_index'[e] = SIZE_MAX
      BY <1>2, <1>6, <2>1, <2>2, SwapLinked DEF Heapify
    <3>2. QED BY <1>1, <1>6, <3>1 DEF Heapify, Queue!vars
  <2>3. CASE s = cur
    BY <1>1, <1>6, <2>3 DEF Heapify, Queue!vars
  <2>4. QED BY <2>2, <2>3
<1>7. CASE HeapPopEmpty
  <2>1. Queued = {} /\ ret' = NULL /\ expiry' = expiry
    BY <1>7 DEF HeapPopEmpty, Queued, Slots
  <2>2. Queued' = {}
    BY <1>1, <1>7, <2>1 DEF HeapPopEmpty
  <2>3. Queued' = Queued \ {ret'}
    BY <2>1, <2>2
  <2>4. QED BY <2>1, <2>3 DEF Queue!PopEarliest, Queue!Next
<1>8. CASE HeapPop
  <2>. DEFINE last == size - 1
  <2>1. last \in 0 .. size - 1 /\ 0 \in 0 .. size - 1 /\ 0 \in Slots
        /\ ret' = heap[0] /\ expiry' = expiry
    BY <1>2, <1>8 DEF HeapPop, Slots
  <2>. DEFINE h == SwapSlots(heap, 0, last)
              ix == SwapIndexes(heap_index, heap, 0, last)
  <2>s. /\ Linked(h, size, ix)
        /\ \A e \in Entries : heap_index[e] = SIZE_MAX <=> ix[e] = SIZE_MAX
    BY <1>2, <2>1, SwapLinked
  <2>2. /\ ix \in [Entries -> Nat]
        /\ \A e \in Entries : heap_index[e] = SIZE_MAX <=> ix[e] = SIZE_MAX
    BY <2>s DEF Linked
  <2>3. heap_index' = [SwapIndexes(heap_index, heap, 0, last)
                         EXCEPT ![heap[0]] = SIZE_MAX]
    BY <1>8 DEF HeapPop
  <2>4. Queued' = Queued \ {heap[0]}
    BY <1>1, <2>2, <2>3
  <2>5. heap[0] \in Queued /\ \A f \in Queued : expiry[heap[0]] <= expiry[f]
    BY <1>8, <2>1 DEF HeapPop, RootIsEarliest, Queued
  <2>6. ret' \in {e \in Queued : \A f \in Queued : expiry[e] <= expiry[f]}
    BY <2>1, <2>5
  <2>7. Queued' = Queued \ {ret'}
    BY <2>1, <2>4
  <2>8. QED BY <2>1, <2>6, <2>7 DEF Queue!PopEarliest, Queue!Next
<1>9. ASSUME NEW e \in Entries, HeapRemoveAbsent(e)
      PROVE  Queue!Dequeue(e)
  <2>1. e \notin Queued
    BY <1>1, <1>9 DEF HeapRemoveAbsent, Struct, BackPointers
  <2>2. QED BY <1>1, <1>9, <2>1 DEF HeapRemoveAbsent, Queue!Dequeue
<1>10. ASSUME NEW e \in Entries, HeapRemove(e)
      PROVE  Queue!Dequeue(e)
  <2>. DEFINE i == heap_index[e]
              last == size - 1
  <2>1. last \in 0 .. size - 1 /\ i \in 0 .. size - 1 /\ heap[i] = e
    BY <1>2, <1>10 DEF HeapRemove, Direction, LeadsBack, Slots
  <2>. DEFINE h == SwapSlots(heap, i, last)
              ix == SwapIndexes(heap_index, heap, i, last)
  <2>s. /\ Linked(h, size, ix)
        /\ \A f \in Entries : heap_index[f] = SIZE_MAX <=> ix[f] = SIZE_MAX
    BY <1>2, <2>1, SwapLinked
  <2>2. /\ ix \in [Entries -> Nat]
        /\ \A f \in Entries : heap_index[f] = SIZE_MAX <=> ix[f] = SIZE_MAX
    BY <2>s DEF Linked
  <2>3. heap_index' = [SwapIndexes(heap_index, heap, i, last) EXCEPT ![e] = SIZE_MAX]
        /\ ret' = "OK" /\ expiry' = expiry
    BY <1>10 DEF HeapRemove, Direction
  <2>4. Queued' = Queued \ {e}
    BY <1>1, <2>2, <2>3
  <2>5. e \in Queued
    BY <2>1 DEF Queued, Slots
  <2>6. QED BY <2>3, <2>4, <2>5 DEF Queue!Dequeue
<1>11. CASE UNCHANGED vars
  BY <1>1, <1>11 DEF vars, Queue!vars
<1>12. QED
  BY <1>3, <1>4, <1>5, <1>6, <1>7, <1>8, <1>9, <1>10, <1>11
     DEF Next, Restore, Queue!Next

\* The array implements the abstract expiry queue, for any set of entries:
\* heap_pop hands out an earliest entry and no call loses or invents one.
THEOREM ImplementsQueue == Spec => QueueSpec
<1>1. Struct /\ Struct' /\ RootIsEarliest /\ [Next]_vars
        => [Queue!Next]_(Queue!vars)
  BY QueueStep
<1>2. QED
  BY <1>1, QueueInit, Invariance, RootEarliest, PTL
     DEF Spec, QueueSpec, Queue!Spec
=============================================================================
