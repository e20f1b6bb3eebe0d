----------------------------- MODULE MCTTLHeap -----------------------------
(***************************************************************************)
(* The TTL heap on small instances.  Six entries are the fewest for which  *)
(* heap_remove's upward branch is taken with a strictly earlier entry (the *)
(* last slot and the removed one in different subtrees).                   *)
(***************************************************************************)
EXTENDS TTLHeap, TLC

EntrySymmetry == Permutations(Entries)
=============================================================================
