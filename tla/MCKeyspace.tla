----------------------------- MODULE MCKeyspace -----------------------------
(***************************************************************************)
(* The keyspace on small instances: two keys that share a bucket and a     *)
(* third in a bucket of its own.  The clock starts at 10 so that a         *)
(* negative duration lands in the past, as it does in the code.            *)
(***************************************************************************)
EXTENDS Keyspace, TLC

CONSTANTS k1, k2, k3, b1, b2

TwoKeys == {k1, k2}
ThreeKeys == {k1, k2, k3}
OneBucket == {b1}
TwoBuckets == {b1, b2}
HashTwo == [k \in TwoKeys |-> b1]
HashThree == [k \in ThreeKeys |-> IF k = k3 THEN b2 ELSE b1]

\* In the past, at once, and later.
UsualDurations == {-1, 0, 2}

\* What the proofs ask of the durations holds here.
ASSUME UsualTimes == TimesShort /\ TimesReal

AddrSymmetry == Permutations(Addrs)
=============================================================================
