----------------------------- MODULE MCSaveFile -----------------------------
(***************************************************************************)
(* The savefile on small instances: two keys in one bucket, so that a line *)
(* holds several entries, and a third in another.                          *)
(***************************************************************************)
EXTENDS SaveFile

KeyA == <<<<"a">>>>
KeyB == <<<<"b">>>>
KeyC == <<<<"c">>>>
ThreeKeys == {KeyA, KeyB, KeyC}
TwoKeys == {KeyA, KeyB}

X == <<<<"x">>>>
Y == <<<<"y">>>>
TwoWrites == {<<KeyA, X>>, <<KeyB, Y>>}
FourWrites == TwoWrites \union {<<KeyA, Y>>, <<KeyC, X>>}

OneBucket(k) == 1
TwoBuckets(k) == IF k = KeyC THEN 2 ELSE 1

\* Of a clock that runs from 10 to 11: a time between, and one after.
OneSecond == {1}
=============================================================================
