---------------------------- MODULE MCServerLoop ----------------------------
(***************************************************************************)
(* The server loop on small instances: two or three connections, made one  *)
(* after the other or at once, over fewer or as many descriptors.          *)
(***************************************************************************)
EXTENDS ServerLoop, TLC

ConnSymmetry == Permutations(Conns)
=============================================================================
