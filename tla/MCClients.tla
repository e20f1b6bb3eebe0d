----------------------------- MODULE MCClients -----------------------------
(***************************************************************************)
(* The server with one or two of each of its clients.                      *)
(***************************************************************************)
EXTENDS Clients
=============================================================================
