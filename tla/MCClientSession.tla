--------------------------- MODULE MCClientSession --------------------------
(***************************************************************************)
(* TLC instance of ClientSession.  Clients and packets are numbers: they   *)
(* are the nodes of the lists.                                             *)
(***************************************************************************)
EXTENDS ClientSession
=============================================================================
