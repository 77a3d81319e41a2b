--------------------------- MODULE MCCtrlSigQueue ---------------------------
(***************************************************************************)
(* TLC instances of CtrlSigQueue: two buddies that die and are replaced.   *)
(***************************************************************************)
EXTENDS CtrlSigQueue
=============================================================================
