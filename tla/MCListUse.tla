----------------------------- MODULE MCListUse ------------------------------
(***************************************************************************)
(* TLC instances of ListUse: one per list of the program.                  *)
(***************************************************************************)
EXTENDS ListUse
=============================================================================
