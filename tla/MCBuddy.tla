------------------------------ MODULE MCBuddy -------------------------------
(***************************************************************************)
(* TLC instances of Buddy.  Process identifiers are numbers because the    *)
(* code compares them with 0 and -1; the runs differ in the commands that  *)
(* arrive, the faults that happen and the limits buddy was started with.   *)
(* The runs themselves are the .cfg files.                                 *)
(***************************************************************************)
EXTENDS Buddy

(* What buddies started by the controller have, as they are given no -k.   *)
DefaultTimeout == {-1}

(* And a timeout of a tenth of a second, given by hand.                    *)
BothTimeouts == DefaultTimeout \cup {1}
=============================================================================
