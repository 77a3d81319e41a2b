---------------------------- MODULE MCBuddyLink -----------------------------
(***************************************************************************)
(* TLC instances of BuddyLink.                                             *)
(***************************************************************************)
EXTENDS BuddyLink
=============================================================================
