---------------------------- MODULE MCServiceDir ----------------------------
(***************************************************************************)
(* TLC instance of ServiceDir.  The second version of the configuration    *)
(* has lost the first service, whose directory and buddy may still be      *)
(* there.                                                                  *)
(***************************************************************************)
EXTENDS ServiceDir

CONSTANTS s1, s2

MCSvcLists == << <<s1, s2>>, <<s2>> >>
=============================================================================
