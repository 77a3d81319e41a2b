----------------------------- MODULE AuditQueue -----------------------------
(***************************************************************************)
(* What buddy promises about its audit trail, whatever the data structure  *)
(* that keeps it: a queue of at most Capacity events in the order in which *)
(* they happened.  A new event pushes the oldest one out when the queue is *)
(* full, and an event leaves the queue in no other way than by being the   *)
(* oldest one and confirmed by the controller; only a controller that was  *)
(* late may cost an unconfirmed event.                                     *)
(*                                                                         *)
(* Events are numbered 1, 2, 3, ... in the order in which they happen.     *)
(***************************************************************************)
EXTENDS Naturals, Sequences

CONSTANT Capacity

VARIABLES queue,     \* the events kept, oldest first
          recorded,  \* how many events have happened
          acked,     \* the events the controller has confirmed
          late       \* whether the controller has ever been late with an answer

vars == <<queue, recorded, acked, late>>

Init ==
  /\ queue = << >>
  /\ recorded = 0
  /\ acked = {}
  /\ late = FALSE

(* An event happens; a full queue forgets its oldest event. *)
Record ==
  /\ recorded' = recorded + 1
  /\ queue' = Append(IF Len(queue) = Capacity THEN Tail(queue) ELSE queue, recorded')
  /\ UNCHANGED <<acked, late>>

(* The controller confirms the oldest event, which then leaves the queue. *)
Confirm ==
  /\ queue # << >>
  /\ queue' = Tail(queue)
  /\ acked' = acked \cup {Head(queue)}
  /\ UNCHANGED <<recorded, late>>

(* The controller is late.  The oldest event may then leave unconfirmed. *)
Late ==
  /\ late' = TRUE
  /\ \/ UNCHANGED queue
     \/ queue # << >> /\ queue' = Tail(queue)
  /\ UNCHANGED <<recorded, acked>>

Next == Record \/ Confirm \/ Late

Spec == Init /\ [][Next]_vars
=============================================================================
