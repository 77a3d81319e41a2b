---------------------------- MODULE CtrlSigQueue ----------------------------
(***************************************************************************)
(* The signals of the controller (controller/ctrl_eventloop.c): a handler  *)
(* that appends every signal to ctrl_signal_queue, and handle_signals,     *)
(* called first in each round of the event loop, which takes them off one  *)
(* by one and acts on them.  The queue is a list of module UpkList, so an  *)
(* append sees the pointers that the last removal left behind.             *)
(*                                                                         *)
(* The kernel keeps one pending SIGCHLD, with the pid of the first child   *)
(* that died, and one pending SIGTERM (or SIGINT).                         *)
(***************************************************************************)
EXTENDS UpkList

CONSTANTS Buddies      \* the pids of buddies

ASSUME BuddiesAssumption == Buddies \subseteq STRING \ {"TERM", "none"}

VARIABLES q,         \* ctrl_signal_queue
          what,      \* the signal each node holds: the pid of a dead buddy, or TERM
          fresh,     \* the last node allocated
          due,       \* history: the nodes enqueued and not yet taken off
          node,      \* signal_node, the copy handle_signals works on
          pc,        \* work (the rest of the event loop), loop, copy, act, gone, crash
          running,   \* buddies that are alive
          zombie,    \* buddies that died and were not waited for
          chld,      \* the pending SIGCHLD: the pid in it, or none
          term,      \* pending SIGTERM
          within     \* history: did a signal arrive while handle_signals had
                     \* still others to take off?

sigVars == <<q, what, fresh, due, node, pc, running, zombie, chld, term, within>>

Signal == Buddies \cup {"TERM"}

SigInit ==
  /\ q = EmptyList
  /\ what = [p \in Ptr |-> "none"]
  /\ fresh = 0 /\ due = << >> /\ node = "none"
  /\ pc = "work"
  /\ running = {} /\ zombie = {}
  /\ chld = "none" /\ term = FALSE /\ within = FALSE

(* spawn_buddy; a pid is not given away as long as it is a zombie. *)
Spawn(b) ==
  /\ pc = "work"
  /\ b \notin running \cup zombie
  /\ running' = running \cup {b}
  /\ UNCHANGED <<q, what, fresh, due, node, pc, zombie, chld, term, within>>

(* A buddy dies.  A second SIGCHLD is dropped while one is pending. *)
Die(b) ==
  /\ b \in running /\ pc # "gone"
  /\ running' = running \ {b}
  /\ zombie' = zombie \cup {b}
  /\ chld' = IF chld = "none" THEN b ELSE chld
  /\ UNCHANGED <<q, what, fresh, due, node, pc, term, within>>

SendTerm ==
  /\ pc # "gone"
  /\ term' = TRUE
  /\ UNCHANGED <<q, what, fresh, due, node, pc, running, zombie, chld, within>>

(* sa_sigaction_func, which runs with every signal blocked. *)
Enqueue(s) ==
  /\ pc \in {"work", "loop", "act"}
  /\ fresh < MaxNodes
  /\ fresh' = fresh + 1
  /\ q' = AppendNode(q, fresh')
  /\ what' = [what EXCEPT ![fresh'] = s]
  /\ due' = Append(due, fresh')
  /\ within' = (within \/ (pc # "work" /\ q.count > 0))

Deliver ==
  /\ \/ chld # "none" /\ Enqueue(chld) /\ chld' = "none" /\ UNCHANGED term
     \/ term /\ Enqueue("TERM") /\ term' = FALSE /\ UNCHANGED chld
  /\ UNCHANGED <<node, pc, running, zombie>>
-----------------------------------------------------------------------------
(* handle_signals. *)

Call ==
  /\ pc = "work"
  /\ pc' = "loop"
  /\ UNCHANGED <<q, what, fresh, due, node, running, zombie, chld, term, within>>

(* while(ctrl_signal_queue->count > 0), and the signals are blocked. *)
Loop ==
  /\ pc = "loop"
  /\ pc' = IF q.count > 0 THEN "copy" ELSE "work"
  /\ UNCHANGED <<q, what, fresh, due, node, running, zombie, chld, term, within>>

(* What a node holds; a freed one may hold anything. *)
Holds(p) == IF p \in q.live THEN {what[p]} ELSE Signal \cup {"none"}

(* Mutant: the node is unlinked without going to the head first. *)
MutantQueueHead == [q EXCEPT !.prevp = NULL, !.nextp = NULL]

(* UPKLIST_HEAD *)
QueueHead == ForeachInit(q)

(* The head of the queue is copied and unlinked, and signals are unblocked.*)
(* The pointer to the head is followed without a test.                     *)
Copy ==
  /\ pc = "copy"
  /\ IF QueueHead.thisp = NULL
       THEN pc' = "crash" /\ UNCHANGED <<q, due, node>>
       ELSE /\ node' \in Holds(QueueHead.thisp)
            /\ q' = Unlink(QueueHead)
            /\ due' = IF due = << >> THEN due ELSE Tail(due)
            /\ pc' = "act"
  /\ UNCHANGED <<what, fresh, running, zombie, chld, term, within>>

(* Mutant: only SIGINT ends the controller. *)
MutantAct ==
  /\ pc = "act"
  /\ zombie' = zombie \ {node}
  /\ pc' = "loop"
  /\ UNCHANGED <<q, what, fresh, due, node, running, chld, term, within>>

(* Mutant: nobody waits for the dead buddy. *)
MutantActNoWait ==
  /\ pc = "act"
  /\ pc' = IF node = "TERM" THEN "gone" ELSE "loop"
  /\ UNCHANGED <<q, what, fresh, due, node, running, zombie, chld, term, within>>

(* waitpid for the dead buddy, or exit. *)
Act ==
  /\ pc = "act"
  /\ zombie' = zombie \ {node}
  /\ pc' = IF node = "TERM" THEN "gone" ELSE "loop"
  /\ UNCHANGED <<q, what, fresh, due, node, running, chld, term, within>>

Gone == pc \in {"gone", "crash"} /\ UNCHANGED sigVars

HandleSignals == Call \/ Loop \/ Copy \/ Act

SigNext ==
  \/ \E b \in Buddies : Spawn(b) \/ Die(b)
  \/ SendTerm
  \/ Deliver
  \/ HandleSignals
  \/ Gone

SigSpec == SigInit /\ [][SigNext]_sigVars

(* The controller is scheduled and every round of its event loop ends (its *)
(* waits have timeouts).                                                   *)
SigFairSpec == SigSpec /\ WF_sigVars(HandleSignals)
-----------------------------------------------------------------------------
(* The queue holds exactly the signals that arrived and were not yet taken *)
(* off, in the order in which they arrived, and no freed node is touched,  *)
(* as long as none arrived while handle_signals had still others to take   *)
(* off: UPKLIST_UNLINK leaves the pointers that the handler's append uses  *)
(* between the nodes that remain.                                          *)
QueueFaithful ==
  ~within => Meets(q, due) /\ q.count = Len(due) /\ ~q.stale

(* A SIGTERM that reached the handler ends the controller, under the same  *)
(* condition.                                                              *)
TermExits ==
  (\E k \in 1 .. Len(due) : what[due[k]] = "TERM") ~> (pc = "gone" \/ within)

(* A buddy whose SIGCHLD reached the handler is waited for, or the         *)
(* controller is gone, under the same condition.                           *)
Reaped ==
  \A b \in Buddies :
    (\E k \in 1 .. Len(due) : what[due[k]] = b) ~>
      (b \notin zombie \/ pc = "gone" \/ within)
=============================================================================
