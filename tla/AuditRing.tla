----------------------------- MODULE AuditRing ------------------------------
(***************************************************************************)
(* The ring buffer in which buddy keeps its audit trail and the flush that *)
(* sends it to a controller (controller/buddy.c).  The ring is a circular  *)
(* list of ringbuffer_size nodes; info_ringbuffer points to the node that  *)
(* is written next, which is the oldest one once the ring is full.  An     *)
(* event is represented by its number: a populated node holds the number   *)
(* of its event and an empty node holds NoInfo.                            *)
(*                                                                         *)
(* A flush blocks every signal before it touches the ring, so no event is  *)
(* recorded while pc # "idle".  What the socket calls of the flush return  *)
(* is chosen freely here; module BuddyLink derives it from the other end.  *)
(***************************************************************************)
EXTENDS Integers, FiniteSets, Sequences

CONSTANTS RingSize,     \* ringbuffer_size
          MaxRecords    \* bound: events recorded in a behaviour

ASSUME RingSizeAssumption == RingSize \in Nat \ {0}
ASSUME MaxRecordsAssumption == MaxRecords \in Nat

VARIABLES slot,      \* the nodes of the ring
          info,      \* info_ringbuffer
          pending,   \* ringbuffer_pending
          thisp,     \* thisp of the flush: the node it started from
          pc,        \* where the flush is
          ack,       \* static ack of the flush: does it hold UPK_CTRL_ACK?
          nread,     \* static ncount of read_ctrl: is it positive?
          nwrote,    \* static ncount of write_ctrl: is it positive?
          recorded,  \* history: how many events have been recorded
          acked,     \* history: the events whose ACK was read
          overwritten, \* history: the events a newer one displaced
          late       \* history: a socket call of a flush has timed out

ring == <<slot, info, pending>>
flush == <<thisp, pc, ack, nread, nwrote>>
history == <<recorded, acked, overwritten, late>>
vars == <<ring, flush, history>>

Node == 0 .. RingSize - 1
NoInfo == 0

(* Mutant: the last node is not linked to the first. *)
MutantSucc(i) == i + 1

(* node->next *)
Succ(i) == IF i = RingSize - 1 THEN 0 ELSE i + 1

(* Every node is empty, and the pointer is left at the last one allocated. *)
Init ==
  /\ slot = [i \in Node |-> NoInfo]
  /\ info = RingSize - 1
  /\ pending = 0
  /\ thisp = RingSize - 1
  /\ pc = "idle"
  /\ ack = FALSE
  /\ nread = FALSE
  /\ nwrote = FALSE
  /\ recorded = 0
  /\ acked = {}
  /\ overwritten = {}
  /\ late = FALSE
-----------------------------------------------------------------------------
(* Mutant: a cleared node is still counted. *)
MutantPendingCleared == pending

(* ringbuffer_pending after buddy_zero_info clears the current node. *)
PendingCleared ==
  IF slot[info] # NoInfo
    THEN IF pending <= 1 THEN 0 ELSE pending - 1
    ELSE pending

(* buddy_record_state, and the advance to the next node its callers make. *)
RecordState ==
  /\ pc = "idle"
  /\ recorded < MaxRecords
  /\ recorded' = recorded + 1
  /\ slot' = [slot EXCEPT ![info] = recorded + 1]
  /\ pending' = IF PendingCleared >= RingSize THEN RingSize ELSE PendingCleared + 1
  /\ info' = Succ(info)
  /\ overwritten' = overwritten \cup ({slot[info]} \ {NoInfo})
  /\ UNCHANGED <<flush, acked, late>>

(* read_ctrl of the event loop: a command arrived, or the peer hung up. *)
ReadCommand(got) ==
  /\ pc = "idle"
  /\ nread' = got
  /\ UNCHANGED <<ring, thisp, pc, ack, nwrote, history>>

(* Mutant: the walk starts one node too late. *)
MutantFlushBegin ==
  /\ pc = "idle"
  /\ ack' = FALSE
  /\ info' = Succ(info)
  /\ thisp' = Succ(info)
  /\ pc' = "walk"
  /\ UNCHANGED <<slot, pending, nread, nwrote, history>>

(* The flush starts with a connected descriptor: signals are blocked, ack  *)
(* holds the command being answered (which is not an ACK).                 *)
FlushBegin ==
  /\ pc = "idle"
  /\ ack' = FALSE
  /\ thisp' = info
  /\ pc' = "walk"
  /\ UNCHANGED <<ring, nread, nwrote, history>>

(* The end of the loop body: go on with the next node or stop at thisp. *)
Advance ==
  /\ info' = Succ(info)
  /\ pc' = IF info' = thisp THEN "close" ELSE "walk"

(* Mutant: the pointer stays at the node whose send failed. *)
MutantGiveUp ==
  /\ info' = info
  /\ pc' = "close"

(* Mutant: the break is missing. *)
MutantGiveUpRetry ==
  /\ info' = thisp
  /\ pc' = "walk"

(* A send that failed: back to where the flush started, and give up. *)
GiveUp ==
  /\ info' = thisp
  /\ pc' = "close"

SkipEmpty ==
  /\ pc = "walk"
  /\ slot[info] = NoInfo
  /\ Advance
  /\ UNCHANGED <<slot, pending, thisp, ack, nread, nwrote, history>>

(* write_ctrl: the select succeeds and the write does (ok) or does not     *)
(* (fail), or the select times out and the count of an earlier write is    *)
(* returned.                                                               *)
WriteCtrl(outcome) ==
  /\ pc = "walk"
  /\ slot[info] # NoInfo
  /\ nwrote' = IF outcome = "timeout" THEN nwrote ELSE outcome = "ok"
  /\ \/ /\ nwrote'
        /\ pc' = "ack"
        /\ UNCHANGED info
     \/ /\ ~nwrote'
        /\ GiveUp
  /\ late' = (late \/ outcome = "timeout")
  /\ UNCHANGED <<slot, pending, thisp, ack, nread, recorded, acked, overwritten>>

(* Mutant: the count read_ctrl returned is not looked at. *)
MutantConfirmed(count, cmd) == cmd

(* Something was read, and the command in the buffer is UPK_CTRL_ACK. *)
Confirmed(count, cmd) == count /\ cmd

(* read_ctrl for the acknowledgement: it arrives (ok), the peer has hung   *)
(* up (fail), or the select times out and both the count and the command   *)
(* of the previous read are used again.  An acknowledged node is cleared.  *)
ReadAck(outcome) ==
  /\ pc = "ack"
  /\ nread' = IF outcome = "timeout" THEN nread ELSE outcome = "ok"
  /\ ack' = (ack \/ outcome = "ok")
  /\ \/ /\ Confirmed(nread', ack')
        /\ pending' = PendingCleared
        /\ slot' = [slot EXCEPT ![info] = NoInfo]
        /\ Advance
     \/ /\ ~Confirmed(nread', ack')
        /\ GiveUp
        /\ UNCHANGED <<slot, pending>>
  /\ acked' = IF outcome = "ok" THEN acked \cup {slot[info]} ELSE acked
  /\ late' = (late \/ outcome = "timeout")
  /\ UNCHANGED <<thisp, nwrote, recorded, overwritten>>

(* buddy_disconnect(0) and the signals are unblocked. *)
FlushEnd ==
  /\ pc = "close"
  /\ pc' = "idle"
  /\ UNCHANGED <<ring, thisp, ack, nread, nwrote, history>>

(* What a socket call of the flush may report.  A controller that reads or *)
(* hangs up within the second buddy allows it never causes a timeout.      *)
Outcome == {"ok", "fail", "timeout"}

FlushStep ==
  \/ SkipEmpty
  \/ \E o \in Outcome : WriteCtrl(o)
  \/ \E o \in Outcome : ReadAck(o)
  \/ FlushEnd

Next ==
  \/ RecordState
  \/ \E got \in BOOLEAN : ReadCommand(got)
  \/ FlushBegin
  \/ FlushStep

Spec == Init /\ [][Next]_vars

(* The flush is straight-line code whose socket calls all have timeouts. *)
FairSpec == Spec /\ WF_vars(FlushStep)
-----------------------------------------------------------------------------
(* Where the window of populated nodes ends: the node written next. *)
Base == IF pc = "idle" THEN info ELSE thisp

(* The node k places before node b. *)
Back(b, k) == IF b >= k THEN b - k ELSE b - k + RingSize

(* The events in the ring, oldest first. *)
Contents == [k \in 1 .. pending |-> slot[Back(Base, pending + 1 - k)]]

(* Type invariant. *)
TypeOK ==
  /\ slot \in [Node -> 0 .. MaxRecords]
  /\ info \in Node
  /\ pending \in 0 .. RingSize
  /\ thisp \in Node
  /\ pc \in {"idle", "walk", "ack", "close"}
  /\ ack \in BOOLEAN
  /\ nread \in BOOLEAN
  /\ nwrote \in BOOLEAN
  /\ recorded \in 0 .. MaxRecords
  /\ acked \subseteq 1 .. MaxRecords
  /\ overwritten \subseteq 1 .. MaxRecords
  /\ late \in BOOLEAN

(* ringbuffer_pending, from which the remaining field of every message is  *)
(* computed and with which the controller decides to stop reading, is the  *)
(* number of populated nodes, at the limits of the ring and after a flush  *)
(* that failed half way.                                                   *)
PendingExact == pending = Cardinality({i \in Node : slot[i] # NoInfo})

(* The ring holds exactly the most recent events, in order and without a   *)
(* gap, in the nodes just before the one written next; so the walk of the  *)
(* flush meets them oldest first, and an overwrite hits the oldest.        *)
Window ==
  \A k \in 1 .. RingSize :
    slot[Back(Base, k)] = IF k <= pending THEN recorded + 1 - k ELSE NoInfo

(* A record is written to the controller before any younger one: whenever  *)
(* the flush is at a populated node, that node holds the oldest event.     *)
OldestFirst ==
  pc \in {"walk", "ack"} /\ slot[info] # NoInfo => slot[info] = recorded + 1 - pending

(* A controller gets as many events as the ring has room for: events are   *)
(* displaced only by RingSize younger ones.                                *)
OverwrittenAreOld == \A r \in overwritten : r + RingSize <= recorded

Queue == INSTANCE AuditQueue WITH queue <- Contents, Capacity <- RingSize

(* The ring implements the bounded queue of module AuditQueue: an event    *)
(* leaves it in no other way than displaced by RingSize younger ones or as *)
(* the oldest one, confirmed, unless the controller has been late.         *)
QueueSpec == Queue!Spec

(* A flush always comes to its end: the walk meets thisp again. *)
FlushEnds == pc # "idle" ~> pc = "idle"
=============================================================================
