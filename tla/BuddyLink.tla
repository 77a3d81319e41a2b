------------------------------ MODULE BuddyLink -----------------------------
(***************************************************************************)
(* The conversation between the controller (controller/ctrl_buddy.c) and   *)
(* one buddy (controller/buddy.c) over buddy's socket, on top of the ring  *)
(* of module AuditRing.  For every command the controller connects, writes *)
(* the command, reads records and acknowledges each until one says that    *)
(* none remain or until 10 ms pass without one, and closes.  buddy takes   *)
(* connections from its backlog, drops the one it has when another one is  *)
(* waiting, and answers a command by flushing its ring.                    *)
(*                                                                         *)
(* The controller may crash between any two of its calls on the socket,    *)
(* also between the read of a record and the write of its acknowledgement, *)
(* and start again; the two sides run at their own speed, so either may    *)
(* time out on the other.                                                  *)
(***************************************************************************)
EXTENDS AuditRing

CONSTANT MaxSessions    \* bound: connections the controller makes

ASSUME MaxSessionsAssumption == MaxSessions \in Nat

VARIABLES ctl,      \* the controller: idle, connected, reading, acking, lastack or closing
          opened,   \* the last connection it made
          sent,     \* the connections on which it wrote its command
          hung,     \* the connections it closed
          got,      \* history: the events it has read
          loop,     \* buddy: wait (event loop), busy (command), exit or dead
          taken,    \* the last connection buddy accepted
          cur,      \* buddy_ctrlfd: 0 for none
          dropped,  \* the connections buddy closed
          handled,  \* history: the connections whose command it handled
          wire,     \* records written on cur that the controller has not read
          acks      \* acknowledgements written on cur that buddy has not read

controller == <<ctl, opened, sent, hung, got>>
server == <<loop, taken, cur, dropped, handled>>
channel == <<wire, acks>>
linkVars == <<vars, controller, server, channel>>

Session == 1 .. MaxSessions
Home == MaxSessions + 1    \* the connection buddy makes when it phones home

LinkInit ==
  /\ Init
  /\ ctl = "idle" /\ opened = 0 /\ sent = {} /\ hung = {} /\ got = {}
  /\ loop = "wait" /\ taken = 0 /\ cur = 0 /\ dropped = {} /\ handled = {}
  /\ wire = << >> /\ acks = 0
-----------------------------------------------------------------------------
(* The controller: send_buddy_cmd and buddy_readstate. *)

BuddyConnect ==
  /\ ctl = "idle" /\ loop # "dead"
  /\ opened < MaxSessions
  /\ opened' = opened + 1
  /\ ctl' = "connected"
  /\ UNCHANGED <<vars, sent, hung, got, server, channel>>

(* A connection that cannot be written to for 10 ms gets no command, and   *)
(* buddy_readstate reads nothing from it.                                  *)
SendCmd ==
  /\ ctl = "connected"
  /\ \/ sent' = sent \cup {opened} /\ ctl' \in {"reading", "closing"}
     \/ sent' = sent /\ ctl' = "closing"
  /\ UNCHANGED <<vars, opened, hung, got, server, channel>>

(* The controller's connection is the last one buddy accepted. *)
Attached == opened = taken

(* A record is read; the last one is remembered until its acknowledgement. *)
ReadState ==
  /\ ctl = "reading" /\ Attached /\ wire # << >>
  /\ got' = got \cup {Head(wire).event}
  /\ wire' = Tail(wire)
  /\ ctl' = IF Head(wire).remaining = 0 THEN "lastack" ELSE "acking"
  /\ UNCHANGED <<vars, opened, sent, hung, server, acks>>

(* It is acknowledged, which nobody notices if buddy has closed, unless    *)
(* the select for it times out: that also ends the loop, whose select has  *)
(* no descriptor left.                                                     *)
WriteAck ==
  /\ ctl \in {"acking", "lastack"}
  /\ \/ /\ acks' = IF opened \in dropped THEN acks ELSE acks + 1
        /\ ctl' = IF ctl = "lastack" THEN "closing" ELSE "reading"
     \/ /\ ctl' = "closing"
        /\ UNCHANGED acks
  /\ UNCHANGED <<vars, opened, sent, hung, got, server, wire>>

(* Mutant: the controller has no timeout and waits for the end of file. *)
MutantReadTimeout ==
  /\ ctl = "reading"
  /\ ~(Attached /\ wire # << >>)
  /\ opened \in dropped
  /\ ctl' = "closing"
  /\ UNCHANGED <<vars, opened, sent, hung, got, server, channel>>

(* Ten milliseconds without a record, or the end of the connection. *)
ReadTimeout ==
  /\ ctl = "reading"
  /\ ~(Attached /\ wire # << >>)
  /\ ctl' = "closing"
  /\ UNCHANGED <<vars, opened, sent, hung, got, server, channel>>

HangUp ==
  /\ ctl' = "idle"
  /\ hung' = hung \cup {opened}
  /\ wire' = IF Attached THEN << >> ELSE wire
  /\ UNCHANGED <<vars, opened, sent, got, server, acks>>

Close == ctl = "closing" /\ HangUp

(* The controller dies in the middle of a session; the kernel closes. *)
Crash == ctl \in {"connected", "reading", "acking", "lastack"} /\ HangUp
-----------------------------------------------------------------------------
(* buddy. *)

(* buddy_record_state, from the signal handler or from a command.  Signals *)
(* are blocked in a flush.                                                 *)
Record ==
  /\ loop # "dead"
  /\ RecordState
  /\ UNCHANGED <<controller, server, channel>>

(* buddy_accept: a connection that waits is accepted before any command is *)
(* read, and the present one is closed for it.                             *)
Accept ==
  /\ loop = "wait" /\ pc = "idle"
  /\ taken < opened
  /\ dropped' = dropped \cup ({cur} \ {0})
  /\ taken' = taken + 1
  /\ cur' = taken + 1
  /\ wire' = << >>
  /\ acks' = 0
  /\ UNCHANGED <<vars, controller, loop, handled>>

(* The event loop reads a command and starts to handle it ... *)
TakeCommand ==
  /\ loop = "wait" /\ cur # 0 /\ taken = opened
  /\ cur \in sent
  /\ ReadCommand(TRUE)
  /\ handled' = handled \cup {cur}
  /\ loop' = "busy"
  /\ UNCHANGED <<controller, taken, cur, dropped, channel>>

(* Mutant: a connection that was hung up is closed without reading it. *)
MutantReadEnd ==
  /\ loop = "wait" /\ cur # 0 /\ taken = opened
  /\ cur \in hung
  /\ ReadCommand(FALSE)
  /\ dropped' = dropped \cup {cur}
  /\ cur' = 0
  /\ UNCHANGED <<controller, loop, taken, handled, channel>>

(* ... or finds that the controller has gone without sending one. *)
ReadEnd ==
  /\ loop = "wait" /\ cur # 0 /\ taken = opened
  /\ cur \in hung \ sent
  /\ ReadCommand(FALSE)
  /\ dropped' = dropped \cup {cur}
  /\ cur' = 0
  /\ UNCHANGED <<controller, loop, taken, handled, channel>>

(* buddy is told to terminate: buddy_cleanup flushes for the last time. *)
Terminate ==
  /\ loop = "wait" /\ pc = "idle"
  /\ loop' = "exit"
  /\ UNCHANGED <<vars, controller, taken, cur, dropped, handled, channel>>

(* phone_home_if_appropriate, called by every flush. *)
Emergent == pending > 0 /\ (loop = "exit" \/ pending >= RingSize - RingSize \div 4)

(* It ends with a connection, or with a descriptor that has none; at the   *)
(* other end is the socket for clients, which does not speak this protocol.*)
PhoneHome ==
  /\ loop \in {"busy", "exit"} /\ pc = "idle"
  /\ cur = 0 /\ Emergent
  /\ cur' = Home
  /\ UNCHANGED <<vars, controller, loop, taken, dropped, handled, channel>>

StartFlush ==
  /\ loop \in {"busy", "exit"} /\ cur # 0
  /\ FlushBegin
  /\ UNCHANGED <<controller, server, channel>>

(* A flush without a connection does nothing. *)
NoFlush ==
  /\ loop = "exit" /\ pc = "idle"
  /\ cur = 0 /\ ~Emergent
  /\ loop' = "dead"
  /\ UNCHANGED <<vars, controller, taken, cur, dropped, handled, channel>>

Skip ==
  /\ SkipEmpty
  /\ UNCHANGED <<controller, server, channel>>

(* Mutant: the record being sent is counted twice. *)
MutantMessage == [event |-> slot[info], remaining |-> IF pending > 1 THEN pending - 2 ELSE 0]

(* The record and how many follow it. *)
Message == [event |-> slot[info], remaining |-> pending - 1]

Write ==
  \/ /\ cur \notin hung
     /\ WriteCtrl("ok")
     /\ wire' = IF cur = Home THEN wire ELSE Append(wire, Message)
     /\ UNCHANGED <<controller, server, acks>>
  \/ /\ cur \in hung \cup {Home}
     /\ WriteCtrl("fail")
     /\ UNCHANGED <<controller, server, channel>>
  \/ /\ cur \notin hung
     /\ WriteCtrl("timeout")
     /\ UNCHANGED <<controller, server, channel>>

(* Mutant: an acknowledgement is looked at but not taken off the socket. *)
MutantAcknowledged ==
  /\ acks > 0
  /\ ReadAck("ok")
  /\ UNCHANGED <<controller, server, channel>>

Acknowledged ==
  \/ /\ acks > 0
     /\ ReadAck("ok")
     /\ acks' = acks - 1
     /\ UNCHANGED <<controller, server, wire>>
  \/ /\ acks = 0 /\ cur \in hung \cup {Home}
     /\ ReadAck("fail")
     /\ UNCHANGED <<controller, server, channel>>
  \/ /\ acks = 0 /\ cur \notin hung
     /\ ReadAck("timeout")
     /\ UNCHANGED <<controller, server, channel>>

(* The connection is always closed after a flush; records in it stay. *)
EndFlush ==
  /\ FlushEnd
  /\ dropped' = dropped \cup {cur}
  /\ cur' = 0
  /\ acks' = 0
  /\ loop' = IF loop = "exit" THEN "dead" ELSE "wait"
  /\ UNCHANGED <<controller, taken, handled, wire>>

BuddyStep ==
  \/ Accept \/ TakeCommand \/ ReadEnd
  \/ PhoneHome \/ StartFlush \/ NoFlush
  \/ Skip \/ Write \/ Acknowledged \/ EndFlush

ControllerStep == SendCmd \/ ReadState \/ WriteAck \/ ReadTimeout \/ Close

LinkNext ==
  \/ BuddyConnect
  \/ ControllerStep
  \/ Crash
  \/ Record
  \/ Terminate
  \/ BuddyStep

LinkSpec == LinkInit /\ [][LinkNext]_linkVars

(* Both processes are scheduled; their waits on each other are bounded. *)
LinkFairSpec == LinkSpec /\ WF_linkVars(ControllerStep) /\ WF_linkVars(BuddyStep)
-----------------------------------------------------------------------------
(* What the protocol says of UPK_CTRL_ACK, "controller received the last   *)
(* msg": an event that was recorded and not displaced is in the ring until *)
(* the controller has read it.                                             *)
Accounted ==
  \A r \in 1 .. recorded :
    \/ \E i \in Node : slot[i] = r
    \/ r \in got
    \/ r \in overwritten

(* No event disappears between the two, whatever crashes and hang-ups cut  *)
(* the sessions short, as long as no select of a flush has timed out.      *)
Delivered == late \/ Accounted

(* When the controller stops because no record remains it has read every   *)
(* event buddy knows of (buddy.h: the entire contents of the ring buffer), *)
(* as long as no select of a flush has timed out.                          *)
AnswerComplete ==
  [][ReadState /\ Head(wire).remaining = 0 /\ ~late
       => 1 .. recorded \subseteq got' \cup overwritten]_linkVars

(* An acknowledgement is never taken for that of another record: at most   *)
(* one is under way, and only for the record buddy waits for, as long as   *)
(* no select of a flush has timed out.                                     *)
AckMatches ==
  late \/ /\ acks <= 1
          /\ acks = 1 /\ cur # 0 => pc = "ack" /\ slot[info] \in got /\ wire = << >>

(* A command is lost only to a later connection, for which buddy gave up   *)
(* the one it was sent on, or because buddy is on its way out.             *)
CommandsHandled ==
  \A s \in dropped \cap sent : s \in handled \/ s < taken \/ loop \in {"exit", "dead"}

(* A session ends on both sides. *)
SessionEnds == (ctl # "idle" \/ pc # "idle") ~> (ctl = "idle" /\ pc = "idle")
=============================================================================
