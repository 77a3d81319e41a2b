---------------------------- MODULE ClientSession ---------------------------
(***************************************************************************)
(* Clients of the controller and the connections it serves them on         *)
(* (libupkeeper/upkeeper/upk_client_net.c and upk_network.c, the handlers  *)
(* of controller/ctrl_eventloop.c).  A client connects, negotiates with a  *)
(* preamble and then makes one request at a time, each with a timeout.     *)
(* The controller goes round its loop: accept at most one connection,      *)
(* select, read one packet and write one packet per connection, and unlink *)
(* the connections that were closed.                                       *)
(*                                                                         *)
(* The list of connections and the write queue of each are the lists of    *)
(* module UpkList, cursors included: which packet is written is a matter   *)
(* of the cursor.  Clients and connections are numbered in the order in    *)
(* which they connect; a packet is the number of the request it carries or *)
(* answers, and travels whole.                                             *)
(***************************************************************************)
EXTENDS UpkList, FiniteSets

CONSTANTS MaxClients,   \* bound: clients
          MaxRequests,  \* bound: requests of all clients, preambles included
          Requests      \* what a client may ask for after the preamble

(* "ignored" is a request the controller does not answer: a service it     *)
(* does not know, or a type of message without a handler (signal, status). *)
(* "badaction" is an action of a service that is none of start, stop and   *)
(* reload.  Both ends support the same version, so a preamble is answered. *)
RequestKinds == {"action", "badaction", "ignored", "disconnect"}

ASSUME ClientsAssumption == MaxClients \in 1 .. MaxNodes /\ MaxRequests \in Nat
ASSUME RequestsAssumption == Requests \subseteq RequestKinds

Client == 1 .. MaxClients

VARIABLES cl,       \* clients: new, wait (for a reply), idle, done (took leave) or gone
          asked,    \* the requests a client has made
          slow,     \* history: clients whose request has timed out
          opened,   \* how many clients have connected
          up, down, \* packets under way to the controller, and to the client
          taken,    \* how many connections were accepted
          conns,    \* clients: the list of connections of the controller
          open,     \* the connections with fd >= 0
          writeq,   \* handle->writeq
          pending,  \* pending_writeq of the global state
          pc,       \* where the controller is in its loop
          readable, writable,  \* what select() returned
          lost      \* history: the walk over closed connections has lost an open one

clientVars == <<cl, asked, slow, opened>>
ctrlVars == <<taken, conns, open, writeq, pending, pc, readable, writable, lost>>
sessVars == <<clientVars, up, down, ctrlVars>>

SessInit ==
  /\ cl = [k \in Client |-> "new"]
  /\ asked = [k \in Client |-> << >>]
  /\ slow = {}
  /\ opened = 0 /\ taken = 0
  /\ up = [k \in Client |-> << >>] /\ down = [k \in Client |-> << >>]
  /\ conns = EmptyList
  /\ open = {}
  /\ writeq = [k \in Client |-> EmptyList]
  /\ pending = 0
  /\ pc = "select"
  /\ readable = {} /\ writable = {}
  /\ lost = FALSE
-----------------------------------------------------------------------------
(* Clients. *)

Made == {r \in Client \X Ptr : r[2] <= Len(asked[r[1]])}

Ask(k, kind) ==
  /\ Cardinality(Made) < MaxRequests
  /\ asked' = [asked EXCEPT ![k] = Append(@, kind)]
  /\ up' = [up EXCEPT ![k] = Append(@, Len(asked[k]) + 1)]
  /\ cl' = [cl EXCEPT ![k] = "wait"]
  /\ UNCHANGED <<slow, down, ctrlVars>>

(* upk_clnet_ctrl_connect: the preamble is sent at once. *)
Connect ==
  /\ opened < MaxClients /\ pc # "crash"
  /\ opened' = opened + 1
  /\ Ask(opened', "preamble")

(* upk_clnet_serial_request: the packet is queued and written, since the   *)
(* socket has room for it.                                                 *)
Request(k, kind) ==
  /\ cl[k] = "idle"
  /\ Len(asked[k]) < MaxNodes
  /\ Ask(k, kind)
  /\ UNCHANGED opened

Current(k) == asked[k][Len(asked[k])]

(* A handshake without its reply is fatal, and a client that asks to       *)
(* disconnect hangs up whatever it is told.                                *)
After(k, answered) ==
  IF Len(asked[k]) = 1
    THEN IF answered THEN "idle" ELSE "gone"
    ELSE IF Current(k) # "disconnect" THEN "idle" ELSE IF answered THEN "done" ELSE "gone"

(* upk_net_block_until_msg returns with the first packet that comes. *)
Receive(k) ==
  /\ cl[k] = "wait" /\ down[k] # << >>
  /\ cl' = [cl EXCEPT ![k] = After(k, asked[k][Head(down[k])] = Current(k))]
  /\ down' = [down EXCEPT ![k] = Tail(@)]
  /\ UNCHANGED <<asked, slow, opened, up, ctrlVars>>

(* It gives up after 30 seconds. *)
Timeout(k) ==
  /\ cl[k] = "wait" /\ down[k] = << >>
  /\ cl' = [cl EXCEPT ![k] = After(k, FALSE)]
  /\ slow' = slow \cup {k}
  /\ UNCHANGED <<asked, opened, up, down, ctrlVars>>

(* The controller has closed the connection or died: the handle is         *)
(* unlinked and the client has nothing left to make a request with.        *)
EndOfFile(k) ==
  /\ cl[k] = "wait" /\ down[k] = << >>
  /\ pc = "crash" \/ (k <= taken /\ k \notin open)
  /\ cl' = [cl EXCEPT ![k] = "gone"]
  /\ UNCHANGED <<asked, slow, opened, up, down, ctrlVars>>

(* A client ends without taking leave. *)
Die(k) ==
  /\ cl[k] \in {"wait", "idle"}
  /\ cl' = [cl EXCEPT ![k] = "gone"]
  /\ UNCHANGED <<asked, slow, opened, up, down, ctrlVars>>

HungUp(k) == cl[k] \in {"done", "gone"}
-----------------------------------------------------------------------------
(* The controller. *)

(* ctrl_accept_conn: at most one connection that is waiting ... *)
Accept ==
  IF taken < opened
    THEN /\ taken' = taken + 1
         /\ conns' = ForeachInit(AppendNode(conns, taken + 1))
         /\ open' = open \cup {taken + 1}
    ELSE /\ conns' = ForeachInit(conns)
         /\ UNCHANGED <<taken, open>>

(* ... then upk_build_fd_sets and select: for writing only if a packet is  *)
(* pending.  The walk over the connections begins.                         *)
Select ==
  /\ pc = "select"
  /\ Accept
  /\ readable' = {k \in open' : up[k] # << >> \/ HungUp(k)}
  /\ writable' = IF pending > 0 THEN open' ELSE {}
  /\ pc' = "read"
  /\ UNCHANGED <<clientVars, up, down, writeq, pending, lost>>

(* Mutant: pending_writeq is not incremented. *)
MutantQueuePacket(k, p) ==
  /\ writeq' = [writeq EXCEPT ![k] = AppendNode(@, p)]
  /\ pending' = pending

(* upk_queue_packet *)
QueuePacket(k, p) ==
  /\ writeq' = [writeq EXCEPT ![k] = AppendNode(@, p)]
  /\ pending' = pending + 1

(* upk_read_packets: one packet, which is handed to its handler, or the    *)
(* end of the connection.  The handler of an action has no reply for an    *)
(* unknown one and passes NULL to upk_queue_packet.                        *)
ReadPackets ==
  /\ pc = "read" /\ conns.thisp # NULL
  /\ LET k == conns.thisp
         packet == k \in readable \cap open /\ up[k] # << >>
         kind == asked[k][Head(up[k])]
     IN  /\ up' = IF packet THEN [up EXCEPT ![k] = Tail(@)] ELSE up
         /\ open' = IF k \in readable /\ ~packet THEN open \ {k} ELSE open
         /\ pc' = IF packet /\ kind = "badaction" THEN "crash" ELSE "write"
         /\ IF packet /\ kind \in {"preamble", "action", "disconnect"}
              THEN QueuePacket(k, Head(up[k]))
              ELSE UNCHANGED <<writeq, pending>>
  /\ UNCHANGED <<clientVars, down, taken, conns, readable, writable, lost>>

(* Mutant: the shutdown callback runs before the packet is written. *)
MutantSend(k, p) ==
  /\ down' = IF asked[k][p] = "disconnect" THEN down ELSE [down EXCEPT ![k] = Append(@, p)]
  /\ open' = IF asked[k][p] = "disconnect" THEN open \ {k} ELSE open
  /\ writeq' = [writeq EXCEPT ![k] = Unlink(@)]
  /\ pending' = pending - 1

(* Mutant: the packet is not unlinked. *)
MutantSendAgain(k, p) ==
  /\ down' = [down EXCEPT ![k] = Append(@, p)]
  /\ open' = IF asked[k][p] = "disconnect" THEN open \ {k} ELSE open
  /\ UNCHANGED <<writeq, pending>>

(* Mutant: pending_writeq is not decremented. *)
MutantSendUncounted(k, p) ==
  /\ down' = [down EXCEPT ![k] = Append(@, p)]
  /\ open' = IF asked[k][p] = "disconnect" THEN open \ {k} ELSE open
  /\ writeq' = [writeq EXCEPT ![k] = Unlink(@)]
  /\ UNCHANGED pending

(* The packet is written, the callback of a disconnect closes the          *)
(* connection, and the packet is unlinked.                                 *)
Send(k, p) ==
  /\ down' = [down EXCEPT ![k] = Append(@, p)]
  /\ open' = IF asked[k][p] = "disconnect" THEN open \ {k} ELSE open
  /\ writeq' = [writeq EXCEPT ![k] = Unlink(@)]
  /\ pending' = pending - 1

(* upk_write_packets: the packet at the cursor of the write queue.  A      *)
(* failed write (-1, as a size_t) goes unnoticed and leaves it there.      *)
WritePackets ==
  /\ pc = "write"
  /\ LET k == conns.thisp
     IN  IF /\ k \in writable \cap open /\ ~HungUp(k)
            /\ writeq[k].count >= 1 /\ writeq[k].thisp # NULL
           THEN Send(k, writeq[k].thisp)
           ELSE UNCHANGED <<down, open, writeq, pending>>
  /\ conns' = ForeachContinue(conns)
  /\ pc' = "read"
  /\ UNCHANGED <<clientVars, up, taken, readable, writable, lost>>

(* The end of upk_net_event_dispatcher; upk_net_flush_closed_sockets walks *)
(* over the connections again ...                                          *)
DispatchEnd ==
  /\ pc = "read" /\ conns.thisp = NULL
  /\ conns' = ForeachInit(conns)
  /\ readable' = {} /\ writable' = {}
  /\ pc' = IF conns.head = NULL THEN "select" ELSE "prune"
  /\ UNCHANGED <<clientVars, up, down, taken, open, writeq, pending, lost>>

(* ... and unlinks the closed ones. *)
Prune ==
  /\ pc = "prune"
  /\ conns' = ForeachContinue(IF conns.thisp \in open THEN conns ELSE Unlink(conns))
  /\ lost' = (lost \/ (conns.thisp \notin open /\ conns.prevp = NULL /\ conns.thisp # conns.head))
  /\ pc' = IF conns.nextp = NULL THEN "select" ELSE "prune"
  /\ UNCHANGED <<clientVars, up, down, taken, open, writeq, pending, readable, writable>>

CtrlStep == Select \/ ReadPackets \/ WritePackets \/ DispatchEnd \/ Prune

ClientStep(k) ==
  \/ \E kind \in Requests : Request(k, kind)
  \/ Receive(k) \/ Timeout(k) \/ EndOfFile(k) \/ Die(k)

SessNext == Connect \/ CtrlStep \/ \E k \in Client : ClientStep(k)

SessSpec == SessInit /\ [][SessNext]_sessVars

(* The controller goes round its loop; all its waits are bounded. *)
SessFairSpec == SessSpec /\ WF_sessVars(CtrlStep)
-----------------------------------------------------------------------------
(* A client that has never given up on a request is only ever sent the     *)
(* reply to the request it is waiting for, and one reply to each: no       *)
(* answer can be taken for that of another request.                        *)
ReplyMatches ==
  \A k \in Client \ slow :
    /\ down[k] \in {<< >>, <<Len(asked[k])>>}
    /\ cl[k] = "idle" => down[k] = << >> /\ up[k] = << >> /\ writeq[k].live = {}

(* The controller does not hang up on a client that waits, unless it has   *)
(* told the client so: the shutdown callback of a disconnect comes after   *)
(* the reply was written.                                                  *)
LeaveTaken ==
  \A k \in Client \ slow : k <= taken /\ k \notin open /\ cl[k] = "wait" => down[k] # << >>

(* pending_writeq, which decides whether select looks for writability, is  *)
(* the number of packets queued on open connections, as long as clients    *)
(* wait for their replies.                                                 *)
PendingCounts ==
  (slow = {} /\ \A k \in Client : cl[k] # "gone")
    => pending = Cardinality({r \in open \X Ptr : r[2] \in writeq[r[1]].live})

(* A request that has a handler is answered, whatever the other clients    *)
(* do, unless the controller died of an unknown action or the connection   *)
(* was lost when others were unlinked.                                     *)
Answered ==
  \A k \in Client :
    (cl[k] = "wait" /\ Current(k) \in {"preamble", "action", "disconnect"})
      ~> (cl[k] # "wait" \/ down[k] # << >> \/ pc = "crash" \/ lost)
=============================================================================
