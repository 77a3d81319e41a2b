-------------------------- MODULE BuddyLink_proofs --------------------------
(***************************************************************************)
(* Proofs about the audit ring of buddy (module AuditRing), for every ring *)
(* size, any number of events and any controller, and about its            *)
(* conversation with the controller (module BuddyLink), for any number of  *)
(* connections.                                                            *)
(*                                                                         *)
(* The invariants of the ring follow from Window, which is inductive       *)
(* together with the position of a flush that is under way (FlushPos): the *)
(* node the flush is at lies in front of the window of populated nodes, or *)
(* is its first.                                                           *)
(*                                                                         *)
(* Every step of the conversation is one of the ring's, or leaves it       *)
(* alone.  What the conversation adds is which connection the bytes under  *)
(* way belong to (Connection), and that without a timeout there is never   *)
(* more under way than the one record buddy waits for or its               *)
(* acknowledgement (Exchange).                                             *)
(***************************************************************************)
EXTENDS BuddyLink, FiniteSetTheorems, TLAPS

(* Where a flush is: in the walk it has not passed the oldest event, it    *)
(* waits for the acknowledgement of the oldest event only, and it ends     *)
(* where it began.                                                         *)
FlushPos ==
  /\ pc = "walk" => \E k \in 1 .. RingSize : pending <= k /\ info = Back(thisp, k)
  /\ pc = "ack" => 1 <= pending /\ info = Back(thisp, pending)
  /\ pc = "close" => info = thisp

(* The inductive invariant. *)
IInv ==
  /\ TypeOK
  /\ pending <= recorded
  /\ Window
  /\ FlushPos
  /\ OverwrittenAreOld
-----------------------------------------------------------------------------
(* Stepping back from a node stays in the ring. *)
LEMMA BackInNode ==
  ASSUME NEW b \in Node, NEW k \in 1 .. RingSize
  PROVE  Back(b, k) \in Node
BY RingSizeAssumption DEF Back, Node

(* A whole round leads back to the node it began at. *)
LEMMA BackRound ==
  ASSUME NEW b \in Node
  PROVE  Back(b, RingSize) = b
BY RingSizeAssumption DEF Back, Node

(* Different distances lead to different nodes. *)
LEMMA BackInjective ==
  ASSUME NEW b \in Node, NEW j \in 1 .. RingSize, NEW k \in 1 .. RingSize,
         Back(b, j) = Back(b, k)
  PROVE  j = k
BY RingSizeAssumption DEF Back, Node

(* Every node is reached. *)
LEMMA BackOnto ==
  ASSUME NEW b \in Node, NEW i \in Node
  PROVE  \E k \in 1 .. RingSize : Back(b, k) = i
<1>1. CASE i < b
  <2>1. b - i \in 1 .. RingSize /\ Back(b, b - i) = i
    BY <1>1, RingSizeAssumption DEF Back, Node
  <2> QED BY <2>1
<1>2. CASE ~(i < b)
  <2>1. b - i + RingSize \in 1 .. RingSize /\ Back(b, b - i + RingSize) = i
    BY <1>2, RingSizeAssumption DEF Back, Node
  <2> QED BY <2>1
<1> QED BY <1>1, <1>2

(* The pointer to the next node moves one step towards the end of a walk. *)
LEMMA SuccBack ==
  ASSUME NEW b \in Node, NEW k \in 1 .. RingSize
  PROVE  /\ Succ(Back(b, k)) \in Node
         /\ k = 1 => Succ(Back(b, k)) = b
         /\ k > 1 => Succ(Back(b, k)) = Back(b, k - 1)
BY RingSizeAssumption DEF Back, Node, Succ

(* Seen from the next node, everything is one step further away. *)
LEMMA BackSucc ==
  ASSUME NEW b \in Node, NEW k \in 1 .. RingSize
  PROVE  /\ Succ(b) \in Node
         /\ k = 1 => Back(Succ(b), k) = b
         /\ k > 1 => Back(Succ(b), k) = Back(b, k - 1)
BY RingSizeAssumption DEF Back, Node, Succ
-----------------------------------------------------------------------------
(* The initial state satisfies the inductive invariant. *)
LEMMA InitIInv == Init => IInv
<1> SUFFICES ASSUME Init PROVE IInv
  OBVIOUS
<1>1. TypeOK
  <2>1. RingSize - 1 \in Node /\ slot \in [Node -> 0 .. MaxRecords]
    BY RingSizeAssumption, MaxRecordsAssumption DEF Init, Node, NoInfo
  <2>2. pending \in 0 .. RingSize /\ recorded \in 0 .. MaxRecords
    BY RingSizeAssumption, MaxRecordsAssumption DEF Init
  <2> QED BY <2>1, <2>2, Zenon DEF Init, TypeOK
<1>2. Window
  BY RingSizeAssumption, BackInNode DEF Init, Window, Base, Node, NoInfo
<1>3. pending <= recorded /\ FlushPos /\ OverwrittenAreOld
  BY DEF Init, FlushPos, OverwrittenAreOld
<1> QED BY <1>1, <1>2, <1>3 DEF IInv

(* What clearing the current node does to the count, outside a flush. *)
LEMMA ClearedAtBase ==
  ASSUME IInv, pc = "idle"
  PROVE  /\ slot[info] = IF pending = RingSize THEN recorded + 1 - RingSize ELSE NoInfo
         /\ PendingCleared = IF pending = RingSize THEN pending - 1 ELSE pending
<1>1. slot[info] = IF RingSize <= pending THEN recorded + 1 - RingSize ELSE NoInfo
  BY BackRound, RingSizeAssumption DEF IInv, TypeOK, Window, Base, Node
<1> QED
  BY <1>1, RingSizeAssumption, MaxRecordsAssumption
     DEF IInv, TypeOK, PendingCleared, NoInfo

(* Recording an event preserves the inductive invariant. *)
LEMMA RecordIInv == IInv /\ RecordState => IInv'
<1> SUFFICES ASSUME IInv, RecordState PROVE IInv'
  OBVIOUS
<1>a. pc = "idle" /\ pc' = "idle" /\ info' = Succ(info)
  BY DEF RecordState, flush
<1>b. info \in Node /\ slot \in [Node -> 0 .. MaxRecords]
  BY DEF IInv, TypeOK
<1>1. pending' = IF pending = RingSize THEN RingSize ELSE pending + 1
  BY <1>a, ClearedAtBase, RingSizeAssumption DEF RecordState, IInv, TypeOK
<1>2. recorded' = recorded + 1 /\ recorded' \in 1 .. MaxRecords
  BY MaxRecordsAssumption DEF RecordState, IInv, TypeOK
<1>3. overwritten' = overwritten \cup
                       (IF pending = RingSize THEN {recorded + 1 - RingSize} ELSE {})
  <2>1. CASE pending = RingSize
    <3>1. slot[info] = recorded + 1 - RingSize /\ slot[info] # NoInfo
      BY <1>a, <2>1, ClearedAtBase, RingSizeAssumption DEF IInv, TypeOK, NoInfo
    <3> QED BY <2>1, <3>1 DEF RecordState
  <2>2. CASE pending # RingSize
    <3>1. slot[info] = NoInfo
      BY <1>a, <2>2, ClearedAtBase
    <3> QED BY <2>2, <3>1 DEF RecordState
  <2> QED BY <2>1, <2>2
<1>4. TypeOK'
  <2>1. slot' \in [Node -> 0 .. MaxRecords]
    BY <1>2, <1>b DEF RecordState
  <2>2. info' \in Node
    BY <1>a, <1>b, BackSucc, RingSizeAssumption
  <2>3. pending' \in 0 .. RingSize
    BY <1>1, RingSizeAssumption DEF IInv, TypeOK
  <2>4. overwritten' \subseteq 1 .. MaxRecords
    <3>1. CASE pending = RingSize
      <4>1. recorded + 1 - RingSize \in 1 .. MaxRecords
        BY <3>1, <1>2, RingSizeAssumption, MaxRecordsAssumption DEF IInv, TypeOK
      <4> QED BY <3>1, <4>1, <1>3 DEF IInv, TypeOK
    <3>2. CASE pending # RingSize
      BY <3>2, <1>3 DEF IInv, TypeOK
    <3> QED BY <3>1, <3>2
  <2> QED
    BY <1>2, <2>1, <2>2, <2>3, <2>4 DEF IInv, TypeOK, RecordState, flush
<1>5. pending' <= recorded'
  BY <1>1, <1>2, RingSizeAssumption DEF IInv, TypeOK
<1>6. Window'
  <2> SUFFICES ASSUME NEW k \in 1 .. RingSize
               PROVE  slot'[Back(info', k)] =
                        IF k <= pending' THEN recorded' + 1 - k ELSE NoInfo
    BY <1>a DEF Window, Base, Back
  <2>1. CASE k = 1
    <3>1. Back(info', k) = info
      BY <2>1, <1>a, <1>b, BackSucc
    <3>2. slot'[info] = recorded + 1
      BY <1>b DEF RecordState
    <3>3. 1 <= pending' /\ recorded' + 1 - 1 = recorded + 1
      BY <1>1, <1>2, RingSizeAssumption DEF IInv, TypeOK
    <3> QED
      BY <3>1, <3>2, <3>3, <2>1
  <2>2. CASE k > 1
    <3>1. k - 1 \in 1 .. RingSize /\ k - 1 # RingSize
      BY <2>2, RingSizeAssumption
    <3>2. Back(info', k) = Back(info, k - 1)
      BY <2>2, <1>a, <1>b, BackSucc
    <3>3. Back(info, k - 1) \in Node /\ Back(info, k - 1) # info
      BY <3>1, <1>b, BackInNode, BackInjective, BackRound, RingSizeAssumption
    <3>4. slot'[Back(info, k - 1)] = slot[Back(info, k - 1)]
      BY <3>3, <1>b DEF RecordState
    <3>5. slot[Back(info, k - 1)] =
            IF k - 1 <= pending THEN recorded + 1 - (k - 1) ELSE NoInfo
      BY <3>1, <1>a DEF IInv, Window, Base
    <3> QED
      BY <3>2, <3>4, <3>5, <1>1, <1>2, RingSizeAssumption DEF IInv, TypeOK
  <2> QED BY <2>1, <2>2
<1>7. FlushPos'
  BY <1>a DEF FlushPos
<1>8. OverwrittenAreOld'
  <2> SUFFICES ASSUME NEW r \in overwritten' PROVE r + RingSize <= recorded'
    BY DEF OverwrittenAreOld
  <2>1. CASE r \in overwritten
    <3>1. r \in Nat /\ r + RingSize <= recorded
      BY <2>1 DEF IInv, TypeOK, OverwrittenAreOld
    <3> QED BY <3>1, <1>2, RingSizeAssumption DEF IInv, TypeOK
  <2>2. CASE r \notin overwritten
    <3>1. r = recorded + 1 - RingSize
      BY <2>2, <1>3
    <3> QED BY <3>1, <1>2, RingSizeAssumption DEF IInv, TypeOK
  <2> QED BY <2>1, <2>2
<1> QED BY <1>4, <1>5, <1>6, <1>7, <1>8 DEF IInv

(* What the flush finds in the node it is at. *)
LEMMA AtNode ==
  ASSUME IInv, NEW k \in 1 .. RingSize, pc # "idle", info = Back(thisp, k)
  PROVE  /\ slot[info] = IF k <= pending THEN recorded + 1 - k ELSE NoInfo
         /\ slot[info] # NoInfo <=> k <= pending
BY DEF IInv, TypeOK, Window, Base, NoInfo

(* Neither the node behind the walk nor the window changes when the flush  *)
(* passes over an empty node.                                              *)
LEMMA SkipIInv == IInv /\ SkipEmpty => IInv'
<1> SUFFICES ASSUME IInv, SkipEmpty PROVE IInv'
  OBVIOUS
<1>1. PICK k \in 1 .. RingSize : pending <= k /\ info = Back(thisp, k)
  BY DEF IInv, FlushPos, SkipEmpty
<1>2. thisp \in Node /\ info' = Succ(info) /\ thisp' = thisp /\ pending' = pending
  BY DEF IInv, TypeOK, SkipEmpty, Advance
<1>3. pending < k
  <2>1. ~(k <= pending)
    BY <1>1, AtNode DEF SkipEmpty
  <2> QED BY <2>1, RingSizeAssumption DEF IInv, TypeOK
<1>4. FlushPos'
  <2>1. CASE k = 1
    <3>1. info' = thisp' /\ pc' = "close"
      BY <2>1, <1>1, <1>2, SuccBack DEF SkipEmpty, Advance
    <3> QED BY <3>1 DEF FlushPos
  <2>2. CASE k > 1
    <3>1. k - 1 \in 1 .. RingSize /\ pending' <= k - 1 /\ k - 1 # RingSize
      BY <2>2, <1>2, <1>3, RingSizeAssumption DEF IInv, TypeOK
    <3>2. info' = Back(thisp, k - 1)
      BY <2>2, <1>1, <1>2, SuccBack
    <3>3. info' # thisp
      BY <3>1, <3>2, <1>2, BackRound, BackInjective, RingSizeAssumption
    <3>4. pc' = "walk"
      BY <3>3 DEF SkipEmpty, Advance
    <3> QED BY <3>1, <3>2, <3>4, <1>2 DEF FlushPos, Back
  <2> QED BY <2>1, <2>2
<1>5. TypeOK'
  <2>1. info' \in Node
    BY <1>1, <1>2, SuccBack
  <2>2. pc' \in {"idle", "walk", "ack", "close"}
    BY DEF SkipEmpty, Advance
  <2> QED BY <2>1, <2>2 DEF IInv, TypeOK, SkipEmpty, history
<1>6. Base' = Base /\ pc # "idle" /\ pc' # "idle"
  BY DEF SkipEmpty, Advance, Base
<1> QED
  BY <1>4, <1>5, <1>6 DEF IInv, Window, OverwrittenAreOld, SkipEmpty, history, Back

(* A flush that gives up is back where it began, with its window intact. *)
LEMMA WriteIInv ==
  ASSUME NEW o \in Outcome, IInv, WriteCtrl(o)
  PROVE  IInv'
<1>1. PICK k \in 1 .. RingSize : pending <= k /\ info = Back(thisp, k)
  BY DEF IInv, FlushPos, WriteCtrl
<1>2. k = pending
  <2>1. k <= pending
    BY <1>1, AtNode DEF WriteCtrl
  <2> QED BY <2>1, <1>1, RingSizeAssumption DEF IInv, TypeOK
<1>3. FlushPos'
  BY <1>1, <1>2, RingSizeAssumption DEF FlushPos, WriteCtrl, GiveUp, Back
<1>4. TypeOK'
  BY Zenon DEF IInv, TypeOK, WriteCtrl, GiveUp, history
<1>5. Base' = Base
  BY DEF WriteCtrl, GiveUp, Base
<1> QED
  BY <1>3, <1>4, <1>5 DEF IInv, Window, OverwrittenAreOld, WriteCtrl, history, Back

(* What a confirmation clears is the oldest event of the window. *)
LEMMA AtAck ==
  ASSUME IInv, pc = "ack"
  PROVE  /\ pending \in 1 .. RingSize
         /\ slot[info] = recorded + 1 - pending
         /\ slot[info] \in 1 .. MaxRecords
         /\ PendingCleared = pending - 1
<1>1. pending \in 1 .. RingSize /\ info = Back(thisp, pending)
  BY RingSizeAssumption DEF IInv, TypeOK, FlushPos
<1>2. slot[info] = recorded + 1 - pending
  BY <1>1, AtNode
<1>3. slot[info] \in 1 .. MaxRecords
  BY <1>1, <1>2, RingSizeAssumption, MaxRecordsAssumption DEF IInv, TypeOK
<1> QED
  BY <1>1, <1>2, <1>3, RingSizeAssumption DEF PendingCleared, NoInfo

(* An acknowledgement, taken or missing, preserves the inductive invariant. *)
LEMMA ReadAckIInv ==
  ASSUME NEW o \in Outcome, IInv, ReadAck(o)
  PROVE  IInv'
<1>1. pc = "ack" /\ thisp' = thisp /\ recorded' = recorded /\ overwritten' = overwritten
  BY DEF ReadAck
<1>2. pending \in 1 .. RingSize /\ info = Back(thisp, pending) /\ info \in Node
      /\ thisp \in Node
  BY <1>1, AtAck DEF IInv, TypeOK, FlushPos
<1>3. pc' # "idle" /\ Base' = Base /\ Base = thisp
  BY <1>1 DEF ReadAck, Advance, GiveUp, Base
<1>4. nread' \in BOOLEAN /\ ack' \in BOOLEAN /\ nwrote' \in BOOLEAN /\ late' \in BOOLEAN
  BY Zenon DEF ReadAck, IInv, TypeOK
<1>5. acked' \subseteq 1 .. MaxRecords
  BY <1>1, AtAck DEF ReadAck, IInv, TypeOK
<1>6. CASE /\ pending' = PendingCleared
           /\ slot' = [slot EXCEPT ![info] = NoInfo]
           /\ Advance
  <2>1. pending' = pending - 1 /\ pending' \in 0 .. RingSize
    BY <1>1, <1>2, <1>6, AtAck, RingSizeAssumption
  <2>2. Window'
    <3> SUFFICES ASSUME NEW k \in 1 .. RingSize
                 PROVE  slot'[Back(thisp, k)] =
                          IF k <= pending' THEN recorded + 1 - k ELSE NoInfo
      BY <1>1, <1>3 DEF Window, Back
    <3>1. Back(thisp, k) \in Node /\ slot \in [Node -> 0 .. MaxRecords]
      BY <1>2, BackInNode DEF IInv, TypeOK
    <3>2. slot[Back(thisp, k)] = IF k <= pending THEN recorded + 1 - k ELSE NoInfo
      BY <1>3 DEF IInv, Window
    <3>3. CASE k = pending
      <4>1. slot'[Back(thisp, k)] = NoInfo
        BY <3>1, <3>3, <1>2, <1>6
      <4> QED BY <4>1, <3>3, <2>1, <1>2
    <3>4. CASE k # pending
      <4>1. Back(thisp, k) # info
        BY <3>4, <1>2, BackInjective
      <4>2. slot'[Back(thisp, k)] = slot[Back(thisp, k)]
        BY <4>1, <3>1, <1>2, <1>6
      <4>3. k <= pending' <=> k <= pending
        BY <3>4, <2>1, <1>2
      <4> QED BY <4>2, <4>3, <3>2
    <3> QED BY <3>3, <3>4
  <2>3. info' = Succ(info) /\ info' \in Node
    BY <1>2, <1>6, SuccBack DEF Advance
  <2>4. FlushPos'
    <3>1. CASE pending = 1
      <4>1. info' = thisp' /\ pc' = "close"
        BY <3>1, <2>3, <1>1, <1>2, <1>6, SuccBack DEF Advance
      <4> QED BY <4>1 DEF FlushPos
    <3>2. CASE pending > 1
      <4>1. pending - 1 \in 1 .. RingSize /\ pending' <= pending - 1
            /\ pending - 1 # RingSize
        BY <3>2, <2>1, <1>2, RingSizeAssumption
      <4>2. info' = Back(thisp, pending - 1)
        BY <3>2, <2>3, <1>2, SuccBack
      <4>3. info' # thisp
        BY <4>1, <4>2, <1>2, BackRound, BackInjective, RingSizeAssumption
      <4>4. pc' = "walk"
        BY <4>3, <1>6 DEF Advance
      <4> QED BY <4>1, <4>2, <4>4, <1>1 DEF FlushPos, Back
    <3> QED BY <3>1, <3>2, <1>2
  <2>5. slot' \in [Node -> 0 .. MaxRecords]
    BY <1>2, <1>6, MaxRecordsAssumption DEF IInv, TypeOK, NoInfo
  <2>6. pc' \in {"idle", "walk", "ack", "close"}
    BY <1>6 DEF Advance
  <2>7. TypeOK'
    BY <1>1, <1>4, <1>5, <2>1, <2>3, <2>5, <2>6, Zenon DEF IInv, TypeOK
  <2>8. pending' <= recorded' /\ OverwrittenAreOld'
    BY <1>1, <1>2, <2>1 DEF IInv, TypeOK, OverwrittenAreOld
  <2> QED BY <2>2, <2>4, <2>7, <2>8 DEF IInv
<1>7. CASE GiveUp /\ UNCHANGED <<slot, pending>>
  <2>1. FlushPos'
    BY <1>1, <1>7 DEF FlushPos, GiveUp
  <2>2. TypeOK'
    BY <1>1, <1>2, <1>4, <1>5, <1>7, Zenon DEF IInv, TypeOK, GiveUp
  <2> QED
    BY <1>1, <1>3, <1>7, <2>1, <2>2 DEF IInv, Window, OverwrittenAreOld, Back
<1> QED BY <1>6, <1>7 DEF ReadAck
-----------------------------------------------------------------------------
(* The invariant is inductive: one step per action. *)
LEMMA NextIInv == IInv /\ [Next]_vars => IInv'
<1> SUFFICES ASSUME IInv, [Next]_vars PROVE IInv'
  OBVIOUS
<1>1. CASE RecordState
  BY <1>1, RecordIInv
<1>2. ASSUME NEW g \in BOOLEAN, ReadCommand(g) PROVE IInv'
  <2>1. TypeOK'
    BY <1>2, Zenon DEF IInv, TypeOK, ReadCommand, ring, history
  <2> QED
    BY <1>2, <2>1 DEF IInv, Window, Base, Back, FlushPos, OverwrittenAreOld,
                      ReadCommand, ring, history
<1>3. CASE FlushBegin
  <2>1. TypeOK'
    BY <1>3, Zenon DEF IInv, TypeOK, FlushBegin, ring, history
  <2>2. FlushPos'
    <3>1. RingSize \in 1 .. RingSize /\ pending' <= RingSize /\ info' = Back(thisp', RingSize)
      BY <1>3, BackRound, RingSizeAssumption DEF IInv, TypeOK, FlushBegin, ring
    <3> QED BY <3>1, <1>3 DEF FlushPos, FlushBegin, Back
  <2> QED
    BY <1>3, <2>1, <2>2 DEF IInv, Window, Base, Back, OverwrittenAreOld,
                            FlushBegin, ring, history
<1>4. CASE SkipEmpty
  BY <1>4, SkipIInv
<1>5. ASSUME NEW o \in Outcome, WriteCtrl(o) PROVE IInv'
  BY <1>5, WriteIInv
<1>6. ASSUME NEW o \in Outcome, ReadAck(o) PROVE IInv'
  BY <1>6, ReadAckIInv
<1>7. CASE FlushEnd
  <2>1. TypeOK'
    BY <1>7, Zenon DEF IInv, TypeOK, FlushEnd, ring, history
  <2>2. Base' = Base
    BY <1>7 DEF IInv, FlushPos, Base, FlushEnd, ring
  <2> QED
    BY <1>7, <2>1, <2>2 DEF IInv, Window, Back, FlushPos, OverwrittenAreOld,
                            FlushEnd, ring, history
<1>8. CASE UNCHANGED vars
  BY <1>8 DEF IInv, TypeOK, Window, Base, Back, FlushPos, OverwrittenAreOld,
              vars, ring, flush, history
<1> QED
  BY <1>1, <1>2, <1>3, <1>4, <1>5, <1>6, <1>7, <1>8 DEF Next, FlushStep

(* The inductive invariant holds in every reachable state. *)
THEOREM Inductive == Spec => []IInv
BY InitIInv, NextIInv, PTL DEF Spec
-----------------------------------------------------------------------------
(* Type correctness of the audit ring (controller/buddy.c:112-120, 436-500, *)
(* 1008-1056): no pointer leaves the ring and ringbuffer_pending stays      *)
(* between 0 and ringbuffer_size.                                           *)
THEOREM TypeCorrect == Spec => []TypeOK
BY Inductive, PTL DEF IInv

(* buddy_record_state, buddy_zero_info and buddy_flush_ringbuffer keep the *)
(* most recent events in order in the nodes before the one written next.   *)
THEOREM WindowAlways == Spec => []Window
BY Inductive, PTL DEF IInv

(* buddy_record_state displaces no event that is among the ringbuffer_size *)
(* most recent ones.                                                       *)
THEOREM OverwrittenAlways == Spec => []OverwrittenAreOld
BY Inductive, PTL DEF IInv

(* buddy_flush_ringbuffer is never at an event while an older one waits. *)
THEOREM OldestFirstAlways == Spec => []OldestFirst
<1>1. IInv => OldestFirst
  <2> SUFFICES ASSUME IInv, pc \in {"walk", "ack"}, slot[info] # NoInfo
               PROVE  slot[info] = recorded + 1 - pending
    BY DEF OldestFirst
  <2>1. CASE pc = "ack"
    BY <2>1, AtAck
  <2>2. CASE pc = "walk"
    <3>1. PICK k \in 1 .. RingSize : pending <= k /\ info = Back(thisp, k)
      BY <2>2 DEF IInv, FlushPos
    <3>2. k <= pending /\ slot[info] = recorded + 1 - k
      BY <3>1, <2>2, AtNode
    <3> QED BY <3>1, <3>2, RingSizeAssumption DEF IInv, TypeOK
  <2> QED BY <2>1, <2>2
<1> QED BY <1>1, Inductive, PTL

(* ringbuffer_pending, which two functions of controller/buddy.c adjust,   *)
(* is the number of populated nodes in every reachable state.              *)
THEOREM PendingExactAlways == Spec => []PendingExact
<1>1. IInv => PendingExact
  <2> SUFFICES ASSUME IInv PROVE PendingExact
    OBVIOUS
  <2> DEFINE Used == {i \in Node : slot[i] # NoInfo}
             f == [k \in 1 .. pending |-> Back(Base, k)]
  <2>1. pending \in Nat /\ Base \in Node /\ 1 .. pending \subseteq 1 .. RingSize
    BY RingSizeAssumption DEF IInv, TypeOK, Base
  <2>2. \A k \in 1 .. RingSize : slot[Back(Base, k)] # NoInfo <=> k <= pending
    BY DEF IInv, TypeOK, Window, NoInfo
  <2>3. f \in Bijection(1 .. pending, Used)
    <3>1. \A k \in 1 .. pending : Back(Base, k) \in Used
      BY <2>1, <2>2, BackInNode
    <3>2. \A j, k \in 1 .. pending : Back(Base, j) = Back(Base, k) => j = k
      BY <2>1, BackInjective
    <3>3. \A i \in Used : \E k \in 1 .. pending : Back(Base, k) = i
      <4> SUFFICES ASSUME NEW i \in Used PROVE \E k \in 1 .. pending : Back(Base, k) = i
        OBVIOUS
      <4>1. PICK k \in 1 .. RingSize : Back(Base, k) = i
        BY <2>1, BackOnto
      <4>2. k \in 1 .. pending
        BY <4>1, <2>1, <2>2
      <4> QED BY <4>1, <4>2
    <3>4. f \in [1 .. pending -> Used]
      BY <3>1
    <3>5. \A j, k \in 1 .. pending : f[j] = f[k] => j = k
      BY <3>2
    <3>6. \A i \in Used : \E k \in 1 .. pending : f[k] = i
      BY <3>3
    <3> HIDE DEF f, Used
    <3> QED BY <3>4, <3>5, <3>6 DEF Bijection, Injection, Surjection, IsInjective
  <2>4. ExistsBijection(1 .. pending, Used)
    BY <2>3 DEF ExistsBijection
  <2>5. Cardinality(Used) = pending
    BY <2>1, <2>4, FS_CountingElements
  <2> QED BY <2>5 DEF PendingExact
<1> QED BY <1>1, Inductive, PTL
-----------------------------------------------------------------------------
(* The n most recent of m events, oldest first. *)
Recent(n, m) == [k \in 1 .. n |-> m - n + k]

(* What the queue operations do to a run of consecutive numbers. *)
LEMMA RecentOps ==
  ASSUME NEW n \in Nat, NEW m \in Nat
  PROVE  /\ Recent(n, m) \in Seq(Int)
         /\ Len(Recent(n, m)) = n
         /\ Recent(0, m) = << >>
         /\ Append(Recent(n, m), m + 1) = Recent(n + 1, m + 1)
         /\ n > 0 => /\ Recent(n, m) # << >>
                     /\ Head(Recent(n, m)) = m + 1 - n
                     /\ Tail(Recent(n, m)) = Recent(n - 1, m)
<1>1. Recent(n, m) \in Seq(Int) /\ Len(Recent(n, m)) = n
  BY DEF Recent
<1>2. Recent(0, m) = << >>
  BY DEF Recent
<1>3. Append(Recent(n, m), m + 1) = Recent(n + 1, m + 1)
  <2>1. Append(Recent(n, m), m + 1) =
          [k \in 1 .. n + 1 |-> IF k = n + 1 THEN m + 1 ELSE Recent(n, m)[k]]
    BY <1>1
  <2>2. \A k \in 1 .. n + 1 :
          (IF k = n + 1 THEN m + 1 ELSE Recent(n, m)[k]) = m + 1 - (n + 1) + k
    BY DEF Recent
  <2>3. Recent(n + 1, m + 1) = [k \in 1 .. n + 1 |-> m + 1 - (n + 1) + k]
    BY DEF Recent
  <2> QED BY <2>1, <2>2, <2>3
<1>4. ASSUME n > 0
      PROVE  /\ Recent(n, m) # << >>
             /\ Head(Recent(n, m)) = m + 1 - n
             /\ Tail(Recent(n, m)) = Recent(n - 1, m)
  <2>1. Recent(n, m) # << >> /\ Head(Recent(n, m)) = m + 1 - n
    BY <1>1, <1>4 DEF Recent
  <2>2. Tail(Recent(n, m)) = Recent(n - 1, m)
    BY <1>1, <1>4 DEF Recent
  <2> QED BY <2>1, <2>2
<1> QED BY <1>1, <1>2, <1>3, <1>4

(* The contents of the ring in closed form. *)
LEMMA ContentsRecent == IInv => Contents = Recent(pending, recorded)
<1> SUFFICES ASSUME IInv PROVE Contents = Recent(pending, recorded)
  OBVIOUS
<1>1. \A k \in 1 .. pending :
        slot[Back(Base, pending + 1 - k)] = recorded - pending + k
  <2> SUFFICES ASSUME NEW k \in 1 .. pending
               PROVE  slot[Back(Base, pending + 1 - k)] = recorded - pending + k
    OBVIOUS
  <2>1. pending + 1 - k \in 1 .. RingSize /\ pending + 1 - k <= pending
    BY RingSizeAssumption DEF IInv, TypeOK
  <2>2. slot[Back(Base, pending + 1 - k)] = recorded + 1 - (pending + 1 - k)
    BY <2>1 DEF IInv, Window
  <2> QED BY <2>2 DEF IInv, TypeOK
<1> QED BY <1>1 DEF Contents, Recent

(* The ring and its flush implement the bounded queue of                   *)
(* AuditQueue: buddy_record_state is Record, an acknowledgement read by    *)
(* buddy_flush_ringbuffer is Confirm, and a select of it that times out is *)
(* Late: what the stale result then clears is still the oldest event.      *)
THEOREM Refinement == Spec => QueueSpec
<1>1. Init => Queue!Init
  <2> SUFFICES ASSUME Init PROVE Queue!Init
    OBVIOUS
  <2>1. IInv
    BY InitIInv
  <2>2. Contents = Recent(pending, recorded)
    BY <2>1, ContentsRecent
  <2>3. Contents = << >>
    BY <2>2, RecentOps DEF Init
  <2> QED BY <2>3 DEF Init, Queue!Init
<1>a. IInv' => (Contents = Recent(pending, recorded))'
  BY ContentsRecent, PTL
<1>2. IInv /\ IInv' /\ [Next]_vars => [Queue!Next]_(Queue!vars)
  <2> SUFFICES ASSUME IInv, IInv', [Next]_vars
               PROVE  [Queue!Next]_(Queue!vars)
    OBVIOUS
  <2>1. Contents = Recent(pending, recorded) /\ pending \in Nat /\ recorded \in Nat
    BY ContentsRecent DEF IInv, TypeOK
  <2>2. Contents' = Recent(pending', recorded')
    BY <1>a DEF Recent
  <2>3. ASSUME UNCHANGED <<pending, recorded, acked, late>>
        PROVE  UNCHANGED Queue!vars
    BY <2>1, <2>2, <2>3 DEF Queue!vars
  <2>4. CASE RecordState
    <3>1. pending' = IF pending = RingSize THEN RingSize ELSE pending + 1
      BY <2>4, ClearedAtBase, RingSizeAssumption DEF RecordState, IInv, TypeOK
    <3>2. recorded' = recorded + 1 /\ acked' = acked /\ late' = late
      BY <2>4 DEF RecordState
    <3>3. Contents' = Append(IF Len(Contents) = RingSize THEN Tail(Contents) ELSE Contents,
                             recorded')
      <4>1. Len(Contents) = pending
        BY <2>1, RecentOps
      <4>2. CASE pending = RingSize
        <5>1. Tail(Contents) = Recent(pending - 1, recorded) /\ pending - 1 \in Nat
          <6>1. pending > 0 /\ pending - 1 \in Nat
            BY <4>2, RingSizeAssumption
          <6> QED BY <6>1, <2>1, RecentOps
        <5>2. Append(Recent(pending - 1, recorded), recorded + 1)
                = Recent(pending - 1 + 1, recorded + 1)
          BY <5>1, <2>1, RecentOps
        <5>3. pending' = pending - 1 + 1
          BY <4>2, <3>1, RingSizeAssumption
        <5> QED BY <4>1, <4>2, <5>1, <5>2, <5>3, <3>2, <2>2
      <4>3. CASE pending # RingSize
        <5>1. Append(Contents, recorded') = Recent(pending + 1, recorded + 1)
          BY <3>2, <2>1, RecentOps
        <5>2. Contents' = Recent(pending + 1, recorded + 1)
          BY <4>3, <3>1, <3>2, <2>2
        <5> QED BY <5>1, <5>2, <4>1, <4>3
      <4> QED BY <4>2, <4>3
    <3> QED BY <3>2, <3>3 DEF Queue!Next, Queue!Record
  <2>5. ASSUME NEW o \in Outcome, ReadAck(o)
        PROVE  [Queue!Next]_(Queue!vars)
    <3>1. /\ pc = "ack"
          /\ recorded' = recorded
      BY <2>5 DEF ReadAck
    <3>2. CASE o = "ok"
      <4>1. /\ pending' = pending - 1 /\ pending > 0
            /\ acked' = acked \cup {slot[info]} /\ late' = late
        <5>1. nread' /\ ack'
          BY <2>5, <3>2, Zenon DEF ReadAck
        <5>2. /\ pending' = PendingCleared
              /\ acked' = acked \cup {slot[info]}
              /\ late' = late
          BY <2>5, <3>2, <5>1, Zenon DEF ReadAck, Confirmed, IInv, TypeOK
        <5> QED BY <5>2, <3>1, AtAck
      <4>2. slot[info] = Head(Contents) /\ Contents # << >>
        BY <4>1, <3>1, <2>1, AtAck, RecentOps
      <4>3. Contents' = Tail(Contents)
        BY <4>1, <3>1, <2>1, <2>2, RecentOps
      <4> QED BY <4>1, <4>2, <4>3, <3>1 DEF Queue!Next, Queue!Confirm
    <3>3. CASE o = "fail"
      <4>1. ~nread' /\ late' = late /\ acked' = acked
        BY <2>5, <3>3, Zenon DEF ReadAck, IInv, TypeOK
      <4>2. pending' = pending
        BY <2>5, <4>1, Zenon DEF ReadAck, Confirmed
      <4> QED BY <4>1, <4>2, <3>1, <2>3
    <3>4. CASE o = "timeout"
      <4>1. late' = TRUE /\ acked' = acked
        BY <2>5, <3>4, Zenon DEF ReadAck
      <4>2. pending' = pending \/ pending' = PendingCleared
        BY <2>5, Zenon DEF ReadAck
      <4>3. CASE pending' = pending
        <5>1. Contents' = Contents
          BY <4>3, <3>1, <2>1, <2>2
        <5> QED BY <5>1, <4>1, <3>1 DEF Queue!Next, Queue!Late
      <4>4. CASE pending' = PendingCleared
        <5>1. pending' = pending - 1 /\ pending > 0
          BY <4>4, <3>1, AtAck
        <5>2. Contents # << >> /\ Contents' = Tail(Contents)
          BY <5>1, <3>1, <2>1, <2>2, RecentOps
        <5> QED BY <5>2, <4>1, <3>1 DEF Queue!Next, Queue!Late
      <4> QED BY <4>2, <4>3, <4>4
    <3> QED BY <3>2, <3>3, <3>4, <2>5 DEF Outcome
  <2>6. CASE FlushBegin \/ SkipEmpty \/ FlushEnd \/ UNCHANGED vars
    BY <2>3, <2>6 DEF FlushBegin, SkipEmpty, FlushEnd, vars, ring, history
  <2>7. ASSUME NEW g \in BOOLEAN, ReadCommand(g) PROVE UNCHANGED Queue!vars
    BY <2>3, <2>7 DEF ReadCommand, ring, history
  <2>8. ASSUME NEW o \in Outcome, WriteCtrl(o)
        PROVE  [Queue!Next]_(Queue!vars)
    <3>1. UNCHANGED <<pending, recorded, acked>>
      BY <2>8 DEF WriteCtrl
    <3>2. Contents' = Contents
      BY <3>1, <2>1, <2>2
    <3>3. CASE o = "timeout"
      <4>1. late' = TRUE
        BY <2>8, <3>3, Zenon DEF WriteCtrl
      <4> QED BY <4>1, <3>1, <3>2 DEF Queue!Next, Queue!Late
    <3>4. CASE o # "timeout"
      <4>1. late' = late
        BY <2>8, <3>4, Zenon DEF WriteCtrl, IInv, TypeOK
      <4> QED BY <4>1, <3>1, <2>3
    <3> QED BY <3>3, <3>4
  <2> QED
    BY <2>4, <2>5, <2>6, <2>7, <2>8 DEF Next, FlushStep
<1> QED
  BY <1>1, <1>2, Inductive, PTL DEF Spec, QueueSpec, Queue!Spec
-----------------------------------------------------------------------------
(* The conversation. *)

(* The controller has one connection at a time, and hangs up each once. *)
Sessions ==
  /\ ctl \in {"idle", "connected", "reading", "acking", "lastack", "closing"}
  /\ opened \in 0 .. MaxSessions
  /\ sent \subseteq 1 .. opened
  /\ hung \subseteq 1 .. opened
  /\ ctl # "idle" => opened > 0 /\ opened \notin hung

(* buddy_ctrlfd is the last connection accepted, or that of a buddy on its *)
(* way out that phones home; buddy flushes only with a connection.         *)
Connection ==
  /\ loop \in {"wait", "busy", "exit", "dead"}
  /\ taken \in 0 .. opened
  /\ cur \in {0, taken, Home}
  /\ cur = Home => loop = "exit"
  /\ loop = "busy" => cur # 0 /\ cur = taken /\ cur \in handled
  /\ pc # "idle" => loop \in {"busy", "exit"} /\ cur # 0
  /\ dropped \subseteq 1 .. taken \cup {Home}
  /\ cur # taken => taken = 0 \/ taken \in dropped
  /\ cur = taken => cur \notin dropped

(* Why buddy closed a connection.  One that was hung up without a command  *)
(* never gets one.                                                         *)
Explained ==
  \A s \in dropped \ {Home} :
    s \in handled \/ s < taken \/ loop \in {"exit", "dead"} \/ s \in hung \ sent

(* What is under way: an acknowledgement that was sent for the record      *)
(* buddy waits for, or this record, or nothing.  Between the read and the  *)
(* acknowledgement the record is in the hands of the controller only.      *)
Exchange ==
  /\ acks \in {0, 1}
  /\ acks = 1 => /\ cur = taken /\ cur # 0
                 /\ pc = "ack" /\ slot[info] \in got /\ wire = << >>
  /\ wire # << >> => /\ cur = taken /\ cur # 0 /\ cur \notin hung
                     /\ pc = "ack" /\ wire = <<Message>> /\ acks = 0
  /\ ctl \in {"acking", "lastack"} =>
       \/ opened \in dropped
       \/ /\ cur = opened /\ cur = taken
          /\ pc = "ack" /\ slot[info] \in got /\ wire = << >> /\ acks = 0

LinkInv ==
  /\ IInv
  /\ Sessions
  /\ Connection
  /\ Explained
  /\ late \/ Exchange
  /\ Delivered
-----------------------------------------------------------------------------
(* Every step of the conversation is a step of the ring or leaves it       *)
(* alone: what the socket calls report here they may report there.         *)
LEMMA RingStep == ASSUME [LinkNext]_linkVars PROVE [Next]_vars
<1>1. CASE BuddyConnect \/ ControllerStep \/ Crash \/ Terminate \/ UNCHANGED linkVars
  <2>1. UNCHANGED vars
    BY <1>1 DEF BuddyConnect, ControllerStep, SendCmd, ReadState, WriteAck, ReadTimeout, Close, Crash,
                HangUp, Terminate, linkVars
  <2> QED BY <2>1
<1>2. CASE Record
  BY <1>2 DEF Record, Next
<1>3. CASE Accept \/ PhoneHome \/ NoFlush
  <2>1. UNCHANGED vars
    BY <1>3 DEF Accept, PhoneHome, NoFlush
  <2> QED BY <2>1
<1>4. CASE TakeCommand \/ ReadEnd
  <2>1. ReadCommand(TRUE) \/ ReadCommand(FALSE)
    BY <1>4 DEF TakeCommand, ReadEnd
  <2>2. \E g \in BOOLEAN : ReadCommand(g)
    BY <2>1
  <2> QED BY <2>2 DEF Next
<1>5. CASE StartFlush \/ Skip \/ EndFlush
  <2>1. FlushBegin \/ SkipEmpty \/ FlushEnd
    BY <1>5 DEF StartFlush, Skip, EndFlush
  <2> QED BY <2>1 DEF Next, FlushStep
<1>6. CASE Write
  <2>1. \E o \in Outcome : WriteCtrl(o)
    BY <1>6 DEF Write, Outcome
  <2> QED BY <2>1 DEF Next, FlushStep
<1>7. CASE Acknowledged
  <2>1. \E o \in Outcome : ReadAck(o)
    BY <1>7 DEF Acknowledged, Outcome
  <2> QED BY <2>1 DEF Next, FlushStep
<1> QED BY <1>1, <1>2, <1>3, <1>4, <1>5, <1>6, <1>7 DEF LinkNext, BuddyStep

(* The conversation starts with nothing said. *)
LEMMA InitLink == LinkInit => LinkInv
<1> SUFFICES ASSUME LinkInit PROVE LinkInv
  OBVIOUS
<1>1. IInv
  BY InitIInv DEF LinkInit
<1>2. Sessions /\ Connection /\ Explained /\ Exchange
  BY MaxSessionsAssumption DEF LinkInit, Init, Sessions, Connection, Explained, Exchange, Home
<1>3. Delivered
  BY DEF LinkInit, Init, Delivered, Accounted
<1> QED BY <1>1, <1>2, <1>3 DEF LinkInv
-----------------------------------------------------------------------------
(* The steps of the controller: only a record that was read changes what   *)
(* is under way, and its acknowledgement takes its place, if it is sent.   *)
LEMMA ControllerLink ==
  ASSUME LinkInv, BuddyConnect \/ ControllerStep \/ Crash
  PROVE  Sessions' /\ Connection' /\ Explained' /\ (late' \/ Exchange') /\ Delivered'
<1> USE MaxSessionsAssumption DEF LinkInv
<1>0. /\ UNCHANGED <<vars, server>>
      /\ UNCHANGED <<slot, info, pending, pc, recorded, overwritten, late>>
      /\ UNCHANGED <<loop, taken, cur, dropped, handled>>
  BY DEF BuddyConnect, ControllerStep, SendCmd, ReadState, WriteAck, ReadTimeout, Close, Crash, HangUp,
         vars, ring, flush, history, server
<1>1. got \subseteq got'
  BY DEF BuddyConnect, ControllerStep, SendCmd, ReadState, WriteAck, ReadTimeout, Close, Crash, HangUp
<1>2. Delivered'
  BY <1>0, <1>1 DEF Delivered, Accounted
<1>3. Sessions' /\ opened' >= opened /\ opened' \in 0 .. MaxSessions
  <2>1. CASE BuddyConnect
    BY <2>1 DEF Sessions, BuddyConnect
  <2>2. CASE SendCmd
    <3>1. /\ ctl # "idle" /\ ctl' \in {"reading", "closing"} /\ UNCHANGED <<opened, hung>>
          /\ sent' \subseteq sent \cup {opened}
      BY <2>2 DEF SendCmd
    <3> QED BY <3>1 DEF Sessions
  <2>3. CASE ReadState \/ WriteAck \/ ReadTimeout
    <3>1. /\ ctl # "idle" /\ ctl' \in {"reading", "acking", "lastack", "closing"}
          /\ UNCHANGED <<opened, sent, hung>>
      BY <2>3 DEF ReadState, WriteAck, ReadTimeout
    <3> QED BY <3>1 DEF Sessions
  <2>4. CASE Close \/ Crash
    <3>1. /\ ctl # "idle" /\ ctl' = "idle" /\ hung' = hung \cup {opened}
          /\ UNCHANGED <<opened, sent>>
      BY <2>4 DEF Close, Crash, HangUp
    <3> QED BY <3>1 DEF Sessions
  <2> QED BY <2>1, <2>2, <2>3, <2>4 DEF ControllerStep
<1>4. Connection'
  BY <1>0, <1>3 DEF Sessions, Connection, Home
<1>5. hung \ sent \subseteq hung' \ sent'
  BY DEF Sessions, BuddyConnect, ControllerStep, SendCmd, ReadState, WriteAck, ReadTimeout, Close, Crash, HangUp
<1>6. Explained'
  BY <1>0, <1>5 DEF Explained, Home
<1>7. ASSUME ~late PROVE Exchange'
  <2>0. Exchange /\ Message' = Message
    BY <1>0, <1>7 DEF Message
  <2>1. CASE BuddyConnect \/ SendCmd \/ ReadTimeout
    BY <1>0, <2>0, <2>1 DEF BuddyConnect, SendCmd, ReadTimeout, channel, Exchange
  <2>2. CASE ReadState
    <3>1. wire = <<Message>> /\ pc = "ack" /\ acks = 0 /\ cur = taken /\ cur # 0
      BY <2>0, <2>2 DEF ReadState, Exchange
    <3>2. Head(wire).event = slot[info] /\ Tail(wire) = << >>
      BY <3>1 DEF Message
    <3>3. opened = taken
      BY <2>2 DEF ReadState, Attached
    <3>4. wire' = << >> /\ acks' = 0 /\ slot[info] \in got' /\ opened' = opened
      BY <2>2, <3>1, <3>2 DEF ReadState
    <3> QED BY <1>0, <3>1, <3>3, <3>4 DEF Exchange
  <2>4. CASE WriteAck
    <3>1. UNCHANGED <<opened, hung, got, wire>> /\ ctl' \in {"reading", "closing"}
      BY <2>4 DEF WriteAck
    <3>2. CASE acks' = acks
      BY <1>0, <2>0, <3>1, <3>2 DEF Exchange
    <3>3. CASE acks' # acks
      <4>1. opened \notin dropped /\ acks' = acks + 1 /\ ctl \in {"acking", "lastack"}
        BY <2>4, <3>3 DEF WriteAck
      <4>2. cur = taken /\ pc = "ack" /\ slot[info] \in got /\ wire = << >> /\ acks' = 1
        BY <2>0, <4>1 DEF Exchange
      <4>3. cur # 0
        BY <4>2 DEF Connection
      <4> QED BY <1>0, <3>1, <4>2, <4>3 DEF Exchange
    <3> QED BY <3>2, <3>3
  <2>3. CASE Close \/ Crash
    <3>1. HangUp
      BY <2>3 DEF Close, Crash
    <3>2. CASE Attached
      BY <1>0, <2>0, <3>1, <3>2 DEF HangUp, Exchange
    <3>3. CASE ~Attached
      BY <1>0, <2>0, <3>1, <3>3 DEF HangUp, Exchange, Attached
    <3> QED BY <3>2, <3>3
  <2> QED BY <2>1, <2>2, <2>3, <2>4 DEF ControllerStep
<1> QED BY <1>0, <1>2, <1>3, <1>4, <1>6, <1>7

(* An event that is recorded goes into the ring, and displaces one that is *)
(* then counted as displaced; nothing else may lose an event.              *)
LEMMA RecordLink ==
  ASSUME LinkInv, Record
  PROVE  Sessions' /\ Connection' /\ Explained' /\ (late' \/ Exchange') /\ Delivered'
<1> USE DEF LinkInv
<1>1. /\ pc = "idle" /\ pc' = "idle" /\ late' = late
      /\ UNCHANGED <<ctl, opened, sent, hung, got, loop, taken, cur, dropped, handled, wire, acks>>
  BY DEF Record, RecordState, flush, controller, server, channel
<1>2. Sessions' /\ Connection' /\ Explained'
  BY <1>1 DEF Sessions, Connection, Explained, Home
<1>3. late' \/ Exchange'
  BY <1>1 DEF Exchange
<1>4. ASSUME Accounted PROVE Accounted'
  <2> SUFFICES ASSUME NEW r \in 1 .. recorded'
               PROVE  (\E i \in Node : slot'[i] = r) \/ r \in got' \/ r \in overwritten'
    BY DEF Accounted
  <2>0. info \in Node /\ slot \in [Node -> 0 .. MaxRecords] /\ recorded \in Nat
    BY DEF IInv, TypeOK
  <2>1. CASE r = recorded + 1
    <3>1. slot'[info] = r
      BY <2>0, <2>1 DEF Record, RecordState
    <3> QED BY <2>0, <3>1
  <2>2. CASE r # recorded + 1
    <3>1. r \in 1 .. recorded
      BY <2>0, <2>2 DEF Record, RecordState
    <3>2. CASE \E i \in Node : slot[i] = r
      <4>1. PICK i \in Node : slot[i] = r
        BY <3>2
      <4>2. CASE i = info
        BY <2>0, <3>1, <4>1, <4>2 DEF Record, RecordState, NoInfo
      <4>3. CASE i # info
        BY <2>0, <4>1, <4>3 DEF Record, RecordState
      <4> QED BY <4>2, <4>3
    <3>3. CASE r \in got \/ r \in overwritten
      BY <1>1, <3>3 DEF Record, RecordState
    <3> QED BY <1>4, <3>1, <3>2, <3>3 DEF Accounted
  <2> QED BY <2>1, <2>2
<1>5. Delivered'
  BY <1>1, <1>4 DEF Delivered
<1> QED BY <1>2, <1>3, <1>5
-----------------------------------------------------------------------------
(* The event loop of buddy: a connection is accepted, a command or the end *)
(* of a connection is read, buddy is told to go, with nothing under way.   *)
LEMMA LoopLink ==
  ASSUME LinkInv, Accept \/ TakeCommand \/ ReadEnd \/ Terminate \/ PhoneHome \/ NoFlush
  PROVE  Sessions' /\ Connection' /\ Explained' /\ (late' \/ Exchange') /\ Delivered'
<1> USE MaxSessionsAssumption DEF LinkInv
<1>0. /\ UNCHANGED <<ctl, opened, sent, hung, got>>
      /\ UNCHANGED <<slot, recorded, overwritten, late>>
      /\ pc = "idle" /\ pc' = "idle"
  BY DEF Accept, TakeCommand, ReadEnd, Terminate, PhoneHome, NoFlush, ReadCommand,
         vars, ring, flush, history, controller
<1>1. Sessions' /\ Delivered'
  BY <1>0 DEF Sessions, Delivered, Accounted
<1>2. (late' \/ Exchange')
  <2>1. late \/ (wire' = << >> /\ acks' = 0)
    BY <1>0 DEF Accept, TakeCommand, ReadEnd, Terminate, PhoneHome, NoFlush, Exchange, channel
  <2>2. dropped \subseteq dropped'
    BY DEF Accept, TakeCommand, ReadEnd, Terminate, PhoneHome, NoFlush
  <2> QED BY <1>0, <2>1, <2>2 DEF Exchange
<1>3. Home \notin 0 .. opened
  BY DEF Sessions, Home
<1>4. CASE Accept
  BY <1>0, <1>1, <1>2, <1>3, <1>4 DEF Accept, Sessions, Connection, Explained, Home
<1>5. CASE TakeCommand
  BY <1>0, <1>1, <1>2, <1>3, <1>5 DEF TakeCommand, Sessions, Connection, Explained, Home
<1>6. CASE ReadEnd
  BY <1>0, <1>1, <1>2, <1>3, <1>6 DEF ReadEnd, Sessions, Connection, Explained, Home
<1>7. CASE Terminate \/ NoFlush
  <2>1. /\ loop' \in {"exit", "dead"} /\ (cur = Home => loop' = "exit")
        /\ UNCHANGED <<taken, cur, dropped, handled>>
    BY <1>3, <1>7, MaxSessionsAssumption DEF Terminate, NoFlush, Home, Connection
  <2> QED BY <1>0, <1>1, <1>2, <2>1 DEF Connection, Explained, Home
<1>8. CASE PhoneHome
  BY <1>0, <1>1, <1>2, <1>3, <1>8 DEF PhoneHome, Sessions, Connection, Explained, Home
<1> QED BY <1>4, <1>5, <1>6, <1>7, <1>8

(* The begin and the end of a flush, and its way over empty nodes. *)
LEMMA WalkLink ==
  ASSUME LinkInv, StartFlush \/ Skip \/ EndFlush
  PROVE  Sessions' /\ Connection' /\ Explained' /\ (late' \/ Exchange') /\ Delivered'
<1> USE DEF LinkInv
<1>0. /\ UNCHANGED <<ctl, opened, sent, hung, got, taken, handled>>
      /\ UNCHANGED <<slot, recorded, overwritten, late>>
      /\ pc # "ack" /\ pc' # "ack"
  BY DEF StartFlush, Skip, EndFlush, FlushBegin, SkipEmpty, Advance, FlushEnd,
         ring, history, controller, server
<1>1. Sessions' /\ Delivered'
  BY <1>0 DEF Sessions, Delivered, Accounted
<1>2. late' \/ Exchange'
  <2>1. late \/ (wire' = << >> /\ acks' = 0)
    BY <1>0 DEF StartFlush, Skip, EndFlush, Exchange, channel
  <2>2. dropped \subseteq dropped'
    BY DEF StartFlush, Skip, EndFlush, server
  <2> QED BY <1>0, <2>1, <2>2 DEF Exchange
<1>3. CASE StartFlush
  BY <1>0, <1>1, <1>2, <1>3 DEF StartFlush, Connection, Explained, Home, server
<1>4. CASE Skip
  BY <1>0, <1>1, <1>2, <1>4 DEF Skip, SkipEmpty, Connection, Explained, Home, server
<1>5. CASE EndFlush
  BY <1>0, <1>1, <1>2, <1>5, MaxSessionsAssumption
     DEF EndFlush, FlushEnd, Sessions, Connection, Explained, Home
<1> QED BY <1>3, <1>4, <1>5

(* A record is written only when nothing is under way. *)
LEMMA WriteLink ==
  ASSUME LinkInv, Write
  PROVE  Sessions' /\ Connection' /\ Explained' /\ (late' \/ Exchange') /\ Delivered'
<1> USE DEF LinkInv
<1>0. /\ UNCHANGED <<ctl, opened, sent, hung, got, loop, taken, cur, dropped, handled, acks>>
      /\ UNCHANGED <<slot, pending, recorded, overwritten>>
      /\ pc = "walk" /\ (late => late')
  BY DEF Write, WriteCtrl, controller, server, channel
<1>1. Sessions' /\ Connection' /\ Explained' /\ Delivered'
  BY <1>0 DEF Sessions, Connection, Explained, Home, Delivered, Accounted
<1>2. CASE /\ cur \notin hung
           /\ WriteCtrl("ok")
           /\ wire' = IF cur = Home THEN wire ELSE Append(wire, Message)
  <2>1. pc' = "ack" /\ info' = info
    BY <1>2, Zenon DEF WriteCtrl
  <2>2. Message' = Message
    BY <1>0, <2>1 DEF Message
  <2>3. ASSUME ~late PROVE Exchange'
    <3>1. Exchange /\ wire = << >> /\ acks = 0
      BY <1>0, <2>3 DEF Exchange
    <3>2. CASE cur = Home
      BY <1>0, <1>2, <3>1, <3>2 DEF Exchange
    <3>3. CASE cur # Home
      <4>1. wire' = <<Message>>
        BY <1>2, <3>1, <3>3
      <4>2. cur = taken /\ cur # 0
        BY <1>0, <3>3 DEF Connection
      <4> QED BY <1>0, <1>2, <2>1, <2>2, <3>1, <4>1, <4>2 DEF Exchange
    <3> QED BY <3>2, <3>3
  <2> QED BY <1>0, <1>1, <2>3
<1>3. CASE WriteCtrl("fail") /\ UNCHANGED wire
  BY <1>0, <1>1, <1>3 DEF Exchange
<1>4. CASE WriteCtrl("timeout")
  <2>1. late'
    BY <1>4, Zenon DEF WriteCtrl
  <2> QED BY <1>1, <2>1
<1> QED BY <1>2, <1>3, <1>4 DEF Write, channel

(* An acknowledgement is that of the record buddy waits for, so the node   *)
(* that is cleared holds an event the controller has read.                 *)
LEMMA AckLink ==
  ASSUME LinkInv, Acknowledged
  PROVE  Sessions' /\ Connection' /\ Explained' /\ (late' \/ Exchange') /\ Delivered'
<1> USE DEF LinkInv
<1>0. /\ UNCHANGED <<ctl, opened, sent, hung, got, loop, taken, cur, dropped, handled, wire>>
      /\ UNCHANGED <<recorded, overwritten>>
      /\ pc = "ack" /\ pc' # "ack" /\ pc' # "idle" /\ (late => late')
  BY DEF Acknowledged, ReadAck, Advance, GiveUp, controller, server, channel
<1>1. Sessions' /\ Connection' /\ Explained'
  BY <1>0 DEF Sessions, Connection, Explained, Home
<1>2. CASE acks > 0 /\ ReadAck("ok") /\ acks' = acks - 1
  <2>1. ASSUME ~late
        PROVE  Exchange' /\ Accounted'
    <3>1. Exchange /\ acks = 1 /\ wire = << >> /\ slot[info] \in got
      BY <1>2, <2>1 DEF Exchange
    <3>2. Exchange'
      BY <1>0, <1>2, <3>1 DEF Exchange
    <3>3. slot' = slot \/ slot' = [slot EXCEPT ![info] = NoInfo]
      BY <1>2 DEF ReadAck
    <3>4. ASSUME NEW r \in 1 .. recorded
          PROVE  (\E i \in Node : slot'[i] = r) \/ r \in got \/ r \in overwritten
      <4>1. CASE \E i \in Node : slot[i] = r
        <5>1. PICK i \in Node : slot[i] = r
          BY <4>1
        <5>2. CASE i = info
          BY <3>1, <5>1, <5>2
        <5>3. CASE i # info
          BY <3>3, <5>1, <5>3 DEF IInv, TypeOK
        <5> QED BY <5>2, <5>3
      <4> QED BY <2>1, <4>1 DEF Delivered, Accounted
    <3> QED BY <1>0, <3>2, <3>4 DEF Accounted
  <2> QED BY <1>0, <1>1, <2>1 DEF Delivered
<1>3. CASE acks = 0 /\ ReadAck("fail") /\ UNCHANGED channel /\ cur \in hung \cup {Home}
  <2>1. nread' = FALSE
    BY <1>3, Zenon DEF ReadAck
  <2>2. slot' = slot /\ acks' = acks
    BY <1>3, <2>1 DEF ReadAck, Confirmed, channel
  <2>3. Delivered'
    BY <1>0, <2>2 DEF Delivered, Accounted
  <2>4. ASSUME ~late PROVE Exchange'
    <3>1. wire = << >>
      BY <1>3, <2>4, MaxSessionsAssumption DEF Exchange, Sessions, Connection, Home
    <3>2. ctl \in {"acking", "lastack"} => opened \in dropped
      BY <1>3, <2>4, MaxSessionsAssumption DEF Exchange, Sessions, Home
    <3> QED BY <1>0, <1>3, <2>2, <3>1, <3>2 DEF Exchange
  <2> QED BY <1>0, <1>1, <2>3, <2>4
<1>4. CASE ReadAck("timeout")
  <2>1. late'
    BY <1>4, Zenon DEF ReadAck
  <2> QED BY <1>1, <2>1 DEF Delivered
<1> QED BY <1>2, <1>3, <1>4 DEF Acknowledged
-----------------------------------------------------------------------------
(* The invariant is inductive: every step of the controller, of buddy and  *)
(* of the signal handler keeps it, a crash of the controller included.     *)
LEMMA NextLink == LinkInv /\ [LinkNext]_linkVars => LinkInv'
<1> SUFFICES ASSUME LinkInv, [LinkNext]_linkVars PROVE LinkInv'
  OBVIOUS
<1>1. IInv'
  BY RingStep, NextIInv DEF LinkInv
<1>2. CASE BuddyConnect \/ ControllerStep \/ Crash
  BY <1>1, <1>2, ControllerLink DEF LinkInv
<1>3. CASE Record
  BY <1>1, <1>3, RecordLink DEF LinkInv
<1>4. CASE Accept \/ TakeCommand \/ ReadEnd \/ Terminate \/ PhoneHome \/ NoFlush
  BY <1>1, <1>4, LoopLink DEF LinkInv
<1>5. CASE StartFlush \/ Skip \/ EndFlush
  BY <1>1, <1>5, WalkLink DEF LinkInv
<1>6. CASE Write
  BY <1>1, <1>6, WriteLink DEF LinkInv
<1>7. CASE Acknowledged
  BY <1>1, <1>7, AckLink DEF LinkInv
<1>8. CASE UNCHANGED linkVars
  BY <1>1, <1>8 DEF LinkInv, Sessions, Connection, Explained, Exchange, Delivered, Accounted,
                    Message, Home, linkVars, vars, ring, flush, history, controller, server, channel
<1> QED
  BY <1>2, <1>3, <1>4, <1>5, <1>6, <1>7, <1>8 DEF LinkNext, BuddyStep

(* The invariant holds in every reachable state of the conversation. *)
THEOREM LinkInductive == LinkSpec => []LinkInv
BY InitLink, NextLink, PTL DEF LinkSpec

(* The conversation implements the ring and its flush: the free choice of  *)
(* what a socket call of the flush returns covers what a controller makes  *)
(* of it (buddy_flush_ringbuffer and its callers).                         *)
THEOREM LinkImplementsRing == LinkSpec => Spec
<1>1. LinkInit => Init
  BY DEF LinkInit
<1> QED BY <1>1, RingStep, PTL DEF LinkSpec, Spec

(* So it implements the bounded queue of AuditQueue as well: an event      *)
(* leaves buddy only confirmed or displaced, whatever the controller does. *)
THEOREM LinkImplementsQueue == LinkSpec => QueueSpec
BY LinkImplementsRing, Refinement

(* No event disappears between buddy_flush_ringbuffer and buddy_readstate, *)
(* whatever crashes and hang-ups cut the sessions short.                   *)
THEOREM DeliveredAlways == LinkSpec => []Delivered
BY LinkInductive, PTL DEF LinkInv

(* The acknowledgement that buddy_flush_ringbuffer reads is the one        *)
(* buddy_readstate sent for the record it waits for.                       *)
THEOREM AckMatchesAlways == LinkSpec => []AckMatches
<1>1. LinkInv => AckMatches
  BY DEF LinkInv, Exchange, AckMatches
<1> QED BY <1>1, LinkInductive, PTL

(* buddy_accept and disconnect_ctrlfd close a connection with a command on *)
(* it only for a later one, or on the way out of buddy.                    *)
THEOREM CommandsHandledAlways == LinkSpec => []CommandsHandled
<1>1. LinkInv => CommandsHandled
  BY MaxSessionsAssumption DEF LinkInv, Sessions, Explained, CommandsHandled, Home
<1> QED BY <1>1, LinkInductive, PTL

(* A record that says none remain is the youngest event, and the           *)
(* controller has every one before it that was not displaced.              *)
LEMMA LastRecord ==
  ASSUME LinkInv, ReadState, Head(wire).remaining = 0, ~late
  PROVE  1 .. recorded \subseteq got' \cup overwritten
<1> USE DEF LinkInv
<1>1. wire = <<Message>> /\ pc = "ack"
  BY DEF ReadState, Exchange
<1>2. Head(wire) = Message /\ pending = 1 /\ slot[info] = recorded
  <2>1. Head(wire) = Message /\ pending - 1 = 0
    <3>1. Head(wire) = Message
      BY <1>1
    <3>2. Message.remaining = pending - 1
      BY DEF Message
    <3> QED BY <3>1, <3>2
  <2>2. pending \in 1 .. RingSize /\ slot[info] = recorded + 1 - pending
    BY <1>1, AtAck
  <2> QED BY <2>1, <2>2, RingSizeAssumption DEF IInv, TypeOK
<1>3. got' = got \cup {recorded}
  BY <1>2 DEF ReadState, Message
<1>4. ASSUME NEW r \in 1 .. recorded, NEW i \in Node, slot[i] = r PROVE r = recorded
  <2>1. Base \in Node
    BY DEF IInv, TypeOK, Base
  <2>2. PICK k \in 1 .. RingSize : Back(Base, k) = i
    BY <2>1, BackOnto
  <2>3. r = IF k <= 1 THEN recorded + 1 - k ELSE 0
    BY <1>2, <1>4, <2>2 DEF IInv, Window, NoInfo
  <2> QED BY <2>3, RingSizeAssumption DEF IInv, TypeOK
<1> QED BY <1>3, <1>4 DEF Delivered, Accounted

(* A controller that stops because no record remains has read everything   *)
(* buddy knows of.                                                         *)
THEOREM AnswerCompleteAlways == LinkSpec => AnswerComplete
<1>1. ASSUME LinkInv, [LinkNext]_linkVars
      PROVE  [ReadState /\ Head(wire).remaining = 0 /\ ~late
               => 1 .. recorded \subseteq got' \cup overwritten]_linkVars
  BY <1>1, LastRecord
<1> QED BY <1>1, LinkInductive, PTL DEF LinkSpec, AnswerComplete
=============================================================================
