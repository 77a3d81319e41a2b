--------------------------- MODULE ListUse_proofs ---------------------------
(***************************************************************************)
(* Each list of the program holds what was put into it (module ListUse),   *)
(* for a heap of any size: the four programs show what the lemmas about    *)
(* the macros (module UpkList_proofs) need.                                *)
(*                                                                         *)
(* The macros act on the pointers the last FOREACH or UNLINK left behind.  *)
(* The invariant says where these are: inside a loop at a node of the list *)
(* and its successor, with the node before it or NULL behind (Cursor), and *)
(* between two loops where the next append puts its node last (Ready).     *)
(*                                                                         *)
(* The queue of signals (module CtrlSigQueue) is a list of its own, which  *)
(* a signal handler appends to; what is proved of it is at the end.        *)
(***************************************************************************)
EXTENDS ListUse, CtrlSigQueue, UpkList_proofs

Cursor ==
  \E k \in DOMAIN seq :
    /\ l.thisp = seq[k] /\ l.nextp = Successor(seq, k)
    /\ l.prevp = NULL \/ (k # 1 /\ l.prevp = seq[k - 1])
    /\ mode = "clear" => k = 1

Ready == l.nextp = NULL /\ (l.prevp # NULL => seq # << >>)

ListType ==
  /\ uses \in Programs /\ newest \in 0 .. MaxNodes /\ lost \in BOOLEAN
  /\ mode \in {"none"} \cup (uses \cap {"walk", "clear", "prune"})

Contents ==
  /\ Carries(l, seq) /\ l.live \subseteq 1 .. newest
  /\ "append" \in uses => EndsAt(l, seq)
  /\ "append" \in uses /\ mode = "none" => Ready
  /\ mode # "none" => Cursor

ListInv == ListType /\ (lost \/ Contents)
-----------------------------------------------------------------------------
(* The sequence meant and the list lose the same node. *)
LEMMA WithoutRemoved ==
  ASSUME NEW s \in Seq(Ptr), Distinct(s), NEW k \in DOMAIN s
  PROVE  Without(s, s[k]) = Removed(s, k)
<1>1. \A j \in DOMAIN s : s[j] = s[k] => j = k
  BY DEF Distinct
<1>2. (CHOOSE j \in DOMAIN s : s[j] = s[k]) = k
  BY <1>1
<1> QED BY <1>1, <1>2 DEF Without, Removed

(* _UPKLIST_FOREACH_CONTINUE, at a node of the list or at the end. *)
LEMMA ContinueCarries ==
  ASSUME NEW m, NEW s, Carries(m, s),
         NEW k \in Nat, m.nextp = Successor(s, k)
  PROVE  LET c == ForeachContinue(m)
         IN  /\ Carries(c, s) /\ c.tail = m.tail /\ c.live = m.live
             /\ c.prevp = m.thisp /\ c.thisp = m.nextp
             /\ k < Len(s) => k + 1 \in DOMAIN s /\ c.nextp = Successor(s, k + 1)
             /\ k >= Len(s) => c.nextp = NULL
<1> DEFINE c == ForeachContinue(m)
           S == m.stale \/ Dangling(m, m.nextp)
<1>1. /\ s \in Seq(Ptr) /\ Len(s) \in Nat /\ DOMAIN s = 1 .. Len(s)
      /\ m \in List /\ ~m.stale
      /\ m.next \in [Ptr -> Ptr \cup {NULL}] /\ m.nextp \in Ptr \cup {NULL} /\ m.thisp \in Ptr \cup {NULL}
  BY DEF Carries, List
<1>2. k < Len(s) => /\ k + 1 \in DOMAIN s /\ m.nextp = s[k + 1] /\ m.nextp \in m.live
                    /\ m.nextp # NULL /\ m.next[m.nextp] = Successor(s, k + 1)
  BY <1>1 DEF Carries, Meets, Nodes, Successor
<1>3. k >= Len(s) => m.nextp = NULL
  BY <1>1 DEF Successor
<1>4. S = FALSE
  BY <1>1, <1>2, <1>3 DEF Dangling
<1>5. NextNode(m, m.nextp) \in Ptr \cup {NULL}
  BY <1>1 DEF NextNode
<1>6. c = [m EXCEPT !.prevp = m.thisp, !.thisp = m.nextp, !.nextp = NextNode(m, m.nextp), !.stale = FALSE]
  BY <1>4 DEF ForeachContinue
<1>7. /\ c \in List /\ c.prevp = m.thisp /\ c.thisp = m.nextp /\ c.nextp = NextNode(m, m.nextp)
      /\ ~c.stale /\ c.head = m.head /\ c.tail = m.tail /\ c.next = m.next /\ c.live = m.live
      /\ c.count = m.count
  <2> HIDE DEF c
  <2> QED BY <1>1, <1>5, <1>6 DEF List
<1> HIDE DEF c
<1>8. Carries(c, s)
  BY <1>7 DEF Carries, Meets
<1> QED BY <1>1, <1>2, <1>3, <1>7, <1>8 DEF NextNode, c
-----------------------------------------------------------------------------
(* The lists that are appended to are used in no other way. *)
LEMMA Exclusive ==
  ASSUME ListInv
  PROVE  "prepend" \in uses \/ "push" \in uses \/ "pop" \in uses => "append" \notin uses
<1>1. \/ uses = {"append", "walk", "clear"}
      \/ uses = {"prepend", "pop", "clear"}
      \/ uses = {"push", "pop", "clear"}
      \/ uses = {"append", "walk", "prune"}
  BY ProgramsAssumption DEF ListInv, ListType
<1> QED BY <1>1

(* A newest node is not in use. *)
LEMMA FreshNode ==
  ASSUME ListInv, Contents, newest < MaxNodes
  PROVE  New \in Ptr /\ New \notin l.live /\ New \in 0 .. MaxNodes
         /\ l.live \cup {New} \subseteq 1 .. New
<1>1. newest \in Nat /\ New = newest + 1 /\ l.live \subseteq 1 .. newest /\ MaxNodes \in Nat
  BY MaxNodesAssumption DEF ListInv, ListType, Contents, New
<1>2. \A p \in l.live : p \in 1 .. newest
  BY <1>1
<1> QED BY <1>1, <1>2 DEF Ptr

(* At first the list is empty. *)
LEMMA InitList == Init => ListInv
<1> SUFFICES ASSUME Init PROVE ListInv
  OBVIOUS
<1>1. ListType
  <2>1. 0 \in 0 .. MaxNodes
    BY MaxNodesAssumption
  <2> QED BY <2>1, Zenon DEF Init, ListType
<1>2. EndsAt(EmptyList, << >>) /\ EmptyList.nextp = NULL /\ EmptyList.prevp = NULL
      /\ EmptyList.live = {}
  BY DEF EndsAt, EmptyList
<1> QED BY <1>1, <1>2, EmptyCarries DEF Init, ListInv, Contents, Ready

(* An insertion: UPKLIST_APPEND, UPKLIST_PREPEND and the push on a new     *)
(* stack.                                                                  *)
LEMMA InsertInv ==
  ASSUME ListInv,
         \/ Insert("append", AppendNode(l, New), Append(seq, New))
         \/ Insert("prepend", PrependNode(l, New), <<New>> \o seq)
         \/ PushInitial
  PROVE  ListInv'
<1>1. /\ mode = "none" /\ newest < MaxNodes /\ newest' = New /\ UNCHANGED <<mode, uses, lost>>
  BY DEF Insert, PushInitial
<1>2. ListType'
  BY <1>1, MaxNodesAssumption DEF ListInv, ListType, New
<1>3. CASE lost
  BY <1>1, <1>2, <1>3 DEF ListInv
<1>4. CASE ~lost
  <2>1. Contents /\ Carries(l, seq)
    BY <1>4 DEF ListInv, Contents
  <2>2. /\ New \in Ptr /\ New \notin l.live /\ l.live \cup {New} \subseteq 1 .. New
    BY <1>1, <2>1, FreshNode
  <2>3. CASE Insert("append", AppendNode(l, New), Append(seq, New))
    <3>1. "append" \in uses /\ l' = AppendNode(l, New) /\ seq' = Append(seq, New)
      BY <2>3 DEF Insert
    <3>2. EndsAt(l, seq) /\ Ready
      BY <1>1, <2>1, <3>1 DEF Contents
    <3>3. /\ Carries(l', seq') /\ EndsAt(l', seq') /\ l'.nextp = NULL /\ l'.prevp = NULL
          /\ l'.live = l.live \cup {New}
      <4> DEFINE m == AppendNode(l, New)
      <4>1. /\ Carries(m, Append(seq, New)) /\ EndsAt(m, Append(seq, New))
            /\ m.nextp = NULL /\ m.prevp = NULL /\ m.live = l.live \cup {New}
        <5>1. /\ Carries(l, seq) /\ EndsAt(l, seq) /\ New \in Ptr /\ New \notin l.live
              /\ l.nextp = NULL /\ (l.prevp # NULL => seq # << >>)
          BY <2>1, <2>2, <3>2, Zenon DEF Ready
        <5> HIDE DEF Ready
        <5> QED BY ONLY <5>1, AppendCarries
      <4> QED BY <3>1, <4>1, Zenon
    <3> QED BY <1>1, <1>2, <2>2, <3>3 DEF ListInv, Contents, Ready
  <2>4. CASE Insert("prepend", PrependNode(l, New), <<New>> \o seq)
    <3>1. "prepend" \in uses /\ l' = PrependNode(l, New) /\ seq' = <<New>> \o seq
      BY <2>4 DEF Insert
    <3>2. Carries(l', seq') /\ l'.live = l.live \cup {New}
      <4> DEFINE m == PrependNode(l, New)
      <4>1. Carries(m, <<New>> \o seq) /\ m.live = l.live \cup {New}
        BY <2>1, <2>2, PrependCarries, Zenon
      <4> QED BY <3>1, <4>1, Zenon
    <3>3. "append" \notin uses
      BY <3>1, Exclusive
    <3> QED BY <1>1, <1>2, <2>2, <3>2, <3>3 DEF ListInv, Contents
  <2>5. CASE PushInitial
    <3> DEFINE m == PrependNode(l, New)
    <3>1. "push" \in uses /\ seq = << >> /\ l' = Push(l, New) /\ seq' = <<New>>
      BY <2>5 DEF PushInitial, Insert
    <3>2. <<New>> \o seq = <<New>>
      BY <2>2, <3>1
    <3>3. Carries(m, <<New>>) /\ m.live = l.live \cup {New}
      <4>1. Carries(m, <<New>> \o seq) /\ m.live = l.live \cup {New}
        BY <2>1, <2>2, PrependCarries, Zenon
      <4> QED BY <3>2, <4>1, Zenon
    <3> HIDE DEF m
    <3>4. m \in List /\ m.next \in [Ptr -> Ptr \cup {NULL}] /\ m.next[New] = NULL
      BY <3>3 DEF Carries, Meets, List, Successor
    <3>5. [m.next EXCEPT ![New] = NULL] = m.next
      BY <2>2, <3>4
    <3>6. l' = m
      BY <3>1, <3>4, <3>5 DEF Push, m, List
    <3>7. "append" \notin uses
      BY <3>1, Exclusive
    <3> QED BY <1>1, <1>2, <2>2, <3>1, <3>3, <3>6, <3>7 DEF ListInv, Contents
  <2> QED BY <2>3, <2>4, <2>5
<1> QED BY <1>3, <1>4

(* upk_callback_stack_pop: the first node goes. *)
LEMMA PopInv ==
  ASSUME ListInv, Pop
  PROVE  ListInv'
<1> DEFINE h == ForeachInit(l)
<1>1. /\ mode = "none" /\ "pop" \in uses /\ UNCHANGED <<mode, newest, uses, lost>>
      /\ l' = Unlink(h) /\ seq' = IF seq = << >> THEN seq ELSE Tail(seq)
  BY DEF Pop
<1>2. ListType' /\ "append" \notin uses
  BY <1>1, Exclusive DEF ListInv, ListType
<1>3. CASE lost
  BY <1>1, <1>2, <1>3 DEF ListInv
<1>4. CASE ~lost
  <2>1. Carries(l, seq) /\ l.live \subseteq 1 .. newest
    BY <1>4 DEF ListInv, Contents
  <2>2. /\ Carries(h, seq)
        /\ seq # << >> => CursorAt(h, seq, 1)
        /\ seq = << >> => h.thisp = NULL
    BY <2>1, HeadCarries
  <2> HIDE DEF h
  <2>3. CASE seq = << >>
    <3>1. l' = h /\ seq' = seq
      BY <1>1, <2>2, <2>3 DEF Unlink
    <3>2. h.live = l.live
      BY <2>1, <2>2 DEF Carries
    <3> QED BY <1>1, <1>2, <2>1, <2>2, <3>1, <3>2 DEF ListInv, Contents
  <2>4. CASE seq # << >>
    <3>1. seq \in Seq(Ptr) /\ 1 \in DOMAIN seq /\ Distinct(seq)
      BY <2>1, <2>4 DEF Carries
    <3>2. Carries(l', Removed(seq, 1))
      BY <1>1, <2>2, <2>4, <3>1, UnlinkCarries
    <3>3. seq' = Removed(seq, 1)
      BY <1>1, <2>4, <3>1, TailRemoved
    <3>4. l'.live \subseteq l.live
      BY <2>1, <3>1, <3>2, RemovedSeq DEF Carries
    <3> QED BY <1>1, <1>2, <2>1, <3>2, <3>3, <3>4 DEF ListInv, Contents
  <2> QED BY <2>3, <2>4
<1> QED BY <1>3, <1>4

(* UPKLIST_FOREACH goes to the first node, if there is one. *)
LEMMA ForeachInv ==
  ASSUME ListInv, NEW m \in {"walk", "clear", "prune"}, Foreach(m)
  PROVE  ListInv'
<1>1. /\ mode = "none" /\ m \in uses /\ UNCHANGED <<seq, newest, uses, lost>>
      /\ l' = ForeachInit(l) /\ mode' = IF l.head = NULL THEN "none" ELSE m
  BY DEF Foreach
<1>2. ListType'
  BY <1>1 DEF ListInv, ListType
<1>3. CASE lost
  BY <1>1, <1>2, <1>3 DEF ListInv
<1>4. CASE ~lost
  <2>1. Carries(l, seq) /\ l.live \subseteq 1 .. newest /\ ("append" \in uses => EndsAt(l, seq))
    BY <1>4 DEF ListInv, Contents
  <2>2. /\ Carries(l', seq) /\ l'.tail = l.tail
        /\ seq # << >> => CursorAt(l', seq, 1)
        /\ seq = << >> => l'.nextp = NULL /\ l'.prevp = NULL
    BY <1>1, <2>1, HeadCarries
  <2>3. /\ l'.live \subseteq 1 .. newest
        /\ "append" \in uses => EndsAt(l', seq)
    BY <2>1, <2>2 DEF Carries, EndsAt
  <2>4. l.head = NULL <=> seq = << >>
    BY <2>1 DEF Carries, Meets, Successor
  <2>5. CASE seq = << >>
    BY <1>1, <1>2, <2>2, <2>3, <2>4, <2>5 DEF ListInv, Contents, Ready
  <2>6. CASE seq # << >>
    <3>1. mode' = m /\ 1 \in DOMAIN seq
      BY <1>1, <2>1, <2>4, <2>6 DEF Carries
    <3>2. Cursor'
      BY <1>1, <2>2, <2>6, <3>1 DEF Cursor, CursorAt
    <3> QED BY <1>1, <1>2, <2>2, <2>3, <3>1, <3>2 DEF ListInv, Contents
  <2> QED BY <2>5, <2>6
<1> QED BY <1>3, <1>4

(* The loop goes on and keeps the node. *)
LEMMA KeepInv ==
  ASSUME ListInv, Keep
  PROVE  ListInv'
<1>1. /\ mode \in {"walk", "prune"} /\ UNCHANGED <<seq, newest, uses, lost>>
      /\ l' = ForeachContinue(l) /\ mode' = IF l.nextp = NULL THEN "none" ELSE mode
  BY DEF Keep
<1>2. ListType'
  BY <1>1 DEF ListInv, ListType
<1>3. CASE lost
  BY <1>1, <1>2, <1>3 DEF ListInv
<1>4. CASE ~lost
  <2>1. /\ Carries(l, seq) /\ l.live \subseteq 1 .. newest /\ ("append" \in uses => EndsAt(l, seq))
        /\ Cursor
    BY <1>1, <1>4 DEF ListInv, Contents
  <2>2. PICK k \in DOMAIN seq : l.thisp = seq[k] /\ l.nextp = Successor(seq, k)
    BY <2>1 DEF Cursor
  <2>3. seq \in Seq(Ptr) /\ Len(seq) \in Nat /\ k \in 1 .. Len(seq)
    BY <2>1 DEF Carries
  <2>4. /\ Carries(l', seq) /\ l'.tail = l.tail /\ l'.live = l.live
        /\ l'.prevp = seq[k] /\ l'.thisp = Successor(seq, k)
        /\ k < Len(seq) => k + 1 \in DOMAIN seq /\ l'.nextp = Successor(seq, k + 1)
        /\ k >= Len(seq) => l'.nextp = NULL
    <3>1. k \in Nat
      BY <2>3
    <3> QED BY <1>1, <2>1, <2>2, <3>1, ContinueCarries
  <2>5. "append" \in uses => EndsAt(l', seq)
    BY <2>1, <2>4 DEF EndsAt
  <2>6. k < Len(seq) => Successor(seq, k) = seq[k + 1] /\ Successor(seq, k) # NULL
    BY <2>1, <2>3 DEF Carries, Meets, Successor
  <2>7. CASE k < Len(seq)
    <3>1. Cursor'
      <4>1. k + 1 # 1 /\ seq[k + 1 - 1] = seq[k]
        BY <2>3
      <4> QED BY <1>1, <2>3, <2>4, <2>6, <2>7, <4>1 DEF Cursor
    <3>2. mode' # "none"
      BY <1>1, <2>2, <2>6, <2>7
    <3> QED BY <1>1, <1>2, <2>1, <2>4, <2>5, <3>1, <3>2 DEF ListInv, Contents
  <2>8. CASE k = Len(seq)
    <3>1. mode' = "none" /\ l'.nextp = NULL /\ seq # << >>
      BY <1>1, <2>2, <2>3, <2>4, <2>8 DEF Successor
    <3> QED BY <1>1, <1>2, <2>1, <2>4, <2>5, <3>1 DEF ListInv, Contents, Ready
  <2> QED BY <2>3, <2>7, <2>8
<1> QED BY <1>3, <1>4

(* The loop takes the node out and goes on. *)
LEMMA DropInv ==
  ASSUME ListInv, Drop
  PROVE  ListInv'
<1> DEFINE m == Unlink(l)
<1>1. /\ mode \in {"clear", "prune"} /\ UNCHANGED <<newest, uses>>
      /\ l' = ForeachContinue(m) /\ mode' = IF l.nextp = NULL THEN "none" ELSE mode
      /\ seq' = Without(seq, l.thisp)
      /\ lost' = (lost \/ (l.prevp = NULL /\ l.thisp # l.head))
  BY DEF Drop
<1>2. ListType'
  BY <1>1 DEF ListInv, ListType
<1> HIDE DEF m
<1>3. CASE lost'
  BY <1>2, <1>3 DEF ListInv
<1>4. CASE ~lost'
  <2>0. ~lost /\ (l.prevp = NULL => l.thisp = l.head)
    BY <1>1, <1>4
  <2>1. /\ Carries(l, seq) /\ l.live \subseteq 1 .. newest /\ ("append" \in uses => EndsAt(l, seq))
        /\ Cursor
    BY <1>1, <2>0 DEF ListInv, Contents
  <2>2. PICK k \in DOMAIN seq :
          l.thisp = seq[k] /\ l.nextp = Successor(seq, k)
            /\ (l.prevp = NULL \/ (k # 1 /\ l.prevp = seq[k - 1])) /\ (mode = "clear" => k = 1)
    BY <2>1 DEF Cursor
  <2>3. seq \in Seq(Ptr) /\ Len(seq) \in Nat /\ k \in 1 .. Len(seq) /\ Distinct(seq)
    BY <2>1 DEF Carries
  <2>4. CursorAt(l, seq, k)
    <3>1. CASE l.prevp = NULL
      <4>1. seq[1] = seq[k] /\ 1 \in DOMAIN seq
        BY <2>0, <2>1, <2>2, <2>3, <3>1 DEF Carries, Meets, Successor
      <4>2. k = 1
        BY <2>3, <4>1 DEF Distinct
      <4> QED BY <2>2, <3>1, <4>2 DEF CursorAt
    <3>2. CASE k # 1 /\ l.prevp = seq[k - 1]
      BY <2>2, <3>2 DEF CursorAt
    <3> QED BY <2>2, <3>1, <3>2
  <2> DEFINE r == Removed(seq, k)
  <2>5. /\ Carries(m, r) /\ (EndsAt(l, seq) => EndsAt(m, r))
        /\ m.thisp = NULL /\ m.nextp = l.nextp
    BY <2>1, <2>4, UnlinkCarries DEF m
  <2>6. /\ Len(r) = Len(seq) - 1 /\ DOMAIN r = 1 .. (Len(seq) - 1)
        /\ \A i \in DOMAIN r : r[i] = IF i < k THEN seq[i] ELSE seq[i + 1]
        /\ Nodes(r) \subseteq Nodes(seq)
    BY <2>3, RemovedSeq
  <2>7. seq' = r
    BY <1>1, <2>2, <2>3, WithoutRemoved
  <2> HIDE DEF r
  <2>8. m.nextp = Successor(r, k - 1) /\ k - 1 \in Nat
    <3>1. CASE k < Len(seq)
      BY <2>2, <2>3, <2>5, <2>6, <3>1 DEF Successor
    <3>2. CASE k = Len(seq)
      BY <2>2, <2>3, <2>5, <2>6, <3>2 DEF Successor
    <3> QED BY <2>3, <3>1, <3>2
  <2>9. /\ Carries(l', r) /\ l'.tail = m.tail /\ l'.live = m.live
        /\ l'.prevp = NULL /\ l'.thisp = Successor(r, k - 1)
        /\ k - 1 < Len(r) => k - 1 + 1 \in DOMAIN r /\ l'.nextp = Successor(r, k - 1 + 1)
        /\ k - 1 >= Len(r) => l'.nextp = NULL
    BY <1>1, <2>5, <2>8, ContinueCarries
  <2>10. "append" \in uses => EndsAt(l', r)
    BY <2>1, <2>5, <2>9 DEF EndsAt
  <2>11. l'.live \subseteq 1 .. newest
    BY <2>1, <2>6, <2>9 DEF Carries
  <2>12. CASE k < Len(seq)
    <3>1. k \in DOMAIN r /\ l'.thisp = r[k] /\ l'.nextp = Successor(r, k)
      BY <2>3, <2>6, <2>9, <2>12 DEF Successor
    <3>2. mode' = mode
      BY <1>1, <2>1, <2>2, <2>3, <2>12 DEF Successor, Carries, Meets
    <3>3. Cursor'
      BY <2>2, <2>7, <2>9, <3>1, <3>2 DEF Cursor
    <3> QED BY <1>1, <1>2, <2>7, <2>9, <2>10, <2>11, <3>2, <3>3 DEF ListInv, Contents
  <2>13. CASE k = Len(seq)
    <3>1. mode' = "none" /\ l'.nextp = NULL
      BY <1>1, <2>2, <2>3, <2>6, <2>9, <2>13 DEF Successor
    <3> QED BY <1>1, <1>2, <2>7, <2>9, <2>10, <2>11, <3>1 DEF ListInv, Contents, Ready
  <2> QED BY <2>3, <2>12, <2>13
<1> QED BY <1>3, <1>4
-----------------------------------------------------------------------------
(* The invariant of the lists holds in every state. *)
THEOREM ListInductive == Spec => []ListInv
<1>1. ListInv /\ [Next]_listVars => ListInv'
  <2> SUFFICES ASSUME ListInv, [Next]_listVars PROVE ListInv'
    OBVIOUS
  <2>1. CASE Next
    BY <2>1, InsertInv, PopInv, ForeachInv, KeepInv, DropInv DEF Next
  <2>2. CASE UNCHANGED listVars
    BY <2>2 DEF listVars, ListInv, ListType, Contents, Ready, Cursor
  <2> QED BY <2>1, <2>2
<1> QED BY <1>1, InitList, PTL DEF Spec

(* A list of the program is what was put in and not taken out, in order    *)
(* (UPKLIST_APPEND, UPKLIST_PREPEND, UPKLIST_UNLINK, UPKLIST_FOREACH).     *)
THEOREM FaithfulAlways == Spec => []Faithful
<1>1. ListInv => Faithful
  BY DEF ListInv, Contents, Carries, EndsAt, Faithful
<1> QED BY <1>1, ListInductive, PTL
-----------------------------------------------------------------------------
(* The queue of signals of module CtrlSigQueue, for any number of buddies  *)
(* and signals: what the lemmas about the list macros need, the handler's  *)
(* append finds, unless a signal came while others were to be taken off.   *)

SigType ==
  /\ fresh \in 0 .. MaxNodes
  /\ pc \in {"work", "loop", "copy", "act", "gone", "crash"}
  /\ within \in BOOLEAN

(* handle_signals leaves a pointer behind at the next node to take off; it *)
(* is gone when the handler may append.                                    *)
Resting ==
  /\ q.prevp = NULL
  /\ q.nextp # NULL => due # << >> /\ pc # "work"

Queued ==
  /\ Carries(q, due) /\ EndsAt(q, due) /\ q.live \subseteq 1 .. fresh
  /\ Resting
  /\ pc = "copy" => due # << >>
  /\ pc # "crash"

SigInv == SigType /\ (within \/ Queued)
-----------------------------------------------------------------------------
(* At first the queue is empty. *)
LEMMA InitSig == SigInit => SigInv
<1> SUFFICES ASSUME SigInit PROVE SigInv
  OBVIOUS
<1>1. SigType
  <2>1. 0 \in 0 .. MaxNodes
    BY MaxNodesAssumption
  <2> QED BY <2>1 DEF SigInit, SigType
<1>2. EndsAt(EmptyList, << >>) /\ EmptyList.nextp = NULL /\ EmptyList.prevp = NULL
      /\ EmptyList.live = {}
  BY DEF EndsAt, EmptyList
<1> QED BY <1>1, <1>2, EmptyCarries DEF SigInit, SigInv, Queued, Resting

(* The handler appends a signal. *)
LEMMA EnqueueInv ==
  ASSUME SigInv, NEW s, Enqueue(s), UNCHANGED pc
  PROVE  SigInv'
<1> DEFINE new == fresh + 1
           m == AppendNode(q, new)
<1>1. /\ pc \in {"work", "loop", "act"} /\ fresh < MaxNodes /\ fresh' = new
      /\ q' = m /\ due' = Append(due, new)
      /\ within' = (within \/ (pc # "work" /\ q.count > 0))
  BY DEF Enqueue
<1>2. SigType'
  <2>1. new \in 0 .. MaxNodes
    BY <1>1, MaxNodesAssumption DEF SigInv, SigType
  <2>2. within' \in BOOLEAN
    BY <1>1, Zenon
  <2> QED BY <1>1, <2>1, <2>2 DEF SigInv, SigType
<1>3. CASE within'
  BY <1>2, <1>3 DEF SigInv
<1>4. CASE ~within'
  <2>1. ~within /\ (pc = "work" \/ ~(q.count > 0))
    BY <1>1, <1>4
  <2>2. Queued
    BY <2>1 DEF SigInv
  <2>3. q.count = Len(due) /\ due \in Seq(Ptr)
    BY <2>2 DEF Queued, Carries
  <2>4. q.nextp = NULL /\ q.prevp = NULL
    BY <2>1, <2>2, <2>3 DEF Queued, Resting
  <2>5. new \in Ptr /\ new \notin q.live /\ q.live \cup {new} \subseteq 1 .. new
    <3>1. fresh \in Nat /\ MaxNodes \in Nat /\ fresh < MaxNodes
      BY <1>1, MaxNodesAssumption DEF SigInv, SigType
    <3>2. \A p \in q.live : p \in 1 .. fresh
      BY <2>2 DEF Queued
    <3> QED BY <3>1, <3>2 DEF Ptr
  <2>6. /\ Carries(m, Append(due, new)) /\ EndsAt(m, Append(due, new))
        /\ m.nextp = NULL /\ m.prevp = NULL /\ m.live = q.live \cup {new}
    <3>1. /\ Carries(q, due) /\ EndsAt(q, due) /\ new \in Ptr /\ new \notin q.live
          /\ q.nextp = NULL /\ q.prevp = NULL
      BY <2>2, <2>4, <2>5, Zenon DEF Queued
    <3>2. q.prevp # NULL => due # << >>
      BY <3>1, Zenon
    <3> HIDE DEF new
    <3> QED BY ONLY <3>1, <3>2, AppendCarries
  <2> HIDE DEF m, new
  <2>7. Queued'
    BY <1>1, <2>5, <2>6 DEF Queued, Resting
  <2> QED BY <1>2, <2>7 DEF SigInv
<1> QED BY <1>3, <1>4

(* handle_signals takes the first signal off: there is one, and it leaves  *)
(* the pointer to the next one behind.                                     *)
LEMMA CopyInv ==
  ASSUME SigInv, Copy
  PROVE  SigInv'
<1>1. /\ pc = "copy" /\ UNCHANGED <<fresh, within>>
      /\ pc' \in {"crash", "act"}
  BY DEF Copy
<1>2. SigType'
  BY <1>1 DEF SigInv, SigType
<1>3. CASE within
  BY <1>1, <1>2, <1>3 DEF SigInv
<1>4. CASE ~within
  <2>1. Queued /\ Carries(q, due) /\ EndsAt(q, due) /\ due # << >>
    BY <1>1, <1>4 DEF SigInv, Queued
  <2>2. due \in Seq(Ptr) /\ Distinct(due) /\ 1 \in DOMAIN due /\ due[1] \in Ptr
    BY <2>1 DEF Carries
  <2> DEFINE h == QueueHead
  <2>3. Carries(h, due) /\ h.tail = q.tail /\ CursorAt(h, due, 1)
    BY <2>1, HeadCarries DEF QueueHead
  <2>4. h.thisp # NULL /\ h.prevp = NULL /\ h.nextp = Successor(due, 1)
    BY <2>2, <2>3, NullPtr DEF CursorAt
  <2>5. q' = Unlink(h) /\ due' = Tail(due) /\ pc' = "act"
    BY <2>1, <2>4 DEF Copy
  <2>6. due' = Removed(due, 1)
    BY <2>1, <2>2, <2>5, TailRemoved
  <2> HIDE DEF h
  <2>7. /\ Carries(q', due') /\ EndsAt(q', due')
        /\ q'.prevp = NULL /\ q'.nextp = Successor(due, 1)
    <3>1. EndsAt(h, due)
      BY <2>1, <2>3 DEF EndsAt
    <3> QED BY <2>2, <2>3, <2>4, <2>5, <2>6, <3>1, UnlinkCarries
  <2>8. Successor(due, 1) # NULL => due' # << >>
    <3>1. Successor(due, 1) # NULL => Len(due) > 1
      BY DEF Successor
    <3>2. Len(due') = Len(due) - 1
      BY <2>1, <2>2, <2>5
    <3>3. due' = << >> => Len(due') = 0
      OBVIOUS
    <3> QED BY <2>2, <3>1, <3>2, <3>3
  <2>9. q'.live \subseteq 1 .. fresh'
    <3>1. Nodes(due') \subseteq Nodes(due)
      BY <2>2, <2>6, RemovedSeq
    <3> QED BY <1>1, <2>1, <2>7, <3>1 DEF Queued, Carries
  <2>10. Queued'
    BY <2>5, <2>7, <2>8, <2>9 DEF Queued, Resting
  <2> QED BY <1>2, <2>10 DEF SigInv
<1> QED BY <1>3, <1>4

(* The other statements of handle_signals. *)
LEMMA HandleInv ==
  ASSUME SigInv, Call \/ Loop \/ Act
  PROVE  SigInv'
<1>1. /\ UNCHANGED <<q, due, fresh, within>>
      /\ pc' \in {"loop", "copy", "work", "gone"}
      /\ pc' \in {"copy", "work"} => pc = "loop" /\ (pc' = "copy" <=> q.count > 0)
  BY DEF Call, Loop, Act
<1>2. SigType'
  BY <1>1 DEF SigInv, SigType
<1>3. CASE within
  BY <1>1, <1>2, <1>3 DEF SigInv
<1>4. CASE ~within
  <2>1. Queued
    BY <1>4 DEF SigInv
  <2>2. due \in Seq(Ptr) /\ q.count = Len(due)
    BY <2>1 DEF Queued, Carries
  <2>3. q.count > 0 <=> due # << >>
    BY <2>2
  <2>4. Queued'
    BY <1>1, <2>1, <2>3 DEF Queued, Resting
  <2> QED BY <1>2, <2>4 DEF SigInv
<1> QED BY <1>3, <1>4
-----------------------------------------------------------------------------
(* The invariant of the queue holds in every state. *)
THEOREM SigInductive == SigSpec => []SigInv
<1>1. SigInv /\ [SigNext]_sigVars => SigInv'
  <2> SUFFICES ASSUME SigInv, [SigNext]_sigVars PROVE SigInv'
    OBVIOUS
  <2>1. CASE Deliver
    BY <2>1, EnqueueInv DEF Deliver
  <2>2. CASE Copy
    BY <2>2, CopyInv
  <2>3. CASE Call \/ Loop \/ Act
    BY <2>3, HandleInv
  <2>4. CASE UNCHANGED <<q, due, fresh, within, pc>>
    BY <2>4 DEF SigInv, SigType, Queued, Resting
  <2>5. ASSUME NEW b \in Buddies, Spawn(b) \/ Die(b)
        PROVE  SigInv'
    BY <2>4, <2>5 DEF Spawn, Die
  <2> QED BY <2>1, <2>2, <2>3, <2>4, <2>5 DEF SigNext, SendTerm, HandleSignals, Gone, sigVars
<1> QED BY <1>1, InitSig, PTL DEF SigSpec

(* No signal is lost, and none changes its place, unless it arrived while  *)
(* handle_signals had others to take off (sa_sigaction_func,               *)
(* UPKLIST_APPEND, UPKLIST_UNLINK).                                        *)
THEOREM QueueFaithfulAlways == SigSpec => []QueueFaithful
<1>1. SigInv => QueueFaithful
  BY DEF SigInv, Queued, Carries, QueueFaithful
<1> QED BY <1>1, SigInductive, PTL

(* Under the same condition the pointer that handle_signals follows        *)
(* without a test is not NULL.                                             *)
THEOREM HeadFound == SigSpec => [](~within => pc # "crash")
<1>1. SigInv => (~within => pc # "crash")
  BY DEF SigInv, Queued
<1> QED BY <1>1, SigInductive, PTL
=============================================================================
