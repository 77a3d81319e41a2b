------------------------ MODULE ClientSession_proofs ------------------------
(***************************************************************************)
(* Clients and the controller's dispatcher (module ClientSession), for any *)
(* number of clients, requests and connections.                            *)
(*                                                                         *)
(* The packet of a client that has never given up is in one place          *)
(* (Exchange): on its way to the controller, in the write queue of its     *)
(* connection with the cursor on it, on its way back, or gone.  The        *)
(* controller hangs up only where select() saw the end of a connection,    *)
(* and that is true when it comes to it because it goes over the           *)
(* connections in the order in which they were accepted (Walk, Seen), even *)
(* when the list has lost some.                                            *)
(***************************************************************************)
EXTENDS ClientSession, UpkList_proofs, FiniteSetTheorems

Kinds == RequestKinds \cup {"preamble"}

(* The list of t connections, whatever it has lost: the pointers lead from *)
(* older connections to newer ones.                                        *)
Connections(t) ==
  [head : 0 .. t, tail : 0 .. t, prevp : 0 .. t, nextp : 0 .. t, thisp : 0 .. t, count : Int,
   next : [Ptr -> 0 .. t], live : SUBSET Ptr, stale : BOOLEAN]

Ordered(c) ==
  /\ \A p \in Ptr : c.next[p] = NULL \/ c.next[p] > p
  /\ c.nextp # NULL => c.thisp < c.nextp
  /\ c.thisp # NULL => c.prevp < c.thisp

SessType ==
  /\ cl \in [Client -> {"new", "wait", "idle", "done", "gone"}]
  /\ asked \in [Client -> Seq(Kinds)]
  /\ up \in [Client -> Seq(Nat)]
  /\ down = [k \in Client |-> down[k]] /\ writeq = [k \in Client |-> writeq[k]]
  /\ opened \in 0 .. MaxClients /\ taken \in 0 .. opened
  /\ open \subseteq 1 .. taken
  /\ readable \subseteq 1 .. taken
  /\ pc \in {"select", "read", "write", "prune", "crash"}
  /\ conns \in Connections(taken)

(* The controller goes over the connections in order. *)
Walk ==
  /\ Ordered(conns)
  /\ pc = "select" => conns.nextp = NULL
  /\ pc = "write" => conns.thisp # NULL

(* The controller has still to read from k in this round. *)
Ahead(k) ==
  \/ pc = "read" /\ conns.thisp # NULL /\ k >= conns.thisp
  \/ pc = "write" /\ k > conns.thisp

Seen == \A k \in readable : Ahead(k) => up[k] # << >> \/ HungUp(k)

(* A write queue with at most one packet, and its cursor. *)
Slot(l, s) ==
  /\ Carries(l, s) /\ EndsAt(l, s)
  /\ l.prevp = NULL /\ l.nextp = NULL
  /\ l.thisp = IF s = << >> THEN NULL ELSE s[1]

Place(k, toCtrl, queued, toClient) ==
  up[k] = toCtrl /\ Slot(writeq[k], queued) /\ down[k] = toClient

Exchange(k) ==
  LET n == Len(asked[k]) IN
  /\ n <= MaxNodes
  /\ k > opened => cl[k] = "new" /\ asked[k] = << >>
  /\ k <= opened => n > 0 /\ asked[k][1] = "preamble" /\ cl[k] # "new"
  /\ \/ Place(k, << >>, << >>, << >>)
     \/ /\ cl[k] \in {"wait", "gone"}
        /\ \/ Place(k, <<n>>, << >>, << >>)
           \/ k <= taken /\ Place(k, << >>, <<n>>, << >>)
           \/ k <= taken /\ Place(k, << >>, << >>, <<n>>)

(* Why the connection of a client was closed. *)
Closed(k) ==
  k <= taken /\ k \notin open =>
    \/ HungUp(k)
    \/ cl[k] = "wait" /\ Current(k) = "disconnect" /\ down[k] = <<Len(asked[k])>>

Queued == {r \in open \X Ptr : r[2] \in writeq[r[1]].live}

Counted ==
  (slow = {} /\ \A k \in Client : cl[k] # "gone") => pending = Cardinality(Queued)

SessInv ==
  /\ SessType
  /\ Walk
  /\ Seen
  /\ \A k \in Client \ slow : Exchange(k) /\ Closed(k)
  /\ Counted
-----------------------------------------------------------------------------
(* A write queue is empty at first. *)
LEMMA SlotEmpty == Slot(EmptyList, << >>)
BY EmptyCarries DEF Slot, EndsAt, EmptyList

(* What a write queue without a packet looks like. *)
LEMMA SlotNone ==
  ASSUME NEW l, Slot(l, << >>)
  PROVE  l.live = {} /\ l.count = 0 /\ l.thisp = NULL
BY DEF Slot, Carries, Nodes

(* What a write queue with one packet looks like. *)
LEMMA SlotOne ==
  ASSUME NEW l, NEW p, Slot(l, <<p>>)
  PROVE  p \in Ptr /\ p # NULL /\ l.live = {p} /\ l.count = 1 /\ l.thisp = p /\ CursorAt(l, <<p>>, 1)
<1>1. <<p>> # << >> /\ Len(<<p>>) = 1 /\ DOMAIN <<p>> = {1} /\ <<p>>[1] = p
  OBVIOUS
<1>2. <<p>> \in Seq(Ptr) /\ l.live = Nodes(<<p>>) /\ l.count = 1 /\ l.thisp = p
  BY <1>1 DEF Slot, Carries
<1>3. p \in Ptr
  BY <1>1, <1>2
<1>4. Nodes(<<p>>) = {p}
  BY <1>1 DEF Nodes
<1>5. CursorAt(l, <<p>>, 1)
  BY <1>1, <1>2 DEF Slot, CursorAt, Successor
<1> QED BY <1>2, <1>3, <1>4, <1>5, NullPtr

(* upk_queue_packet on an empty write queue: the cursor is on the packet. *)
LEMMA SlotAppend ==
  ASSUME NEW l, Slot(l, << >>), NEW p \in Ptr
  PROVE  Slot(AppendNode(l, p), <<p>>)
<1> DEFINE m == AppendNode(l, p)
<1>1. Append(<< >>, p) = <<p>> /\ <<p>> # << >> /\ <<p>>[1] = p
  OBVIOUS
<1>2. p \notin l.live
  BY SlotNone
<1> DEFINE s == << >>
<1>3. Carries(l, s) /\ EndsAt(l, s) /\ l.nextp = NULL /\ (l.prevp # NULL => s # << >>)
  BY DEF Slot
<1> HIDE DEF s
<1>4. /\ Carries(m, Append(s, p)) /\ EndsAt(m, Append(s, p))
      /\ m.nextp = NULL /\ m.prevp = NULL /\ m.thisp = p
  BY <1>2, <1>3, AppendCarries
<1> QED BY <1>1, <1>4 DEF Slot, s

(* UPKLIST_UNLINK of the packet that was written. *)
LEMMA SlotUnlink ==
  ASSUME NEW l, NEW p, Slot(l, <<p>>)
  PROVE  Slot(Unlink(l), << >>)
<1> DEFINE m == Unlink(l)
<1>1. p \in Ptr /\ CursorAt(l, <<p>>, 1) /\ 1 \in DOMAIN <<p>>
  BY SlotOne
<1>2. Removed(<<p>>, 1) = << >>
  BY DEF Removed
<1>3. /\ Carries(m, Removed(<<p>>, 1)) /\ EndsAt(m, Removed(<<p>>, 1))
      /\ m.thisp = NULL /\ m.nextp = l.nextp /\ m.prevp = l.prevp
  BY <1>1, UnlinkCarries DEF Slot
<1> QED BY <1>2, <1>3 DEF Slot
-----------------------------------------------------------------------------
(* The list of connections: UPKLIST_FOREACH begins. *)
LEMMA InitOrdered ==
  ASSUME NEW t \in 0 .. MaxNodes, NEW c \in Connections(t), Ordered(c)
  PROVE  /\ ForeachInit(c) \in Connections(t) /\ Ordered(ForeachInit(c))
         /\ c.head = NULL => ForeachInit(c).nextp = NULL
<1> DEFINE S == c.stale \/ Dangling(c, c.head)
           N == NextNode(c, c.head)
           m == [c EXCEPT !.prevp = NULL, !.thisp = c.head, !.nextp = N, !.stale = S]
<1>1. S \in BOOLEAN
  BY Zenon
<1>2. c.head \in 0 .. t /\ c.next \in [Ptr -> 0 .. t] /\ t \in Nat /\ MaxNodes \in Nat
  BY MaxNodesAssumption DEF Connections
<1>3. c.head # NULL => c.head \in Ptr
  BY <1>2 DEF Ptr, NULL
<1>4. N \in 0 .. t /\ (c.head = NULL => N = NULL) /\ (N # NULL => c.head < N)
  BY <1>2, <1>3 DEF NextNode, NULL, Ordered
<1>5. ForeachInit(c) = m
  BY DEF ForeachInit
<1> HIDE DEF S, N
<1> NULL \in 0 .. t
  BY DEF NULL
<1>6. m \in Connections(t)
  BY <1>1, <1>2, <1>4 DEF Connections
<1>7. m.next = c.next /\ m.thisp = c.head /\ m.nextp = N /\ m.prevp = NULL
  BY DEF Connections
<1>8. Ordered(m)
  BY <1>2, <1>4, <1>7 DEF Ordered, NULL
<1> QED BY <1>4, <1>5, <1>6, <1>7, <1>8

(* It goes on, from a connection or from where one was unlinked. *)
LEMMA ContinueOrdered ==
  ASSUME NEW t \in 0 .. MaxNodes, NEW c \in Connections(t), Ordered(c)
  PROVE  /\ ForeachContinue(c) \in Connections(t) /\ Ordered(ForeachContinue(c))
         /\ ForeachContinue(c).thisp = c.nextp
         /\ c.nextp = NULL => ForeachContinue(c).nextp = NULL
<1> DEFINE S == c.stale \/ Dangling(c, c.nextp)
           N == NextNode(c, c.nextp)
           m == [c EXCEPT !.prevp = c.thisp, !.thisp = c.nextp, !.nextp = N, !.stale = S]
<1>1. S \in BOOLEAN
  BY Zenon
<1>2. /\ c.nextp \in 0 .. t /\ c.thisp \in 0 .. t /\ c.next \in [Ptr -> 0 .. t]
      /\ t \in Nat /\ MaxNodes \in Nat
  BY MaxNodesAssumption DEF Connections
<1>3. c.nextp # NULL => c.nextp \in Ptr
  BY <1>2 DEF Ptr, NULL
<1>4. N \in 0 .. t /\ (c.nextp = NULL => N = NULL) /\ (N # NULL => c.nextp < N)
  BY <1>2, <1>3 DEF NextNode, NULL, Ordered
<1>5. ForeachContinue(c) = m
  BY DEF ForeachContinue
<1> HIDE DEF S, N
<1>6. m \in Connections(t)
  BY <1>1, <1>2, <1>4 DEF Connections
<1>7. m.next = c.next /\ m.thisp = c.nextp /\ m.nextp = N /\ m.prevp = c.thisp
  BY DEF Connections
<1>8. Ordered(m)
  BY <1>2, <1>4, <1>7 DEF Ordered, NULL
<1> QED BY <1>4, <1>5, <1>6, <1>7, <1>8

(* A closed connection is unlinked, whatever the pointers say. *)
LEMMA UnlinkOrdered ==
  ASSUME NEW t \in 0 .. MaxNodes, NEW c \in Connections(t), Ordered(c)
  PROVE  Unlink(c) \in Connections(t) /\ Ordered(Unlink(c)) /\ Unlink(c).nextp = c.nextp
<1>1. CASE c.thisp = NULL
  BY <1>1 DEF Unlink
<1>2. CASE c.thisp # NULL
  <2> DEFINE S == c.stale \/ Dangling(c, c.thisp) \/ Dangling(c, c.prevp)
             N == IF c.prevp # NULL THEN [c.next EXCEPT ![c.prevp] = c.nextp] ELSE c.next
             H == IF c.prevp = NULL THEN c.nextp ELSE c.head
             T == IF c.nextp = NULL THEN c.prevp ELSE c.tail
             L == c.live \ {c.thisp}
             C == c.count - 1
             m == [c EXCEPT !.next = N, !.head = H, !.tail = T, !.thisp = NULL, !.count = C,
                            !.live = L, !.stale = S]
  <2>1. S \in BOOLEAN
    BY Zenon
  <2>2. /\ c.nextp \in 0 .. t /\ c.thisp \in 0 .. t /\ c.prevp \in 0 .. t /\ c.head \in 0 .. t
        /\ c.tail \in 0 .. t /\ c.next \in [Ptr -> 0 .. t] /\ c.live \subseteq Ptr /\ c.count \in Int
        /\ t \in Nat /\ MaxNodes \in Nat
    BY MaxNodesAssumption DEF Connections
  <2>3. c.prevp # NULL => c.prevp \in Ptr /\ (c.nextp # NULL => c.prevp < c.nextp)
    BY <1>2, <2>2 DEF Ptr, NULL, Ordered
  <2>4. H \in 0 .. t /\ T \in 0 .. t /\ L \in SUBSET Ptr /\ C \in Int
    BY <2>2
  <2>5. N \in [Ptr -> 0 .. t]
    BY <2>2, <2>3
  <2>6. \A p \in Ptr : N[p] = NULL \/ N[p] > p
    BY <2>2, <2>3 DEF Ordered, Ptr, NULL
  <2>7. Unlink(c) = m
    BY <1>2 DEF Unlink
  <2> HIDE DEF S, N, H, T, L, C
  <2> NULL \in 0 .. t
    BY DEF NULL
  <2>8. m \in Connections(t)
    BY <2>1, <2>2, <2>4, <2>5 DEF Connections
  <2>9. m.next = N /\ m.thisp = NULL /\ m.nextp = c.nextp
    BY DEF Connections
  <2>10. Ordered(m)
    BY <2>2, <2>6, <2>9 DEF Ordered, NULL
  <2> QED BY <2>7, <2>8, <2>9, <2>10
<1> QED BY <1>1, <1>2

(* A connection is accepted: it is the newest and comes last. *)
LEMMA AcceptOrdered ==
  ASSUME NEW t \in Nat, t + 1 <= MaxNodes, NEW c \in Connections(t), Ordered(c), c.nextp = NULL
  PROVE  AppendNode(c, t + 1) \in Connections(t + 1) /\ Ordered(AppendNode(c, t + 1))
<1> DEFINE new == t + 1
           P == IF c.prevp # NULL THEN c.prevp ELSE c.head
           d == [c EXCEPT !.thisp = c.tail, !.prevp = P]
           S == d.stale \/ Dangling(d, d.thisp)
           N == IF d.thisp # NULL THEN [d.next EXCEPT ![new] = d.nextp, ![d.thisp] = new]
                                  ELSE [d.next EXCEPT ![new] = d.nextp]
           T == IF d.nextp = NULL THEN new ELSE d.tail
           H == IF d.prevp = NULL /\ d.count = 0 THEN new ELSE d.head
           C == d.count + 1
           L == d.live \cup {new}
           b == [d EXCEPT !.next = N, !.tail = T, !.head = H, !.count = C,
                          !.thisp = new, !.live = L, !.stale = S]
           m == [b EXCEPT !.prevp = NULL]
<1>1. S \in BOOLEAN
  BY Zenon
<1>2. P \in 0 .. t /\ c.tail \in 0 .. t
  BY DEF Connections
<1> HIDE DEF P
<1>3. d \in Connections(t)
  BY <1>2 DEF Connections
<1>4. /\ d.head \in 0 .. t /\ d.tail \in 0 .. t /\ d.next \in [Ptr -> 0 .. t] /\ d.prevp \in 0 .. t
      /\ d.live \subseteq Ptr /\ d.count \in Int /\ d.thisp \in 0 .. t /\ MaxNodes \in Nat
  BY <1>3, MaxNodesAssumption DEF Connections
<1>5. d.nextp = NULL /\ d.next = c.next
  BY DEF Connections
<1>6. AppendNode(c, new) = m
  BY DEF AppendNode, AppendThis, P
<1> HIDE DEF d
<1>7. new \in Ptr /\ new \in Nat /\ (d.thisp # NULL => d.thisp \in Ptr) /\ NULL \in 0 .. new
  BY <1>4 DEF Ptr, NULL
<1>8. /\ H \in 0 .. new /\ T \in 0 .. new /\ L \in SUBSET Ptr /\ C \in Int /\ new \in 0 .. new
      /\ d.prevp \in 0 .. new /\ d.nextp \in 0 .. new
  BY <1>4, <1>5, <1>7
<1>9. d.next \in [Ptr -> 0 .. new] /\ N \in [Ptr -> 0 .. new]
  BY <1>4, <1>5, <1>7
<1>10. \A p \in Ptr : N[p] = NULL \/ N[p] > p
  <2>1. \A p \in Ptr : d.next[p] = NULL \/ d.next[p] > p
    BY <1>5 DEF Ordered
  <2>2. \A p \in Ptr : N[p] = IF p = d.thisp /\ d.thisp # NULL THEN new
                                ELSE IF p = new THEN NULL ELSE d.next[p]
    BY <1>4, <1>5, <1>7
  <2>3. d.thisp # NULL => new > d.thisp
    BY <1>4, <1>7
  <2> HIDE DEF N
  <2> QED BY <2>1, <2>2, <2>3
<1> HIDE DEF S, N, T, H, C, L, new
<1>11. b \in Connections(new)
  BY <1>1, <1>3, <1>8, <1>9 DEF Connections
<1> HIDE DEF b
<1>12. m \in Connections(new)
  BY <1>7, <1>11 DEF Connections
<1>13. m.next = N /\ m.thisp = new /\ m.nextp = NULL /\ m.prevp = NULL
  BY <1>3, <1>5, <1>11 DEF Connections, b
<1>14. Ordered(m)
  BY <1>7, <1>10, <1>13 DEF Ordered, NULL, Ptr
<1> QED BY <1>6, <1>12, <1>14 DEF new-----------------------------------------------------------------------------
(* Counting the packets that are queued. *)
LEMMA QueuedFinite ==
  ASSUME NEW O, O \subseteq Client, NEW S, S \subseteq O \X Ptr
  PROVE  IsFiniteSet(S)
<1>1. IsFiniteSet(Client) /\ IsFiniteSet(Ptr)
  BY FS_Interval, ClientsAssumption, MaxNodesAssumption DEF Client, Ptr
<1>2. IsFiniteSet(Client \X Ptr)
  BY <1>1, FS_Product
<1>3. S \subseteq Client \X Ptr
  OBVIOUS
<1> QED BY <1>2, <1>3, FS_Subset

(* A client that a step leaves alone, and so does the controller. *)
LEMMA Untouched ==
  ASSUME NEW j \in Client, Exchange(j), Closed(j), taken \in Nat, taken' \in Nat, taken <= taken',
         opened \in Nat, opened' \in Nat, j <= opened' <=> j <= opened,
         cl'[j] = cl[j], asked'[j] = asked[j], up'[j] = up[j], down'[j] = down[j],
         writeq'[j] = writeq[j],
         j <= taken' /\ j \notin open' => j <= taken /\ j \notin open
  PROVE  Exchange(j)' /\ Closed(j)'
<1> j \in Nat
  BY ClientsAssumption DEF Client
<1>1. j > opened' <=> j > opened
  OBVIOUS
<1>2. Slot(writeq[j], << >>)' <=> Slot(writeq[j], << >>)
  OBVIOUS
<1>3. Slot(writeq[j], <<Len(asked[j])>>)' <=> Slot(writeq[j], <<Len(asked[j])>>)
  OBVIOUS
<1>4. Exchange(j)'
  BY <1>1, <1>2, <1>3 DEF Exchange, Place
<1>5. Closed(j)'
  BY DEF Closed, HungUp, Current
<1> QED BY <1>4, <1>5

(* A step of client k, who has not hung up, keeps what holds of the others *)
(* and of the controller.                                                  *)
LEMMA ClientKeeps ==
  ASSUME SessInv, UNCHANGED ctrlVars, NEW k \in Client, SessType', slow \subseteq slow',
         \A j \in Client \ {k} :
           /\ cl'[j] = cl[j] /\ asked'[j] = asked[j] /\ up'[j] = up[j] /\ down'[j] = down[j]
           /\ j <= opened' <=> j <= opened,
         k > taken \/ ~HungUp(k), slow = {} => ~HungUp(k),
         up[k] # << >> => up'[k] # << >>,
         k \notin slow' => Exchange(k)' /\ Closed(k)'
  PROVE  SessInv'
<1>1. /\ taken' = taken /\ conns' = conns /\ open' = open /\ writeq' = writeq /\ pending' = pending
      /\ pc' = pc /\ readable' = readable
  BY DEF ctrlVars
<1>2. Walk'
  BY <1>1 DEF SessInv, Walk
<1>3. Seen'
  <2> SUFFICES ASSUME NEW j \in readable, Ahead(j)
               PROVE  up'[j] # << >> \/ HungUp(j)'
    BY <1>1 DEF Seen, Ahead
  <2>1. up[j] # << >> \/ HungUp(j)
    BY DEF SessInv, Seen
  <2>2. j \in 1 .. taken /\ taken \in Nat /\ j \in Client
    BY ClientsAssumption DEF SessInv, SessType, Client
  <2>3. CASE j = k
    BY <2>1, <2>2, <2>3
  <2>4. CASE j # k
    BY <2>1, <2>2, <2>4 DEF HungUp
  <2> QED BY <2>3, <2>4
<1>4. ASSUME NEW j \in Client \ slow' PROVE Exchange(j)' /\ Closed(j)'
  <2>1. CASE j = k
    BY <2>1
  <2>2. CASE j # k
    <3>1. Exchange(j) /\ Closed(j)
      BY DEF SessInv
    <3>2. taken \in Nat /\ opened \in Nat /\ opened' \in Nat
      BY DEF SessInv, SessType
    <3> QED BY <1>1, <2>2, <3>1, <3>2, Untouched
  <2> QED BY <2>1, <2>2
<1>5. Counted'
  <2> SUFFICES ASSUME slow' = {}, \A j \in Client : cl'[j] # "gone"
               PROVE  pending' = Cardinality(Queued')
    BY DEF Counted
  <2>1. slow = {} /\ \A j \in Client : cl[j] # "gone"
    BY DEF HungUp
  <2>2. Queued' = Queued
    BY <1>1 DEF Queued
  <2> QED BY <1>1, <2>1, <2>2 DEF SessInv, Counted
<1> QED BY <1>2, <1>3, <1>4, <1>5 DEF SessInv
(* A packet under way from a client to the controller: Ask. *)
LEMMA AskInv ==
  ASSUME SessInv, NEW k \in Client, NEW kind \in Kinds, Ask(k, kind), slow' = slow,
         opened' \in opened .. MaxClients,
         \A j \in Client \ {k} : j <= opened' <=> j <= opened,
         \/ cl[k] = "idle" /\ Len(asked[k]) < MaxNodes
         \/ k > opened /\ k <= opened' /\ kind = "preamble"
  PROVE  SessInv'
<1> DEFINE n == Len(asked[k])
<1>1. UNCHANGED ctrlVars /\ UNCHANGED <<taken, open, writeq, conns, pc, readable>> /\ down' = down
  BY DEF Ask, ctrlVars
<1>2. SessType /\ (k \notin slow => Exchange(k) /\ Closed(k))
  BY DEF SessInv
<1>3. /\ asked[k] \in Seq(Kinds) /\ n \in Nat /\ up[k] \in Seq(Nat) /\ k \in Nat
      /\ opened \in Nat /\ taken \in 0 .. opened /\ opened' \in Nat
  BY <1>2, ClientsAssumption DEF SessType, Client
<1>4. /\ asked' = [asked EXCEPT ![k] = Append(asked[k], kind)]
      /\ up' = [up EXCEPT ![k] = Append(up[k], n + 1)]
      /\ cl' = [cl EXCEPT ![k] = "wait"]
  BY DEF Ask
<1>5. /\ cl'[k] = "wait" /\ asked'[k] = Append(asked[k], kind) /\ up'[k] = Append(up[k], n + 1)
      /\ \A j \in Client \ {k} : cl'[j] = cl[j] /\ asked'[j] = asked[j] /\ up'[j] = up[j]
  BY <1>2, <1>4 DEF SessType
<1>6. Append(asked[k], kind) \in Seq(Kinds) /\ Append(up[k], n + 1) \in Seq(Nat)
  BY <1>3
<1>7. SessType'
  <2>1. cl' \in [Client -> {"new", "wait", "idle", "done", "gone"}]
    BY <1>2, <1>4 DEF SessType
  <2>2. asked' \in [Client -> Seq(Kinds)] /\ up' \in [Client -> Seq(Nat)]
    BY <1>2, <1>4, <1>6 DEF SessType
  <2>3. opened' \in 0 .. MaxClients /\ taken' \in 0 .. opened'
    BY <1>1, <1>2, <1>3, ClientsAssumption DEF SessType
  <2> QED BY <1>1, <1>2, <2>1, <2>2, <2>3 DEF SessType
<1>8. up'[k] # << >>
  <2>1. Len(up'[k]) = Len(up[k]) + 1 /\ Len(up[k]) \in Nat
    BY <1>3, <1>5
  <2> QED BY <2>1
<1>9. ASSUME k \notin slow PROVE Exchange(k)' /\ Closed(k)'
  <2>1. Exchange(k) /\ Closed(k)
    BY <1>2, <1>9
  <2>2. Len(asked'[k]) = n + 1 /\ n + 1 > 0 /\ (n > 0 => asked'[k][1] = asked[k][1])
        /\ (n = 0 => asked'[k][1] = kind)
    BY <1>3, <1>5
  <2>3. /\ n + 1 <= MaxNodes /\ asked'[k][1] = "preamble" /\ cl[k] \in {"idle", "new"}
        /\ (cl[k] = "idle" => k <= opened)
    BY <1>3, <2>1, <2>2, MaxNodesAssumption DEF Exchange
  <2>4. Place(k, << >>, << >>, << >>)
    BY <2>1, <2>3 DEF Exchange
  <2>5. up'[k] = <<n + 1>>
    BY <1>3, <1>5, <2>4 DEF Place
  <2>6. Slot(writeq[k], << >>)' /\ down'[k] = << >>
    BY <1>1, <2>4 DEF Place
  <2>7. Place(k, <<Len(asked[k])>>, << >>, << >>)'
    BY <2>2, <2>5, <2>6 DEF Place
  <2>8. Exchange(k)'
    BY <1>3, <1>5, <2>2, <2>3, <2>7 DEF Exchange
  <2>9. Closed(k)'
    BY <1>1, <1>3, <2>1, <2>3 DEF Closed, HungUp, Exchange
  <2> QED BY <2>8, <2>9
<1>10. (k > taken \/ ~HungUp(k)) /\ (slow = {} => ~HungUp(k))
  BY <1>2, <1>3 DEF HungUp, Exchange
<1> QED BY <1>1, <1>5, <1>7, <1>8, <1>9, <1>10, ClientKeeps

(* upk_clnet_ctrl_connect *)
LEMMA ConnectInv == ASSUME SessInv, Connect PROVE SessInv'
<1>1. opened \in 0 .. MaxClients /\ MaxClients \in Nat
  BY ClientsAssumption DEF SessInv, SessType
<1>2. /\ opened' = opened + 1 /\ opened' \in opened .. MaxClients /\ opened' \in Client
      /\ opened' > opened /\ opened' <= opened'
      /\ \A j \in Client \ {opened'} : j <= opened' <=> j <= opened
  BY <1>1 DEF Connect, Client
<1>3. slow' = slow /\ "preamble" \in Kinds
  BY DEF Connect, Ask, Kinds
<1> DEFINE k == opened'
<1>4. Ask(k, "preamble")
  BY DEF Connect
<1> QED BY <1>2, <1>3, <1>4, AskInv

(* upk_clnet_serial_request *)
LEMMA RequestInv ==
  ASSUME SessInv, NEW k \in Client, NEW kind \in Requests, Request(k, kind)
  PROVE  SessInv'
<1>1. kind \in Kinds
  BY RequestsAssumption DEF Kinds
<1>2. opened' = opened /\ Ask(k, kind) /\ cl[k] = "idle" /\ Len(asked[k]) < MaxNodes /\ slow' = slow
  BY DEF Request, Ask
<1>3. opened \in 0 .. MaxClients /\ MaxClients \in Nat
  BY ClientsAssumption DEF SessInv, SessType
<1> QED BY <1>1, <1>2, <1>3, AskInv
(* A step that ends a wait: nothing is sent. *)
LEMMA WaitInv ==
  ASSUME SessInv, NEW k \in Client, ~HungUp(k), NEW c \in {"idle", "done", "gone"},
         cl' = [cl EXCEPT ![k] = c],
         UNCHANGED <<asked, opened, up, ctrlVars>>, slow \subseteq slow',
         down' = [j \in Client |-> down'[j]], \A j \in Client \ {k} : down'[j] = down[j],
         k \notin slow' => Exchange(k)' /\ Closed(k)'
  PROVE  SessInv'
<1>1. /\ asked' = asked /\ opened' = opened /\ up' = up
      /\ UNCHANGED <<taken, conns, open, writeq, pc, readable>> /\ UNCHANGED ctrlVars
  BY DEF ctrlVars
<1>2. SessType'
  BY <1>1 DEF SessInv, SessType
<1>3. \A j \in Client \ {k} : cl'[j] = cl[j]
  BY DEF SessInv, SessType
<1> QED BY <1>1, <1>2, <1>3, ClientKeeps

(* upk_net_block_until_msg: a reply *)
LEMMA ReceiveInv == ASSUME SessInv, NEW k \in Client, Receive(k) PROVE SessInv'
<1> DEFINE n == Len(asked[k])
           c == After(k, asked[k][Head(down[k])] = Current(k))
<1>1. /\ cl[k] = "wait" /\ down[k] # << >>
      /\ cl' = [cl EXCEPT ![k] = c] /\ down' = [down EXCEPT ![k] = Tail(down[k])]
      /\ UNCHANGED <<asked, slow, opened, up, ctrlVars>>
  BY DEF Receive
<1>2. c \in {"idle", "done", "gone"}
  BY DEF After
<1>3. /\ asked' = asked /\ opened' = opened /\ up' = up /\ slow' = slow
      /\ UNCHANGED <<taken, open, writeq>>
  BY <1>1 DEF ctrlVars
<1>4. /\ down' = [j \in Client |-> down'[j]] /\ \A j \in Client \ {k} : down'[j] = down[j]
      /\ down'[k] = Tail(down[k])
  BY <1>1 DEF SessInv, SessType
<1>5. cl'[k] = c /\ ~HungUp(k)
  BY <1>1 DEF SessInv, SessType, HungUp
<1>6. ASSUME k \notin slow PROVE Exchange(k)' /\ Closed(k)'
  <2>1. Exchange(k) /\ Closed(k) /\ n \in Nat
    BY <1>6 DEF SessInv, SessType
  <2>2. k <= taken /\ Place(k, << >>, << >>, <<n>>)
    BY <1>1, <2>1 DEF Exchange, Place
  <2>3. down[k] = <<n>> /\ Head(down[k]) = n /\ Tail(down[k]) = << >>
    BY <2>2 DEF Place
  <2>4. c = After(k, TRUE)
    BY <2>3 DEF Current
  <2>5. k <= opened /\ n > 0 /\ asked[k][1] = "preamble"
    BY <1>1, <2>1, ClientsAssumption DEF Exchange, SessInv, SessType, Client
  <2>6. Place(k, << >>, << >>, << >>)'
    BY <1>3, <1>4, <2>2, <2>3 DEF Place
  <2>7. Exchange(k)'
    BY <1>2, <1>3, <1>5, <2>1, <2>5, <2>6, ClientsAssumption DEF Exchange, SessInv, SessType, Client
  <2>8. Current(k) = "disconnect" => c = "done"
    BY <2>4, <2>5 DEF After, Current
  <2>9. Closed(k)'
    BY <1>1, <1>3, <1>5, <2>1, <2>8 DEF Closed, HungUp
  <2> QED BY <2>7, <2>9
<1> HIDE DEF c
<1> QED BY <1>1, <1>2, <1>3, <1>4, <1>5, <1>6, WaitInv

(* ... and giving up on it. *)
LEMMA TimeoutInv == ASSUME SessInv, NEW k \in Client, Timeout(k) PROVE SessInv'
<1> DEFINE c == After(k, FALSE)
<1>1. /\ ~HungUp(k) /\ cl' = [cl EXCEPT ![k] = c] /\ slow' = slow \cup {k} /\ down' = down
      /\ UNCHANGED <<asked, opened, up, ctrlVars>>
  BY DEF Timeout, HungUp
<1>2. c \in {"idle", "done", "gone"}
  BY DEF After
<1>3. down' = [j \in Client |-> down'[j]]
  BY <1>1 DEF SessInv, SessType
<1> HIDE DEF c
<1> QED BY <1>1, <1>2, <1>3, WaitInv

(* A client that hangs up leaves its packet where it is. *)
LEMMA HangUpInv ==
  ASSUME SessInv, NEW k \in Client, cl[k] \in {"wait", "idle"}, cl' = [cl EXCEPT ![k] = "gone"],
         UNCHANGED <<asked, slow, opened, up, down, ctrlVars>>
  PROVE  SessInv'
<1>1. /\ asked' = asked /\ opened' = opened /\ up' = up /\ slow' = slow /\ down' = down
      /\ UNCHANGED <<taken, open, writeq>> /\ UNCHANGED ctrlVars
  BY DEF ctrlVars
<1>2. cl'[k] = "gone" /\ ~HungUp(k) /\ down' = [j \in Client |-> down'[j]]
  BY <1>1 DEF SessInv, SessType, HungUp
<1>3. ASSUME k \notin slow PROVE Exchange(k)' /\ Closed(k)'
  <2>1. Exchange(k)
    BY <1>3 DEF SessInv
  <2>2. Slot(writeq[k], << >>)' <=> Slot(writeq[k], << >>)
    BY <1>1
  <2>3. Slot(writeq[k], <<Len(asked[k])>>)' <=> Slot(writeq[k], <<Len(asked[k])>>)
    BY <1>1
  <2>4. Exchange(k)'
    BY <1>1, <1>2, <2>1, <2>2, <2>3 DEF Exchange, Place
  <2>5. Closed(k)'
    BY <1>2 DEF Closed, HungUp
  <2> QED BY <2>4, <2>5
<1>4. cl' = [cl EXCEPT ![k] = "gone"] /\ "gone" \in {"idle", "done", "gone"}
  OBVIOUS
<1> DEFINE c == "gone"
<1>5. cl' = [cl EXCEPT ![k] = c] /\ c \in {"idle", "done", "gone"}
  BY <1>4
<1> HIDE DEF c
<1> QED BY <1>1, <1>2, <1>3, <1>5, WaitInv

(* What a client does. *)
LEMMA ClientInv == ASSUME SessInv, NEW k \in Client, ClientStep(k) PROVE SessInv'
<1>1. ASSUME NEW kind \in Requests, Request(k, kind) PROVE SessInv'
  BY <1>1, RequestInv
<1>2. CASE EndOfFile(k)
  BY <1>2, HangUpInv DEF EndOfFile
<1>3. CASE Die(k)
  BY <1>3, HangUpInv DEF Die
<1> QED BY <1>1, <1>2, <1>3, ReceiveInv, TimeoutInv DEF ClientStep-----------------------------------------------------------------------------
(* What the controller starts from. *)
LEMMA CtrlTypes ==
  ASSUME SessInv
  PROVE  /\ opened \in 0 .. MaxClients /\ taken \in 0 .. opened /\ MaxClients \in 1 .. MaxNodes
         /\ taken \in 0 .. MaxNodes /\ taken \in Nat /\ MaxNodes \in Nat /\ opened \in Nat
         /\ conns \in Connections(taken) /\ Ordered(conns) /\ open \subseteq Client
         /\ conns.thisp \in 0 .. taken /\ conns.nextp \in 0 .. taken
         /\ (conns.thisp # NULL => conns.thisp \in Client)
<1>1. /\ opened \in 0 .. MaxClients /\ taken \in 0 .. opened /\ MaxClients \in 1 .. MaxNodes
      /\ MaxNodes \in Nat /\ conns \in Connections(taken) /\ Ordered(conns) /\ open \subseteq 1 .. taken
  BY ClientsAssumption, MaxNodesAssumption DEF SessInv, SessType, Walk
<1>2. conns.thisp \in 0 .. taken /\ conns.nextp \in 0 .. taken
  BY <1>1 DEF Connections
<1> QED BY <1>1, <1>2 DEF Client, NULL

(* Clients the controller leaves alone in a round of its own. *)
LEMMA LeftAlone ==
  ASSUME SessInv, UNCHANGED <<clientVars, up, down, writeq>>, taken' \in taken .. opened,
         \A j \in Client : j <= taken' /\ j \notin open' => j <= taken /\ j \notin open
  PROVE  \A j \in Client \ slow' : Exchange(j)' /\ Closed(j)'
<1>1. /\ cl' = cl /\ asked' = asked /\ slow' = slow /\ opened' = opened /\ up' = up /\ down' = down
      /\ writeq' = writeq
  BY DEF clientVars
<1>2. taken \in Nat /\ opened \in Nat /\ taken' \in Nat /\ taken <= taken'
  BY CtrlTypes
<1>3. ASSUME NEW j \in Client \ slow PROVE Exchange(j)' /\ Closed(j)'
  <2>1. Exchange(j) /\ Closed(j)
    BY DEF SessInv
  <2> QED BY <1>1, <1>2, <2>1, Untouched
<1> QED BY <1>1, <1>3

(* ctrl_accept_conn and select *)
LEMMA SelectInv == ASSUME SessInv, Select PROVE SessInv'
<1>1. /\ cl' = cl /\ asked' = asked /\ slow' = slow /\ opened' = opened /\ up' = up /\ down' = down
      /\ writeq' = writeq /\ pending' = pending /\ pc' = "read" /\ pc = "select"
      /\ readable' = {k \in open' : up[k] # << >> \/ HungUp(k)}
      /\ UNCHANGED <<clientVars, up, down, writeq>>
  BY DEF Select, clientVars
<1>2. conns.nextp = NULL
  BY <1>1 DEF SessInv, Walk
<1>3. /\ taken' \in taken .. opened /\ conns' \in Connections(taken') /\ Ordered(conns')
      /\ open' \in {open, open \cup {taken + 1}} /\ open' \subseteq 1 .. taken'
      /\ (open' # open => taken' = taken + 1)
      /\ \A j \in Client : j <= taken' /\ j \notin open' => j <= taken /\ j \notin open
  <2>1. CASE taken < opened
    <3> DEFINE m == AppendNode(conns, taken + 1)
    <3>1. taken' = taken + 1 /\ conns' = ForeachInit(m) /\ open' = open \cup {taken + 1}
      BY <2>1 DEF Select, Accept
    <3>2. taken + 1 <= MaxNodes /\ taken + 1 \in 0 .. MaxNodes
      BY <2>1, CtrlTypes
    <3>3. m \in Connections(taken + 1) /\ Ordered(m)
      BY <1>2, <3>2, CtrlTypes, AcceptOrdered
    <3> HIDE DEF m
    <3>4. conns' \in Connections(taken + 1) /\ Ordered(conns')
      BY <3>1, <3>2, <3>3, InitOrdered
    <3>5. open' \subseteq 1 .. taken'
      BY <3>1, CtrlTypes DEF SessInv, SessType
    <3>6. \A j \in Client : j <= taken' /\ j \notin open' => j <= taken /\ j \notin open
      BY <3>1, CtrlTypes DEF Client
    <3> QED BY <2>1, <3>1, <3>4, <3>5, <3>6, CtrlTypes
  <2>2. CASE ~(taken < opened)
    <3>1. taken' = taken /\ conns' = ForeachInit(conns) /\ open' = open
      BY <2>2 DEF Select, Accept
    <3>2. conns' \in Connections(taken) /\ Ordered(conns')
      BY <3>1, CtrlTypes, InitOrdered
    <3> QED BY <3>1, <3>2, CtrlTypes DEF SessInv, SessType
  <2> QED BY <2>1, <2>2
<1>4. taken' \in 0 .. opened /\ taken' \in Nat
  BY <1>3, CtrlTypes
<1>5. SessType'
  BY <1>1, <1>3, <1>4 DEF SessInv, SessType
<1>6. Walk'
  BY <1>1, <1>3 DEF Walk
<1>7. Seen'
  BY <1>1 DEF Seen, HungUp
<1>8. \A j \in Client \ slow' : Exchange(j)' /\ Closed(j)'
  BY <1>1, <1>3, LeftAlone
<1>9. Counted'
  <2> SUFFICES ASSUME slow = {}, \A j \in Client : cl[j] # "gone"
               PROVE  pending = Cardinality(Queued')
    BY <1>1 DEF Counted
  <2>1. open' # open => taken + 1 \in Client /\ writeq[taken + 1].live = {}
    <3> SUFFICES ASSUME open' # open PROVE taken + 1 \in Client /\ writeq[taken + 1].live = {}
      OBVIOUS
    <3>1. taken + 1 \in Client /\ ~(taken + 1 <= taken)
      BY <1>3, CtrlTypes DEF Client
    <3>2. Slot(writeq[taken + 1], << >>)
      BY <3>1 DEF SessInv, Exchange, Place
    <3> QED BY <3>1, <3>2, SlotNone
  <2>2. Queued' = Queued
    BY <1>1, <1>3, <2>1 DEF Queued
  <2> QED BY <2>2 DEF SessInv, Counted
<1> QED BY <1>5, <1>6, <1>7, <1>8, <1>9 DEF SessInv

(* The end of a round, and the walk over the closed connections. *)
LEMMA DispatchEndInv == ASSUME SessInv, DispatchEnd PROVE SessInv'
<1>1. /\ cl' = cl /\ asked' = asked /\ slow' = slow /\ opened' = opened /\ up' = up /\ down' = down
      /\ writeq' = writeq /\ pending' = pending /\ taken' = taken /\ open' = open /\ readable' = {}
      /\ conns' = ForeachInit(conns) /\ pc' = (IF conns.head = NULL THEN "select" ELSE "prune")
      /\ UNCHANGED <<clientVars, up, down, writeq>>
  BY DEF DispatchEnd, clientVars
<1>2. /\ conns' \in Connections(taken) /\ Ordered(conns')
      /\ (conns.head = NULL => conns'.nextp = NULL)
  BY <1>1, CtrlTypes, InitOrdered
<1>3. SessType' /\ Walk' /\ Seen'
  BY <1>1, <1>2 DEF SessInv, SessType, Walk, Seen
<1>4. \A j \in Client \ slow' : Exchange(j)' /\ Closed(j)'
  BY <1>1, CtrlTypes, LeftAlone
<1>5. Counted'
  BY <1>1 DEF SessInv, Counted, Queued
<1> QED BY <1>3, <1>4, <1>5 DEF SessInv

(* upk_net_flush_closed_sockets *)
LEMMA PruneInv == ASSUME SessInv, Prune PROVE SessInv'
<1> DEFINE m == IF conns.thisp \in open THEN conns ELSE Unlink(conns)
<1>1. /\ cl' = cl /\ asked' = asked /\ slow' = slow /\ opened' = opened /\ up' = up /\ down' = down
      /\ writeq' = writeq /\ pending' = pending /\ taken' = taken /\ open' = open
      /\ readable' = readable
      /\ conns' = ForeachContinue(m) /\ pc' = (IF conns.nextp = NULL THEN "select" ELSE "prune")
      /\ UNCHANGED <<clientVars, up, down, writeq>>
  BY DEF Prune, clientVars
<1>2. m \in Connections(taken) /\ Ordered(m) /\ m.nextp = conns.nextp
  BY CtrlTypes, UnlinkOrdered
<1> HIDE DEF m
<1>3. /\ conns' \in Connections(taken) /\ Ordered(conns')
      /\ (conns.nextp = NULL => conns'.nextp = NULL)
  BY <1>1, <1>2, CtrlTypes, ContinueOrdered
<1>4. SessType' /\ Walk'
  BY <1>1, <1>3 DEF SessInv, SessType, Walk
<1>5. Seen'
  BY <1>1 DEF Seen, Ahead
<1>6. \A j \in Client \ slow' : Exchange(j)' /\ Closed(j)'
  BY <1>1, CtrlTypes, LeftAlone
<1>7. Counted'
  BY <1>1 DEF SessInv, Counted, Queued
<1> QED BY <1>4, <1>5, <1>6, <1>7 DEF SessInv
(* Clients other than the one whose connection is served. *)
LEMMA OthersAlone ==
  ASSUME SessInv, NEW k \in Client, UNCHANGED <<clientVars, taken>>, open' \in {open, open \ {k}},
         \A j \in Client \ {k} : up'[j] = up[j] /\ down'[j] = down[j] /\ writeq'[j] = writeq[j],
         k \notin slow => Exchange(k)' /\ Closed(k)'
  PROVE  \A j \in Client \ slow' : Exchange(j)' /\ Closed(j)'
<1>1. cl' = cl /\ asked' = asked /\ slow' = slow /\ opened' = opened /\ taken' = taken
  BY DEF clientVars
<1>2. ASSUME NEW j \in Client \ slow, j # k PROVE Exchange(j)' /\ Closed(j)'
  <2>1. Exchange(j) /\ Closed(j)
    BY DEF SessInv
  <2>2. j \notin open' => j \notin open
    BY <1>2
  <2> QED BY <1>1, <1>2, <2>1, <2>2, CtrlTypes, Untouched
<1> QED BY <1>1, <1>2

(* A packet of client k that select() saw, or the end of its connection:   *)
(* what upk_read_packets makes of its exchange.                            *)
LEMMA ReadExchange ==
  ASSUME SessInv, ReadPackets, NEW k, k = conns.thisp, k \notin slow
  PROVE  Exchange(k)' /\ Closed(k)'
<1> DEFINE n == Len(asked[k])
           packet == k \in readable \cap open /\ up[k] # << >>
           kind == asked[k][Head(up[k])]
           known == {"preamble", "action", "disconnect"}
<1>1. /\ cl' = cl /\ asked' = asked /\ opened' = opened /\ down' = down /\ taken' = taken
      /\ pc = "read" /\ k # NULL
      /\ up' = IF packet THEN [up EXCEPT ![k] = Tail(up[k])] ELSE up
      /\ open' = IF k \in readable /\ ~packet THEN open \ {k} ELSE open
      /\ packet /\ kind \in known => QueuePacket(k, Head(up[k]))
      /\ ~(packet /\ kind \in known) => writeq' = writeq /\ pending' = pending
  BY DEF ReadPackets, clientVars
<1>2. k \in Client /\ k \in Nat /\ taken \in Nat /\ opened \in Nat /\ taken <= opened
  BY <1>1, CtrlTypes
<1>3. Exchange(k) /\ Closed(k) /\ n \in Nat
  BY <1>2 DEF SessInv, SessType
<1>4. CASE packet
  <2>1. Place(k, <<n>>, << >>, << >>) /\ cl[k] \in {"wait", "gone"} /\ k <= taken
    BY <1>3, <1>4 DEF Exchange, Place, SessInv, SessType
  <2>2. up[k] = <<n>> /\ Head(up[k]) = n /\ Tail(up[k]) = << >>
    BY <2>1 DEF Place
  <2>3. up'[k] = << >> /\ open' = open
    BY <1>1, <1>2, <1>4, <2>2 DEF SessInv, SessType
  <2>4. n > 0 /\ n <= MaxNodes /\ n \in Ptr /\ asked[k][1] = "preamble" /\ cl[k] # "new"
    BY <1>2, <1>3, <2>1, CtrlTypes DEF Exchange, Ptr
  <2>5. CASE kind \in known
    <3>1. writeq' = [writeq EXCEPT ![k] = AppendNode(writeq[k], n)]
      BY <1>1, <1>4, <2>2, <2>5 DEF QueuePacket
    <3>2. writeq'[k] = AppendNode(writeq[k], n)
      BY <1>2, <3>1 DEF SessInv, SessType
    <3>3. Slot(AppendNode(writeq[k], n), <<n>>)
      BY <2>1, <2>4, SlotAppend DEF Place
    <3>4. Slot(writeq[k], <<Len(asked[k])>>)'
      BY <1>1, <3>2, <3>3
    <3>5. Place(k, << >>, <<Len(asked[k])>>, << >>)'
      BY <1>1, <2>1, <2>3, <3>4 DEF Place
    <3>6. Exchange(k)'
      BY <1>1, <1>2, <1>3, <2>1, <2>4, <3>5 DEF Exchange
    <3>7. Closed(k)'
      BY <1>4, <2>3 DEF Closed
    <3> QED BY <3>6, <3>7
  <2>6. CASE kind \notin known
    <3>1. writeq' = writeq
      BY <1>1, <2>6
    <3>2. Place(k, << >>, << >>, << >>)'
      BY <1>1, <2>1, <2>3, <3>1 DEF Place
    <3>3. Exchange(k)'
      BY <1>1, <1>2, <1>3, <2>1, <2>4, <3>2 DEF Exchange
    <3>4. Closed(k)'
      BY <1>4, <2>3 DEF Closed
    <3> QED BY <3>3, <3>4
  <2> QED BY <2>5, <2>6
<1>5. CASE ~packet
  <2>1. up' = up /\ writeq' = writeq
    BY <1>1, <1>5
  <2>2. Slot(writeq[k], << >>)' <=> Slot(writeq[k], << >>)
    BY <2>1
  <2>3. Slot(writeq[k], <<Len(asked[k])>>)' <=> Slot(writeq[k], <<Len(asked[k])>>)
    BY <1>1, <2>1
  <2>4. Exchange(k)'
    BY <1>1, <1>3, <2>1, <2>2, <2>3 DEF Exchange, Place
  <2>5. k \in readable /\ up[k] = << >> => HungUp(k)
    BY <1>1, <1>2 DEF SessInv, Seen, Ahead
  <2>6. k \in readable /\ k \in open => HungUp(k)
    BY <1>5, <2>5
  <2>7. Closed(k)'
    BY <1>1, <1>3, <1>5, <2>6 DEF Closed, HungUp, Current
  <2> QED BY <2>4, <2>7
<1> QED BY <1>4, <1>5
(* upk_read_packets *)
LEMMA ReadInv == ASSUME SessInv, ReadPackets PROVE SessInv'
<1> SUFFICES ASSUME NEW k, k = conns.thisp PROVE SessInv'
  OBVIOUS
<1> DEFINE packet == k \in readable \cap open /\ up[k] # << >>
           kind == asked[k][Head(up[k])]
           known == {"preamble", "action", "disconnect"}
<1>1. /\ cl' = cl /\ asked' = asked /\ slow' = slow /\ opened' = opened /\ down' = down
      /\ taken' = taken /\ conns' = conns /\ readable' = readable
      /\ pc = "read" /\ k # NULL /\ pc' \in {"crash", "write"}
      /\ up' = (IF packet THEN [up EXCEPT ![k] = Tail(up[k])] ELSE up)
      /\ open' = (IF k \in readable /\ ~packet THEN open \ {k} ELSE open)
      /\ packet /\ kind \in known => QueuePacket(k, Head(up[k]))
      /\ ~(packet /\ kind \in known) => writeq' = writeq /\ pending' = pending
      /\ UNCHANGED <<clientVars, taken>>
  BY DEF ReadPackets, clientVars
<1>2. k \in Client /\ k \in Nat
  BY <1>1, CtrlTypes
<1>3. /\ writeq' = [j \in Client |-> writeq'[j]]
      /\ \A j \in Client \ {k} : writeq'[j] = writeq[j]
  <2>1. CASE packet /\ kind \in known
    <3>1. writeq' = [writeq EXCEPT ![k] = AppendNode(writeq[k], Head(up[k]))]
      BY <1>1, <2>1 DEF QueuePacket
    <3> QED BY <3>1 DEF SessInv, SessType
  <2>2. CASE ~(packet /\ kind \in known)
    BY <1>1, <2>2 DEF SessInv, SessType
  <2> QED BY <2>1, <2>2
<1>4. up' \in [Client -> Seq(Nat)] /\ \A j \in Client \ {k} : up'[j] = up[j]
  <2>1. up \in [Client -> Seq(Nat)] /\ up[k] \in Seq(Nat)
    BY <1>2 DEF SessInv, SessType
  <2>2. packet => Tail(up[k]) \in Seq(Nat)
    BY <2>1
  <2> QED BY <1>1, <2>1, <2>2
<1>5. open' \in {open, open \ {k}}
  BY <1>1
<1>6. SessType'
  BY <1>1, <1>3, <1>4, <1>5 DEF SessInv, SessType
<1>7. Walk'
  BY <1>1 DEF SessInv, Walk
<1>8. Seen'
  <2> SUFFICES ASSUME NEW j \in readable, Ahead(j)'
               PROVE  up'[j] # << >> \/ HungUp(j)
    BY <1>1 DEF Seen, HungUp
  <2>1. j \in 1 .. taken /\ taken \in 0 .. MaxClients
    BY CtrlTypes DEF SessInv, SessType
  <2>2. j \in Client /\ j \in Nat
    BY <2>1, ClientsAssumption DEF Client
  <2>3. j > k
    BY <1>1 DEF Ahead
  <2>4. Ahead(j) /\ j # k
    BY <1>1, <1>2, <2>2, <2>3 DEF Ahead
  <2> QED BY <1>4, <2>2, <2>4 DEF SessInv, Seen
<1>9. \A j \in Client \ slow' : Exchange(j)' /\ Closed(j)'
  <2>1. k \notin slow => Exchange(k)' /\ Closed(k)'
    BY ReadExchange
  <2> QED BY <1>1, <1>2, <1>3, <1>4, <1>5, <2>1, OthersAlone
<1>10. Counted'
  <2> SUFFICES ASSUME slow = {}, \A j \in Client : cl[j] # "gone"
               PROVE  pending' = Cardinality(Queued')
    BY <1>1 DEF Counted
  <2>1. Exchange(k) /\ pending = Cardinality(Queued) /\ Queued \subseteq open \X Ptr
    BY <1>2 DEF SessInv, Counted, Queued
  <2>2. IsFiniteSet(Queued) /\ Cardinality(Queued) \in Nat
    BY <2>1, CtrlTypes, QueuedFinite, FS_CardinalityType
  <2>3. CASE packet /\ kind \in known
    <3> DEFINE n == Head(up[k])
    <3>1. Slot(writeq[k], << >>) /\ Slot(AppendNode(writeq[k], n), <<n>>)
      <4>1. Place(k, <<Len(asked[k])>>, << >>, << >>) /\ k <= opened
        BY <2>1, <2>3, CtrlTypes DEF Exchange, Place, SessInv, SessType
      <4>2. n = Len(asked[k]) /\ n \in Ptr
        BY <1>2, <2>1, <4>1 DEF Exchange, Place, Ptr, SessInv, SessType
      <4> QED BY <4>1, <4>2, SlotAppend DEF Place
    <3>2. writeq[k].live = {} /\ AppendNode(writeq[k], n).live = {n} /\ n \in Ptr
      BY <3>1, SlotNone, SlotOne
    <3>3. writeq' = [writeq EXCEPT ![k] = AppendNode(writeq[k], n)] /\ pending' = pending + 1
      BY <1>1, <2>3 DEF QueuePacket
    <3>4. open' = open /\ k \in open
      BY <1>1, <2>3
    <3>5. writeq'[k].live = {n}
      BY <1>2, <3>2, <3>3 DEF SessInv, SessType
    <3>6. Queued' = Queued \cup {<<k, n>>} /\ <<k, n>> \notin Queued
      <4>1. ASSUME NEW r \in open \X Ptr
            PROVE  r \in Queued' <=> r \in Queued \/ r = <<k, n>>
        <5>1. r[1] \in Client /\ r = <<r[1], r[2]>>
          BY CtrlTypes
        <5>2. CASE r[1] = k
          BY <3>2, <3>4, <3>5, <5>1, <5>2 DEF Queued
        <5>3. CASE r[1] # k
          BY <1>3, <3>4, <5>1, <5>3 DEF Queued
        <5> QED BY <5>2, <5>3
      <4>2. <<k, n>> \in open \X Ptr /\ <<k, n>> \notin Queued
        BY <3>2, <3>4 DEF Queued
      <4>3. Queued' \subseteq open \X Ptr
        BY <3>4 DEF Queued
      <4> QED BY <2>1, <4>1, <4>2, <4>3
    <3> QED BY <2>1, <2>2, <3>3, <3>6, FS_AddElement
  <2>4. CASE ~(packet /\ kind \in known)
    <3>1. writeq' = writeq /\ pending' = pending
      BY <1>1, <2>4
    <3>2. open' # open => writeq[k].live = {}
      <4> SUFFICES ASSUME open' # open PROVE writeq[k].live = {}
        OBVIOUS
      <4>1. k \in readable /\ k \in open /\ up[k] = << >>
        BY <1>1
      <4>2. HungUp(k)
        BY <1>1, <1>2, <4>1 DEF SessInv, Seen, Ahead
      <4>3. cl[k] = "done"
        BY <1>2, <4>2 DEF HungUp
      <4>4. Slot(writeq[k], << >>)
        BY <2>1, <4>3 DEF Exchange, Place
      <4> QED BY <4>4, SlotNone
    <3>3. Queued' = Queued
      BY <1>5, <3>1, <3>2 DEF Queued
    <3> QED BY <2>1, <3>1, <3>3
  <2> QED BY <2>3, <2>4
<1> QED BY <1>6, <1>7, <1>8, <1>9, <1>10 DEF SessInv
(* The packet at the cursor of a write queue is the answer to the request  *)
(* its client waits for.                                                   *)
LEMMA SendExchange ==
  ASSUME SessInv, NEW k \in Client \ slow, k \in open, ~HungUp(k), writeq[k].count >= 1,
         Send(k, writeq[k].thisp), UNCHANGED <<clientVars, up, taken>>
  PROVE  /\ Exchange(k)' /\ Closed(k)'
         /\ writeq[k].live = {Len(asked[k])} /\ Len(asked[k]) \in Ptr /\ writeq'[k].live = {}
<1> DEFINE n == Len(asked[k])
<1>1. cl' = cl /\ asked' = asked /\ opened' = opened /\ up' = up /\ taken' = taken
  BY DEF clientVars
<1>2. Exchange(k) /\ Closed(k) /\ n \in Nat
  BY DEF SessInv, SessType
<1>3. ~Slot(writeq[k], << >>)
  BY SlotNone
<1>4. Place(k, << >>, <<n>>, << >>) /\ cl[k] = "wait" /\ k <= taken
  BY <1>2, <1>3 DEF Exchange, Place, HungUp
<1>5. Slot(writeq[k], <<n>>) /\ down[k] = << >> /\ up[k] = << >>
  BY <1>4 DEF Place
<1>6. n \in Ptr /\ writeq[k].live = {n} /\ writeq[k].thisp = n
  BY <1>5, SlotOne
<1>7. Slot(Unlink(writeq[k]), << >>)
  BY <1>5, SlotUnlink
<1>8. /\ down'[k] = Append(down[k], n) /\ writeq'[k] = Unlink(writeq[k])
      /\ open' = IF asked[k][n] = "disconnect" THEN open \ {k} ELSE open
  BY <1>6 DEF Send, SessInv, SessType
<1>9. down'[k] = <<n>>
  BY <1>5, <1>8
<1>10. Slot(writeq[k], << >>)'
  BY <1>7, <1>8
<1>11. Place(k, << >>, << >>, <<Len(asked[k])>>)'
  BY <1>1, <1>5, <1>9, <1>10 DEF Place
<1>12. Exchange(k)'
  BY <1>1, <1>2, <1>4, <1>11 DEF Exchange
<1>13. Closed(k)'
  BY <1>1, <1>4, <1>8, <1>9 DEF Closed, Current
<1>14. writeq'[k].live = {}
  BY <1>7, <1>8, SlotNone
<1> QED BY <1>6, <1>12, <1>13, <1>14

(* upk_write_packets *)
LEMMA WriteInv == ASSUME SessInv, WritePackets PROVE SessInv'
<1> SUFFICES ASSUME NEW k, k = conns.thisp PROVE SessInv'
  OBVIOUS
<1> DEFINE ready == /\ k \in writable \cap open /\ ~HungUp(k)
                    /\ writeq[k].count >= 1 /\ writeq[k].thisp # NULL
           p == writeq[k].thisp
<1>1. /\ cl' = cl /\ asked' = asked /\ slow' = slow /\ opened' = opened /\ up' = up
      /\ taken' = taken /\ readable' = readable /\ pc = "write" /\ pc' = "read"
      /\ conns' = ForeachContinue(conns)
      /\ (ready => Send(k, p))
      /\ (~ready => UNCHANGED <<down, open, writeq, pending>>)
      /\ UNCHANGED <<clientVars, up, taken>>
  BY DEF WritePackets, clientVars
<1>2. k # NULL /\ k \in Client
  BY <1>1, CtrlTypes DEF SessInv, Walk
<1>3. conns' \in Connections(taken) /\ Ordered(conns') /\ conns'.thisp = conns.nextp
  BY <1>1, CtrlTypes, ContinueOrdered
<1>4. /\ down' = [j \in Client |-> down'[j]] /\ writeq' = [j \in Client |-> writeq'[j]]
      /\ \A j \in Client \ {k} : down'[j] = down[j] /\ writeq'[j] = writeq[j]
      /\ open' \in {open, open \ {k}}
  <2>1. CASE ready
    <3>1. /\ down' = [down EXCEPT ![k] = Append(down[k], p)]
          /\ writeq' = [writeq EXCEPT ![k] = Unlink(writeq[k])]
          /\ open' \in {open, open \ {k}}
      BY <1>1, <2>1 DEF Send
    <3> QED BY <3>1 DEF SessInv, SessType
  <2>2. CASE ~ready
    BY <1>1, <2>2 DEF SessInv, SessType
  <2> QED BY <2>1, <2>2
<1>5. SessType'
  BY <1>1, <1>3, <1>4 DEF SessInv, SessType
<1>6. Walk'
  BY <1>1, <1>3 DEF Walk
<1>7. Seen'
  <2> SUFFICES ASSUME NEW j \in readable, Ahead(j)'
               PROVE  up[j] # << >> \/ HungUp(j)
    BY <1>1 DEF Seen, HungUp
  <2>1. conns.nextp # NULL /\ j >= conns.nextp /\ j \in Nat
    BY <1>1, <1>3, CtrlTypes DEF Ahead, SessInv, SessType
  <2>2. j > conns.thisp
    BY <2>1, CtrlTypes DEF Ordered
  <2> QED BY <1>1, <2>2 DEF SessInv, Seen, Ahead
<1>8. \A j \in Client \ slow' : Exchange(j)' /\ Closed(j)'
  <2>1. k \notin slow => Exchange(k)' /\ Closed(k)'
    <3> SUFFICES ASSUME k \notin slow PROVE Exchange(k)' /\ Closed(k)'
      OBVIOUS
    <3>1. CASE ready
      BY <1>1, <1>2, <3>1, SendExchange
    <3>2. CASE ~ready
      <4>1. Exchange(k) /\ Closed(k)
        BY <1>2 DEF SessInv
      <4> QED BY <1>1, <1>2, <3>2, <4>1, CtrlTypes, Untouched
    <3> QED BY <3>1, <3>2
  <2> QED BY <1>1, <1>2, <1>4, <2>1, OthersAlone
<1>9. Counted'
  <2> SUFFICES ASSUME slow = {}, \A j \in Client : cl[j] # "gone"
               PROVE  pending' = Cardinality(Queued')
    BY <1>1 DEF Counted
  <2>1. pending = Cardinality(Queued) /\ Queued \subseteq open \X Ptr
    BY DEF SessInv, Counted, Queued
  <2>2. IsFiniteSet(Queued) /\ Cardinality(Queued) \in Nat
    BY <2>1, CtrlTypes, QueuedFinite, FS_CardinalityType
  <2>3. CASE ready
    <3> DEFINE n == Len(asked[k])
    <3>1. writeq[k].live = {n} /\ n \in Ptr /\ writeq'[k].live = {} /\ k \in open
      BY <1>1, <1>2, <2>3, SendExchange
    <3>2. pending' = pending - 1
      BY <1>1, <2>3 DEF Send
    <3> HIDE DEF n
    <3>3. <<k, n>> \in Queued /\ Queued' = Queued \ {<<k, n>>}
      <4>1. ASSUME NEW r \in open \X Ptr
            PROVE  r \in Queued' <=> r \in Queued /\ r # <<k, n>>
        <5>1. r[1] \in Client /\ r = <<r[1], r[2]>>
          BY CtrlTypes
        <5>2. CASE r[1] = k
          BY <3>1, <5>1, <5>2 DEF Queued
        <5>3. CASE r[1] # k
          BY <1>4, <5>1, <5>3 DEF Queued
        <5> QED BY <5>2, <5>3
      <4>2. <<k, n>> \in Queued
        BY <3>1 DEF Queued
      <4>3. Queued' \subseteq open \X Ptr
        BY <1>4 DEF Queued
      <4> QED BY <2>1, <4>1, <4>2, <4>3
    <3> QED BY <2>1, <2>2, <3>2, <3>3, FS_RemoveElement
  <2>4. CASE ~ready
    BY <1>1, <2>1, <2>4 DEF Queued
  <2> QED BY <2>3, <2>4
<1> QED BY <1>5, <1>6, <1>7, <1>8, <1>9 DEF SessInv
-----------------------------------------------------------------------------
(* Every behaviour of the clients and the controller keeps SessInv. *)
THEOREM SessInductive == SessSpec => []SessInv
<1>1. SessInit => SessInv
  <2> SUFFICES ASSUME SessInit PROVE SessInv
    OBVIOUS
  <2> USE DEF SessInit
  <2>1. MaxClients \in Nat /\ 1 <= MaxClients /\ MaxNodes \in Nat
    BY ClientsAssumption, MaxNodesAssumption
  <2>2. conns \in Connections(0) /\ Ordered(conns) /\ conns.nextp = NULL
    BY <2>1 DEF Connections, EmptyList, Ordered, NULL
  <2>3. SessType
    BY <2>1, <2>2 DEF SessType, Kinds
  <2>4. Walk /\ Seen
    BY <2>2 DEF Walk, Seen
  <2>5. ASSUME NEW k \in Client PROVE Exchange(k) /\ Closed(k)
    <3>1. k \in Nat /\ k > 0
      BY <2>1 DEF Client
    <3>2. cl[k] = "new" /\ asked[k] = << >> /\ up[k] = << >> /\ down[k] = << >> /\ writeq[k] = EmptyList
      OBVIOUS
    <3>3. Place(k, << >>, << >>, << >>)
      BY <3>2, SlotEmpty DEF Place
    <3> QED BY <2>1, <3>1, <3>2, <3>3 DEF Exchange, Closed
  <2>6. Counted
    <3>1. Queued = {}
      BY DEF Queued
    <3> QED BY <3>1, FS_EmptySet DEF Counted
  <2> QED BY <2>3, <2>4, <2>5, <2>6 DEF SessInv
<1>2. SessInv /\ [SessNext]_sessVars => SessInv'
  <2> SUFFICES ASSUME SessInv, [SessNext]_sessVars PROVE SessInv'
    OBVIOUS
  <2>1. CASE UNCHANGED sessVars
    BY <2>1 DEF sessVars, clientVars, ctrlVars, SessInv, SessType, Walk, Seen, Ahead, HungUp, Exchange,
                Place, Closed, Current, Counted, Queued
  <2>2. ASSUME NEW k \in Client, ClientStep(k) PROVE SessInv'
    BY <2>2, ClientInv
  <2>3. CASE CtrlStep
    BY <2>3, SelectInv, ReadInv, WriteInv, DispatchEndInv, PruneInv DEF CtrlStep
  <2> QED BY <2>1, <2>2, <2>3, ConnectInv DEF SessNext
<1> QED BY <1>1, <1>2, PTL DEF SessSpec

(* A client that has never given up on a request is only sent the reply to *)
(* the request it is waiting for, for any number of clients and requests.  *)
THEOREM ReplyMatchesAlways == SessSpec => []ReplyMatches
<1>1. SessInv => ReplyMatches
  <2> SUFFICES ASSUME SessInv, NEW k \in Client \ slow
               PROVE  /\ down[k] \in {<< >>, <<Len(asked[k])>>}
                      /\ cl[k] = "idle" => down[k] = << >> /\ up[k] = << >> /\ writeq[k].live = {}
    BY DEF ReplyMatches
  <2>1. Exchange(k)
    BY DEF SessInv
  <2>2. CASE Place(k, << >>, << >>, << >>)
    BY <2>2, SlotNone DEF Place
  <2>3. CASE ~Place(k, << >>, << >>, << >>)
    BY <2>1, <2>3 DEF Exchange, Place
  <2> QED BY <2>2, <2>3
<1> QED BY <1>1, SessInductive, PTL

(* The controller does not hang up on a client that waits, unless it has   *)
(* told the client so: the shutdown callback comes after the reply.        *)
THEOREM LeaveTakenAlways == SessSpec => []LeaveTaken
<1>1. SessInv => LeaveTaken
  <2> SUFFICES ASSUME SessInv, NEW k \in Client \ slow, k <= taken, k \notin open, cl[k] = "wait"
               PROVE  down[k] # << >>
    BY DEF LeaveTaken
  <2>1. Closed(k)
    BY DEF SessInv
  <2>2. down[k] = <<Len(asked[k])>>
    BY <2>1 DEF Closed, HungUp
  <2> QED BY <2>2
<1> QED BY <1>1, SessInductive, PTL

(* pending_writeq counts the packets queued on open connections, as long   *)
(* as no client has given up or vanished.                                  *)
THEOREM PendingCountsAlways == SessSpec => []PendingCounts
<1>1. SessInv => PendingCounts
  BY DEF SessInv, Counted, Queued, PendingCounts
<1> QED BY <1>1, SessInductive, PTL
=============================================================================
