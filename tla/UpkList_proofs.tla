--------------------------- MODULE UpkList_proofs ---------------------------
(***************************************************************************)
(* What the list macros of module UpkList do to a list that holds the      *)
(* nodes of a sequence, for a heap of any size.  What they rely on in the  *)
(* pointers another macro left behind is stated as an assumption of each   *)
(* lemma; the programs over the lists have to show it.                     *)
(***************************************************************************)
EXTENDS UpkList, SequenceTheorems, TLAPS

Nodes(s) == {s[k] : k \in DOMAIN s}
Distinct(s) == \A i, j \in DOMAIN s : s[i] = s[j] => i = j

(* The list is the nodes of s, in order, and no others. *)
Carries(l, s) ==
  /\ l \in List /\ s \in Seq(Ptr)
  /\ Distinct(s)
  /\ Meets(l, s)
  /\ l.live = Nodes(s)
  /\ l.count = Len(s)
  /\ ~l.stale

EndsAt(l, s) == l.tail = IF s = << >> THEN NULL ELSE s[Len(s)]

(* s without its k-th element. *)
Removed(s, k) == [i \in 1 .. (Len(s) - 1) |-> IF i < k THEN s[i] ELSE s[i + 1]]

(* The pointers are a node of the sequence and its neighbours. *)
CursorAt(l, s, k) ==
  /\ l.thisp = s[k]
  /\ l.nextp = Successor(s, k)
  /\ l.prevp = IF k = 1 THEN NULL ELSE s[k - 1]
-----------------------------------------------------------------------------
(* NULL is no node. *)
LEMMA NullPtr == NULL \notin Ptr
BY DEF NULL, Ptr

(* An empty list holds nothing. *)
LEMMA EmptyCarries == Carries(EmptyList, << >>)
<1>1. EmptyList \in List
  BY DEF EmptyList, List, NULL
<1>2. << >> \in Seq(Ptr) /\ Len(<< >>) = 0 /\ DOMAIN << >> = {}
  OBVIOUS
<1>3. Meets(EmptyList, << >>)
  BY <1>2 DEF Meets, Successor, EmptyList
<1> QED BY <1>1, <1>2, <1>3 DEF Carries, Distinct, Nodes, EmptyList

(* UPKLIST_APPEND: the node comes last, if the list ends at its tail and   *)
(* the pointer a FOREACH leaves behind is NULL.                            *)
LEMMA AppendCarries ==
  ASSUME NEW l, NEW s, NEW new \in Ptr, Carries(l, s), new \notin l.live,
         EndsAt(l, s), l.nextp = NULL, l.prevp # NULL => s # << >>
  PROVE  /\ Carries(AppendNode(l, new), Append(s, new))
         /\ EndsAt(AppendNode(l, new), Append(s, new))
         /\ AppendNode(l, new).nextp = NULL /\ AppendNode(l, new).prevp = NULL
         /\ AppendNode(l, new).live = l.live \cup {new} /\ AppendNode(l, new).thisp = new
<1> DEFINE m == AppendNode(l, new)
           t == Append(s, new)
           n == Len(s)
<1>1. /\ s \in Seq(Ptr) /\ n \in Nat /\ DOMAIN s = 1 .. n
      /\ l \in List
  BY DEF Carries
<1>2. /\ t \in Seq(Ptr) /\ Len(t) = n + 1 /\ DOMAIN t = 1 .. (n + 1)
      /\ t[n + 1] = new /\ \A k \in 1 .. n : t[k] = s[k]
      /\ t # << >>
  BY <1>1
<1>3. /\ l.next \in [Ptr -> Ptr \cup {NULL}] /\ l.head \in Ptr \cup {NULL}
      /\ l.tail \in Ptr \cup {NULL} /\ l.count = n /\ l.live \subseteq Ptr
  BY <1>1 DEF Carries, List
<1>4. /\ s = << >> <=> n = 0
      /\ l.head = Successor(s, 0)
      /\ l.tail = IF n = 0 THEN NULL ELSE s[n]
      /\ \A k \in 1 .. n : s[k] \in Ptr /\ s[k] # NULL /\ l.next[s[k]] = Successor(s, k)
  BY <1>1, NullPtr DEF Carries, Meets, EndsAt
<1>5. /\ m.head = IF n = 0 THEN new ELSE l.head
      /\ m.tail = new /\ m.prevp = NULL /\ m.nextp = NULL /\ m.thisp = new
      /\ m.count = n + 1 /\ m.live = l.live \cup {new}
      /\ m.next = IF n = 0 THEN [l.next EXCEPT ![new] = NULL]
                  ELSE [l.next EXCEPT ![new] = NULL, ![s[n]] = new]
      /\ m.stale = (l.stale \/ Dangling(l, l.tail))
      /\ m \in List
  <2> DEFINE a == [l EXCEPT !.thisp = l.tail, !.prevp = IF @ # NULL THEN @ ELSE l.head]
             b == AppendThis(a, new)
  <2>1. /\ a \in List
        /\ a.thisp = l.tail /\ a.prevp = (IF l.prevp # NULL THEN l.prevp ELSE l.head)
        /\ a.nextp = NULL /\ a.head = l.head /\ a.tail = l.tail /\ a.count = n
        /\ a.next = l.next /\ a.live = l.live /\ a.stale = l.stale
    BY <1>1, <1>3 DEF List
  <2> HIDE DEF a
  <2>2. a.prevp = NULL /\ a.count = 0 <=> n = 0
    BY <1>4, <2>1 DEF Successor
  <2>3. /\ b.head = IF n = 0 THEN new ELSE l.head
        /\ b.tail = new /\ b.nextp = NULL /\ b.thisp = new
        /\ b.count = n + 1 /\ b.live = l.live \cup {new}
        /\ b.stale = (a.stale \/ Dangling(a, l.tail))
    BY <2>1, <2>2 DEF AppendThis, List
  <2>4. b.next = IF n = 0 THEN [l.next EXCEPT ![new] = NULL]
                 ELSE [l.next EXCEPT ![new] = NULL, ![s[n]] = new]
    BY <1>4, <2>1 DEF AppendThis, List
  <2>5. b.next \in [Ptr -> Ptr \cup {NULL}]
    BY <1>3, <1>4, <2>4
  <2>6. b \in List
    <3> DEFINE N == IF a.thisp # NULL THEN [a.next EXCEPT ![new] = a.nextp, ![a.thisp] = new]
                                      ELSE [a.next EXCEPT ![new] = a.nextp]
               T == IF a.nextp = NULL THEN new ELSE a.tail
               H == IF a.prevp = NULL /\ a.count = 0 THEN new ELSE a.head
               C == a.count + 1
               L == a.live \cup {new}
               S == a.stale \/ Dangling(a, a.thisp)
    <3>1. /\ N \in [Ptr -> Ptr \cup {NULL}] /\ T \in Ptr \cup {NULL} /\ H \in Ptr \cup {NULL}
          /\ C \in Nat /\ L \in SUBSET Ptr /\ new \in Ptr \cup {NULL}
      BY <2>1 DEF List
    <3>2. S \in BOOLEAN
      BY <2>1, Zenon DEF List, Dangling
    <3>3. b = [a EXCEPT !.next = N, !.tail = T, !.head = H, !.count = C,
                        !.thisp = new, !.live = L, !.stale = S]
      BY DEF AppendThis
    <3>4. a \in List
      BY <2>1
    <3> HIDE DEF b, N, T, H, C, L, S
    <3>5. [a EXCEPT !.next = N, !.tail = T, !.head = H, !.count = C,
                    !.thisp = new, !.live = L, !.stale = S] \in List
      BY <3>1, <3>2, <3>4 DEF List
    <3> QED BY <3>3, <3>5
  <2>7. m = [b EXCEPT !.prevp = NULL]
    BY DEF AppendNode, a
  <2> HIDE DEF b, m
  <2>8. /\ m \in List /\ m.prevp = NULL
        /\ m.head = b.head /\ m.tail = b.tail /\ m.nextp = b.nextp /\ m.thisp = b.thisp
        /\ m.count = b.count /\ m.next = b.next /\ m.live = b.live /\ m.stale = b.stale
    BY <2>6, <2>7 DEF List
  <2>9. Dangling(a, l.tail) = Dangling(l, l.tail)
    BY <2>1 DEF Dangling
  <2> QED BY <2>1, <2>3, <2>4, <2>8, <2>9
<1> HIDE DEF m, t, n
<1>6. ~m.stale
  <2>1. ~Dangling(l, l.tail)
    BY <1>1, <1>4 DEF Carries, Dangling, Nodes
  <2>2. ~l.stale
    BY DEF Carries
  <2> QED BY <1>5, <2>1, <2>2
<1>7. m.live = Nodes(t)
  BY <1>1, <1>2, <1>5 DEF Carries, Nodes
<1>8. Distinct(t)
  BY <1>1, <1>2 DEF Carries, Distinct, Nodes
<1>9. Meets(m, t)
  <2>1. m.head = Successor(t, 0)
    BY <1>1, <1>2, <1>4, <1>5 DEF Successor, n
  <2>2. ASSUME NEW k \in 1 .. (n + 1)
        PROVE  t[k] # NULL /\ m.next[t[k]] = Successor(t, k)
    <3>1. CASE k = n + 1
      BY <1>1, <1>2, <1>3, <1>4, <1>5, <3>1, NullPtr DEF Successor
    <3>2. CASE k \in 1 .. n
      <4>1. t[k] = s[k] /\ s[k] \in Ptr /\ s[k] # NULL /\ s[k] # new
        BY <1>1, <1>2, <1>4, <3>2 DEF Carries, Nodes
      <4>2. CASE k = n
        BY <1>1, <1>2, <1>3, <1>4, <1>5, <3>2, <4>1, <4>2 DEF Successor
      <4>3. CASE k < n
        <5>1. s[k] # s[n]
          BY <1>1, <3>2, <4>3 DEF Carries, Distinct
        <5>2. m.next[s[k]] = l.next[s[k]]
          BY <1>1, <1>3, <1>5, <3>2, <4>1, <5>1
        <5> QED BY <1>1, <1>2, <1>4, <3>2, <4>1, <4>3, <5>2 DEF Successor, n
      <4> QED BY <1>1, <3>2, <4>2, <4>3
    <3> QED BY <1>1, <3>1, <3>2
  <2> QED BY <1>2, <2>1, <2>2 DEF Meets
<1>10. EndsAt(m, t)
  BY <1>1, <1>2, <1>5 DEF EndsAt
<1> QED BY <1>1, <1>2, <1>5, <1>6, <1>7, <1>8, <1>9, <1>10 DEF Carries, m, t

(* UPKLIST_PREPEND: the node comes first, whatever the pointers were. *)
LEMMA PrependCarries ==
  ASSUME NEW l, NEW s, NEW new \in Ptr, Carries(l, s), new \notin l.live
  PROVE  /\ Carries(PrependNode(l, new), <<new>> \o s)
         /\ PrependNode(l, new).live = l.live \cup {new}
<1> DEFINE m == PrependNode(l, new)
           t == <<new>> \o s
           n == Len(s)
<1>1. /\ s \in Seq(Ptr) /\ n \in Nat /\ DOMAIN s = 1 .. n
      /\ l \in List
  BY DEF Carries
<1>2. /\ t \in Seq(Ptr) /\ Len(t) = n + 1 /\ DOMAIN t = 1 .. (n + 1)
      /\ t[1] = new /\ \A k \in 1 .. n : t[k + 1] = s[k]
  BY <1>1
<1>3. /\ l.next \in [Ptr -> Ptr \cup {NULL}] /\ l.head \in Ptr \cup {NULL}
      /\ l.count = n /\ l.live \subseteq Ptr /\ ~l.stale
      /\ l.head = Successor(s, 0)
      /\ \A k \in 1 .. n : s[k] \in Ptr /\ s[k] # NULL /\ l.next[s[k]] = Successor(s, k)
      /\ l.live = Nodes(s) /\ Distinct(s)
  BY <1>1, NullPtr DEF Carries, Meets, List
<1>4. /\ m \in List /\ m.head = new /\ m.count = n + 1 /\ m.live = l.live \cup {new}
      /\ m.next = [l.next EXCEPT ![new] = l.head] /\ ~m.stale
  <2> DEFINE a == [l EXCEPT !.prevp = NULL, !.thisp = l.head]
             T == IF a.nextp = NULL THEN new ELSE a.tail
             S == a.stale \/ Dangling(a, a.prevp)
  <2>1. /\ a \in List /\ a.prevp = NULL /\ a.thisp = l.head /\ a.next = l.next
        /\ a.count = n /\ a.live = l.live /\ a.stale = l.stale
    BY <1>1, <1>3 DEF List
  <2>2. m = [a EXCEPT !.next = [l.next EXCEPT ![new] = l.head], !.tail = T, !.head = new,
                      !.count = a.count + 1, !.thisp = new, !.live = a.live \cup {new},
                      !.stale = S]
    <3> HIDE DEF a
    <3> QED BY <2>1 DEF PrependNode, PrependThis, a
  <2>3. T \in Ptr \cup {NULL}
    BY <2>1 DEF List
  <2>4. S = FALSE
    BY <1>3, <2>1 DEF Dangling
  <2>5. [l.next EXCEPT ![new] = l.head] \in [Ptr -> Ptr \cup {NULL}]
    BY <1>3
  <2>6. m = [a EXCEPT !.next = [l.next EXCEPT ![new] = l.head], !.tail = T, !.head = new,
                      !.count = n + 1, !.thisp = new, !.live = l.live \cup {new},
                      !.stale = FALSE]
    BY <2>1, <2>2, <2>4, Zenon
  <2>7. n + 1 \in Nat /\ l.live \cup {new} \in SUBSET Ptr
    BY <1>1, <1>3
  <2> HIDE DEF a, T, S, m, n
  <2> QED BY <2>1, <2>3, <2>5, <2>6, <2>7 DEF List
<1> HIDE DEF m, t, n
<1>5. \A k \in 1 .. n : s[k] # new
  BY <1>1, <1>3 DEF Nodes
<1>6. \A j \in 1 .. (n + 1) : j = 1 \/ (j - 1 \in 1 .. n /\ t[j] = s[j - 1])
  BY <1>1, <1>2
<1>7. m.live = Nodes(t)
  <2>1. Nodes(t) \subseteq Nodes(s) \cup {new}
    <3>1. ASSUME NEW j \in DOMAIN t PROVE t[j] \in Nodes(s) \cup {new}
      <4>1. CASE j = 1
        BY <1>2, <4>1
      <4>2. CASE j - 1 \in DOMAIN s /\ t[j] = s[j - 1]
        BY <4>2 DEF Nodes
      <4> QED BY <1>1, <1>2, <1>6, <4>1, <4>2
    <3> QED BY <3>1 DEF Nodes
  <2>2. ASSUME NEW k \in DOMAIN s PROVE s[k] \in Nodes(t)
    <3>1. k + 1 \in DOMAIN t /\ t[k + 1] = s[k]
      BY <1>1, <1>2, <2>2
    <3> QED BY <3>1 DEF Nodes
  <2>3. new \in Nodes(t)
    BY <1>1, <1>2 DEF Nodes
  <2> QED BY <1>3, <1>4, <2>1, <2>2, <2>3 DEF Nodes
<1>8. Distinct(t)
  <2> SUFFICES ASSUME NEW i \in 1 .. (n + 1), NEW j \in 1 .. (n + 1), t[i] = t[j] PROVE i = j
    BY <1>2 DEF Distinct
  <2>1. CASE i = 1 \/ j = 1
    BY <1>2, <1>5, <1>6, <2>1
  <2>2. CASE i # 1 /\ j # 1
    <3>1. i - 1 \in 1 .. n /\ j - 1 \in 1 .. n /\ s[i - 1] = s[j - 1]
      BY <1>6, <2>2
    <3>2. i - 1 = j - 1
      BY <1>1, <1>3, <3>1 DEF Distinct
    <3> QED BY <1>1, <3>2
  <2> QED BY <2>1, <2>2
<1>9. Meets(m, t)
  <2>1. m.head = Successor(t, 0)
    BY <1>1, <1>2, <1>4 DEF Successor
  <2>2. ASSUME NEW k \in 1 .. (n + 1)
        PROVE  t[k] # NULL /\ m.next[t[k]] = Successor(t, k)
    <3>1. CASE k = 1
      <4>1. Successor(t, 1) = Successor(s, 0)
        BY <1>1, <1>2 DEF Successor, n
      <4> QED BY <1>2, <1>3, <1>4, <3>1, <4>1, NullPtr
    <3>2. CASE k # 1
      <4>1. k - 1 \in 1 .. n /\ t[k] = s[k - 1] /\ s[k - 1] # new
        BY <1>1, <1>5, <1>6, <3>2
      <4>2. Successor(t, k) = Successor(s, k - 1)
        BY <1>1, <1>2, <4>1 DEF Successor, n
      <4> QED BY <1>3, <1>4, <4>1, <4>2
    <3> QED BY <3>1, <3>2
  <2> QED BY <1>2, <2>1, <2>2 DEF Meets
<1> QED BY <1>2, <1>3, <1>4, <1>7, <1>8, <1>9 DEF Carries, m, t

(* _UPKLIST_FOREACH_INIT: the pointers are at the first node. *)
LEMMA HeadCarries ==
  ASSUME NEW l, NEW s, Carries(l, s)
  PROVE  LET m == ForeachInit(l)
         IN  /\ Carries(m, s) /\ m.tail = l.tail
             /\ s # << >> => CursorAt(m, s, 1)
             /\ s = << >> => m.thisp = NULL /\ m.nextp = NULL /\ m.prevp = NULL
<1> DEFINE m == ForeachInit(l)
           S == l.stale \/ Dangling(l, l.head)
<1>1. /\ s \in Seq(Ptr) /\ Len(s) \in Nat /\ DOMAIN s = 1 .. Len(s) /\ (s = << >> <=> Len(s) = 0)
      /\ l \in List /\ ~l.stale /\ l.head = Successor(s, 0)
      /\ l.next \in [Ptr -> Ptr \cup {NULL}] /\ l.head \in Ptr \cup {NULL}
  BY DEF Carries, Meets, List
<1>2. s # << >> => l.head = s[1] /\ s[1] \in l.live /\ s[1] # NULL /\ l.next[s[1]] = Successor(s, 1)
  BY <1>1 DEF Carries, Meets, Nodes, Successor
<1>3. s = << >> => l.head = NULL
  BY <1>1 DEF Successor
<1>4. NextNode(l, l.head) = IF s = << >> THEN NULL ELSE Successor(s, 1)
  BY <1>2, <1>3 DEF NextNode
<1>5. NextNode(l, l.head) \in Ptr \cup {NULL}
  BY <1>1 DEF NextNode
<1>6. S = FALSE
  BY <1>1, <1>2, <1>3 DEF Dangling
<1>7. m = [l EXCEPT !.prevp = NULL, !.thisp = l.head, !.nextp = NextNode(l, l.head), !.stale = S]
  BY DEF ForeachInit
<1>8. /\ m \in List /\ m.prevp = NULL /\ m.thisp = l.head /\ m.nextp = NextNode(l, l.head) /\ ~m.stale
      /\ m.head = l.head /\ m.tail = l.tail /\ m.next = l.next /\ m.live = l.live /\ m.count = l.count
  <2> HIDE DEF S, m
  <2> QED BY <1>1, <1>5, <1>6, <1>7 DEF List
<1> HIDE DEF m
<1>9. Carries(m, s)
  BY <1>8 DEF Carries, Meets
<1> QED BY <1>2, <1>3, <1>4, <1>8, <1>9 DEF CursorAt, m
-----------------------------------------------------------------------------
(* A sequence without one of its elements. *)
LEMMA RemovedSeq ==
  ASSUME NEW s \in Seq(Ptr), Distinct(s), NEW k \in DOMAIN s
  PROVE  LET r == Removed(s, k)
         IN  /\ r \in Seq(Ptr) /\ Len(r) = Len(s) - 1 /\ DOMAIN r = 1 .. (Len(s) - 1)
             /\ \A i \in DOMAIN r : r[i] = IF i < k THEN s[i] ELSE s[i + 1]
             /\ Distinct(r)
             /\ Nodes(r) = Nodes(s) \ {s[k]}
<1> DEFINE r == Removed(s, k)
           n == Len(s)
           at(i) == IF i < k THEN i ELSE i + 1
<1>1. n \in Nat /\ DOMAIN s = 1 .. n /\ k \in 1 .. n /\ n - 1 \in Nat
  OBVIOUS
<1>2. \A i \in 1 .. (n - 1) : at(i) \in 1 .. n /\ at(i) # k /\ s[at(i)] \in Ptr
  BY <1>1
<1>3. r = [i \in 1 .. (n - 1) |-> s[at(i)]]
  BY <1>1 DEF Removed
<1>4. r \in Seq(Ptr) /\ Len(r) = n - 1 /\ DOMAIN r = 1 .. (n - 1)
  BY <1>1, <1>2, <1>3
<1>5. \A i \in 1 .. (n - 1) : r[i] = s[at(i)]
  BY <1>3
<1> HIDE DEF r
<1>6. Distinct(r)
  <2> SUFFICES ASSUME NEW i \in 1 .. (n - 1), NEW j \in 1 .. (n - 1), r[i] = r[j] PROVE i = j
    BY <1>4 DEF Distinct
  <2>1. at(i) = at(j)
    BY <1>1, <1>2, <1>5 DEF Distinct
  <2> QED BY <1>1, <2>1
<1>7. Nodes(r) = Nodes(s) \ {s[k]}
  <2>1. ASSUME NEW i \in 1 .. (n - 1) PROVE r[i] \in Nodes(s) \ {s[k]}
    <3>1. at(i) \in DOMAIN s /\ at(i) # k /\ r[i] = s[at(i)]
      BY <1>1, <1>2, <1>5
    <3> HIDE DEF at
    <3> QED BY <1>1, <3>1 DEF Nodes, Distinct
  <2>2. ASSUME NEW j \in 1 .. n, j # k PROVE s[j] \in Nodes(r)
    <3> DEFINE i == IF j < k THEN j ELSE j - 1
    <3>1. i \in 1 .. (n - 1) /\ at(i) = j
      BY <1>1, <2>2
    <3> HIDE DEF i, at
    <3> QED BY <1>4, <1>5, <3>1 DEF Nodes
  <2>3. \A i, j \in 1 .. n : s[i] = s[j] => i = j
    BY <1>1 DEF Distinct
  <2> QED BY <1>1, <1>4, <2>1, <2>2 DEF Nodes
<1> QED BY <1>4, <1>5, <1>6, <1>7 DEF r

(* The first element goes. *)
LEMMA TailRemoved ==
  ASSUME NEW s \in Seq(Ptr), Distinct(s), s # << >>
  PROVE  Tail(s) = Removed(s, 1)
<1>1. 1 \in DOMAIN s
  OBVIOUS
<1>2. /\ Removed(s, 1) \in Seq(Ptr) /\ Len(Removed(s, 1)) = Len(s) - 1
      /\ \A i \in 1 .. (Len(s) - 1) : Removed(s, 1)[i] = IF i < 1 THEN s[i] ELSE s[i + 1]
  BY <1>1, RemovedSeq
<1>3. /\ Tail(s) \in Seq(Ptr) /\ Len(Tail(s)) = Len(s) - 1
      /\ \A i \in 1 .. (Len(s) - 1) : Tail(s)[i] = s[i + 1]
  OBVIOUS
<1>4. \A i \in 1 .. Len(Tail(s)) : Tail(s)[i] = Removed(s, 1)[i]
  BY <1>2, <1>3
<1> QED BY <1>2, <1>3, <1>4, SeqEqual

(* UPKLIST_UNLINK takes out the node at the cursor. *)
LEMMA UnlinkCarries ==
  ASSUME NEW l, NEW s, Carries(l, s), NEW k \in DOMAIN s, CursorAt(l, s, k)
  PROVE  LET m == Unlink(l)
         IN  /\ Carries(m, Removed(s, k))
             /\ EndsAt(l, s) => EndsAt(m, Removed(s, k))
             /\ m.thisp = NULL /\ m.nextp = l.nextp /\ m.prevp = l.prevp
<1> DEFINE m == Unlink(l)
           r == Removed(s, k)
           n == Len(s)
<1>1. /\ s \in Seq(Ptr) /\ n \in Nat /\ DOMAIN s = 1 .. n /\ k \in 1 .. n
      /\ l \in List /\ Distinct(s) /\ ~l.stale
      /\ l.next \in [Ptr -> Ptr \cup {NULL}] /\ l.count = n /\ l.live = Nodes(s)
      /\ l.head = s[1]
      /\ \A j \in 1 .. n : s[j] \in Ptr /\ s[j] # NULL /\ l.next[s[j]] = Successor(s, j)
  <2>1. s \in Seq(Ptr) /\ l \in List /\ n \in Nat /\ DOMAIN s = 1 .. n /\ k \in 1 .. n
    BY DEF Carries
  <2>2. l.head = s[1]
    BY <2>1 DEF Carries, Meets, Successor
  <2> QED BY <2>1, <2>2, NullPtr DEF Carries, Meets, List
<1>2. /\ l.thisp = s[k] /\ l.nextp = Successor(s, k)
      /\ l.prevp = IF k = 1 THEN NULL ELSE s[k - 1]
  BY DEF CursorAt
<1>3. /\ r \in Seq(Ptr) /\ Len(r) = n - 1 /\ DOMAIN r = 1 .. (n - 1)
      /\ \A i \in 1 .. (n - 1) : r[i] = IF i < k THEN s[i] ELSE s[i + 1]
      /\ Distinct(r)
      /\ Nodes(r) = Nodes(s) \ {s[k]}
  BY <1>1, RemovedSeq
<1>4. /\ s[k] # NULL /\ s[k] \in Nodes(s)
      /\ k # 1 => s[k - 1] \in Ptr /\ s[k - 1] # NULL /\ s[k - 1] \in Nodes(s)
      /\ Successor(s, k) \in Ptr \cup {NULL}
      /\ Successor(s, k) = NULL <=> k = n
  BY <1>1 DEF Nodes, Successor
<1>5. /\ m \in List
      /\ m.next = IF k = 1 THEN l.next ELSE [l.next EXCEPT ![s[k - 1]] = Successor(s, k)]
      /\ m.head = IF k = 1 THEN Successor(s, 1) ELSE s[1]
      /\ m.tail = IF k = n THEN l.prevp ELSE l.tail
      /\ m.thisp = NULL /\ m.nextp = l.nextp /\ m.prevp = l.prevp
      /\ m.count = n - 1 /\ m.live = Nodes(s) \ {s[k]} /\ ~m.stale
  <2> DEFINE N == IF l.prevp # NULL THEN [l.next EXCEPT ![l.prevp] = l.nextp] ELSE l.next
             H == IF l.prevp = NULL THEN l.nextp ELSE l.head
             T == IF l.nextp = NULL THEN l.prevp ELSE l.tail
             S == l.stale \/ Dangling(l, l.thisp) \/ Dangling(l, l.prevp)
  <2>1. m = [l EXCEPT !.next = N, !.head = H, !.tail = T, !.thisp = NULL, !.count = l.count - 1,
                      !.live = l.live \ {l.thisp}, !.stale = S]
    BY <1>2, <1>4 DEF Unlink
  <2>2. S = FALSE
    BY <1>1, <1>2, <1>4 DEF Dangling
  <2>3. m = [l EXCEPT !.next = N, !.head = H, !.tail = T, !.thisp = NULL, !.count = n - 1,
                      !.live = Nodes(s) \ {s[k]}, !.stale = FALSE]
    BY <1>1, <1>2, <2>1, <2>2, Zenon
  <2>4. N = IF k = 1 THEN l.next ELSE [l.next EXCEPT ![s[k - 1]] = Successor(s, k)]
    BY <1>2, <1>4
  <2>5. H = (IF k = 1 THEN Successor(s, 1) ELSE s[1])
    BY <1>1, <1>2, <1>4
  <2>6. T = (IF k = n THEN l.prevp ELSE l.tail)
    BY <1>2, <1>4
  <2>7. /\ N \in [Ptr -> Ptr \cup {NULL}] /\ H \in Ptr \cup {NULL} /\ T \in Ptr \cup {NULL}
        /\ n - 1 \in Nat /\ Nodes(s) \ {s[k]} \in SUBSET Ptr /\ NULL \in Ptr \cup {NULL}
    <3>1. N \in [Ptr -> Ptr \cup {NULL}]
      BY <1>1, <1>4, <2>4
    <3>2. H \in Ptr \cup {NULL} /\ T \in Ptr \cup {NULL}
      BY <1>1 DEF List
    <3>3. Nodes(s) \subseteq Ptr
      BY <1>1 DEF Nodes
    <3> QED BY <1>1, <3>1, <3>2, <3>3
  <2> HIDE DEF N, H, T, S, m, n
  <2>8. /\ m.next = N /\ m.head = H /\ m.tail = T /\ m.thisp = NULL /\ m.count = n - 1
        /\ m.live = Nodes(s) \ {s[k]} /\ m.stale = FALSE /\ m.nextp = l.nextp /\ m.prevp = l.prevp
    BY <1>1, <2>3 DEF List
  <2>9. m \in List
    BY <1>1, <2>3, <2>7 DEF List
  <2> QED BY <2>4, <2>5, <2>6, <2>8, <2>9, Zenon
<1> HIDE DEF m, r, n
<1>6. Meets(m, r)
  <2>1. m.head = Successor(r, 0)
    <3>1. CASE k = 1
      BY <1>1, <1>3, <1>5, <3>1 DEF Successor, n
    <3>2. CASE k # 1
      BY <1>1, <1>3, <1>5, <3>2 DEF Successor
    <3> QED BY <3>1, <3>2
  <2>2. ASSUME NEW j \in 1 .. (n - 1)
        PROVE  r[j] # NULL /\ m.next[r[j]] = Successor(r, j)
    <3>1. CASE j < k - 1
      <4>1. r[j] = s[j] /\ j \in 1 .. n /\ k # 1 /\ s[j] # s[k - 1]
        BY <1>1, <1>3, <3>1 DEF Distinct
      <4>2. m.next[s[j]] = Successor(s, j)
        BY <1>1, <1>4, <1>5, <4>1
      <4>3. Successor(r, j) = Successor(s, j)
        BY <1>1, <1>3, <3>1 DEF Successor, n
      <4> QED BY <1>1, <4>1, <4>2, <4>3
    <3>2. CASE j = k - 1
      <4>1. r[j] = s[k - 1] /\ k # 1 /\ j \in 1 .. n
        BY <1>1, <1>3, <3>2
      <4>2. m.next[s[k - 1]] = Successor(s, k)
        BY <1>1, <1>4, <1>5, <4>1
      <4>3. Successor(r, j) = Successor(s, k)
        BY <1>1, <1>3, <3>2 DEF Successor, n
      <4> QED BY <1>4, <4>1, <4>2, <4>3
    <3>3. CASE j >= k
      <4>1. r[j] = s[j + 1] /\ j + 1 \in 1 .. n
        BY <1>1, <1>3, <3>3
      <4>2. m.next[s[j + 1]] = Successor(s, j + 1)
        <5>1. k # 1 => s[j + 1] # s[k - 1]
          BY <1>1, <3>3, <4>1 DEF Distinct
        <5> QED BY <1>1, <1>4, <1>5, <4>1, <5>1
      <4>3. Successor(r, j) = Successor(s, j + 1)
        BY <1>1, <1>3, <3>3 DEF Successor, n
      <4> QED BY <1>1, <4>1, <4>2, <4>3
    <3> QED BY <1>1, <3>1, <3>2, <3>3
  <2> QED BY <1>3, <2>1, <2>2 DEF Meets
<1>7. EndsAt(l, s) => EndsAt(m, r)
  <2> SUFFICES ASSUME EndsAt(l, s) PROVE EndsAt(m, r)
    OBVIOUS
  <2>1. l.tail = s[n]
    BY <1>1 DEF EndsAt, n
  <2>2. CASE n = 1
    BY <1>1, <1>2, <1>3, <1>5, <2>2 DEF EndsAt
  <2>3. CASE n # 1
    BY <1>1, <1>2, <1>3, <1>5, <2>1, <2>3 DEF EndsAt
  <2> QED BY <2>2, <2>3
<1>8. Carries(m, r)
  BY <1>3, <1>5, <1>6 DEF Carries
<1> QED BY <1>5, <1>7, <1>8 DEF m, r
=============================================================================
