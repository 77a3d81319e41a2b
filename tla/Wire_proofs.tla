---------------------------- MODULE Wire_proofs ----------------------------
(***************************************************************************)
(* What module Wire promises of a connection whose packets arrive whole,   *)
(* for any messages, any number of them and any sizes that the assumption  *)
(* of that module allows.  The proof has four parts:                       *)
(*                                                                         *)
(*   - recursive functions and FlattenSeq, by induction over sets;         *)
(*   - the format: what is put for the members of a struct is fetched as   *)
(*     what it was (FetchBack), for the tables of the code (TypeFacts),    *)
(*     so a payload (PayloadBack) and a packet (PacketBack) are read back; *)
(*   - sequences of cells joined and cut (Joined, Block, Part);            *)
(*   - the stream: what is in the socket and in the write queue are the    *)
(*     packets of the messages queued and not handed over (WireInv).       *)
(*                                                                         *)
(* Base is a number so large that the provers must not see its value, and  *)
(* facts about lengths and places are kept in predicates of their own:     *)
(* they find a lemma by such a name where they do not by its terms.        *)
(***************************************************************************)
EXTENDS Wire, SequenceTheorems, WellFoundedInduction, TLAPS

(* The order of the numbers is well-founded.                               *)
LEMMA NatBelow == IsWellFoundedOn({ss \in Nat \X Nat : ss[1] < ss[2]}, Nat)
BY NatLessThanWellFounded DEF OpToRel

(* A set of numbers with 0 that has the successor of each of its members   *)
(* has them all.                                                           *)
LEMMA NatSet ==
  ASSUME NEW T, 0 \in T, \A k \in Nat : k \in T => k + 1 \in T
  PROVE  Nat \subseteq T
<1> DEFINE R == {ss \in Nat \X Nat : ss[1] < ss[2]}
           D == Nat \ T
<1> SUFFICES ASSUME D # {} PROVE FALSE
  OBVIOUS
<1>1. IsWellFoundedOn(R, Nat)
  BY NatBelow
<1>2. PICK x \in D : \A y \in D : <<y, x>> \notin R
  <2>1. D \subseteq Nat
    OBVIOUS
  <2> HIDE DEF D, R
  <2> QED BY <1>1, <2>1, WFMin
<1>3. x \in Nat /\ x # 0 /\ x \notin T
  BY <1>2
<1>4. PICK y \in Nat : x = y + 1
  <2>1. x - 1 \in Nat /\ x = (x - 1) + 1
    BY <1>3
  <2> QED BY <2>1
<1>5. y \in D
  BY <1>3, <1>4
<1>6. <<y, x>> \in R
  BY <1>3, <1>4
<1> QED BY <1>2, <1>5, <1>6

(* Two functions are the same from a on if they are at a, and are in each  *)
(* place if they are in the one before.                                    *)
Alike(f, g, a, n) ==
  /\ f[a] = g[a]
  /\ \A i \in a + 1 .. n : f[i - 1] = g[i - 1] => f[i] = g[i]

(* Two functions that start alike and go on by the same step are equal:    *)
(* what a recursive definition computes, it computes alone.                *)
LEMMA Unique ==
  ASSUME NEW a \in Int, NEW n \in Int, NEW f, NEW g, Alike(f, g, a, n)
  PROVE  \A i \in a .. n : f[i] = g[i]
<1> DEFINE T == {k \in Nat : a + k <= n => f[a + k] = g[a + k]}
<1>1. 0 \in T
  BY DEF Alike
<1>2. ASSUME NEW k \in Nat, k \in T PROVE k + 1 \in T
  <2> SUFFICES ASSUME a + (k + 1) <= n PROVE f[a + (k + 1)] = g[a + (k + 1)]
    OBVIOUS
  <2> DEFINE i == a + (k + 1)
  <2>1. i \in a + 1 .. n /\ i - 1 = a + k
    OBVIOUS
  <2>2. f[a + k] = g[a + k]
    BY <1>2
  <2>3. f[i - 1] = g[i - 1]
    BY <2>1, <2>2
  <2> HIDE DEF i
  <2>4. f[i] = g[i]
    BY <2>1, <2>3 DEF Alike
  <2> QED BY <2>4 DEF i
<1> HIDE DEF T
<1>3. Nat \subseteq T
  BY <1>1, <1>2, NatSet
<1>4. ASSUME NEW i \in a .. n PROVE f[i] = g[i]
  <2>1. PICK k \in Nat : i = a + k
    <3>1. i - a \in Nat /\ i = a + (i - a)
      OBVIOUS
    <3> QED BY <3>1
  <2>2. k \in T
    BY <1>3
  <2> QED BY <2>1, <2>2 DEF T
<1> QED BY <1>4

(* A function with a first value and a step exists.                        *)
Step(step, n, V) == step \in [(1 .. n) \X V -> V]
Follows(g, n, V, base, step) ==
  /\ g \in [0 .. n -> V]
  /\ g[0] = base
  /\ \A i \in 1 .. n : g[i] = step[<<i, g[i - 1]>>]

(* For every step that stays in V there is a function that goes on by it,  *)
(* so that a CHOOSE of one finds it.                                       *)
LEMMA Recursion ==
  ASSUME NEW n \in Nat, NEW V, NEW base \in V, NEW step, Step(step, n, V)
  PROVE  \E g : Follows(g, n, V, base, step)
<1> USE DEF Step, Follows
<1> DEFINE P(k) == \E g \in [0 .. k -> V] :
                     /\ g[0] = base
                     /\ \A i \in 1 .. k : g[i] = step[<<i, g[i - 1]>>]
           T == {k \in Nat : k <= n => P(k)}
<1>1. 0 \in T
  <2> DEFINE g == [i \in 0 .. 0 |-> base]
  <2>1. g \in [0 .. 0 -> V] /\ g[0] = base
    OBVIOUS
  <2>2. \A i \in 1 .. 0 : g[i] = step[<<i, g[i - 1]>>]
    OBVIOUS
  <2>3. P(0)
    BY <2>1, <2>2
  <2> QED BY <2>3
<1>2. ASSUME NEW k \in Nat, k \in T PROVE k + 1 \in T
  <2> SUFFICES ASSUME k + 1 <= n PROVE P(k + 1)
    OBVIOUS
  <2>1. PICK g \in [0 .. k -> V] : /\ g[0] = base
                                   /\ \A i \in 1 .. k : g[i] = step[<<i, g[i - 1]>>]
    BY <1>2
  <2>2. k + 1 \in 1 .. n /\ g[k] \in V
    OBVIOUS
  <2>3. step[<<k + 1, g[k]>>] \in V
    <3>1. <<k + 1, g[k]>> \in (1 .. n) \X V
      BY <2>2
    <3> QED BY <3>1
  <2> DEFINE h == [i \in 0 .. k + 1 |-> IF i = k + 1 THEN step[<<k + 1, g[k]>>] ELSE g[i]]
  <2>4. h \in [0 .. k + 1 -> V]
    BY <2>3
  <2>5. \A i \in 0 .. k : h[i] = g[i]
    OBVIOUS
  <2>6. h[0] = base
    BY <2>1, <2>5
  <2>7. ASSUME NEW i \in 1 .. k + 1 PROVE h[i] = step[<<i, h[i - 1]>>]
    <3>1. CASE i = k + 1
      <4>1. i - 1 = k /\ h[k] = g[k]
        BY <3>1, <2>5
      <4>2. h[k + 1] = step[<<k + 1, g[k]>>]
        OBVIOUS
      <4> QED BY <3>1, <4>1, <4>2
    <3>2. CASE i # k + 1
      <4>1. i \in 1 .. k /\ i - 1 \in 0 .. k /\ i \in 0 .. k
        BY <3>2
      <4>2. h[i] = g[i] /\ h[i - 1] = g[i - 1]
        BY <4>1, <2>5
      <4> QED BY <4>1, <4>2, <2>1
    <3> QED BY <3>1, <3>2
  <2> HIDE DEF h
  <2> QED BY <2>4, <2>6, <2>7
<1> HIDE DEF T
<1>3. Nat \subseteq T
  BY <1>1, <1>2, NatSet
<1> QED BY <1>3 DEF T
-----------------------------------------------------------------------------
(* A sequence of sequences over V; opaque, so that the provers see only    *)
(* the facts about it that are stated.                                     *)
Pieces(ss, V) == ss \in Seq(Seq(V))

(* The elements of a sequence of sequences, and their lengths.             *)
LEMMA PiecesFacts ==
  ASSUME NEW V, NEW ss, Pieces(ss, V)
  PROVE  Len(ss) \in Nat /\ \A i \in 1 .. Len(ss) : ss[i] \in Seq(V) /\ Len(ss[i]) \in Nat
BY DEF Pieces

(* g has the beginnings of FlattenSeq(ss).                                 *)
Beginnings(g, ss, V) ==
  /\ g \in [0 .. Len(ss) -> Seq(V)]
  /\ g[0] = <<>>
  /\ \A i \in 1 .. Len(ss) : g[i] = g[i - 1] \o ss[i]

(* FlattenSeq of a sequence of sequences is the last of its beginnings.    *)
LEMMA FlattenIs ==
  ASSUME NEW V, NEW ss, Pieces(ss, V), NEW g, Beginnings(g, ss, V)
  PROVE  FlattenSeq(ss) = g[Len(ss)]
<1> DEFINE n == Len(ss)
           Next(f) == [i \in 1 .. n |-> IF i = 1 THEN ss[i] ELSE f[i - 1] \o ss[i]]
           F == CHOOSE f : f = Next(f)
           G == [i \in 1 .. n |-> g[i]]
<1>0. n \in Nat /\ \A i \in 1 .. n : ss[i] \in Seq(V)
  BY PiecesFacts
<1>1. CASE n = 0
  <2>1. ss = <<>>
    BY <1>1 DEF Pieces
  <2> QED BY <1>1, <2>1 DEF FlattenSeq, Beginnings
<1>2. CASE n # 0
  <2>1. FlattenSeq(ss) = F[n]
    BY <1>2 DEF FlattenSeq
  <2>2. \A i \in 1 .. n : G[i] = IF i = 1 THEN ss[i] ELSE G[i - 1] \o ss[i]
    <3> TAKE i \in 1 .. n
    <3>1. CASE i = 1
      <4>1. ss[1] \in Seq(V) /\ 1 - 1 = 0
        BY <3>1, <1>0
      <4>2. g[1] = g[1 - 1] \o ss[1]
        BY <3>1 DEF Beginnings
      <4>3. g[1] = <<>> \o ss[1]
        BY <4>1, <4>2 DEF Beginnings
      <4>4. <<>> \o ss[1] = ss[1]
        BY <4>1, ConcatEmptySeq
      <4> QED BY <3>1, <4>3, <4>4
    <3>2. CASE i # 1
      <4>1. i - 1 \in 1 .. n
        BY <3>2, <1>0
      <4>2. G[i - 1] = g[i - 1] /\ G[i] = g[i]
        BY <4>1
      <4> QED BY <4>2, <3>2 DEF Beginnings
    <3> QED BY <3>1, <3>2
  <2> HIDE DEF n
  <2>3. G = Next(G)
    BY <2>2
  <2> HIDE DEF G
  <2>4. F = Next(F)
    BY <2>3
  <2> HIDE DEF F
  <2>5. \A i \in 1 .. n : F[i] = IF i = 1 THEN ss[i] ELSE F[i - 1] \o ss[i]
    BY <2>4
  <2>6. 1 \in 1 .. n
    BY <1>0, <1>2
  <2>7. Alike(F, G, 1, n)
    BY <2>2, <2>5, <2>6, <1>0 DEF Alike
  <2>8. F[n] = G[n]
    <3>1. 1 \in Int /\ n \in Int /\ n \in 1 .. n
      BY <1>0, <1>2
    <3>2. \A i \in 1 .. n : F[i] = G[i]
      BY <3>1, <2>7, Unique
    <3> QED BY <3>1, <3>2
  <2>9. G[n] = g[n]
    BY <1>0, <1>2 DEF G
  <2> QED BY <2>1, <2>8, <2>9 DEF n
<1> QED BY <1>1, <1>2

(* Every sequence of sequences has beginnings.                             *)
LEMMA FlattenBy ==
  ASSUME NEW V, NEW ss, Pieces(ss, V)
  PROVE  \E g : Beginnings(g, ss, V)
<1> DEFINE n == Len(ss)
           step == [p \in (1 .. n) \X Seq(V) |-> p[2] \o ss[p[1]]]
<1>1. n \in Nat /\ <<>> \in Seq(V)
  BY PiecesFacts
<1>2. ASSUME NEW i \in 1 .. n, NEW v \in Seq(V)
      PROVE  step[<<i, v>>] = v \o ss[i] /\ step[<<i, v>>] \in Seq(V)
  <2>1. ss[i] \in Seq(V)
    BY PiecesFacts
  <2>2. v \o ss[i] \in Seq(V)
    BY <2>1
  <2> QED BY <2>2
<1>3. Step(step, n, Seq(V))
  BY <1>2 DEF Step
<1> HIDE DEF step
<1>4. PICK g : Follows(g, n, Seq(V), <<>>, step)
  <2> HIDE DEF n
  <2> QED BY <1>1, <1>3, Recursion
<1>5. ASSUME NEW i \in 1 .. n PROVE g[i] = g[i - 1] \o ss[i]
  <2>1. i - 1 \in 0 .. n
    OBVIOUS
  <2>2. g[i - 1] \in Seq(V)
    BY <1>4, <2>1 DEF Follows
  <2> QED BY <1>2, <1>4, <2>2 DEF Follows
<1>6. Beginnings(g, ss, V)
  BY <1>4, <1>5 DEF Follows, Beginnings
<1> QED BY <1>6

(* Of nothing, FlattenSeq is empty.                                        *)
LEMMA FlattenEmpty == FlattenSeq(<<>>) = <<>>
BY DEF FlattenSeq

(* A sequence appended goes to the end.                                    *)
LEMMA FlattenAppend ==
  ASSUME NEW V, NEW ss, Pieces(ss, V), NEW s \in Seq(V)
  PROVE  FlattenSeq(Append(ss, s)) = FlattenSeq(ss) \o s
<1> DEFINE n == Len(ss)
           tt == Append(ss, s)
<1>1. n \in Nat /\ Pieces(tt, V) /\ Len(tt) = n + 1
      /\ tt[n + 1] = s /\ \A i \in 1 .. n : tt[i] = ss[i]
  BY AppendProperties DEF Pieces
<1>2. PICK g : Beginnings(g, ss, V)
  BY FlattenBy
<1>3. FlattenSeq(ss) = g[n] /\ g[n] \in Seq(V)
  <2>1. FlattenSeq(ss) = g[Len(ss)]
    BY <1>2, FlattenIs
  <2>2. n \in 0 .. Len(ss)
    BY <1>1
  <2> QED BY <2>1, <2>2, <1>2 DEF Beginnings
<1> DEFINE h == [i \in 0 .. n + 1 |-> IF i = n + 1 THEN g[n] \o s ELSE g[i]]
<1>4. Beginnings(h, tt, V)
  <2>1. h \in [0 .. Len(tt) -> Seq(V)]
    <3>1. g[n] \o s \in Seq(V)
      BY <1>3
    <3> QED BY <1>1, <1>2, <3>1 DEF Beginnings
  <2>2. h[0] = <<>>
    BY <1>1, <1>2 DEF Beginnings
  <2>3. ASSUME NEW i \in 1 .. n + 1 PROVE h[i] = h[i - 1] \o tt[i]
    <3>1. CASE i = n + 1
      <4>1. i - 1 = n /\ h[n] = g[n] /\ h[n + 1] = g[n] \o s
        BY <1>1, <3>1
      <4> HIDE DEF h, tt
      <4> QED BY <1>1, <3>1, <4>1
    <3>2. CASE i # n + 1
      <4>1. i \in 1 .. n
        BY <1>1, <3>2
      <4>2. h[i] = g[i] /\ h[i - 1] = g[i - 1]
        BY <1>1, <4>1
      <4> HIDE DEF h, tt
      <4> QED BY <1>1, <1>2, <4>1, <4>2 DEF Beginnings
    <3> QED BY <3>1, <3>2
  <2> HIDE DEF h
  <2> QED BY <1>1, <2>1, <2>2, <2>3 DEF Beginnings
<1>5. h[n + 1] = g[n] \o s
  BY <1>1
<1> HIDE DEF h, tt
<1>6. FlattenSeq(tt) = h[Len(tt)]
  BY <1>1, <1>4, FlattenIs
<1> QED BY <1>1, <1>3, <1>5, <1>6 DEF tt

(* Concatenation is associative, from right to left.                       *)
LEMMA Regroup ==
  ASSUME NEW V, NEW a \in Seq(V)
  PROVE  \A c \in Seq(V), d \in Seq(V) : a \o (c \o d) = (a \o c) \o d
BY ConcatAssociative

(* The first sequence comes first.                                         *)
LEMMA FlattenCons ==
  ASSUME NEW V, NEW ss, Pieces(ss, V), ss # <<>>
  PROVE  FlattenSeq(ss) = ss[1] \o FlattenSeq(Tail(ss))
<1> DEFINE n == Len(ss)
           tt == Tail(ss)
<1>1. n \in Nat \ {0} /\ Pieces(tt, V) /\ Len(tt) = n - 1
      /\ ss[1] \in Seq(V) /\ \A i \in 1 .. n - 1 : tt[i] = ss[i + 1] /\ tt[i] \in Seq(V)
  BY DEF Pieces
<1>2. PICK g : Beginnings(g, tt, V)
  BY <1>1, FlattenBy
<1> HIDE DEF tt
<1>3. FlattenSeq(tt) = g[n - 1] /\ \A i \in 0 .. n - 1 : g[i] \in Seq(V)
  BY <1>1, <1>2, FlattenIs DEF Beginnings
<1>a. PICK a \in Seq(V) : a = ss[1]
  BY <1>1
<1>b. PICK e \in Seq(V) : e = <<>>
  <2>1. <<>> \in Seq(V)
    OBVIOUS
  <2> QED BY <2>1
<1>c. \A c \in Seq(V), d \in Seq(V) : a \o (c \o d) = (a \o c) \o d
  <2> TAKE c \in Seq(V), d \in Seq(V)
  <2> QED BY Regroup
<1> DEFINE h == [i \in 0 .. n |-> IF i = 0 THEN e ELSE a \o g[i - 1]]
<1>h. h[0] = e /\ \A i \in 1 .. n : h[i] = a \o g[i - 1]
  <2>1. n \in Nat /\ 0 \in 0 .. n /\ \A i \in 1 .. n : i \in 0 .. n /\ i # 0
    BY <1>1
  <2> HIDE DEF n
  <2> QED BY <2>1
<1>4. Beginnings(h, ss, V)
  <2>1. h \in [0 .. n -> Seq(V)]
    <3>1. ASSUME NEW i \in 0 .. n, i # 0 PROVE a \o g[i - 1] \in Seq(V)
      <4>1. g[i - 1] \in Seq(V)
        BY <1>1, <1>3, <3>1
      <4> QED BY <4>1, ConcatProperties
    <3> QED BY <3>1
  <2> HIDE DEF h
  <2>3. ASSUME NEW i \in 1 .. n PROVE h[i] = h[i - 1] \o ss[i]
    <3>1. CASE i = 1
      <4>1. h[1] = a \o g[0] /\ h[0] = e /\ g[0] = e
        <5>1. 1 \in 1 .. n /\ 1 - 1 = 0
          BY <1>1
        <5>2. g[0] = e
          BY <1>2, <1>b DEF Beginnings
        <5> QED BY <5>1, <5>2, <1>h
      <4>2. a \o e = a /\ e \o a = a
        BY <1>a, <1>b, ConcatEmptySeq
      <4>3. 1 - 1 = 0
        OBVIOUS
      <4> QED BY <3>1, <4>1, <4>2, <4>3, <1>a
    <3>2. CASE i # 1
      <4> DEFINE j == i - 1
      <4>1. j \in 1 .. n - 1 /\ j - 1 \in 0 .. n - 1 /\ j \in 1 .. n /\ i = j + 1
        BY <1>1, <3>2
      <4>2. h[i] = a \o g[j] /\ h[j] = a \o g[j - 1]
        BY <1>h, <4>1
      <4>3. g[j] = g[j - 1] \o tt[j] /\ tt[j] = ss[i]
        BY <1>1, <1>2, <4>1 DEF Beginnings
      <4>4. PICK c \in Seq(V), d \in Seq(V) : c = g[j - 1] /\ d = tt[j]
        BY <1>1, <1>3, <4>1
      <4>5. a \o (c \o d) = (a \o c) \o d
        BY <1>c, <4>4, Zenon
      <4> HIDE DEF j
      <4> QED BY <4>2, <4>3, <4>4, <4>5 DEF j
    <3> QED BY <3>1, <3>2
  <2> QED BY <1>1, <1>b, <1>h, <2>1, <2>3 DEF Beginnings
<1> HIDE DEF h
<1>5. h[n] = a \o g[n - 1]
  BY <1>1, <1>h, SMTT(30)
<1> QED BY <1>a, <1>3, <1>4, <1>5, FlattenIs DEF tt

(* The elements of ss lie one behind the other in FlattenSeq(ss), the      *)
(* i-th behind off[i - 1].                                                 *)
Places(off, ss, flat) ==
  /\ off \in [0 .. Len(ss) -> Nat]
  /\ off[0] = 0 /\ off[Len(ss)] = Len(flat)
  /\ \A i \in 1 .. Len(ss) :
       /\ off[i] = off[i - 1] + Len(ss[i])
       /\ off[i] <= Len(flat)
       /\ \A k \in 1 .. Len(ss[i]) : flat[off[i - 1] + k] = ss[i][k]

(* Each element has its place in FlattenSeq.                               *)
LEMMA FlattenPlaces ==
  ASSUME NEW V, NEW ss, Pieces(ss, V)
  PROVE  /\ FlattenSeq(ss) \in Seq(V)
         /\ \E off : Places(off, ss, FlattenSeq(ss))
<1> DEFINE n == Len(ss)
<1>1. PICK g : Beginnings(g, ss, V)
  BY FlattenBy
<1>2. n \in Nat /\ \A i \in 1 .. n : ss[i] \in Seq(V) /\ Len(ss[i]) \in Nat
  BY PiecesFacts
<1>3. \A i \in 0 .. n : g[i] \in Seq(V) /\ Len(g[i]) \in Nat
  BY <1>1 DEF Beginnings
<1>4. FlattenSeq(ss) = g[n]
  BY <1>1, FlattenIs
<1> DEFINE off == [i \in 0 .. n |-> Len(g[i])]
           w == [i \in 1 .. n |-> Len(ss[i])]
<1>5. /\ \A i \in 1 .. n : i \in 0 .. n /\ i - 1 \in 0 .. n /\ w[i] \in Nat /\ w[i] = Len(ss[i])
      /\ \A i \in 0 .. n : off[i] \in Nat /\ off[i] = Len(g[i])
  BY <1>2, <1>3
<1>6. ASSUME NEW i \in 1 .. n
      PROVE  /\ off[i] = off[i - 1] + w[i]
             /\ \A k \in 1 .. w[i] : g[i][off[i - 1] + k] = ss[i][k]
             /\ \A k \in 1 .. off[i - 1] : g[i][k] = g[i - 1][k]
  <2>1. PICK a \in Seq(V), b \in Seq(V) : a = g[i - 1] /\ b = ss[i]
    BY <1>2, <1>3, <1>5
  <2>2. g[i] = a \o b
    BY <1>1, <2>1 DEF Beginnings
  <2>3. /\ Len(a \o b) = Len(a) + Len(b) /\ Len(a) \in Nat /\ Len(b) \in Nat
        /\ \A k \in 1 .. Len(b) : (a \o b)[Len(a) + k] = b[k]
        /\ \A k \in 1 .. Len(a) : (a \o b)[k] = a[k]
    <3>1. a \in Seq(V) /\ b \in Seq(V)
      BY <2>1
    <3> QED BY <3>1, ConcatProperties
  <2>4. off[i - 1] = Len(a) /\ w[i] = Len(b) /\ off[i] = Len(a \o b)
    BY <1>5, <2>1, <2>2
  <2> HIDE DEF off, w
  <2> QED BY <2>1, <2>2, <2>3, <2>4
<1> HIDE DEF off, w
(* what is there stays *)
<1> DEFINE Kept(i, j) == /\ off[i] <= off[j]
                         /\ \A k \in 1 .. off[i] : g[j][k] = g[i][k]
<1>7. ASSUME NEW i \in 0 .. n PROVE Kept(i, n)
  <2> HIDE DEF n
  <2> DEFINE T == {d \in Nat : i + d <= n => Kept(i, i + d)}
  <2>1. 0 \in T
    BY <1>2, <1>5
  <2>2. ASSUME NEW d \in Nat, d \in T PROVE d + 1 \in T
    <3> SUFFICES ASSUME i + (d + 1) <= n PROVE Kept(i, i + (d + 1))
      OBVIOUS
    <3>1. PICK j \in 1 .. n : j = i + (d + 1) /\ j - 1 = i + d
      BY <1>2
    <3>2. Kept(i, j - 1)
      BY <1>2, <2>2, <3>1
    <3>3. off[j] = off[j - 1] + w[j] /\ w[j] \in Nat /\ off[j - 1] \in Nat /\ off[i] \in Nat
      BY <1>2, <1>5, <1>6, <3>1
    <3>4. off[i] <= off[j]
      BY <3>2, <3>3
    <3>5. ASSUME NEW k \in 1 .. off[i] PROVE g[j][k] = g[i][k]
      <4>1. k \in 1 .. off[j - 1]
        BY <3>2, <3>3
      <4> QED BY <1>6, <3>1, <3>2, <4>1
    <3> QED BY <3>1, <3>4, <3>5
  <2> HIDE DEF T
  <2>3. Nat \subseteq T
    BY <2>1, <2>2, NatSet
  <2>4. n - i \in Nat /\ i + (n - i) = n
    BY <1>2
  <2>5. n - i \in T
    BY <2>3, <2>4
  <2> QED BY <2>4, <2>5 DEF T
<1>8. ASSUME NEW i \in 1 .. n
      PROVE  /\ off[i] <= off[n]
             /\ \A k \in 1 .. w[i] : g[n][off[i - 1] + k] = ss[i][k]
  <2>1. Kept(i, n)
    BY <1>5, <1>7
  <2>2. \A k \in 1 .. w[i] : off[i - 1] + k \in 1 .. off[i]
    <3>1. off[i] = off[i - 1] + w[i] /\ off[i - 1] \in Nat /\ w[i] \in Nat
      BY <1>5, <1>6
    <3> QED BY <3>1
  <2> QED BY <1>6, <2>1, <2>2
<1>9. off \in [0 .. n -> Nat] /\ off[0] = 0 /\ off[n] = Len(g[n])
  <2>1. 0 \in 0 .. n /\ n \in 0 .. n /\ g[0] = <<>> /\ Len(<<>>) = 0
    BY <1>1, <1>2 DEF Beginnings
  <2>2. off[0] = 0 /\ off[n] = Len(g[n])
    BY <1>5, <2>1
  <2> QED BY <2>2, <1>5 DEF off
<1>10. g[n] \in Seq(V)
  BY <1>2, <1>3
<1>11. Places(off, ss, g[n])
  BY <1>5, <1>6, <1>8, <1>9 DEF Places
<1> QED BY <1>4, <1>10, <1>11
-----------------------------------------------------------------------------
(* Base, without its value: the provers write out an interval of numbers   *)
(* they can compute.                                                       *)
LEMMA Numbers ==
  /\ Base \in Nat /\ Base > 3
  /\ \A n : n \in UInt32 <=> n \in Nat /\ n < Base * Base
  /\ \A n : n \in Cell <=> n \in Nat /\ n < Base
  /\ \E M \in Nat : M = Base * Base
<1>1. Base \in Nat /\ Base > 3
  BY DEF Base
<1>2. PICK M \in Nat : M = Base * Base
  BY <1>1
<1>3. \A n : n \in UInt32 <=> n \in Nat /\ n < Base * Base
  BY <1>2 DEF UInt32
<1>4. \A n : n \in Cell <=> n \in Nat /\ n < Base
  BY <1>1 DEF Cell
<1> QED BY <1>1, <1>2, <1>3, <1>4

(* A number put on the wire is the number read back.                       *)
LEMMA WordNumber ==
  ASSUME NEW n \in UInt32
  PROVE  /\ Word(n) \in Seq(Cell) /\ Len(Word(n)) = WordLen
         /\ Number(Word(n)) = n
<1>1. n \in Nat /\ n < 4096 * 4096
  <2>1. n \in Nat /\ n < Base * Base
    BY Numbers
  <2> QED BY <2>1 DEF Base
<1> DEFINE q == n \div 4096
           r == n % 4096
<1>2. q \in Nat /\ r \in Nat /\ q < 4096 /\ r < 4096 /\ q * 4096 + r = n
  BY <1>1
<1> HIDE DEF q, r
<1>3. Word(n) = <<q, r>>
  BY DEF Word, Base, q, r
<1>4. q \in Cell /\ r \in Cell
  <2>1. q < Base /\ r < Base
    BY <1>2 DEF Base
  <2> QED BY <1>2, <2>1, Numbers
<1>5. Number(<<q, r>>) = n
  BY <1>2 DEF Number, Base
<1>6. <<q, r>> \in Seq(Cell) /\ Len(<<q, r>>) = 2
  BY <1>4
<1> QED BY <1>3, <1>5, <1>6 DEF WordLen
(* Cells gives back what lies at the offset.                               *)
LEMMA CellsBack ==
  ASSUME NEW buf, NEW at \in Nat, NEW n \in Nat, NEW s \in Seq(Cell), Len(s) = n,
         Len(buf) \in Nat, at + n <= Len(buf),
         \A k \in 1 .. n : buf[at + k] = s[k]
  PROVE  Cells(buf, at, n) = s
<1>1. ASSUME NEW i \in 1 .. n PROVE at + i <= Len(buf)
  OBVIOUS
<1>2. Cells(buf, at, n) = [i \in 1 .. n |-> s[i]]
  BY <1>1 DEF Cells
<1>3. s = [i \in 1 .. n |-> s[i]]
  OBVIOUS
<1> QED BY <1>2, <1>3

-----------------------------------------------------------------------------
(* What is put for the members fs of data, one after the other.            *)
Puts(data, fs) == [i \in 1 .. Len(fs) |-> PutField(data, fs[i])]

(* The members fs of data can be put: they have values of their kinds, and *)
(* a string is put behind its length.                                      *)
Putable(data, fs) ==
  /\ Len(fs) \in Nat
  /\ \A i \in 1 .. Len(fs) :
       /\ fs[i].kind \in {"number", "bool", "length", "string"}
       /\ fs[i].kind = "number" => data.val[fs[i].name] \in UInt32
       /\ fs[i].kind = "bool" => data.val[fs[i].name] \in Cell
       /\ fs[i].kind = "length" => data.len[fs[i].name] \in UInt32
       /\ fs[i].kind = "string" =>
            /\ data.val[fs[i].name] \in Seq(Cell)
            /\ data.len[fs[i].name] = Len(data.val[fs[i].name])
            /\ \E j \in 1 .. i - 1 : fs[j].kind = "length" /\ fs[j].name = fs[i].name

(* The names of the first i members, and of the lengths among them.        *)
ValNames(fs, i) == {fs[j].name : j \in {k \in 1 .. i : fs[k].kind # "length"}}
LenNames(fs, i) == {fs[j].name : j \in {k \in 1 .. i : fs[k].kind = "length"}}
Fetched(data, fs, i) ==
  [val |-> [x \in ValNames(fs, i) |-> data.val[x]],
   len |-> [x \in LenNames(fs, i) |-> data.len[x]]]

(* The fields put, one by one, are sequences of cells.                     *)
LEMMA PutsPieces ==
  ASSUME NEW data, NEW fs, Putable(data, fs)
  PROVE  Pieces(Puts(data, fs), Cell)
<1>1. ASSUME NEW i \in 1 .. Len(fs) PROVE PutField(data, fs[i]) \in Seq(Cell)
  <2>1. CASE fs[i].kind = "number"
    <3>1. PutField(data, fs[i]) = Word(data.val[fs[i].name])
      BY <2>1 DEF PutField
    <3>2. data.val[fs[i].name] \in UInt32
      BY <2>1 DEF Putable
    <3> QED BY <3>1, <3>2, WordNumber
  <2>2. CASE fs[i].kind = "length"
    <3>1. PutField(data, fs[i]) = Word(data.len[fs[i].name])
      BY <2>2 DEF PutField
    <3>2. data.len[fs[i].name] \in UInt32
      BY <2>2 DEF Putable
    <3> QED BY <3>1, <3>2, WordNumber
  <2>3. CASE fs[i].kind = "bool"
    <3>1. PutField(data, fs[i]) = <<data.val[fs[i].name]>>
      BY <2>3 DEF PutField
    <3>2. data.val[fs[i].name] \in Cell
      BY <2>3 DEF Putable
    <3> QED BY <3>1, <3>2
  <2>4. CASE fs[i].kind = "string"
    <3>1. PutField(data, fs[i]) = data.val[fs[i].name]
      BY <2>4 DEF PutField
    <3> QED BY <3>1, <2>4 DEF Putable
  <2> QED BY <2>1, <2>2, <2>3, <2>4 DEF Putable
<1>2. Len(fs) \in Nat
  BY DEF Putable
<1> QED BY <1>1, <1>2 DEF Pieces, Puts

(* The names of the first i members and those of one less.                 *)
LEMMA NamesStep ==
  ASSUME NEW fs, NEW i \in Nat \ {0}
  PROVE  /\ fs[i].kind # "length" =>
              /\ ValNames(fs, i) = ValNames(fs, i - 1) \cup {fs[i].name}
              /\ LenNames(fs, i) = LenNames(fs, i - 1)
         /\ fs[i].kind = "length" =>
              /\ LenNames(fs, i) = LenNames(fs, i - 1) \cup {fs[i].name}
              /\ ValNames(fs, i) = ValNames(fs, i - 1)
<1>1. 1 .. i = (1 .. i - 1) \cup {i}
  OBVIOUS
<1> QED BY <1>1 DEF ValNames, LenNames

(* The state of the deserializer behind the first i members.               *)
Reached(data, fs, off, i) ==
  [at |-> off[i], val |-> [x \in ValNames(fs, i) |-> data.val[x]],
   len |-> [x \in LenNames(fs, i) |-> data.len[x]]]

(* One UPK_FETCH_ at the place of a field gives what the UPK_PUT_ of that  *)
(* field put there, and ends where the next field begins.                  *)
LEMMA FetchStep ==
  ASSUME NEW data, NEW fs, Putable(data, fs), NEW buf, Len(buf) \in Nat,
         NEW off, Places(off, Puts(data, fs), buf), NEW i \in 1 .. Len(fs)
  PROVE  Fetch(buf, Reached(data, fs, off, i - 1), fs[i]) = Reached(data, fs, off, i)
<1> DEFINE a == off[i - 1]
           f == fs[i]
           val == [x \in ValNames(fs, i - 1) |-> data.val[x]]
           len == [x \in LenNames(fs, i - 1) |-> data.len[x]]
<1>1. /\ Len(fs) \in Nat /\ Len(Puts(data, fs)) = Len(fs)
      /\ i \in Nat \ {0} /\ i - 1 \in 0 .. Len(fs)
      /\ Puts(data, fs)[i] = PutField(data, f)
  BY DEF Putable, Puts
<1>2. PutField(data, f) \in Seq(Cell) /\ Len(PutField(data, f)) \in Nat
  BY <1>1, PutsPieces, PiecesFacts
<1>3. /\ a \in Nat /\ off[i] = a + Len(PutField(data, f)) /\ off[i] <= Len(buf)
      /\ \A k \in 1 .. Len(PutField(data, f)) : buf[a + k] = PutField(data, f)[k]
  BY <1>1 DEF Places
<1>4. Cells(buf, a, Len(PutField(data, f))) = PutField(data, f)
  <2>1. PICK s \in Seq(Cell), n \in Nat : s = PutField(data, f) /\ n = Len(PutField(data, f))
    BY <1>2
  <2>2. s \in Seq(Cell) /\ n \in Nat /\ n = Len(s) /\ a + n <= Len(buf)
        /\ \A k \in 1 .. n : buf[a + k] = s[k]
    BY <2>1, <1>3
  <2> HIDE DEF a
  <2>3. Cells(buf, a, n) = s
    BY <2>2, <1>3, CellsBack
  <2> QED BY <2>1, <2>3
<1>5. Reached(data, fs, off, i - 1) = [at |-> a, val |-> val, len |-> len]
  BY DEF Reached
<1> HIDE DEF a, f, val, len
<1>6. CASE f.kind = "number"
  <2>1. PutField(data, f) = Word(data.val[f.name]) /\ data.val[f.name] \in UInt32
    BY <1>1, <1>6 DEF PutField, Putable, f
  <2>2. Len(PutField(data, f)) = WordLen /\ Number(PutField(data, f)) = data.val[f.name]
    BY <2>1, WordNumber
  <2>3. Number(Cells(buf, a, WordLen)) = data.val[f.name] /\ off[i] = a + WordLen
    BY <2>2, <1>3, <1>4
  <2>4. Fetch(buf, [at |-> a, val |-> val, len |-> len], f)
          = [at |-> a + WordLen, len |-> len, val |-> With(val, f.name, data.val[f.name])]
    BY <1>3, <1>6, <2>3 DEF Fetch
  <2>5. With(val, f.name, data.val[f.name]) = [x \in ValNames(fs, i) |-> data.val[x]]
    <3>1. ValNames(fs, i) = ValNames(fs, i - 1) \cup {f.name}
      BY <1>1, <1>6, NamesStep DEF f
    <3> QED BY <3>1 DEF With, val
  <2>6. len = [x \in LenNames(fs, i) |-> data.len[x]]
    BY <1>1, <1>6, NamesStep DEF len, f
  <2> QED BY <1>5, <2>3, <2>4, <2>5, <2>6 DEF Reached, f
<1>7. CASE f.kind = "length"
  <2>1. PutField(data, f) = Word(data.len[f.name]) /\ data.len[f.name] \in UInt32
    BY <1>1, <1>7 DEF PutField, Putable, f
  <2>2. Len(PutField(data, f)) = WordLen /\ Number(PutField(data, f)) = data.len[f.name]
    BY <2>1, WordNumber
  <2>3. Number(Cells(buf, a, WordLen)) = data.len[f.name] /\ off[i] = a + WordLen
    BY <2>2, <1>3, <1>4
  <2>4. Fetch(buf, [at |-> a, val |-> val, len |-> len], f)
          = [at |-> a + WordLen, val |-> val, len |-> With(len, f.name, data.len[f.name])]
    BY <1>3, <1>7, <2>3 DEF Fetch
  <2>5. With(len, f.name, data.len[f.name]) = [x \in LenNames(fs, i) |-> data.len[x]]
    <3>1. LenNames(fs, i) = LenNames(fs, i - 1) \cup {f.name}
      BY <1>1, <1>7, NamesStep DEF f
    <3> QED BY <3>1 DEF With, len
  <2>6. val = [x \in ValNames(fs, i) |-> data.val[x]]
    BY <1>1, <1>7, NamesStep DEF val, f
  <2> QED BY <1>5, <2>3, <2>4, <2>5, <2>6 DEF Reached, f
<1>8. CASE f.kind = "bool"
  <2>1. PutField(data, f) = <<data.val[f.name]>>
    BY <1>1, <1>8 DEF PutField
  <2>3. Cells(buf, a, 1)[1] = data.val[f.name] /\ off[i] = a + 1
    BY <2>1, <1>3, <1>4
  <2>4. Fetch(buf, [at |-> a, val |-> val, len |-> len], f)
          = [at |-> a + 1, len |-> len, val |-> With(val, f.name, data.val[f.name])]
    BY <1>3, <1>8, <2>3 DEF Fetch
  <2>5. With(val, f.name, data.val[f.name]) = [x \in ValNames(fs, i) |-> data.val[x]]
    <3>1. ValNames(fs, i) = ValNames(fs, i - 1) \cup {f.name}
      BY <1>1, <1>8, NamesStep DEF f
    <3> QED BY <3>1 DEF With, val
  <2>6. len = [x \in LenNames(fs, i) |-> data.len[x]]
    BY <1>1, <1>8, NamesStep DEF len, f
  <2> QED BY <1>5, <2>3, <2>4, <2>5, <2>6 DEF Reached, f
<1>9. CASE f.kind = "string"
  <2>1. PutField(data, f) = data.val[f.name]
    BY <1>1, <1>9 DEF PutField
  <2>2. len[f.name] = Len(PutField(data, f))
    <3>1. PICK j \in 1 .. i - 1 : fs[j].kind = "length" /\ fs[j].name = f.name
      BY <1>9 DEF Putable, f
    <3>2. f.name \in LenNames(fs, i - 1)
      BY <3>1 DEF LenNames
    <3>3. data.len[f.name] = Len(data.val[f.name])
      BY <1>9 DEF Putable, f
    <3> QED BY <2>1, <3>2, <3>3 DEF len
  <2>3. Cells(buf, a, len[f.name]) = data.val[f.name] /\ off[i] = a + len[f.name]
    BY <2>1, <2>2, <1>3, <1>4
  <2>4. Fetch(buf, [at |-> a, val |-> val, len |-> len], f)
          = [at |-> a + len[f.name], len |-> len, val |-> With(val, f.name, data.val[f.name])]
    BY <1>3, <1>9, <2>3 DEF Fetch
  <2>5. With(val, f.name, data.val[f.name]) = [x \in ValNames(fs, i) |-> data.val[x]]
    <3>1. ValNames(fs, i) = ValNames(fs, i - 1) \cup {f.name}
      BY <1>1, <1>9, NamesStep DEF f
    <3> QED BY <3>1 DEF With, val
  <2>6. len = [x \in LenNames(fs, i) |-> data.len[x]]
    BY <1>1, <1>9, NamesStep DEF len, f
  <2> QED BY <1>5, <2>3, <2>4, <2>5, <2>6 DEF Reached, f
<1> QED BY <1>6, <1>7, <1>8, <1>9 DEF Putable, f

(* What a serializer puts a deserializer of the same members fetches.      *)
LEMMA FetchBack ==
  ASSUME NEW data, NEW fs, Putable(data, fs)
  PROVE  FetchFields(FlattenSeq(Puts(data, fs)), fs) = Fetched(data, fs, Len(fs))
<1> DEFINE buf == FlattenSeq(Puts(data, fs))
           n == Len(fs)
           zero == [at |-> 0, val |-> <<>>, len |-> <<>>]
           Next(f) == [i \in 0 .. n |-> IF i = 0 THEN zero ELSE Fetch(buf, f[i - 1], fs[i])]
           F == CHOOSE f : f = Next(f)
<1>1. n \in Nat /\ Len(buf) \in Nat
  BY PutsPieces, FlattenPlaces DEF Putable
<1>2. PICK off : Places(off, Puts(data, fs), buf)
  BY PutsPieces, FlattenPlaces
<1> DEFINE W == [i \in 0 .. n |-> Reached(data, fs, off, i)]
<1>3. W[0] = zero
  <2>1. off[0] = 0 /\ 0 \in 0 .. n
    BY <1>1, <1>2 DEF Places
  <2>2. ValNames(fs, 0) = {} /\ LenNames(fs, 0) = {}
    BY DEF ValNames, LenNames
  <2>3. \A g : [x \in {} |-> g[x]] = <<>>
    OBVIOUS
  <2> QED BY <2>1, <2>2, <2>3 DEF Reached
<1>4. ASSUME NEW i \in 1 .. n PROVE W[i] = Fetch(buf, W[i - 1], fs[i])
  <2>1. i \in 0 .. n /\ i - 1 \in 0 .. n
    OBVIOUS
  <2>2. W[i] = Reached(data, fs, off, i) /\ W[i - 1] = Reached(data, fs, off, i - 1)
    BY <2>1
  <2> HIDE DEF W, buf
  <2> QED BY <1>1, <1>2, <2>2, FetchStep
<1>5. W = Next(W)
  <2> HIDE DEF zero, buf
  <2>1. \A i \in 0 .. n : W[i] = IF i = 0 THEN zero ELSE Fetch(buf, W[i - 1], fs[i])
    <3> HIDE DEF W
    <3>1. \A i \in 0 .. n : i = 0 \/ i \in 1 .. n
      BY <1>1
    <3> QED BY <1>3, <1>4, <3>1
  <2> QED BY <2>1
<1> HIDE DEF W, zero, buf
<1>6. F = Next(F)
  BY <1>5
<1> HIDE DEF F
<1>7. \A i \in 1 .. n : F[i] = Fetch(buf, F[i - 1], fs[i])
  BY <1>1, <1>6
<1>8. F[0] = zero
  BY <1>1, <1>6
<1>9. Alike(F, W, 0, n)
  BY <1>3, <1>4, <1>7, <1>8 DEF Alike
<1>10. F[n] = W[n]
  <2>1. 0 \in Int /\ n \in Int /\ n \in 0 .. n
    BY <1>1
  <2>2. \A i \in 0 .. n : F[i] = W[i]
    BY <2>1, <1>9, Unique
  <2> QED BY <2>1, <2>2
<1>11. FetchFields(buf, fs) = [val |-> F[n].val, len |-> F[n].len]
  BY DEF FetchFields, F, zero
<1>12. W[n] = Reached(data, fs, off, n)
  BY <1>1 DEF W
<1> QED BY <1>10, <1>11, <1>12 DEF Reached, Fetched, buf
-----------------------------------------------------------------------------
(* s has the sums of the beginnings of ns.                                 *)
Sums(s, ns, n) ==
  /\ s \in [0 .. n -> Nat]
  /\ s[0] = 0
  /\ \A i \in 1 .. n : s[i] = s[i - 1] + ns[i]

(* Total is the last of the sums of the beginnings.                        *)
LEMMA TotalIs ==
  ASSUME NEW n \in Nat, NEW ns, Len(ns) = n, NEW s, Sums(s, ns, n)
  PROVE  Total(ns) = s[n]
<1> DEFINE Next(f) == [i \in 0 .. n |-> IF i = 0 THEN 0 ELSE f[i - 1] + ns[i]]
           F == CHOOSE f : f = Next(f)
<1>1. s = Next(s)
  <2>1. s = [i \in 0 .. n |-> s[i]]
    BY DEF Sums
  <2>2. \A i \in 0 .. n : s[i] = IF i = 0 THEN 0 ELSE s[i - 1] + ns[i]
    <3>1. \A i \in 0 .. n : i = 0 \/ i \in 1 .. n
      OBVIOUS
    <3> QED BY <3>1 DEF Sums
  <2> QED BY <2>1, <2>2
<1>2. F = Next(F)
  BY <1>1
<1>3. Total(ns) = F[n]
  BY DEF Total
<1> HIDE DEF F
<1>4. F[0] = 0 /\ \A i \in 1 .. n : F[i] = F[i - 1] + ns[i]
  BY <1>2
<1>5. Alike(F, s, 0, n)
  BY <1>4 DEF Alike, Sums
<1>6. \A i \in 0 .. n : F[i] = s[i]
  <2>1. 0 \in Int /\ n \in Int
    OBVIOUS
  <2> QED BY <2>1, <1>5, Unique
<1> QED BY <1>3, <1>6

(* Every sequence of numbers has them.                                     *)
LEMMA TotalBy ==
  ASSUME NEW n \in Nat, NEW ns, Len(ns) = n, \A i \in 1 .. n : ns[i] \in Nat
  PROVE  \E s : Sums(s, ns, n)
<1> DEFINE step == [p \in (1 .. n) \X Nat |-> p[2] + ns[p[1]]]
<1>1. Step(step, n, Nat)
  BY DEF Step
<1>2. \A i \in 1 .. n, v \in Nat : step[<<i, v>>] = v + ns[i]
  OBVIOUS
<1> HIDE DEF step
<1>3. PICK g : Follows(g, n, Nat, 0, step)
  BY <1>1, Recursion
<1>4. ASSUME NEW i \in 1 .. n PROVE g[i] = g[i - 1] + ns[i]
  <2>1. g[i - 1] \in Nat
    BY <1>3 DEF Follows
  <2> QED BY <1>2, <1>3, <2>1 DEF Follows
<1> QED BY <1>3, <1>4 DEF Follows, Sums
-----------------------------------------------------------------------------
(* fs has the members gs, in their order, each string behind its length;   *)
(* pos tells where.                                                        *)
Spelling(pos, gs, fs) ==
  /\ Len(gs) \in Nat /\ DOMAIN gs = 1 .. Len(gs) /\ Len(fs) \in Nat
  /\ pos \in [0 .. Len(gs) -> 0 .. Len(fs)]
  /\ pos[0] = 0 /\ pos[Len(gs)] = Len(fs)
  /\ \A i \in 1 .. Len(gs) :
       \/ /\ gs[i].kind = "string"
          /\ pos[i] = pos[i - 1] + 2
          /\ fs[pos[i - 1] + 1] = L(gs[i].name) /\ fs[pos[i - 1] + 2] = gs[i]
       \/ /\ gs[i].kind \in {"number", "bool"}
          /\ pos[i] = pos[i - 1] + 1 /\ fs[pos[i - 1] + 1] = gs[i]
Spelled(gs, fs) == \E pos : Spelling(pos, gs, fs)

(* Each member has its place, with its length before it if it is a string. *)
LEMMA SpellingAt ==
  ASSUME NEW pos, NEW gs, NEW fs, Spelling(pos, gs, fs), NEW i \in 1 .. Len(gs)
  PROVE  /\ pos[i] \in 1 .. Len(fs) /\ fs[pos[i]] = gs[i]
         /\ pos[i - 1] \in 0 .. Len(fs) /\ pos[i - 1] < pos[i]
         /\ gs[i].kind \in {"number", "bool", "string"}
         /\ gs[i].kind = "string" =>
              pos[i] - 1 \in 1 .. Len(fs) /\ fs[pos[i] - 1] = L(gs[i].name)
<1>1. i \in 0 .. Len(gs) /\ i - 1 \in 0 .. Len(gs)
  BY DEF Spelling
<1>2. pos[i] \in 0 .. Len(fs) /\ pos[i - 1] \in 0 .. Len(fs)
  BY <1>1 DEF Spelling
<1> DEFINE p == pos[i - 1]
<1>3. pos[i] \in 0 .. Len(fs) /\ p \in 0 .. Len(fs) /\ Len(fs) \in Nat
  BY <1>2 DEF Spelling
<1>4. CASE /\ gs[i].kind = "string"
           /\ pos[i] = p + 2 /\ fs[p + 1] = L(gs[i].name) /\ fs[p + 2] = gs[i]
  <2>1. pos[i] - 1 = p + 1
    BY <1>3, <1>4
  <2> HIDE DEF p
  <2> QED BY <1>3, <1>4, <2>1 DEF p
<1>5. CASE /\ gs[i].kind \in {"number", "bool"}
           /\ pos[i] = p + 1 /\ fs[p + 1] = gs[i]
  BY <1>3, <1>5
<1> QED BY <1>4, <1>5 DEF Spelling

(* There is nothing else in fs.                                            *)
LEMMA SpellingCover ==
  ASSUME NEW pos, NEW gs, NEW fs, Spelling(pos, gs, fs), NEW k \in 1 .. Len(fs)
  PROVE  \E i \in 1 .. Len(gs) : \/ k = pos[i]
                                 \/ k = pos[i] - 1 /\ gs[i].kind = "string"
<1> DEFINE n == Len(gs)
           Is(j) == \E i \in 1 .. n : j = pos[i] \/ (j = pos[i] - 1 /\ gs[i].kind = "string")
           T == {d \in Nat : d <= n => \A j \in 1 .. pos[d] : Is(j)}
<1>0. n \in Nat
  BY DEF Spelling
<1>1. 0 \in T
  BY DEF Spelling
<1>2. ASSUME NEW d \in Nat, d \in T PROVE d + 1 \in T
  <2> SUFFICES ASSUME d + 1 <= n, NEW j \in 1 .. pos[d + 1] PROVE Is(j)
    OBVIOUS
  <2> DEFINE i == d + 1
  <2>1. i \in 1 .. n /\ i - 1 = d
    BY <1>0
  <2>2. CASE j \in 1 .. pos[d]
    <3>1. d <= n
      BY <1>0
    <3> QED BY <1>2, <2>2, <3>1
  <2>3. CASE j \notin 1 .. pos[d]
    <3>1. /\ pos[i] \in Nat /\ pos[d] \in Nat
          /\ \/ gs[i].kind = "string" /\ pos[i] = pos[d] + 2
             \/ pos[i] = pos[d] + 1
      BY <2>1, SMTT(30) DEF Spelling
    <3>2. j = pos[i] \/ (j = pos[i] - 1 /\ gs[i].kind = "string")
      BY <2>3, <3>1, SMTT(30)
    <3> HIDE DEF i
    <3> QED BY <2>1, <3>2
  <2> QED BY <2>2, <2>3
<1> HIDE DEF T
<1>3. n \in T
  BY <1>0, <1>1, <1>2, NatSet
<1>4. \A j \in 1 .. pos[n] : Is(j)
  BY <1>0, <1>3 DEF T
<1> QED BY <1>4 DEF Spelling

(* The members fetched for a spelling are those it spells, and the lengths *)
(* fetched are those of its strings.                                       *)
LEMMA SpelledNames ==
  ASSUME NEW gs, NEW fs, Spelled(gs, fs)
  PROVE  ValNames(fs, Len(fs)) = Names(gs) /\ LenNames(fs, Len(fs)) = Sized(gs)
<1>1. PICK pos : Spelling(pos, gs, fs)
  BY DEF Spelled
<1>2. Len(fs) \in Nat /\ DOMAIN gs = 1 .. Len(gs)
  BY <1>1 DEF Spelling
<1>3. ASSUME NEW i \in 1 .. Len(gs)
      PROVE  /\ gs[i].name \in ValNames(fs, Len(fs))
             /\ gs[i].kind = "string" => gs[i].name \in LenNames(fs, Len(fs))
  <2>0. /\ pos[i] \in 1 .. Len(fs) /\ fs[pos[i]] = gs[i]
        /\ gs[i].kind \in {"number", "bool", "string"}
        /\ gs[i].kind = "string" =>
             pos[i] - 1 \in 1 .. Len(fs) /\ fs[pos[i] - 1] = L(gs[i].name)
    BY <1>1, SpellingAt
  <2>1. gs[i].kind # "length"
    BY <2>0
  <2> QED BY <2>0, <2>1 DEF ValNames, LenNames, L
<1>4. ASSUME NEW k \in 1 .. Len(fs)
      PROVE  /\ fs[k].kind # "length" => fs[k].name \in Names(gs)
             /\ fs[k].kind = "length" => fs[k].name \in Sized(gs)
  <2>1. PICK i \in 1 .. Len(gs) : \/ k = pos[i]
                                  \/ k = pos[i] - 1 /\ gs[i].kind = "string"
    BY <1>1, SpellingCover
  <2>2. /\ fs[pos[i]] = gs[i] /\ gs[i].kind # "length"
        /\ gs[i].kind = "string" => fs[pos[i] - 1] = L(gs[i].name)
    BY <1>1, <2>1, SpellingAt
  <2>3. CASE k = pos[i]
    BY <1>2, <2>2, <2>3 DEF Names
  <2>4. CASE k = pos[i] - 1 /\ gs[i].kind = "string"
    <3>1. fs[k] = L(gs[i].name)
      BY <2>2, <2>4
    <3>2. fs[k].kind = "length" /\ fs[k].name = gs[i].name
      BY <3>1 DEF L
    <3> QED BY <1>2, <2>4, <3>2 DEF Sized
  <2> QED BY <2>1, <2>3, <2>4
<1> QED BY <1>2, <1>3, <1>4 DEF ValNames, LenNames, Names, Sized

(* data has values for the members gs.                                     *)
Valued(data, gs) ==
  \A i \in 1 .. Len(gs) :
    /\ gs[i].kind = "number" => data.val[gs[i].name] \in UInt32
    /\ gs[i].kind = "bool" => data.val[gs[i].name] \in Cell
    /\ gs[i].kind = "string" =>
         /\ data.val[gs[i].name] \in Seq(Cell)
         /\ data.len[gs[i].name] = Len(data.val[gs[i].name])
         /\ data.len[gs[i].name] \in UInt32

(* A struct whose members have values of their kind can be put as its      *)
(* spelling says.                                                          *)
LEMMA SpelledPutable ==
  ASSUME NEW gs, NEW fs, Spelled(gs, fs), NEW data, Valued(data, gs)
  PROVE  Putable(data, fs)
<1>1. PICK pos : Spelling(pos, gs, fs)
  BY DEF Spelled
<1>2. Len(fs) \in Nat
  BY <1>1 DEF Spelling
<1>3. ASSUME NEW k \in 1 .. Len(fs)
      PROVE  /\ fs[k].kind \in {"number", "bool", "length", "string"}
             /\ fs[k].kind = "number" => data.val[fs[k].name] \in UInt32
             /\ fs[k].kind = "bool" => data.val[fs[k].name] \in Cell
             /\ fs[k].kind = "length" => data.len[fs[k].name] \in UInt32
             /\ fs[k].kind = "string" =>
                  /\ data.val[fs[k].name] \in Seq(Cell)
                  /\ data.len[fs[k].name] = Len(data.val[fs[k].name])
                  /\ \E j \in 1 .. k - 1 : fs[j].kind = "length" /\ fs[j].name = fs[k].name
  <2>1. PICK i \in 1 .. Len(gs) : \/ k = pos[i]
                                  \/ k = pos[i] - 1 /\ gs[i].kind = "string"
    BY <1>1, SpellingCover
  <2>2. /\ fs[pos[i]] = gs[i] /\ gs[i].kind \in {"number", "bool", "string"}
        /\ gs[i].kind = "string" => /\ pos[i] - 1 \in 1 .. Len(fs)
                                    /\ fs[pos[i] - 1] = L(gs[i].name)
    BY <1>1, <2>1, SpellingAt
  <2>3. CASE k = pos[i]
    <3>1. fs[k] = gs[i]
      BY <2>2, <2>3
    <3>2. gs[i].kind = "string" =>
            \E j \in 1 .. k - 1 : fs[j].kind = "length" /\ fs[j].name = fs[k].name
      <4> SUFFICES ASSUME gs[i].kind = "string"
                   PROVE  \E j \in 1 .. k - 1 : fs[j].kind = "length" /\ fs[j].name = fs[k].name
        OBVIOUS
      <4>1. k - 1 \in 1 .. k - 1
        BY <2>2, <2>3
      <4>2. fs[k - 1].kind = "length" /\ fs[k - 1].name = fs[k].name
        BY <2>2, <2>3, <3>1 DEF L
      <4> QED BY <4>1, <4>2
    <3>3. gs[i].kind \in {"number", "bool", "string"}
      BY <2>2
    <3> QED BY <3>1, <3>2, <3>3 DEF Valued
  <2>4. CASE k = pos[i] - 1 /\ gs[i].kind = "string"
    <3>1. fs[k] = L(gs[i].name)
      BY <2>2, <2>4
    <3>2. fs[k].kind = "length" /\ fs[k].name = gs[i].name
      BY <3>1 DEF L
    <3> QED BY <2>4, <3>2 DEF Valued
  <2> QED BY <2>1, <2>3, <2>4
<1> QED BY <1>2, <1>3 DEF Putable

(* The length of what is put is the sum of what the create functions add   *)
(* for each member.                                                        *)
LEMMA SpelledTotal ==
  ASSUME NEW gs, NEW fs, Spelled(gs, fs), NEW data, Valued(data, gs),
         NEW ns, Len(ns) = Len(gs),
         \A i \in 1 .. Len(gs) :
           /\ gs[i].kind = "number" => ns[i] = WordLen
           /\ gs[i].kind = "bool" => ns[i] = 1
           /\ gs[i].kind = "string" => ns[i] = data.len[gs[i].name] + WordLen
  PROVE  /\ Total(ns) \in Nat /\ \E s : Sums(s, ns, Len(gs)) /\ Total(ns) = s[Len(gs)]
         /\ Len(FlattenSeq(Puts(data, fs))) = Total(ns)
<1> DEFINE n == Len(gs)
           puts == Puts(data, fs)
           flat == FlattenSeq(puts)
<1>1. PICK pos : Spelling(pos, gs, fs)
  BY DEF Spelled
<1>2. n \in Nat /\ Len(fs) \in Nat /\ Len(puts) = Len(fs)
  BY <1>1 DEF Spelling, Puts
<1>3. Putable(data, fs)
  BY SpelledPutable
<1>4. PICK off : Places(off, puts, flat)
  BY <1>3, PutsPieces, FlattenPlaces
<1>5. ASSUME NEW i \in 1 .. n
      PROVE  /\ ns[i] \in Nat
             /\ off[pos[i]] = off[pos[i - 1]] + ns[i] /\ off[pos[i - 1]] \in Nat
  <2> DEFINE p == pos[i - 1]
  <2>1. p \in 0 .. Len(fs) /\ pos[i] \in 1 .. Len(fs)
    BY <1>1, SpellingAt
  <2>2. ASSUME NEW k \in 1 .. Len(fs), NEW w \in Nat, Len(PutField(data, fs[k])) = w
        PROVE  off[k] = off[k - 1] + w /\ off[k] \in Nat /\ off[k - 1] \in Nat
    <3>1. puts[k] = PutField(data, fs[k])
      BY DEF Puts
    <3>2. k \in 0 .. Len(fs) /\ k - 1 \in 0 .. Len(fs)
      BY <1>2
    <3> HIDE DEF puts, flat
    <3> QED BY <1>2, <1>4, <2>2, <3>1, <3>2 DEF Places
  <2>2a. off[p] \in Nat
    BY <1>2, <1>4, <2>1 DEF Places
  <2>3. CASE /\ gs[i].kind = "string" /\ pos[i] = p + 2
             /\ fs[p + 1] = L(gs[i].name) /\ fs[p + 2] = gs[i]
    <3>1. Len(PutField(data, fs[p + 1])) = WordLen
      <4>1. PutField(data, fs[p + 1]) = Word(data.len[gs[i].name])
        BY <2>3 DEF PutField, L
      <4>2. data.len[gs[i].name] \in UInt32
        BY <2>3 DEF Valued
      <4> QED BY <4>1, <4>2, WordNumber
    <3>2. Len(PutField(data, fs[p + 2])) = data.len[gs[i].name] /\ data.len[gs[i].name] \in Nat
      <4>1. PutField(data, fs[p + 2]) = data.val[gs[i].name]
        BY <2>3 DEF PutField
      <4> QED BY <4>1, <2>3 DEF Valued
    <3>3. PICK b \in Nat : b = data.len[gs[i].name]
      BY <3>2
    <3>4. p + 1 \in 1 .. Len(fs) /\ p + 2 \in 1 .. Len(fs)
          /\ (p + 1) - 1 = p /\ (p + 2) - 1 = p + 1
      BY <2>1, <2>3
    <3>5. off[p + 1] = off[p] + WordLen
      <4> HIDE DEF p
      <4>1. WordLen \in Nat
        BY DEF WordLen
      <4>2. off[p + 1] = off[(p + 1) - 1] + WordLen
        BY <2>2, <3>1, <3>4, <4>1
      <4> QED BY <3>4, <4>2
    <3>6. off[p + 2] = off[p + 1] + b
      <4> HIDE DEF p
      <4>2. off[p + 2] = off[(p + 2) - 1] + b
        BY <2>2, <3>2, <3>3, <3>4
      <4> QED BY <3>4, <4>2
    <3>7. ns[i] = b + WordLen
      BY <2>3, <3>3
    <3>8. WordLen = 2 /\ off[p] \in Nat
      BY <2>2a DEF WordLen
    <3>9. off[p + 2] = off[p] + ns[i] /\ ns[i] \in Nat
      <4> HIDE DEF p
      <4> QED BY <3>5, <3>6, <3>7, <3>8, SMTT(30)
    <3> QED BY <2>3, <3>8, <3>9
  <2>4. CASE /\ gs[i].kind \in {"number", "bool"}
             /\ pos[i] = p + 1 /\ fs[p + 1] = gs[i]
    <3>1. Len(PutField(data, fs[p + 1])) = ns[i] /\ ns[i] \in Nat
      <4>1. CASE gs[i].kind = "number"
        <5>1. PutField(data, gs[i]) = Word(data.val[gs[i].name])
          BY <4>1 DEF PutField
        <5>2. data.val[gs[i].name] \in UInt32
          BY <4>1 DEF Valued
        <5>3. Len(PutField(data, gs[i])) = WordLen
          BY <5>1, <5>2, WordNumber
        <5> QED BY <2>4, <4>1, <5>3 DEF WordLen
      <4>2. CASE gs[i].kind = "bool"
        <5>1. PutField(data, gs[i]) = <<data.val[gs[i].name]>>
          BY <4>2 DEF PutField
        <5> QED BY <2>4, <4>2, <5>1
      <4> QED BY <2>4, <4>1, <4>2
    <3>2. p + 1 \in 1 .. Len(fs) /\ (p + 1) - 1 = p
      BY <2>1, <2>4
    <3> QED BY <2>2, <2>2a, <2>4, <3>1, <3>2
  <2> QED BY <1>1, <2>3, <2>4 DEF Spelling
<1>6. PICK s : Sums(s, ns, n)
  BY <1>2, <1>5, TotalBy
<1>7. Total(ns) = s[n] /\ s[n] \in Nat
  <2>1. Total(ns) = s[n]
    <3> HIDE DEF n
    <3> QED BY <1>2, <1>6, TotalIs DEF n
  <2> QED BY <2>1, <1>2, <1>6 DEF Sums
<1> DEFINE h == [i \in 0 .. n |-> off[pos[i]]]
<1>8. Alike(h, s, 0, n)
  <2>1. off[pos[0]] = 0 /\ 0 \in 0 .. n
    BY <1>1, <1>2, <1>4 DEF Places, Spelling
  <2>2. ASSUME NEW i \in 0 + 1 .. n, h[i - 1] = s[i - 1] PROVE h[i] = s[i]
    <3>1. i \in 1 .. n /\ i \in 0 .. n /\ i - 1 \in 0 .. n
      BY <1>2
    <3>2. h[i] = off[pos[i]] /\ h[i - 1] = off[pos[i - 1]]
      BY <3>1
    <3>3. s[i] = s[i - 1] + ns[i]
      BY <1>6, <3>1 DEF Sums
    <3> HIDE DEF h
    <3> QED BY <1>5, <2>2, <3>1, <3>2, <3>3
  <2> QED BY <1>6, <2>1, <2>2 DEF Alike, Sums
<1>9. h[n] = s[n]
  <2>1. 0 \in Int /\ n \in Int /\ n \in 0 .. n
    BY <1>2
  <2> HIDE DEF h, n
  <2>2. \A i \in 0 .. n : h[i] = s[i]
    BY <2>1, <1>8, Unique
  <2> QED BY <2>1, <2>2
<1>10. off[pos[n]] = Len(flat)
  BY <1>1, <1>2, <1>4 DEF Spelling, Places
<1> QED BY <1>2, <1>6, <1>7, <1>9, <1>10
-----------------------------------------------------------------------------
(* The shapes that the tables have, P for a number or a bool and S for a   *)
(* string: one number.                                                     *)
LEMMA SpelledP ==
  ASSUME NEW a,
         a.kind \in {"number", "bool"}
  PROVE  Spelled(<<a>>, <<a>>)
<1> DEFINE gs == <<a>>
           fs == <<a>>
           pos == [i \in 0 .. 1 |-> <<0, 1>>[i + 1]]
<1>1. /\ pos \in [0 .. 1 -> 0 .. 1]
      /\ pos[0] = 0 /\ pos[1] = 1
  OBVIOUS
<1>2. Len(gs) = 1 /\ DOMAIN gs = 1 .. 1 /\ Len(fs) = 1
  OBVIOUS
<1> HIDE DEF pos
<1>3. Spelling(pos, gs, fs)
  BY <1>1, <1>2 DEF Spelling
<1> QED BY <1>3 DEF Spelled

(* Two numbers.                                                            *)
LEMMA SpelledPP ==
  ASSUME NEW a, NEW b,
         a.kind \in {"number", "bool"}, b.kind \in {"number", "bool"}
  PROVE  Spelled(<<a, b>>, <<a, b>>)
<1> DEFINE gs == <<a, b>>
           fs == <<a, b>>
           pos == [i \in 0 .. 2 |-> <<0, 1, 2>>[i + 1]]
<1>1. /\ pos \in [0 .. 2 -> 0 .. 2]
      /\ pos[0] = 0 /\ pos[1] = 1 /\ pos[2] = 2
  OBVIOUS
<1>2. Len(gs) = 2 /\ DOMAIN gs = 1 .. 2 /\ Len(fs) = 2
  OBVIOUS
<1> HIDE DEF pos
<1>3. Spelling(pos, gs, fs)
  BY <1>1, <1>2 DEF Spelling
<1> QED BY <1>3 DEF Spelled

(* Three numbers.                                                          *)
LEMMA SpelledPPP ==
  ASSUME NEW a, NEW b, NEW c,
         a.kind \in {"number", "bool"}, b.kind \in {"number", "bool"},
           c.kind \in {"number", "bool"}
  PROVE  Spelled(<<a, b, c>>, <<a, b, c>>)
<1> DEFINE gs == <<a, b, c>>
           fs == <<a, b, c>>
           pos == [i \in 0 .. 3 |-> <<0, 1, 2, 3>>[i + 1]]
<1>1. /\ pos \in [0 .. 3 -> 0 .. 3]
      /\ pos[0] = 0 /\ pos[1] = 1 /\ pos[2] = 2 /\ pos[3] = 3
  OBVIOUS
<1>2. Len(gs) = 3 /\ DOMAIN gs = 1 .. 3 /\ Len(fs) = 3
  OBVIOUS
<1> HIDE DEF pos
<1>3. Spelling(pos, gs, fs)
  BY <1>1, <1>2 DEF Spelling
<1> QED BY <1>3 DEF Spelled

(* A number and a string.                                                  *)
LEMMA SpelledPS ==
  ASSUME NEW a, NEW b,
         a.kind \in {"number", "bool"}, b.kind = "string"
  PROVE  Spelled(<<a, b>>, <<a, L(b.name), b>>)
<1> DEFINE gs == <<a, b>>
           fs == <<a, L(b.name), b>>
           pos == [i \in 0 .. 2 |-> <<0, 1, 3>>[i + 1]]
<1>1. /\ pos \in [0 .. 2 -> 0 .. 3]
      /\ pos[0] = 0 /\ pos[1] = 1 /\ pos[2] = 3
  OBVIOUS
<1>2. Len(gs) = 2 /\ DOMAIN gs = 1 .. 2 /\ Len(fs) = 3
  OBVIOUS
<1> HIDE DEF pos
<1>3. Spelling(pos, gs, fs)
  BY <1>1, <1>2 DEF Spelling
<1> QED BY <1>3 DEF Spelled

(* A number and two strings.                                               *)
LEMMA SpelledPSS ==
  ASSUME NEW a, NEW b, NEW c,
         a.kind \in {"number", "bool"}, b.kind = "string", c.kind = "string"
  PROVE  Spelled(<<a, b, c>>, <<a, L(b.name), b, L(c.name), c>>)
<1> DEFINE gs == <<a, b, c>>
           fs == <<a, L(b.name), b, L(c.name), c>>
           pos == [i \in 0 .. 3 |-> <<0, 1, 3, 5>>[i + 1]]
<1>1. /\ pos \in [0 .. 3 -> 0 .. 5]
      /\ pos[0] = 0 /\ pos[1] = 1 /\ pos[2] = 3 /\ pos[3] = 5
  OBVIOUS
<1>2. Len(gs) = 3 /\ DOMAIN gs = 1 .. 3 /\ Len(fs) = 5
  OBVIOUS
<1> HIDE DEF pos
<1>3. Spelling(pos, gs, fs)
  BY <1>1, <1>2 DEF Spelling
<1> QED BY <1>3 DEF Spelled

(* A string between two numbers.                                           *)
LEMMA SpelledPSP ==
  ASSUME NEW a, NEW b, NEW c,
         a.kind \in {"number", "bool"}, b.kind = "string", c.kind \in {"number", "bool"}
  PROVE  Spelled(<<a, b, c>>, <<a, L(b.name), b, c>>)
<1> DEFINE gs == <<a, b, c>>
           fs == <<a, L(b.name), b, c>>
           pos == [i \in 0 .. 3 |-> <<0, 1, 3, 4>>[i + 1]]
<1>1. /\ pos \in [0 .. 3 -> 0 .. 4]
      /\ pos[0] = 0 /\ pos[1] = 1 /\ pos[2] = 3 /\ pos[3] = 4
  OBVIOUS
<1>2. Len(gs) = 3 /\ DOMAIN gs = 1 .. 3 /\ Len(fs) = 4
  OBVIOUS
<1> HIDE DEF pos
<1>3. Spelling(pos, gs, fs)
  BY <1>1, <1>2 DEF Spelling
<1> QED BY <1>3 DEF Spelled

(* Two numbers and a string.                                               *)
LEMMA SpelledPPS ==
  ASSUME NEW a, NEW b, NEW c,
         a.kind \in {"number", "bool"}, b.kind \in {"number", "bool"}, c.kind = "string"
  PROVE  Spelled(<<a, b, c>>, <<a, b, L(c.name), c>>)
<1> DEFINE gs == <<a, b, c>>
           fs == <<a, b, L(c.name), c>>
           pos == [i \in 0 .. 3 |-> <<0, 1, 2, 4>>[i + 1]]
<1>1. /\ pos \in [0 .. 3 -> 0 .. 4]
      /\ pos[0] = 0 /\ pos[1] = 1 /\ pos[2] = 2 /\ pos[3] = 4
  OBVIOUS
<1>2. Len(gs) = 3 /\ DOMAIN gs = 1 .. 3 /\ Len(fs) = 4
  OBVIOUS
<1> HIDE DEF pos
<1>3. Spelling(pos, gs, fs)
  BY <1>1, <1>2 DEF Spelling
<1> QED BY <1>3 DEF Spelled

(* Three numbers and a string.                                             *)
LEMMA SpelledPPPS ==
  ASSUME NEW a, NEW b, NEW c, NEW d,
         a.kind \in {"number", "bool"}, b.kind \in {"number", "bool"},
           c.kind \in {"number", "bool"}, d.kind = "string"
  PROVE  Spelled(<<a, b, c, d>>, <<a, b, c, L(d.name), d>>)
<1> DEFINE gs == <<a, b, c, d>>
           fs == <<a, b, c, L(d.name), d>>
           pos == [i \in 0 .. 4 |-> <<0, 1, 2, 3, 5>>[i + 1]]
<1>1. /\ pos \in [0 .. 4 -> 0 .. 5]
      /\ pos[0] = 0 /\ pos[1] = 1 /\ pos[2] = 2 /\ pos[3] = 3 /\ pos[4] = 5
  OBVIOUS
<1>2. Len(gs) = 4 /\ DOMAIN gs = 1 .. 4 /\ Len(fs) = 5
  OBVIOUS
<1> HIDE DEF pos
<1>3. Spelling(pos, gs, fs)
  BY <1>1, <1>2 DEF Spelling
<1> QED BY <1>3 DEF Spelled

(* Four numbers and a string.                                              *)
LEMMA SpelledPPPPS ==
  ASSUME NEW a, NEW b, NEW c, NEW d, NEW e,
         a.kind \in {"number", "bool"}, b.kind \in {"number", "bool"},
           c.kind \in {"number", "bool"}, d.kind \in {"number", "bool"}, e.kind = "string"
  PROVE  Spelled(<<a, b, c, d, e>>, <<a, b, c, d, L(e.name), e>>)
<1> DEFINE gs == <<a, b, c, d, e>>
           fs == <<a, b, c, d, L(e.name), e>>
           pos == [i \in 0 .. 5 |-> <<0, 1, 2, 3, 4, 6>>[i + 1]]
<1>1. /\ pos \in [0 .. 5 -> 0 .. 6]
      /\ pos[0] = 0 /\ pos[1] = 1 /\ pos[2] = 2 /\ pos[3] = 3 /\ pos[4] = 4 /\ pos[5] = 6
  OBVIOUS
<1>2. Len(gs) = 5 /\ DOMAIN gs = 1 .. 5 /\ Len(fs) = 6
  OBVIOUS
<1> HIDE DEF pos
<1>3. Spelling(pos, gs, fs)
  BY <1>1, <1>2 DEF Spelling
<1> QED BY <1>3 DEF Spelled

(* Three numbers and two strings.                                          *)
LEMMA SpelledPPPSS ==
  ASSUME NEW a, NEW b, NEW c, NEW d, NEW e,
         a.kind \in {"number", "bool"}, b.kind \in {"number", "bool"},
           c.kind \in {"number", "bool"}, d.kind = "string", e.kind = "string"
  PROVE  Spelled(<<a, b, c, d, e>>, <<a, b, c, L(d.name), d, L(e.name), e>>)
<1> DEFINE gs == <<a, b, c, d, e>>
           fs == <<a, b, c, L(d.name), d, L(e.name), e>>
           pos == [i \in 0 .. 5 |-> <<0, 1, 2, 3, 5, 7>>[i + 1]]
<1>1. /\ pos \in [0 .. 5 -> 0 .. 7]
      /\ pos[0] = 0 /\ pos[1] = 1 /\ pos[2] = 2 /\ pos[3] = 3 /\ pos[4] = 5 /\ pos[5] = 7
  OBVIOUS
<1>2. Len(gs) = 5 /\ DOMAIN gs = 1 .. 5 /\ Len(fs) = 7
  OBVIOUS
<1> HIDE DEF pos
<1>3. Spelling(pos, gs, fs)
  BY <1>1, <1>2 DEF Spelling
<1> QED BY <1>3 DEF Spelled

(* The serializers of the preambles put what the create functions fill in. *)
LEMMA SpelledPreamble ==
  \A t \in DOMAIN CreatePreamble : Spelled(CreatePreamble[t],
  PutPreamble[t])
<1>1. Spelled(CreatePreamble["req_preamble"], PutPreamble["req_preamble"])
  BY SpelledPPPS DEF CreatePreamble, PutPreamble, Id, E, U, B, S, L
<1>2. Spelled(CreatePreamble["repl_preamble"], PutPreamble["repl_preamble"])
  BY SpelledPP DEF CreatePreamble, PutPreamble, Id, E, U, B, S, L
<1>3. DOMAIN CreatePreamble = {"req_preamble", "repl_preamble"}
  BY DEF CreatePreamble
<1> QED BY <1>1, <1>2, <1>3

(* So do those of the requests.                                            *)
LEMMA SpelledReq ==
  \A t \in DOMAIN CreateReq : Spelled(CreateReq[t], PutReq[t])
<1>1. Spelled(CreateReq["req_seq_start"], PutReq["req_seq_start"])
  BY SpelledPPP DEF CreateReq, PutReq, Id, E, U, B, S, L
<1>2. Spelled(CreateReq["req_seq_end"], PutReq["req_seq_end"])
  BY SpelledPP DEF CreateReq, PutReq, Id, E, U, B, S, L
<1>3. Spelled(CreateReq["req_action"], PutReq["req_action"])
  BY SpelledPSS DEF CreateReq, PutReq, Id, E, U, B, S, L
<1>4. Spelled(CreateReq["req_signal"], PutReq["req_signal"])
  BY SpelledPPPPS DEF CreateReq, PutReq, Id, E, U, B, S, L
<1>5. Spelled(CreateReq["req_list"], PutReq["req_list"])
  BY SpelledP DEF CreateReq, PutReq, Id, E, U, B, S, L
<1>6. Spelled(CreateReq["req_status"], PutReq["req_status"])
  BY SpelledPSP DEF CreateReq, PutReq, Id, E, U, B, S, L
<1>7. Spelled(CreateReq["req_subscribe"], PutReq["req_subscribe"])
  BY SpelledPPS DEF CreateReq, PutReq, Id, E, U, B, S, L
<1>8. Spelled(CreateReq["req_unsubscribe"], PutReq["req_unsubscribe"])
  BY SpelledPPS DEF CreateReq, PutReq, Id, E, U, B, S, L
<1>9. Spelled(CreateReq["req_disconnect"], PutReq["req_disconnect"])
  BY SpelledP DEF CreateReq, PutReq, Id, E, U, B, S, L
<1>10. DOMAIN CreateReq = {"req_seq_start", "req_seq_end", "req_action", "req_signal",
         "req_list", "req_status", "req_subscribe", "req_unsubscribe", "req_disconnect"}
  BY DEF CreateReq
<1> QED BY <1>1, <1>2, <1>3, <1>4, <1>5, <1>6, <1>7, <1>8, <1>9, <1>10

(* And of the replies.                                                     *)
LEMMA SpelledRepl ==
  \A t \in DOMAIN CreateRepl : Spelled(CreateRepl[t], PutRepl[t])
<1>1. Spelled(CreateRepl["repl_seq_start"], PutRepl["repl_seq_start"])
  BY SpelledPPP DEF CreateRepl, PutRepl, Id, E, U, B, S, L
<1>2. Spelled(CreateRepl["repl_seq_end"], PutRepl["repl_seq_end"])
  BY SpelledPP DEF CreateRepl, PutRepl, Id, E, U, B, S, L
<1>3. Spelled(CreateRepl["repl_result"], PutRepl["repl_result"])
  BY SpelledPPS DEF CreateRepl, PutRepl, Id, E, U, B, S, L
<1>4. Spelled(CreateRepl["repl_listing"], PutRepl["repl_listing"])
  BY SpelledPS DEF CreateRepl, PutRepl, Id, E, U, B, S, L
<1>5. Spelled(CreateRepl["repl_svcinfo"], PutRepl["repl_svcinfo"])
  BY SpelledPSS DEF CreateRepl, PutRepl, Id, E, U, B, S, L
<1>6. Spelled(CreateRepl["repl_ack"], PutRepl["repl_ack"])
  BY SpelledP DEF CreateRepl, PutRepl, Id, E, U, B, S, L
<1>7. Spelled(CreateRepl["repl_error"], PutRepl["repl_error"])
  BY SpelledPPPSS DEF CreateRepl, PutRepl, Id, E, U, B, S, L
<1>8. DOMAIN CreateRepl = {"repl_seq_start", "repl_seq_end", "repl_result",
        "repl_listing", "repl_svcinfo", "repl_ack", "repl_error"}
  BY DEF CreateRepl
<1> QED BY <1>1, <1>2, <1>3, <1>4, <1>5, <1>6, <1>7, <1>8

(* And of the publications.                                                *)
LEMMA SpelledPub ==
  \A t \in DOMAIN CreatePub : Spelled(CreatePub[t], PutPub[t])
<1>1. Spelled(CreatePub["pub_publication"], PutPub["pub_publication"])
  BY SpelledP DEF CreatePub, PutPub, Id, E, U, B, S, L
<1>2. Spelled(CreatePub["pub_cancelation"], PutPub["pub_cancelation"])
  BY SpelledP DEF CreatePub, PutPub, Id, E, U, B, S, L
<1>3. DOMAIN CreatePub = {"pub_publication", "pub_cancelation"}
  BY DEF CreatePub
<1> QED BY <1>1, <1>2, <1>3
-----------------------------------------------------------------------------
(* The sums of few numbers, written out.                                   *)
LEMMA SumsOf ==
  ASSUME NEW ns, NEW n \in Nat, \A i \in 1 .. n : ns[i] \in Nat, NEW s, Sums(s, ns, n)
  PROVE  /\ n = 1 => s[n] = ns[1]
         /\ n = 2 => s[n] = ns[1] + ns[2]
         /\ n = 3 => s[n] = ns[1] + ns[2] + ns[3]
         /\ n = 4 => s[n] = ns[1] + ns[2] + ns[3] + ns[4]
         /\ n = 5 => s[n] = ns[1] + ns[2] + ns[3] + ns[4] + ns[5]
         /\ n = 11 => s[n] = ns[1] + ns[2] + ns[3] + ns[4] + ns[5] + ns[6] + ns[7]
                               + ns[8] + ns[9] + ns[10] + ns[11]
<1>1. s[0] = 0 /\ \A i \in 1 .. n : s[i] = s[i - 1] + ns[i]
  BY DEF Sums
<1>2. n >= 1 => s[1] = ns[1]
  <2>1. n >= 1 => s[1] = s[1 - 1] + ns[1] /\ ns[1] \in Nat
    BY <1>1
  <2> QED BY <1>1, <2>1
<1>3. \A i \in 2 .. n : s[i] = s[i - 1] + ns[i]
  BY <1>1
<1>4. /\ n >= 2 => s[2] = s[1] + ns[2]
      /\ n >= 3 => s[3] = s[2] + ns[3]
      /\ n >= 4 => s[4] = s[3] + ns[4]
      /\ n >= 5 => s[5] = s[4] + ns[5]
      /\ n >= 6 => s[6] = s[5] + ns[6]
      /\ n >= 7 => s[7] = s[6] + ns[7]
      /\ n >= 8 => s[8] = s[7] + ns[8]
      /\ n >= 9 => s[9] = s[8] + ns[9]
      /\ n >= 10 => s[10] = s[9] + ns[10]
      /\ n >= 11 => s[11] = s[10] + ns[11]
  BY <1>3
<1>5. /\ n >= 2 => s[2] = ns[1] + ns[2]
      /\ n >= 3 => s[3] = ns[1] + ns[2] + ns[3]
      /\ n >= 4 => s[4] = ns[1] + ns[2] + ns[3] + ns[4]
      /\ n >= 5 => s[5] = ns[1] + ns[2] + ns[3] + ns[4] + ns[5]
  BY <1>2, <1>4
<1>6. n = 11 => s[11] = ns[1] + ns[2] + ns[3] + ns[4] + ns[5] + ns[6] + ns[7]
                               + ns[8] + ns[9] + ns[10] + ns[11]
  BY <1>4, <1>5
<1> QED BY <1>2, <1>5, <1>6

(* A member takes at most this much. *)
Cap(f) ==
  CASE f.kind = "number" -> WordLen
    [] f.kind = "bool" -> 1
    [] f.kind = "string" -> MaxString + (IF f.name = "svcinfo" THEN 23 ELSE 1)


(* The largest message is no larger than a packet may be.                  *)
Room(gs) ==
  \A ns, s : /\ Len(ns) = Len(gs)
             /\ \A i \in 1 .. Len(gs) : ns[i] \in Nat /\ ns[i] <= Cap(gs[i])
             /\ Sums(s, ns, Len(gs))
             => s[Len(gs)] <= 2 * MaxString + 28

(* Smaller numbers have smaller sums.                                      *)
LEMMA SumsBelow ==
  ASSUME NEW n \in Nat, NEW ns, NEW ms,
         \A i \in 1 .. n : ns[i] \in Nat /\ ms[i] \in Nat /\ ns[i] <= ms[i],
         NEW s, NEW u, Sums(s, ns, n), Sums(u, ms, n)
  PROVE  s[n] <= u[n]
<1> DEFINE T == {k \in Nat : k <= n => s[k] <= u[k]}
<1>1. 0 \in T
  BY DEF Sums
<1>2. ASSUME NEW k \in Nat, k \in T PROVE k + 1 \in T
  <2> SUFFICES ASSUME k + 1 <= n PROVE s[k + 1] <= u[k + 1]
    OBVIOUS
  <2>1. k + 1 \in 1 .. n /\ k \in 0 .. n /\ (k + 1) - 1 = k
    OBVIOUS
  <2>2. PICK i \in 1 .. n : i = k + 1 /\ i - 1 = k
    BY <2>1
  <2>3. s[i] = s[k] + ns[i] /\ u[i] = u[k] + ms[i] /\ s[k] \in Nat /\ u[k] \in Nat
    BY <2>1, <2>2 DEF Sums
  <2>4. s[k] <= u[k]
    BY <1>2
  <2> QED BY <2>2, <2>3, <2>4
<1> HIDE DEF T
<1>3. n \in T
  BY <1>1, <1>2, NatSet
<1> QED BY <1>3 DEF T

(* A struct with no more than two strings, one of which may be an svcinfo, *)
(* has room in a packet.                                                   *)
LEMMA RoomFor ==
  ASSUME NEW gs, Len(gs) \in 1 .. 5, \A i \in 1 .. Len(gs) : Cap(gs[i]) \in Nat,
         /\ Len(gs) = 1 => Cap(gs[1]) <= 2 * MaxString + 28
         /\ Len(gs) = 2 => Cap(gs[1]) + Cap(gs[2]) <= 2 * MaxString + 28
         /\ Len(gs) = 3 => Cap(gs[1]) + Cap(gs[2]) + Cap(gs[3]) <= 2 * MaxString + 28
         /\ Len(gs) = 4 =>
              Cap(gs[1]) + Cap(gs[2]) + Cap(gs[3]) + Cap(gs[4]) <= 2 * MaxString + 28
         /\ Len(gs) = 5 =>
              Cap(gs[1]) + Cap(gs[2]) + Cap(gs[3]) + Cap(gs[4]) + Cap(gs[5])
                <= 2 * MaxString + 28
  PROVE  Room(gs)
<1> DEFINE n == Len(gs)
<1> SUFFICES ASSUME NEW ns, NEW s, \A i \in 1 .. n : ns[i] \in Nat /\ ns[i] <= Cap(gs[i]),
                    Sums(s, ns, n)
             PROVE  s[n] <= 2 * MaxString + 28
  BY DEF Room
<1>1. PICK m \in Nat : m = 2 * MaxString + 28
  BY WireAssumption
<1>2. PICK c \in [1 .. n -> Nat] : \A i \in 1 .. n : c[i] = Cap(gs[i])
  <2>1. [i \in 1 .. n |-> Cap(gs[i])] \in [1 .. n -> Nat]
    OBVIOUS
  <2> QED BY <2>1
<1>3. n \in Nat /\ Len([i \in 1 .. n |-> c[i]]) = n /\ [i \in 1 .. n |-> c[i]] = c
  OBVIOUS
<1>4. PICK u : Sums(u, c, n)
  BY <1>3, TotalBy
<1>5. s[n] <= u[n]
  BY <1>2, <1>3, <1>4, SumsBelow
<1>6. /\ n = 1 => u[n] = c[1]
      /\ n = 2 => u[n] = c[1] + c[2]
      /\ n = 3 => u[n] = c[1] + c[2] + c[3]
      /\ n = 4 => u[n] = c[1] + c[2] + c[3] + c[4]
      /\ n = 5 => u[n] = c[1] + c[2] + c[3] + c[4] + c[5]
  <2> HIDE DEF n
  <2>1. \A i \in 1 .. n : c[i] \in Nat
    BY Zenon
  <2>2. n \in Nat
    BY <1>3
  <2> QED BY <1>4, <2>1, <2>2, SumsOf, ZenonT(60)
<1>7. u[n] <= m
  <2>1. CASE n = 1
    <3>1. c[1] = Cap(gs[1])
      BY <1>2, <2>1
    <3> QED BY <1>1, <1>6, <2>1, <3>1
  <2>2. CASE n = 2
    <3>1. c[1] = Cap(gs[1]) /\ c[2] = Cap(gs[2])
      BY <1>2, <2>2
    <3> QED BY <1>1, <1>6, <2>2, <3>1
  <2>3. CASE n = 3
    <3>1. c[1] = Cap(gs[1]) /\ c[2] = Cap(gs[2]) /\ c[3] = Cap(gs[3])
      BY <1>2, <2>3
    <3> QED BY <1>1, <1>6, <2>3, <3>1
  <2>4. CASE n = 4
    <3>1. c[1] = Cap(gs[1]) /\ c[2] = Cap(gs[2]) /\ c[3] = Cap(gs[3]) /\ c[4] = Cap(gs[4])
      BY <1>2, <2>4
    <3> QED BY <1>1, <1>6, <2>4, <3>1
  <2>5. CASE n = 5
    <3>1. /\ c[1] = Cap(gs[1]) /\ c[2] = Cap(gs[2]) /\ c[3] = Cap(gs[3])
          /\ c[4] = Cap(gs[4]) /\ c[5] = Cap(gs[5])
      BY <1>2, <2>5
    <3> QED BY <1>1, <1>6, <2>5, <3>1
  <2>6. n = 1 \/ n = 2 \/ n = 3 \/ n = 4 \/ n = 5
    OBVIOUS
  <2> HIDE DEF n
  <2> QED BY <2>1, <2>2, <2>3, <2>4, <2>5, <2>6
<1>8. s[n] \in Nat /\ u[n] \in Nat
  <2> HIDE DEF n
  <2> QED BY <1>3, <1>4 DEF Sums
<1> QED BY <1>1, <1>5, <1>7, <1>8

(* The same for a struct of one member, spelled out.                       *)
LEMMA RoomOne ==
  ASSUME NEW a,
         Cap(a) \in Nat,
         Cap(a) <= 2 * MaxString + 28
  PROVE  Room(<<a>>)
<1> DEFINE gs == <<a>>
<1>1. Len(gs) = 1 /\ gs[1] = a
  OBVIOUS
<1> HIDE DEF gs
<1>2. \A i \in 1 .. Len(gs) : Cap(gs[i]) \in Nat
  BY <1>1
<1>3. Len(gs) \in 1 .. 5 /\ Len(gs) # 2 /\ Len(gs) # 3 /\ Len(gs) # 4 /\ Len(gs) # 5
  BY <1>1
<1>4. Cap(gs[1]) <= 2 * MaxString + 28
  BY <1>1
<1>5. Room(gs)
  BY <1>2, <1>3, <1>4, RoomFor, Zenon
<1> QED BY <1>5 DEF gs

(* Of two.                                                                 *)
LEMMA RoomTwo ==
  ASSUME NEW a, NEW b,
         Cap(a) \in Nat, Cap(b) \in Nat,
         Cap(a) + Cap(b) <= 2 * MaxString + 28
  PROVE  Room(<<a, b>>)
<1> DEFINE gs == <<a, b>>
<1>1. Len(gs) = 2 /\ gs[1] = a /\ gs[2] = b
  OBVIOUS
<1> HIDE DEF gs
<1>2. \A i \in 1 .. Len(gs) : Cap(gs[i]) \in Nat
  BY <1>1
<1>3. Len(gs) \in 1 .. 5 /\ Len(gs) # 1 /\ Len(gs) # 3 /\ Len(gs) # 4 /\ Len(gs) # 5
  BY <1>1
<1>4. Cap(gs[1]) + Cap(gs[2]) <= 2 * MaxString + 28
  BY <1>1
<1>5. Room(gs)
  BY <1>2, <1>3, <1>4, RoomFor, Zenon
<1> QED BY <1>5 DEF gs

(* Of three.                                                               *)
LEMMA RoomThree ==
  ASSUME NEW a, NEW b, NEW c,
         Cap(a) \in Nat, Cap(b) \in Nat, Cap(c) \in Nat,
         Cap(a) + Cap(b) + Cap(c) <= 2 * MaxString + 28
  PROVE  Room(<<a, b, c>>)
<1> DEFINE gs == <<a, b, c>>
<1>1. Len(gs) = 3 /\ gs[1] = a /\ gs[2] = b /\ gs[3] = c
  OBVIOUS
<1> HIDE DEF gs
<1>2. \A i \in 1 .. Len(gs) : Cap(gs[i]) \in Nat
  BY <1>1
<1>3. Len(gs) \in 1 .. 5 /\ Len(gs) # 1 /\ Len(gs) # 2 /\ Len(gs) # 4 /\ Len(gs) # 5
  BY <1>1
<1>4. Cap(gs[1]) + Cap(gs[2]) + Cap(gs[3]) <= 2 * MaxString + 28
  BY <1>1
<1>5. Room(gs)
  BY <1>2, <1>3, <1>4, RoomFor, Zenon
<1> QED BY <1>5 DEF gs

(* Of four.                                                                *)
LEMMA RoomFour ==
  ASSUME NEW a, NEW b, NEW c, NEW d,
         Cap(a) \in Nat, Cap(b) \in Nat, Cap(c) \in Nat, Cap(d) \in Nat,
         Cap(a) + Cap(b) + Cap(c) + Cap(d) <= 2 * MaxString + 28
  PROVE  Room(<<a, b, c, d>>)
<1> DEFINE gs == <<a, b, c, d>>
<1>1. Len(gs) = 4 /\ gs[1] = a /\ gs[2] = b /\ gs[3] = c /\ gs[4] = d
  OBVIOUS
<1> HIDE DEF gs
<1>2. \A i \in 1 .. Len(gs) : Cap(gs[i]) \in Nat
  BY <1>1
<1>3. Len(gs) \in 1 .. 5 /\ Len(gs) # 1 /\ Len(gs) # 2 /\ Len(gs) # 3 /\ Len(gs) # 5
  BY <1>1
<1>4. Cap(gs[1]) + Cap(gs[2]) + Cap(gs[3]) + Cap(gs[4]) <= 2 * MaxString + 28
  BY <1>1
<1>5. Room(gs)
  BY <1>2, <1>3, <1>4, RoomFor, Zenon
<1> QED BY <1>5 DEF gs

(* Of five.                                                                *)
LEMMA RoomFive ==
  ASSUME NEW a, NEW b, NEW c, NEW d, NEW e,
         Cap(a) \in Nat, Cap(b) \in Nat, Cap(c) \in Nat, Cap(d) \in Nat, Cap(e) \in Nat,
         Cap(a) + Cap(b) + Cap(c) + Cap(d) + Cap(e) <= 2 * MaxString + 28
  PROVE  Room(<<a, b, c, d, e>>)
<1> DEFINE gs == <<a, b, c, d, e>>
<1>1. Len(gs) = 5 /\ gs[1] = a /\ gs[2] = b /\ gs[3] = c /\ gs[4] = d /\ gs[5] = e
  OBVIOUS
<1> HIDE DEF gs
<1>2. \A i \in 1 .. Len(gs) : Cap(gs[i]) \in Nat
  BY <1>1
<1>3. Len(gs) \in 1 .. 5 /\ Len(gs) # 1 /\ Len(gs) # 2 /\ Len(gs) # 3 /\ Len(gs) # 4
  BY <1>1
<1>4. Cap(gs[1]) + Cap(gs[2]) + Cap(gs[3]) + Cap(gs[4]) + Cap(gs[5]) <= 2 * MaxString + 28
  BY <1>1
<1>5. Room(gs)
  BY <1>2, <1>3, <1>4, RoomFor, Zenon
<1> QED BY <1>5 DEF gs

(* The most that a member of each kind takes.                              *)
LEMMA CapOf ==
  /\ MaxString \in Nat
  /\ Cap(Id) = 2
  /\ \A x : Cap(U(x)) = 2 /\ Cap(E(x)) = 2 /\ Cap(B(x)) = 1
  /\ \A x : x # "svcinfo" => Cap(S(x)) = MaxString + 1
  /\ Cap(S("svcinfo")) = MaxString + 23
<1>1. MaxString \in Nat
  BY WireAssumption
<1> QED BY <1>1 DEF Cap, Id, E, U, S, B, WordLen

(* There is room for the preambles.                                        *)
LEMMA RoomPreamble == \A t \in DOMAIN CreatePreamble : Room(CreatePreamble[t])
<1>1. Room(CreatePreamble["req_preamble"])
  <2>1. CreatePreamble["req_preamble"] = <<Id, U("min_supported_ver"),
          U("max_supported_ver"), S("client_name")>>
    BY DEF CreatePreamble
  <2>2. Room(<<Id, U("min_supported_ver"), U("max_supported_ver"), S("client_name")>>)
    <3>1. MaxString \in Nat /\ Cap(Id) = 2 /\ Cap(U("min_supported_ver")) = 2
            /\ Cap(U("max_supported_ver")) = 2 /\ Cap(S("client_name")) = MaxString + 1
      BY CapOf
    <3>2. Cap(Id) \in Nat /\ Cap(U("min_supported_ver")) \in Nat
            /\ Cap(U("max_supported_ver")) \in Nat /\ Cap(S("client_name")) \in Nat
      BY <3>1
    <3>3. Cap(Id) + Cap(U("min_supported_ver")) + Cap(U("max_supported_ver"))
            + Cap(S("client_name")) <= 2 * MaxString + 28
      BY <3>1
    <3> QED BY <3>2, <3>3, RoomFour, Zenon
  <2> QED BY <2>1, <2>2
<1>2. Room(CreatePreamble["repl_preamble"])
  <2>1. CreatePreamble["repl_preamble"] = <<Id, U("best_version")>>
    BY DEF CreatePreamble
  <2>2. Room(<<Id, U("best_version")>>)
    <3>1. MaxString \in Nat /\ Cap(Id) = 2 /\ Cap(U("best_version")) = 2
      BY CapOf
    <3>2. Cap(Id) \in Nat /\ Cap(U("best_version")) \in Nat
      BY <3>1
    <3>3. Cap(Id) + Cap(U("best_version")) <= 2 * MaxString + 28
      BY <3>1
    <3> QED BY <3>2, <3>3, RoomTwo, Zenon
  <2> QED BY <2>1, <2>2
<1>3. DOMAIN CreatePreamble = {"req_preamble", "repl_preamble"}
  BY DEF CreatePreamble
<1> QED BY <1>1, <1>2, <1>3

(* For the requests.                                                       *)
LEMMA RoomReq == \A t \in DOMAIN CreateReq : Room(CreateReq[t])
<1>1. Room(CreateReq["req_seq_start"])
  <2>1. CreateReq["req_seq_start"] = <<Id, E("msg_seq_type"), U("msg_seq_count")>>
    BY DEF CreateReq
  <2>2. Room(<<Id, E("msg_seq_type"), U("msg_seq_count")>>)
    <3>1. MaxString \in Nat /\ Cap(Id) = 2 /\ Cap(E("msg_seq_type")) = 2
            /\ Cap(U("msg_seq_count")) = 2
      BY CapOf
    <3>2. Cap(Id) \in Nat /\ Cap(E("msg_seq_type")) \in Nat /\ Cap(U("msg_seq_count")) \in Nat
      BY <3>1
    <3>3. Cap(Id) + Cap(E("msg_seq_type")) + Cap(U("msg_seq_count")) <= 2 * MaxString + 28
      BY <3>1
    <3> QED BY <3>2, <3>3, RoomThree, Zenon
  <2> QED BY <2>1, <2>2
<1>2. Room(CreateReq["req_seq_end"])
  <2>1. CreateReq["req_seq_end"] = <<Id, B("commit")>>
    BY DEF CreateReq
  <2>2. Room(<<Id, B("commit")>>)
    <3>1. MaxString \in Nat /\ Cap(Id) = 2 /\ Cap(B("commit")) = 1
      BY CapOf
    <3>2. Cap(Id) \in Nat /\ Cap(B("commit")) \in Nat
      BY <3>1
    <3>3. Cap(Id) + Cap(B("commit")) <= 2 * MaxString + 28
      BY <3>1
    <3> QED BY <3>2, <3>3, RoomTwo, Zenon
  <2> QED BY <2>1, <2>2
<1>3. Room(CreateReq["req_action"])
  <2>1. CreateReq["req_action"] = <<Id, S("svc_id"), S("action")>>
    BY DEF CreateReq
  <2>2. Room(<<Id, S("svc_id"), S("action")>>)
    <3>1. MaxString \in Nat /\ Cap(Id) = 2 /\ Cap(S("svc_id")) = MaxString + 1
            /\ Cap(S("action")) = MaxString + 1
      BY CapOf
    <3>2. Cap(Id) \in Nat /\ Cap(S("svc_id")) \in Nat /\ Cap(S("action")) \in Nat
      BY <3>1
    <3>3. Cap(Id) + Cap(S("svc_id")) + Cap(S("action")) <= 2 * MaxString + 28
      BY <3>1
    <3> QED BY <3>2, <3>3, RoomThree, Zenon
  <2> QED BY <2>1, <2>2
<1>4. Room(CreateReq["req_signal"])
  <2>1. CreateReq["req_signal"] = <<Id, E("signal"), B("signal_sid"), B("signal_pgrp"),
          S("svc_id")>>
    BY DEF CreateReq
  <2>2. Room(<<Id, E("signal"), B("signal_sid"), B("signal_pgrp"), S("svc_id")>>)
    <3>1. MaxString \in Nat /\ Cap(Id) = 2 /\ Cap(E("signal")) = 2
            /\ Cap(B("signal_sid")) = 1 /\ Cap(B("signal_pgrp")) = 1
            /\ Cap(S("svc_id")) = MaxString + 1
      BY CapOf
    <3>2. Cap(Id) \in Nat /\ Cap(E("signal")) \in Nat /\ Cap(B("signal_sid")) \in Nat
            /\ Cap(B("signal_pgrp")) \in Nat /\ Cap(S("svc_id")) \in Nat
      BY <3>1
    <3>3. Cap(Id) + Cap(E("signal")) + Cap(B("signal_sid")) + Cap(B("signal_pgrp"))
            + Cap(S("svc_id")) <= 2 * MaxString + 28
      BY <3>1
    <3> QED BY <3>2, <3>3, RoomFive, Zenon
  <2> QED BY <2>1, <2>2
<1>5. Room(CreateReq["req_list"])
  <2>1. CreateReq["req_list"] = <<Id>>
    BY DEF CreateReq
  <2>2. Room(<<Id>>)
    <3>1. MaxString \in Nat /\ Cap(Id) = 2
      BY CapOf
    <3>2. Cap(Id) \in Nat
      BY <3>1
    <3>3. Cap(Id) <= 2 * MaxString + 28
      BY <3>1
    <3> QED BY <3>2, <3>3, RoomOne, Zenon
  <2> QED BY <2>1, <2>2
<1>6. Room(CreateReq["req_status"])
  <2>1. CreateReq["req_status"] = <<Id, S("svc_id"), U("restart_window_seconds")>>
    BY DEF CreateReq
  <2>2. Room(<<Id, S("svc_id"), U("restart_window_seconds")>>)
    <3>1. MaxString \in Nat /\ Cap(Id) = 2 /\ Cap(S("svc_id")) = MaxString + 1
            /\ Cap(U("restart_window_seconds")) = 2
      BY CapOf
    <3>2. Cap(Id) \in Nat /\ Cap(S("svc_id")) \in Nat /\ Cap(U("restart_window_seconds")) \in Nat
      BY <3>1
    <3>3. Cap(Id) + Cap(S("svc_id")) + Cap(U("restart_window_seconds")) <= 2 * MaxString + 28
      BY <3>1
    <3> QED BY <3>2, <3>3, RoomThree, Zenon
  <2> QED BY <2>1, <2>2
<1>7. Room(CreateReq["req_subscribe"])
  <2>1. CreateReq["req_subscribe"] = <<Id, B("all_svcs"), S("svc_id")>>
    BY DEF CreateReq
  <2>2. Room(<<Id, B("all_svcs"), S("svc_id")>>)
    <3>1. MaxString \in Nat /\ Cap(Id) = 2 /\ Cap(B("all_svcs")) = 1
            /\ Cap(S("svc_id")) = MaxString + 1
      BY CapOf
    <3>2. Cap(Id) \in Nat /\ Cap(B("all_svcs")) \in Nat /\ Cap(S("svc_id")) \in Nat
      BY <3>1
    <3>3. Cap(Id) + Cap(B("all_svcs")) + Cap(S("svc_id")) <= 2 * MaxString + 28
      BY <3>1
    <3> QED BY <3>2, <3>3, RoomThree, Zenon
  <2> QED BY <2>1, <2>2
<1>8. Room(CreateReq["req_unsubscribe"])
  <2>1. CreateReq["req_unsubscribe"] = <<Id, B("all_svcs"), S("svc_id")>>
    BY DEF CreateReq
  <2>2. Room(<<Id, B("all_svcs"), S("svc_id")>>)
    <3>1. MaxString \in Nat /\ Cap(Id) = 2 /\ Cap(B("all_svcs")) = 1
            /\ Cap(S("svc_id")) = MaxString + 1
      BY CapOf
    <3>2. Cap(Id) \in Nat /\ Cap(B("all_svcs")) \in Nat /\ Cap(S("svc_id")) \in Nat
      BY <3>1
    <3>3. Cap(Id) + Cap(B("all_svcs")) + Cap(S("svc_id")) <= 2 * MaxString + 28
      BY <3>1
    <3> QED BY <3>2, <3>3, RoomThree, Zenon
  <2> QED BY <2>1, <2>2
<1>9. Room(CreateReq["req_disconnect"])
  <2>1. CreateReq["req_disconnect"] = <<Id>>
    BY DEF CreateReq
  <2>2. Room(<<Id>>)
    <3>1. MaxString \in Nat /\ Cap(Id) = 2
      BY CapOf
    <3>2. Cap(Id) \in Nat
      BY <3>1
    <3>3. Cap(Id) <= 2 * MaxString + 28
      BY <3>1
    <3> QED BY <3>2, <3>3, RoomOne, Zenon
  <2> QED BY <2>1, <2>2
<1>10. DOMAIN CreateReq = {"req_seq_start", "req_seq_end", "req_action", "req_signal",
         "req_list", "req_status", "req_subscribe", "req_unsubscribe", "req_disconnect"}
  BY DEF CreateReq
<1> QED BY <1>1, <1>2, <1>3, <1>4, <1>5, <1>6, <1>7, <1>8, <1>9, <1>10

(* For the replies.                                                        *)
LEMMA RoomRepl == \A t \in DOMAIN CreateRepl : Room(CreateRepl[t])
<1>1. Room(CreateRepl["repl_seq_start"])
  <2>1. CreateRepl["repl_seq_start"] = <<Id, E("msg_seq_type"), U("msg_seq_count")>>
    BY DEF CreateRepl
  <2>2. Room(<<Id, E("msg_seq_type"), U("msg_seq_count")>>)
    <3>1. MaxString \in Nat /\ Cap(Id) = 2 /\ Cap(E("msg_seq_type")) = 2
            /\ Cap(U("msg_seq_count")) = 2
      BY CapOf
    <3>2. Cap(Id) \in Nat /\ Cap(E("msg_seq_type")) \in Nat /\ Cap(U("msg_seq_count")) \in Nat
      BY <3>1
    <3>3. Cap(Id) + Cap(E("msg_seq_type")) + Cap(U("msg_seq_count")) <= 2 * MaxString + 28
      BY <3>1
    <3> QED BY <3>2, <3>3, RoomThree, Zenon
  <2> QED BY <2>1, <2>2
<1>2. Room(CreateRepl["repl_seq_end"])
  <2>1. CreateRepl["repl_seq_end"] = <<Id, B("commit")>>
    BY DEF CreateRepl
  <2>2. Room(<<Id, B("commit")>>)
    <3>1. MaxString \in Nat /\ Cap(Id) = 2 /\ Cap(B("commit")) = 1
      BY CapOf
    <3>2. Cap(Id) \in Nat /\ Cap(B("commit")) \in Nat
      BY <3>1
    <3>3. Cap(Id) + Cap(B("commit")) <= 2 * MaxString + 28
      BY <3>1
    <3> QED BY <3>2, <3>3, RoomTwo, Zenon
  <2> QED BY <2>1, <2>2
<1>3. Room(CreateRepl["repl_result"])
  <2>1. CreateRepl["repl_result"] = <<Id, B("successful"), S("msg")>>
    BY DEF CreateRepl
  <2>2. Room(<<Id, B("successful"), S("msg")>>)
    <3>1. MaxString \in Nat /\ Cap(Id) = 2 /\ Cap(B("successful")) = 1
            /\ Cap(S("msg")) = MaxString + 1
      BY CapOf
    <3>2. Cap(Id) \in Nat /\ Cap(B("successful")) \in Nat /\ Cap(S("msg")) \in Nat
      BY <3>1
    <3>3. Cap(Id) + Cap(B("successful")) + Cap(S("msg")) <= 2 * MaxString + 28
      BY <3>1
    <3> QED BY <3>2, <3>3, RoomThree, Zenon
  <2> QED BY <2>1, <2>2
<1>4. Room(CreateRepl["repl_listing"])
  <2>1. CreateRepl["repl_listing"] = <<Id, S("svc_id")>>
    BY DEF CreateRepl
  <2>2. Room(<<Id, S("svc_id")>>)
    <3>1. MaxString \in Nat /\ Cap(Id) = 2 /\ Cap(S("svc_id")) = MaxString + 1
      BY CapOf
    <3>2. Cap(Id) \in Nat /\ Cap(S("svc_id")) \in Nat
      BY <3>1
    <3>3. Cap(Id) + Cap(S("svc_id")) <= 2 * MaxString + 28
      BY <3>1
    <3> QED BY <3>2, <3>3, RoomTwo, Zenon
  <2> QED BY <2>1, <2>2
<1>5. Room(CreateRepl["repl_svcinfo"])
  <2>1. CreateRepl["repl_svcinfo"] = <<Id, S("svcinfo"), S("svc_id")>>
    BY DEF CreateRepl
  <2>2. Room(<<Id, S("svcinfo"), S("svc_id")>>)
    <3>1. MaxString \in Nat /\ Cap(Id) = 2 /\ Cap(S("svcinfo")) = MaxString + 23
            /\ Cap(S("svc_id")) = MaxString + 1
      BY CapOf
    <3>2. Cap(Id) \in Nat /\ Cap(S("svcinfo")) \in Nat /\ Cap(S("svc_id")) \in Nat
      BY <3>1
    <3>3. Cap(Id) + Cap(S("svcinfo")) + Cap(S("svc_id")) <= 2 * MaxString + 28
      BY <3>1
    <3> QED BY <3>2, <3>3, RoomThree, Zenon
  <2> QED BY <2>1, <2>2
<1>6. Room(CreateRepl["repl_ack"])
  <2>1. CreateRepl["repl_ack"] = <<Id>>
    BY DEF CreateRepl
  <2>2. Room(<<Id>>)
    <3>1. MaxString \in Nat /\ Cap(Id) = 2
      BY CapOf
    <3>2. Cap(Id) \in Nat
      BY <3>1
    <3>3. Cap(Id) <= 2 * MaxString + 28
      BY <3>1
    <3> QED BY <3>2, <3>3, RoomOne, Zenon
  <2> QED BY <2>1, <2>2
<1>7. Room(CreateRepl["repl_error"])
  <2>1. CreateRepl["repl_error"] = <<Id, E("errlevel"), E("uerrno"), S("msg"), S("svc_id")>>
    BY DEF CreateRepl
  <2>2. Room(<<Id, E("errlevel"), E("uerrno"), S("msg"), S("svc_id")>>)
    <3>1. MaxString \in Nat /\ Cap(Id) = 2 /\ Cap(E("errlevel")) = 2
            /\ Cap(E("uerrno")) = 2 /\ Cap(S("msg")) = MaxString + 1
            /\ Cap(S("svc_id")) = MaxString + 1
      BY CapOf
    <3>2. Cap(Id) \in Nat /\ Cap(E("errlevel")) \in Nat /\ Cap(E("uerrno")) \in Nat
            /\ Cap(S("msg")) \in Nat /\ Cap(S("svc_id")) \in Nat
      BY <3>1
    <3>3. Cap(Id) + Cap(E("errlevel")) + Cap(E("uerrno")) + Cap(S("msg"))
            + Cap(S("svc_id")) <= 2 * MaxString + 28
      BY <3>1
    <3> QED BY <3>2, <3>3, RoomFive, Zenon
  <2> QED BY <2>1, <2>2
<1>8. DOMAIN CreateRepl = {"repl_seq_start", "repl_seq_end", "repl_result",
        "repl_listing", "repl_svcinfo", "repl_ack", "repl_error"}
  BY DEF CreateRepl
<1> QED BY <1>1, <1>2, <1>3, <1>4, <1>5, <1>6, <1>7, <1>8

(* For the publications.                                                   *)
LEMMA RoomPub == \A t \in DOMAIN CreatePub : Room(CreatePub[t])
<1>1. Room(CreatePub["pub_publication"])
  <2>1. CreatePub["pub_publication"] = <<Id>>
    BY DEF CreatePub
  <2>2. Room(<<Id>>)
    <3>1. MaxString \in Nat /\ Cap(Id) = 2
      BY CapOf
    <3>2. Cap(Id) \in Nat
      BY <3>1
    <3>3. Cap(Id) <= 2 * MaxString + 28
      BY <3>1
    <3> QED BY <3>2, <3>3, RoomOne, Zenon
  <2> QED BY <2>1, <2>2
<1>2. Room(CreatePub["pub_cancelation"])
  <2>1. CreatePub["pub_cancelation"] = <<Id>>
    BY DEF CreatePub
  <2>2. Room(<<Id>>)
    <3>1. MaxString \in Nat /\ Cap(Id) = 2
      BY CapOf
    <3>2. Cap(Id) \in Nat
      BY <3>1
    <3>3. Cap(Id) <= 2 * MaxString + 28
      BY <3>1
    <3> QED BY <3>2, <3>3, RoomOne, Zenon
  <2> QED BY <2>1, <2>2
<1>3. DOMAIN CreatePub = {"pub_publication", "pub_cancelation"}
  BY DEF CreatePub
<1> QED BY <1>1, <1>2, <1>3
-----------------------------------------------------------------------------
(* The types of the three families, and the four groups of functions.      *)
IsType(t) == \E p \in DOMAIN Family : t \in Range(Family[p])
TypeIndex(t) == CHOOSE i \in DOMAIN Family[PktOf(t)] : Family[PktOf(t)][i] = t

(* A type has a place in its family.                                       *)
LEMMA TypeAt ==
  ASSUME NEW t, IsType(t)
  PROVE  /\ PktOf(t) \in DOMAIN Family
         /\ TypeIndex(t) \in DOMAIN Family[PktOf(t)] /\ Family[PktOf(t)][TypeIndex(t)] = t
         /\ MsgCode(t) = Origin[PktOf(t)] + TypeIndex(t) - 1
<1>1. PktOf(t) \in DOMAIN Family /\ t \in Range(Family[PktOf(t)])
  BY DEF IsType, PktOf
<1>2. \E i \in DOMAIN Family[PktOf(t)] : Family[PktOf(t)][i] = t
  BY <1>1 DEF Range
<1> QED BY <1>1, <1>2 DEF TypeIndex, MsgCode

(* The families, without their tables.                                     *)
LEMMA Families ==
  /\ DOMAIN Family = {"request", "reply", "pubmsg"}
  /\ Len(Family.request) = 10 /\ DOMAIN Family.request = 1 .. 10
  /\ Len(Family.reply) = 8 /\ DOMAIN Family.reply = 1 .. 8
  /\ Len(Family.pubmsg) = 2 /\ DOMAIN Family.pubmsg = 1 .. 2
  /\ Origin.request = 1 /\ Origin.reply = 4096 /\ Origin.pubmsg = 8192
  /\ PktTypes.request = 1 /\ PktTypes.reply = 2 /\ PktTypes.pubmsg = 3
  /\ DOMAIN PktTypes = {"request", "reply", "pubmsg"}
BY DEF Family, ReqTypes, ReplTypes, PubTypes, Origin, PktTypes

(* The table of sizes is in the order of the types.                        *)
LEMMA Sizes ==
  /\ \A i \in 1 .. 10 : MsgSizes[i] = Family.request[i]
  /\ \A i \in 1 .. 8 : MsgSizes[i + 10] = Family.reply[i]
  /\ \A i \in 1 .. 2 : MsgSizes[i + 18] = Family.pubmsg[i]
BY DEF MsgSizes, Family, ReqTypes, ReplTypes, PubTypes

(* The index of a code, in each family.                                    *)
LEMMA Indexes ==
  /\ \A i \in 1 .. 10 : MsgtypeIdx(i) + 1 = i
  /\ \A i \in 1 .. 8 : MsgtypeIdx(4095 + i) + 1 = i + 10
  /\ \A i \in 1 .. 2 : MsgtypeIdx(8191 + i) + 1 = i + 18
<1>1. /\ Origin.request + Len(Family.request) + 1 = 12
      /\ Origin.reply + Len(Family.reply) + 1 = 4105
  BY Families
<1>2. ASSUME NEW i \in 1 .. 10 PROVE MsgtypeIdx(i) = i - 1
  <2>1. i < 12 /\ ~(i >= 12) /\ i - 1 = i - Origin.request
    BY Families
  <2> QED BY <1>1, <2>1 DEF MsgtypeIdx
<1>3. ASSUME NEW i \in 1 .. 8 PROVE MsgtypeIdx(4095 + i) = i + 9
  <2>1. PICK c \in Nat : c = 4095 + i
    OBVIOUS
  <2>2. ~(c < 12) /\ c >= 12 /\ c < 4105 /\ (c - Origin.reply) + (12 - Origin.request - 1) = i + 9
    BY <2>1, Families
  <2>3. MsgtypeIdx(c) = i + 9
    BY <1>1, <2>2 DEF MsgtypeIdx
  <2> QED BY <2>1, <2>3
<1>4. ASSUME NEW i \in 1 .. 2 PROVE MsgtypeIdx(8191 + i) = i + 17
  <2>1. PICK c \in Nat : c = 8191 + i
    OBVIOUS
  <2>2. /\ ~(c < 12) /\ ~(c < 4105)
        /\ (c - Origin.pubmsg) + (12 - Origin.request - 1) + (4105 - Origin.reply - 1) = i + 17
    BY <2>1, Families
  <2>3. MsgtypeIdx(c) = i + 17
    BY <1>1, <2>2 DEF MsgtypeIdx
  <2> QED BY <2>1, <2>3
<1> QED BY <1>2, <1>3, <1>4

(* The row of the table of sizes at the index of a type is the type's own. *)
LEMMA TypeBack ==
  ASSUME NEW t, IsType(t)
  PROVE  /\ MsgCode(t) \in UInt32
         /\ MsgSizes[MsgtypeIdx(MsgCode(t)) + 1] = t
<1> DEFINE i == TypeIndex(t)
<1>1. /\ PktOf(t) \in {"request", "reply", "pubmsg"}
      /\ i \in DOMAIN Family[PktOf(t)] /\ Family[PktOf(t)][i] = t
      /\ MsgCode(t) = Origin[PktOf(t)] + i - 1
  BY TypeAt, Families
<1> HIDE DEF i
<1>2. Base * Base > 10000
  BY DEF Base
<1>3. CASE PktOf(t) = "request"
  <2>1. i \in 1 .. 10 /\ Family.request[i] = t /\ MsgCode(t) = i
    BY <1>1, <1>3, Families
  <2>2. MsgCode(t) \in UInt32
    BY <1>2, <2>1, Numbers
  <2> QED BY <2>1, <2>2, Sizes, Indexes
<1>4. CASE PktOf(t) = "reply"
  <2>1. i \in 1 .. 8 /\ Family.reply[i] = t /\ MsgCode(t) = 4095 + i
    BY <1>1, <1>4, Families
  <2>2. MsgCode(t) \in UInt32
    BY <1>2, <2>1, Numbers
  <2> QED BY <2>1, <2>2, Sizes, Indexes
<1>5. CASE PktOf(t) = "pubmsg"
  <2>1. i \in 1 .. 2 /\ Family.pubmsg[i] = t /\ MsgCode(t) = 8191 + i
    BY <1>1, <1>5, Families
  <2>2. MsgCode(t) \in UInt32
    BY <1>2, <2>1, Numbers
  <2> QED BY <2>1, <2>2, Sizes, Indexes
<1> QED BY <1>1, <1>3, <1>4, <1>5

(* Each type is in one of the four groups.                                 *)
LEMMA TypeGroup ==
  ASSUME NEW t, IsType(t)
  PROVE  \/ t \in DOMAIN CreatePreamble \/ t \in DOMAIN CreateReq
         \/ t \in DOMAIN CreateRepl \/ t \in DOMAIN CreatePub
<1> USE DEF Family, ReqTypes, ReplTypes, PubTypes
<1>1. \A i \in 1 .. 10 : Family.request[i] \in DOMAIN CreatePreamble \cup DOMAIN CreateReq
  BY DEF CreatePreamble, CreateReq
<1>2. \A i \in 1 .. 8 : Family.reply[i] \in DOMAIN CreatePreamble \cup DOMAIN CreateRepl
  BY DEF CreatePreamble, CreateRepl
<1>3. \A i \in 1 .. 2 : Family.pubmsg[i] \in DOMAIN CreatePub
  BY DEF CreatePub
<1> QED BY <1>1, <1>2, <1>3, TypeAt, Families
-----------------------------------------------------------------------------
(* Where the create functions of a type are found.                         *)
LEMMA CreateTables ==
  /\ \A t \in DOMAIN CreatePreamble : Fields(t) = CreatePreamble[t]
  /\ \A t \in DOMAIN CreateReq : Fields(t) = CreateReq[t]
  /\ \A t \in DOMAIN CreateRepl : Fields(t) = CreateRepl[t]
  /\ \A t \in DOMAIN CreatePub : Fields(t) = CreatePub[t]
<1>1. /\ DOMAIN CreatePreamble = {"req_preamble", "repl_preamble"}
      /\ DOMAIN CreatePub = {"pub_publication", "pub_cancelation"}
  BY DEF CreatePreamble, CreatePub
<1>2. DOMAIN CreateReq =
        {"req_seq_start", "req_seq_end", "req_action", "req_signal", "req_list",
         "req_status", "req_subscribe", "req_unsubscribe", "req_disconnect"}
  BY DEF CreateReq
<1>3. DOMAIN CreateRepl =
        {"repl_seq_start", "repl_seq_end", "repl_result", "repl_listing",
         "repl_svcinfo", "repl_ack", "repl_error"}
  BY DEF CreateRepl
<1>4. \A t \in DOMAIN CreateReq : t \notin DOMAIN CreatePreamble /\ t \notin DOMAIN CreatePub
                                   /\ t \notin DOMAIN CreateRepl
  BY <1>1, <1>2, <1>3
<1>5. \A t \in DOMAIN CreateRepl : t \notin DOMAIN CreatePreamble /\ t \notin DOMAIN CreatePub
  BY <1>1, <1>3
<1>6. \A t \in DOMAIN CreatePub : t \notin DOMAIN CreatePreamble
  BY <1>1
<1> QED BY <1>4, <1>5, <1>6 DEF Fields

(* And its serializer.                                                     *)
LEMMA PutTables ==
  /\ DOMAIN PutPreamble = DOMAIN CreatePreamble /\ DOMAIN PutReq = DOMAIN CreateReq
  /\ DOMAIN PutRepl = DOMAIN CreateRepl /\ DOMAIN PutPub = DOMAIN CreatePub
  /\ \A t \in DOMAIN CreatePreamble : SerialDispatch(t) = PutPreamble[t]
  /\ \A t \in DOMAIN CreateReq : SerialDispatch(t) = PutReq[t]
  /\ \A t \in DOMAIN CreateRepl : SerialDispatch(t) = PutRepl[t]
  /\ \A t \in DOMAIN CreatePub : SerialDispatch(t) = PutPub[t]
<1>1. /\ DOMAIN PutPreamble = {"req_preamble", "repl_preamble"}
      /\ DOMAIN PutPub = {"pub_publication", "pub_cancelation"}
      /\ DOMAIN CreatePreamble = DOMAIN PutPreamble /\ DOMAIN CreatePub = DOMAIN PutPub
  BY DEF PutPreamble, PutPub, CreatePreamble, CreatePub
<1>2. /\ DOMAIN PutReq =
           {"req_seq_start", "req_seq_end", "req_action", "req_signal", "req_list",
            "req_status", "req_subscribe", "req_unsubscribe", "req_disconnect"}
      /\ DOMAIN CreateReq = DOMAIN PutReq
  BY DEF PutReq, CreateReq
<1>3. /\ DOMAIN PutRepl =
           {"repl_seq_start", "repl_seq_end", "repl_result", "repl_listing",
            "repl_svcinfo", "repl_ack", "repl_error"}
      /\ DOMAIN CreateRepl = DOMAIN PutRepl
  BY DEF PutRepl, CreateRepl
<1>4. \A t \in DOMAIN PutReq : t \notin DOMAIN PutPreamble /\ t \notin DOMAIN PutPub
                                   /\ t \notin DOMAIN PutRepl
  BY <1>1, <1>2, <1>3
<1>5. \A t \in DOMAIN PutRepl : t \notin DOMAIN PutPreamble /\ t \notin DOMAIN PutPub
  BY <1>1, <1>3
<1>6. \A t \in DOMAIN PutPub : t \notin DOMAIN PutPreamble
  BY <1>1
<1>7. DOMAIN PutPreamble = DOMAIN CreatePreamble /\ DOMAIN PutReq = DOMAIN CreateReq
      /\ DOMAIN PutRepl = DOMAIN CreateRepl /\ DOMAIN PutPub = DOMAIN CreatePub
  BY <1>1, <1>2, <1>3
<1> QED BY <1>4, <1>5, <1>6, <1>7 DEF SerialDispatch

(* The deserializers fetch what the serializers put.                       *)
LEMMA SameTables ==
  (\A t : DeserialDispatch(t) = SerialDispatch(t)) /\ FetchSvcinfo = PutSvcinfo
<1>1. /\ FetchPreamble = PutPreamble /\ FetchReq = PutReq /\ FetchRepl = PutRepl
      /\ FetchPub = PutPub /\ FetchSvcinfo = PutSvcinfo
  BY DEF FetchPreamble, FetchReq, FetchRepl, FetchPub, FetchSvcinfo,
         PutPreamble, PutReq, PutRepl, PutPub, PutSvcinfo
<1> QED BY <1>1 DEF DeserialDispatch, SerialDispatch

(* The members of a struct: its message type comes first, and there is one *)
(* struct with an svcinfo.                                                 *)
Members(gs, t) ==
  /\ Len(gs) \in Nat \ {0} /\ DOMAIN gs = 1 .. Len(gs) /\ gs[1] = Id
  /\ \A i \in 1 .. Len(gs) :
       /\ gs[i].kind \in {"number", "bool", "string"}
       /\ gs[i].name = "msgtype" => gs[i].kind = "number"
       /\ gs[i].name = "svcinfo" => gs[i].kind = "string" /\ t = "repl_svcinfo"
  /\ t = "repl_svcinfo" => "svcinfo" \in Sized(gs)

(* The members of the preambles.                                           *)
LEMMA MembersPreamble == \A t \in DOMAIN CreatePreamble : Members(CreatePreamble[t], t)
<1>1. Members(CreatePreamble["req_preamble"], "req_preamble")
  BY DEF CreatePreamble, Members, Sized, Id, E, U, B, S
<1>2. Members(CreatePreamble["repl_preamble"], "repl_preamble")
  BY DEF CreatePreamble, Members, Sized, Id, E, U, B, S
<1>3. DOMAIN CreatePreamble = {"req_preamble", "repl_preamble"}
  BY DEF CreatePreamble
<1> QED BY <1>1, <1>2, <1>3

(* Of the requests.                                                        *)
LEMMA MembersReq == \A t \in DOMAIN CreateReq : Members(CreateReq[t], t)
<1>1. Members(CreateReq["req_seq_start"], "req_seq_start")
  BY DEF CreateReq, Members, Sized, Id, E, U, B, S
<1>2. Members(CreateReq["req_seq_end"], "req_seq_end")
  BY DEF CreateReq, Members, Sized, Id, E, U, B, S
<1>3. Members(CreateReq["req_action"], "req_action")
  BY DEF CreateReq, Members, Sized, Id, E, U, B, S
<1>4. Members(CreateReq["req_signal"], "req_signal")
  BY DEF CreateReq, Members, Sized, Id, E, U, B, S
<1>5. Members(CreateReq["req_list"], "req_list")
  BY DEF CreateReq, Members, Sized, Id, E, U, B, S
<1>6. Members(CreateReq["req_status"], "req_status")
  BY DEF CreateReq, Members, Sized, Id, E, U, B, S
<1>7. Members(CreateReq["req_subscribe"], "req_subscribe")
  BY DEF CreateReq, Members, Sized, Id, E, U, B, S
<1>8. Members(CreateReq["req_unsubscribe"], "req_unsubscribe")
  BY DEF CreateReq, Members, Sized, Id, E, U, B, S
<1>9. Members(CreateReq["req_disconnect"], "req_disconnect")
  BY DEF CreateReq, Members, Sized, Id, E, U, B, S
<1>10. DOMAIN CreateReq = {"req_seq_start", "req_seq_end", "req_action", "req_signal",
         "req_list", "req_status", "req_subscribe", "req_unsubscribe", "req_disconnect"}
  BY DEF CreateReq
<1> QED BY <1>1, <1>2, <1>3, <1>4, <1>5, <1>6, <1>7, <1>8, <1>9, <1>10

(* Of the replies.                                                         *)
LEMMA MembersRepl == \A t \in DOMAIN CreateRepl : Members(CreateRepl[t], t)
<1>1. Members(CreateRepl["repl_seq_start"], "repl_seq_start")
  BY DEF CreateRepl, Members, Sized, Id, E, U, B, S
<1>2. Members(CreateRepl["repl_seq_end"], "repl_seq_end")
  BY DEF CreateRepl, Members, Sized, Id, E, U, B, S
<1>3. Members(CreateRepl["repl_result"], "repl_result")
  BY DEF CreateRepl, Members, Sized, Id, E, U, B, S
<1>4. Members(CreateRepl["repl_listing"], "repl_listing")
  BY DEF CreateRepl, Members, Sized, Id, E, U, B, S
<1>5. Members(CreateRepl["repl_svcinfo"], "repl_svcinfo")
  BY DEF CreateRepl, Members, Sized, Id, E, U, B, S
<1>6. Members(CreateRepl["repl_ack"], "repl_ack")
  BY DEF CreateRepl, Members, Sized, Id, E, U, B, S
<1>7. Members(CreateRepl["repl_error"], "repl_error")
  BY DEF CreateRepl, Members, Sized, Id, E, U, B, S
<1>8. DOMAIN CreateRepl = {"repl_seq_start", "repl_seq_end", "repl_result",
        "repl_listing", "repl_svcinfo", "repl_ack", "repl_error"}
  BY DEF CreateRepl
<1> QED BY <1>1, <1>2, <1>3, <1>4, <1>5, <1>6, <1>7, <1>8

(* Of the publications.                                                    *)
LEMMA MembersPub == \A t \in DOMAIN CreatePub : Members(CreatePub[t], t)
<1>1. Members(CreatePub["pub_publication"], "pub_publication")
  BY DEF CreatePub, Members, Sized, Id, E, U, B, S
<1>2. Members(CreatePub["pub_cancelation"], "pub_cancelation")
  BY DEF CreatePub, Members, Sized, Id, E, U, B, S
<1>3. DOMAIN CreatePub = {"pub_publication", "pub_cancelation"}
  BY DEF CreatePub
<1> QED BY <1>1, <1>2, <1>3

(* What there is to know of the members of a type.                         *)
LEMMA TypeFacts ==
  ASSUME NEW t, IsType(t)
  PROVE  /\ Spelled(Fields(t), SerialDispatch(t)) /\ Room(Fields(t))
         /\ Members(Fields(t), t)
<1>1. CASE t \in DOMAIN CreatePreamble
  BY <1>1, CreateTables, PutTables, SpelledPreamble, RoomPreamble, MembersPreamble
<1>2. CASE t \in DOMAIN CreateReq
  BY <1>2, CreateTables, PutTables, SpelledReq, RoomReq, MembersReq
<1>3. CASE t \in DOMAIN CreateRepl
  BY <1>3, CreateTables, PutTables, SpelledRepl, RoomRepl, MembersRepl
<1>4. CASE t \in DOMAIN CreatePub
  BY <1>4, CreateTables, PutTables, SpelledPub, RoomPub, MembersPub
<1> QED BY <1>1, <1>2, <1>3, <1>4, TypeGroup
-----------------------------------------------------------------------------
(* All of a sequence of cells.                                             *)
LEMMA CellsAll ==
  ASSUME NEW s \in Seq(Cell), NEW n, n = Len(s)
  PROVE  Cells(s, 0, n) = s
<1>1. n \in Nat /\ Len(s) \in Nat /\ 0 \in Nat /\ 0 + n <= Len(s)
        /\ \A k \in 1 .. n : s[0 + k] = s[k]
  OBVIOUS
<1> QED BY <1>1, CellsBack

(* A buffer of the size of what is put is exactly that.                    *)
LEMMA BufferIs ==
  ASSUME NEW data, NEW fs, Putable(data, fs), NEW n, n = Len(FlattenSeq(Puts(data, fs)))
  PROVE  Buffer(data, fs, n) = FlattenSeq(Puts(data, fs)) /\ FlattenSeq(Puts(data,
    fs)) \in Seq(Cell)
<1>1. FlattenSeq(Puts(data, fs)) \in Seq(Cell)
  BY PutsPieces, FlattenPlaces
<1> QED BY <1>1, CellsAll DEF Buffer, Puts

(* What a parameter that fits can be put as, and how much it takes.        *)
LEMMA FitsFacts ==
  ASSUME NEW v, NEW f, Fits(v, f, MaxString)
  PROVE  /\ f.kind = "number" => v \in UInt32
         /\ f.kind = "bool" => v \in Cell
         /\ f.kind = "string" =>
              v \in Seq(Cell) /\ Len(v) \in Nat /\ Len(v) < MaxString /\ Len(v) \in UInt32
<1>1. CASE f.kind = "number"
  BY <1>1 DEF Fits
<1>2. CASE f.kind = "bool"
  <2>1. v \in {0, 1}
    BY <1>2 DEF Fits
  <2> QED BY <1>2, <2>1, Numbers
<1>3. CASE f.kind = "string"
  <2>1. v \in Seq(Cell \ {0}) /\ Len(v) < MaxString
    BY <1>3 DEF Fits
  <2>2. v \in Seq(Cell) /\ Len(v) \in Nat
    BY <2>1
  <2>3. MaxString \in Nat /\ MaxString < Base * Base
    BY WireAssumption, Numbers
  <2>4. PICK k \in Nat : k = Len(v)
    BY <2>2
  <2>5. k \in UInt32
    BY <2>1, <2>3, <2>4, Numbers
  <2> QED BY <1>3, <2>1, <2>2, <2>4, <2>5
<1> QED BY <1>1, <1>2, <1>3

(* The svcinfo is put as its struct has it.                                *)
LEMMA SpelledSvcinfo == Spelled(SvcinfoMembers, PutSvcinfo)
<1> DEFINE pos == [i \in 0 .. 11 |-> IF i < 3 THEN i ELSE i + 1]
<1>1. /\ pos \in [0 .. 11 -> 0 .. 12] /\ pos[0] = 0 /\ pos[11] = 12
      /\ \A i \in 1 .. 2 : pos[i] = i /\ pos[i - 1] = i - 1
      /\ pos[3] = 4 /\ pos[2] = 2
      /\ \A i \in 4 .. 11 : pos[i] = i + 1 /\ pos[i - 1] = i
  OBVIOUS
<1>2. /\ Len(SvcinfoMembers) = 11 /\ DOMAIN SvcinfoMembers = 1 .. 11 /\ Len(PutSvcinfo) = 12
      /\ \A i \in {1, 2, 4, 5, 6, 7, 8, 9, 10, 11} : SvcinfoMembers[i].kind = "number"
      /\ \A i \in 1 .. 2 : PutSvcinfo[i] = SvcinfoMembers[i]
      /\ SvcinfoMembers[3].kind = "string" /\ PutSvcinfo[3] = L(SvcinfoMembers[3].name)
      /\ \A i \in 3 .. 11 : PutSvcinfo[i + 1] = SvcinfoMembers[i]
  BY DEF SvcinfoMembers, PutSvcinfo, U, E, S, L
<1> HIDE DEF pos
<1>3. ASSUME NEW i \in 1 .. 11
      PROVE  \/ /\ SvcinfoMembers[i].kind = "string"
                /\ pos[i] = pos[i - 1] + 2
                /\ PutSvcinfo[pos[i - 1] + 1] = L(SvcinfoMembers[i].name)
                /\ PutSvcinfo[pos[i - 1] + 2] = SvcinfoMembers[i]
             \/ /\ SvcinfoMembers[i].kind \in {"number", "bool"}
                /\ pos[i] = pos[i - 1] + 1 /\ PutSvcinfo[pos[i - 1] + 1] = SvcinfoMembers[i]
  <2>1. CASE i \in 1 .. 2
    <3>1. pos[i - 1] + 1 = i /\ pos[i] = i /\ i \in {1, 2, 4, 5, 6, 7, 8, 9, 10, 11}
      BY <1>1, <2>1
    <3>2. pos[i] = pos[i - 1] + 1
      BY <1>1, <2>1
    <3> QED BY <1>2, <2>1, <3>1, <3>2
  <2>2. CASE i = 3
    <3>1. i - 1 = 2 /\ pos[i - 1] = 2 /\ pos[i] = 4 /\ PutSvcinfo[3 + 1] = SvcinfoMembers[3]
      BY <1>1, <1>2, <2>2
    <3> QED BY <1>2, <2>2, <3>1
  <2>3. CASE i \in 4 .. 11
    <3>1. pos[i - 1] = i /\ pos[i] = i + 1 /\ i \in {1, 2, 4, 5, 6, 7, 8, 9, 10, 11}
          /\ i \in 3 .. 11
      BY <1>1, <2>3
    <3> QED BY <1>2, <3>1
  <2> QED BY <2>1, <2>2, <2>3
<1>4. Spelling(pos, SvcinfoMembers, PutSvcinfo)
  BY <1>1, <1>2, <1>3 DEF Spelling
<1> QED BY <1>4 DEF Spelled

(* An svcinfo, put into a buffer of its size and fetched from it.          *)
LEMMA SvcinfoBack ==
  ASSUME NEW info, IsSvcinfo(info, MaxString)
  PROVE  LET n == SvcinfoLen(info)
             buf == Buffer(SvcinfoStruct(info), PutSvcinfo, n)
         IN /\ n \in Nat /\ n <= MaxString + 21
            /\ buf \in Seq(Cell) /\ Len(buf) = n
            /\ FetchFields(buf, FetchSvcinfo) = SvcinfoStruct(info)
<1> DEFINE gs == SvcinfoMembers
           fs == PutSvcinfo
           data == SvcinfoStruct(info)
           k == Len(info.last_action_name)
           ns == [i \in 1 .. 11 |-> IF i = 3 THEN k + 2 ELSE 2]
           flat == FlattenSeq(Puts(data, fs))
<1>1. /\ Len(gs) = 11 /\ DOMAIN gs = 1 .. 11
      /\ \A i \in {1, 2, 4, 5, 6, 7, 8, 9, 10, 11} : gs[i].kind = "number"
      /\ gs[3].kind = "string" /\ gs[3].name = "last_action_name"
  BY DEF SvcinfoMembers, U, E, S
<1>2. \A i \in 1 .. 11 : i = 3 \/ i \in {1, 2, 4, 5, 6, 7, 8, 9, 10, 11}
  OBVIOUS
<1>3. /\ MaxString \in Nat /\ MaxString < Base * Base
  BY WireAssumption, Numbers
<1>4. /\ info.last_action_name \in Seq(Cell) /\ k \in Nat /\ k < MaxString /\ k \in UInt32
  <2>1. Fits(info.last_action_name, gs[3], MaxString)
    <3>1. Fits(info[gs[3].name], gs[3], MaxString)
      BY <1>1 DEF IsSvcinfo
    <3> QED BY <1>1, <3>1
  <2> HIDE DEF gs
  <2> QED BY <1>1, <2>1, FitsFacts
<1>5. data.val = info /\ data.len = [last_action_name |-> k]
  BY DEF SvcinfoStruct
<1> HIDE DEF gs, fs, data, k
<1>6. \A i \in 1 .. 11 : gs[i].kind = "number" => info[gs[i].name] \in UInt32
  <2>1. \A i \in 1 .. 11 : Fits(info[gs[i].name], gs[i], MaxString)
    BY <1>1 DEF IsSvcinfo, gs
  <2> QED BY <2>1, FitsFacts
<1>7. Valued(data, gs)
  <2>1. data.len["last_action_name"] = k /\ data.val["last_action_name"] = info.last_action_name
    BY <1>5
  <2> QED BY <1>1, <1>2, <1>4, <1>5, <1>6, <2>1, SMTT(30) DEF Valued, k
<1>8. Spelled(gs, fs)
  BY SpelledSvcinfo DEF gs, fs
<1>9. Putable(data, fs)
  BY <1>7, <1>8, SpelledPutable
<1>10. /\ Len(ns) = 11 /\ \A i \in 1 .. 11 : ns[i] \in Nat
       /\ ns[3] = k + 2 /\ \A i \in {1, 2, 4, 5, 6, 7, 8, 9, 10, 11} : ns[i] = 2
  BY <1>4
<1> HIDE DEF ns
<1>11. /\ \E s : Sums(s, ns, Len(gs)) /\ Total(ns) = s[Len(gs)]
       /\ Len(flat) = Total(ns)
  <2>1. \A i \in 1 .. Len(gs) :
           /\ gs[i].kind = "number" => ns[i] = WordLen
           /\ gs[i].kind = "bool" => ns[i] = 1
           /\ gs[i].kind = "string" => ns[i] = data.len[gs[i].name] + WordLen
    BY <1>1, <1>2, <1>5, <1>10 DEF WordLen
  <2>2. Len(ns) = Len(gs)
    BY <1>1, <1>10
  <2> QED BY <1>7, <1>8, <2>1, <2>2, SpelledTotal
<1>12. Total(ns) = SvcinfoLen(info) /\ SvcinfoLen(info) = 22 + k
  <2>1. PICK s : Sums(s, ns, 11) /\ Total(ns) = s[11]
    BY <1>1, <1>11
  <2>2. s[11] = ns[1] + ns[2] + ns[3] + ns[4] + ns[5] + ns[6] + ns[7]
                               + ns[8] + ns[9] + ns[10] + ns[11]
    BY <1>10, <2>1, SumsOf
  <2>3. s[11] = 22 + k
    <3>1. /\ ns[1] = 2 /\ ns[2] = 2 /\ ns[3] = k + 2 /\ ns[4] = 2 /\ ns[5] = 2 /\ ns[6] = 2
          /\ ns[7] = 2 /\ ns[8] = 2 /\ ns[9] = 2 /\ ns[10] = 2 /\ ns[11] = 2
      BY <1>10
    <3>2. s[11] = 2 + 2 + (k + 2) + 2 + 2 + 2 + 2 + 2 + 2 + 2 + 2
      BY <2>2, <3>1
    <3>3. k \in Nat
      BY <1>4
    <3> QED BY <3>2, <3>3
  <2> QED BY <2>1, <2>3 DEF SvcinfoLen, WordLen, k
<1>13. Buffer(data, fs, SvcinfoLen(info)) = flat /\ flat \in Seq(Cell)
  BY <1>9, <1>11, <1>12, BufferIs
<1>14. FetchFields(flat, fs) = data
  <2>1. FetchFields(flat, fs) = Fetched(data, fs, Len(fs))
    BY <1>9, FetchBack
  <2>2. ValNames(fs, Len(fs)) = Names(gs) /\ LenNames(fs, Len(fs)) = Sized(gs)
    BY <1>8, SpelledNames
  <2>3. Sized(gs) = {"last_action_name"}
    BY <1>1, <1>2 DEF Sized
  <2>4. [x \in Names(gs) |-> data.val[x]] = data.val
    BY <1>5 DEF IsSvcinfo, gs
  <2>5. [x \in Sized(gs) |-> data.len[x]] = data.len
    BY <1>5, <2>3
  <2>6. data = [val |-> data.val, len |-> data.len]
    BY DEF data, SvcinfoStruct
  <2> QED BY <2>1, <2>2, <2>4, <2>5, <2>6 DEF Fetched
<1> QED BY <1>3, <1>4, <1>11, <1>12, <1>13, <1>14, SameTables DEF data, fs
-----------------------------------------------------------------------------
(* What serial_repl_svcinfo makes of its struct.                           *)
LEMMA SerialIs ==
  ASSUME NEW V, NEW N
  PROVE  Serial("repl_svcinfo", [val |-> V, len |-> N])
           = [val |-> [x \in DOMAIN V |->
                         IF x = "svcinfo"
                         THEN Buffer(V.svcinfo, PutSvcinfo, N.svcinfo) ELSE V[x]],
              len |-> N]
BY DEF Serial

(* And deserial_repl_svcinfo of what was fetched.                          *)
LEMMA DeserialIs ==
  ASSUME NEW V, NEW N
  PROVE  Deserial("repl_svcinfo", [val |-> V, len |-> N])
           = [val |-> [x \in DOMAIN V |->
                         IF x = "svcinfo"
                         THEN FetchFields(V.svcinfo, FetchSvcinfo) ELSE V[x]],
              len |-> N]
BY DEF Deserial

(* The struct of a call, as the create functions fill it, and what is put  *)
(* for it.                                                                 *)
LEMMA CallFacts ==
  ASSUME NEW t, NEW args, IsCall(t, args, MaxString)
  PROVE  /\ IsType(t)
         /\ \A i \in 1 .. Len(Fields(t)) :
              LET f == Fields(t)[i]
              IN /\ f.name = "svcinfo" => IsSvcinfo(args.svcinfo, MaxString)
                 /\ f.name \notin {"msgtype", "svcinfo"} => Fits(args[f.name], f, MaxString)
<1>1. IsType(t)
  BY DEF IsCall, IsType
<1>2. DOMAIN Fields(t) = 1 .. Len(Fields(t))
  BY <1>1, TypeFacts DEF Members
<1> QED BY <1>1, <1>2 DEF IsCall

(* The struct that is put has a value of its kind for every member, and    *)
(* the numbers that the create functions add up are the sizes of what is   *)
(* put.                                                                    *)
LEMMA StructValued ==
  ASSUME NEW t, NEW args, IsCall(t, args, MaxString)
  PROVE  LET data == Serial(t, Struct(t, args))
             gs == Fields(t)
         IN /\ Valued(data, gs)
            /\ DOMAIN data.val = Names(gs) /\ DOMAIN data.len = Sized(gs)
            /\ data = [val |-> data.val, len |-> data.len]
            /\ \A i \in 1 .. Len(gs) :
                 HelperLen(args, gs[i]) \in Nat /\ HelperLen(args, gs[i]) <= Cap(gs[i])
            /\ \A i \in 1 .. Len(gs) :
                 gs[i].kind = "string" =>
                   HelperLen(args, gs[i]) = data.len[gs[i].name] + WordLen
            /\ Deserial(t, data) = Struct(t, args)
<1> DEFINE gs == Fields(t)
           str == Struct(t, args)
           V == str.val
           N == str.len
           data == Serial(t, str)
           info == args.svcinfo
<1>1. IsType(t) /\ Members(gs, t)
  BY CallFacts, TypeFacts
<1>2. /\ str = [val |-> V, len |-> N]
      /\ DOMAIN V = Names(gs) /\ DOMAIN N = Sized(gs)
      /\ \A x \in Names(gs) :
           /\ x = "msgtype" => V[x] = MsgCode(t)
           /\ x = "svcinfo" => V[x] = SvcinfoStruct(info)
           /\ x \notin {"msgtype", "svcinfo"} => V[x] = args[x]
      /\ \A x \in Sized(gs) : N[x] = Size(args, x)
  BY DEF Struct
<1> HIDE DEF gs, str, V, N
<1>3. ASSUME NEW i \in 1 .. Len(gs)
      PROVE  /\ gs[i].name \in Names(gs) /\ (gs[i].kind = "string" => gs[i].name \in Sized(gs))
             /\ gs[i].kind \in {"number", "bool", "string"}
             /\ gs[i].name = "msgtype" => gs[i].kind = "number"
             /\ gs[i].name = "svcinfo" => gs[i].kind = "string" /\ t = "repl_svcinfo"
             /\ gs[i].name = "svcinfo" => IsSvcinfo(info, MaxString)
             /\ gs[i].name \notin {"msgtype", "svcinfo"} => Fits(args[gs[i].name], gs[i], MaxString)
  <2>1. /\ gs[i].kind \in {"number", "bool", "string"}
        /\ gs[i].name = "msgtype" => gs[i].kind = "number"
        /\ gs[i].name = "svcinfo" => gs[i].kind = "string" /\ t = "repl_svcinfo"
        /\ i \in DOMAIN gs
    BY <1>1 DEF Members
  <2>2. gs[i].name \in Names(gs) /\ (gs[i].kind = "string" => gs[i].name \in Sized(gs))
    BY <2>1 DEF Names, Sized
  <2>3. /\ gs[i].name = "svcinfo" => IsSvcinfo(info, MaxString)
        /\ gs[i].name \notin {"msgtype", "svcinfo"} => Fits(args[gs[i].name], gs[i], MaxString)
    BY CallFacts DEF gs
  <2> QED BY <2>1, <2>2, <2>3
<1>4. t = "repl_svcinfo" => /\ "svcinfo" \in Names(gs) /\ "svcinfo" \in Sized(gs)
                            /\ IsSvcinfo(info, MaxString)
  <2> SUFFICES ASSUME t = "repl_svcinfo"
               PROVE  /\ "svcinfo" \in Names(gs) /\ "svcinfo" \in Sized(gs)
                      /\ IsSvcinfo(info, MaxString)
    OBVIOUS
  <2>1. "svcinfo" \in Sized(gs)
    BY <1>1 DEF Members
  <2>2. PICK i \in DOMAIN gs : gs[i].name = "svcinfo"
    BY <2>1 DEF Sized
  <2>3. i \in 1 .. Len(gs)
    BY <1>1 DEF Members
  <2> QED BY <1>3, <2>1, <2>2, <2>3
<1>5. /\ data.len = N /\ data = [val |-> data.val, len |-> data.len]
      /\ DOMAIN data.val = Names(gs)
      /\ \A x \in Names(gs) : (x # "svcinfo" \/ t # "repl_svcinfo") => data.val[x] = V[x]
      /\ t = "repl_svcinfo" =>
           data.val["svcinfo"] = Buffer(SvcinfoStruct(info), PutSvcinfo, SvcinfoLen(info))
  <2>1. CASE t # "repl_svcinfo"
    <3>1. data = [val |-> V, len |-> N]
      BY <1>2, <2>1 DEF Serial
    <3> HIDE DEF data
    <3> QED BY <1>2, <2>1, <3>1
  <2>2. CASE t = "repl_svcinfo"
    <3>1. data = [val |-> [x \in DOMAIN V |->
                             IF x = "svcinfo"
                             THEN Buffer(V.svcinfo, PutSvcinfo, N.svcinfo) ELSE V[x]],
                  len |-> N]
      BY <1>2, <2>2, SerialIs
    <3>2. V.svcinfo = SvcinfoStruct(info) /\ N.svcinfo = SvcinfoLen(info)
      BY <1>2, <1>4, <2>2 DEF Size
    <3> HIDE DEF data
    <3> QED BY <1>2, <1>4, <2>2, <3>1, <3>2
  <2> QED BY <2>1, <2>2
<1>6. Deserial(t, data) = str
  <2>1. CASE t # "repl_svcinfo"
    BY <1>2, <2>1 DEF Serial, Deserial
  <2>2. CASE t = "repl_svcinfo"
    <3>1. Deserial(t, [val |-> data.val, len |-> data.len])
            = [val |-> [x \in Names(gs) |->
                          IF x = "svcinfo"
                          THEN FetchFields(data.val.svcinfo, FetchSvcinfo) ELSE data.val[x]],
               len |-> data.len]
      <4> HIDE DEF data
      <4> QED BY <1>5, <2>2, DeserialIs
    <3>2. FetchFields(data.val.svcinfo, FetchSvcinfo) = V["svcinfo"]
      <4> HIDE DEF data
      <4> QED BY <1>2, <1>4, <1>5, <2>2, SvcinfoBack
    <3> HIDE DEF data
    <3>3. [x \in Names(gs) |-> IF x = "svcinfo"
                          THEN FetchFields(data.val.svcinfo, FetchSvcinfo) ELSE data.val[x]] = V
      <4>1. \A x \in Names(gs) : (IF x = "svcinfo"
                          THEN FetchFields(data.val.svcinfo,
                            FetchSvcinfo) ELSE data.val[x]) = V[x]
        BY <1>5, <3>2
      <4>2. V = [x \in Names(gs) |-> V[x]]
        BY <1>2 DEF V, str, Struct, gs
      <4> QED BY <4>1, <4>2
    <3> QED BY <1>2, <1>5, <3>1, <3>3
  <2> QED BY <2>1, <2>2
<1> HIDE DEF data, info
<1>7. ASSUME NEW i \in 1 .. Len(gs), gs[i].name = "svcinfo"
      PROVE  /\ gs[i].kind = "string" /\ data.val[gs[i].name] \in Seq(Cell)
             /\ data.len[gs[i].name] = Len(data.val[gs[i].name])
             /\ data.len[gs[i].name] \in UInt32
             /\ HelperLen(args, gs[i]) \in Nat /\ HelperLen(args, gs[i]) <= Cap(gs[i])
             /\ HelperLen(args, gs[i]) = data.len[gs[i].name] + WordLen
  <2>1. gs[i].kind = "string" /\ t = "repl_svcinfo" /\ IsSvcinfo(info, MaxString)
    BY <1>3, <1>7
  <2>2. PICK n \in Nat : n = SvcinfoLen(info) /\ n <= MaxString + 21
    BY <2>1, SvcinfoBack
  <2>3. data.val.svcinfo \in Seq(Cell) /\ Len(data.val.svcinfo) = n
    BY <1>5, <2>1, <2>2, SvcinfoBack
  <2>4. data.len.svcinfo = n
    BY <1>2, <1>4, <1>5, <2>1, <2>2 DEF Size, info
  <2>5. n \in UInt32 /\ MaxString \in Nat
    <3>1. MaxString \in Nat /\ MaxPacket \in Nat /\ 2 * MaxString + 28 <= MaxPacket
          /\ MaxPacket < Base * Base
      BY WireAssumption, Numbers
    <3>2. n < Base * Base
      BY <2>2, <3>1, Numbers
    <3> QED BY <3>1, <3>2, Numbers
  <2>6. HelperLen(args, gs[i]) = n + 2
    BY <1>7, <2>1, <2>2 DEF HelperLen, Size, WordLen, info
  <2>7. Cap(gs[i]) = MaxString + 23
    BY <1>7, <2>1 DEF Cap
  <2> QED BY <1>7, <2>1, <2>2, <2>3, <2>4, <2>5, <2>6, <2>7 DEF WordLen
<1>8. ASSUME NEW i \in 1 .. Len(gs), gs[i].name = "msgtype"
      PROVE  /\ gs[i].kind = "number" /\ data.val[gs[i].name] \in UInt32
             /\ HelperLen(args, gs[i]) \in Nat /\ HelperLen(args, gs[i]) <= Cap(gs[i])
  <2>1. gs[i].kind = "number" /\ gs[i].name \in Names(gs)
    BY <1>3, <1>8
  <2>2. data.val[gs[i].name] = MsgCode(t)
    BY <1>2, <1>5, <1>8, <2>1
  <2>3. MsgCode(t) \in UInt32
    BY <1>1, TypeBack
  <2>4. HelperLen(args, gs[i]) = 2 /\ Cap(gs[i]) = 2
    BY <2>1 DEF HelperLen, Cap, WordLen
  <2> QED BY <2>1, <2>2, <2>3, <2>4
<1>9. ASSUME NEW i \in 1 .. Len(gs), gs[i].name \notin {"msgtype", "svcinfo"}
      PROVE  /\ gs[i].kind = "number" => data.val[gs[i].name] \in UInt32
             /\ gs[i].kind = "bool" => data.val[gs[i].name] \in Cell
             /\ gs[i].kind = "string" =>
                  /\ data.val[gs[i].name] \in Seq(Cell)
                  /\ data.len[gs[i].name] = Len(data.val[gs[i].name])
                  /\ data.len[gs[i].name] \in UInt32
             /\ HelperLen(args, gs[i]) \in Nat /\ HelperLen(args, gs[i]) <= Cap(gs[i])
             /\ gs[i].kind = "string" =>
                  HelperLen(args, gs[i]) = data.len[gs[i].name] + WordLen
  <2> DEFINE f == gs[i]
  <2>1. /\ f.name \in Names(gs) /\ (f.kind = "string" => f.name \in Sized(gs))
        /\ f.kind \in {"number", "bool", "string"} /\ Fits(args[f.name], f, MaxString)
    BY <1>3, <1>9
  <2>2. data.val[f.name] = args[f.name]
    BY <1>2, <1>5, <1>9, <2>1
  <2> HIDE DEF f
  <2>3. CASE f.kind = "number"
    <3>1. HelperLen(args, f) = 2 /\ Cap(f) = 2
      BY <2>3 DEF HelperLen, Cap, WordLen
    <3> QED BY <2>1, <2>2, <2>3, <3>1, FitsFacts DEF f
  <2>4. CASE f.kind = "bool"
    <3>1. HelperLen(args, f) = 1 /\ Cap(f) = 1
      BY <2>4 DEF HelperLen, Cap
    <3> QED BY <2>1, <2>2, <2>4, <3>1, FitsFacts DEF f
  <2>5. CASE f.kind = "string"
    <3>1. args[f.name] \in Seq(Cell) /\ Len(args[f.name]) \in Nat /\ Len(args[f.name]) < MaxString
          /\ Len(args[f.name]) \in UInt32
      BY <2>1, <2>5, FitsFacts
    <3>2. data.len[f.name] = Len(args[f.name])
      BY <1>2, <1>5, <1>9, <2>1, <2>5 DEF Size, f
    <3>3. HelperLen(args, f) = Len(args[f.name]) + 2
      BY <1>9, <2>5 DEF HelperLen, Size, WordLen, f
    <3>4. Cap(f) = MaxString + 1 /\ MaxString \in Nat
      BY <1>9, <2>5, CapOf DEF Cap, f
    <3>5. PICK k \in Nat : k = Len(args[f.name]) /\ k < MaxString
      BY <3>1
    <3>6. HelperLen(args, f) \in Nat /\ HelperLen(args, f) <= Cap(f)
      BY <3>3, <3>4, <3>5
    <3>7. HelperLen(args, f) = data.len[f.name] + WordLen
      BY <3>2, <3>3 DEF WordLen
    <3> QED BY <2>2, <2>5, <3>1, <3>2, <3>6, <3>7 DEF f
  <2> QED BY <2>1, <2>3, <2>4, <2>5 DEF f
<1>10. Valued(data, gs)
  BY <1>7, <1>8, <1>9 DEF Valued
<1>11. \A i \in 1 .. Len(gs) :
          /\ HelperLen(args, gs[i]) \in Nat /\ HelperLen(args, gs[i]) <= Cap(gs[i])
          /\ gs[i].kind = "string" => HelperLen(args, gs[i]) = data.len[gs[i].name] + WordLen
  BY <1>7, <1>8, <1>9
<1> QED BY <1>2, <1>5, <1>6, <1>10, <1>11 DEF gs, str, data
-----------------------------------------------------------------------------
(* A payload: as long as the create functions say, no longer than a packet *)
(* may be, and read back as the message it was made of.                    *)
LEMMA PayloadBack ==
  ASSUME NEW t, NEW args, IsCall(t, args, MaxString)
  PROVE  LET pkt == Packet(t, args)
             buf == SerializePayload(pkt)
         IN /\ pkt.payload_len \in Nat /\ pkt.payload_len <= MaxPacket
            /\ buf \in Seq(Cell) /\ Len(buf) = pkt.payload_len
            /\ pkt.pkttype \in DOMAIN PktTypes
            /\ DeserializePayload(buf, PktTypes[pkt.pkttype])
                 = <<[type |-> t, payload |-> pkt.payload]>>
<1> DEFINE pkt == Packet(t, args)
           buf == SerializePayload(pkt)
           gs == Fields(t)
           fs == SerialDispatch(t)
           data == Serial(t, Struct(t, args))
           ns == [i \in 1 .. Len(gs) |-> HelperLen(args, gs[i])]
           flat == FlattenSeq(Puts(data, fs))
<1>1. IsType(t) /\ Spelled(gs, fs) /\ Room(gs) /\ Members(gs, t)
  BY CallFacts, TypeFacts
<1>2. /\ pkt.type = t /\ pkt.pkttype = PktOf(t) /\ pkt.payload_len = Total(ns)
      /\ pkt.payload = Struct(t, args)
  BY DEF Packet
<1>3. /\ Valued(data, gs)
      /\ DOMAIN data.val = Names(gs) /\ DOMAIN data.len = Sized(gs)
      /\ data = [val |-> data.val, len |-> data.len]
      /\ \A i \in 1 .. Len(gs) :
           HelperLen(args, gs[i]) \in Nat /\ HelperLen(args, gs[i]) <= Cap(gs[i])
      /\ \A i \in 1 .. Len(gs) :
           gs[i].kind = "string" => HelperLen(args, gs[i]) = data.len[gs[i].name] + WordLen
      /\ Deserial(t, data) = Struct(t, args)
  BY StructValued
<1>4. buf = Buffer(data, fs, Total(ns))
  BY <1>2 DEF SerializePayload
<1>5. /\ Len(gs) \in Nat \ {0} /\ Len(ns) = Len(gs)
        /\ \A i \in 1 .. Len(gs) : ns[i] = HelperLen(args, gs[i])
      /\ gs[1] = Id
  BY <1>1 DEF Members
<1> HIDE DEF gs, fs, data, ns, pkt, buf
<1>6. /\ Total(ns) \in Nat /\ \E s : Sums(s, ns, Len(gs)) /\ Total(ns) = s[Len(gs)]
      /\ Len(flat) = Total(ns)
  <2>1. \A i \in 1 .. Len(gs) :
           /\ gs[i].kind = "number" => ns[i] = WordLen
           /\ gs[i].kind = "bool" => ns[i] = 1
           /\ gs[i].kind = "string" => ns[i] = data.len[gs[i].name] + WordLen
    BY <1>3, <1>5 DEF HelperLen
  <2>2. Len(ns) = Len(gs)
    BY <1>5
  <2> QED BY <1>1, <1>3, <2>1, <2>2, SpelledTotal
<1>7. Total(ns) <= MaxPacket
  <2>1. PICK s : Sums(s, ns, Len(gs)) /\ Total(ns) = s[Len(gs)]
    BY <1>6
  <2>2. \A i \in 1 .. Len(gs) : ns[i] \in Nat /\ ns[i] <= Cap(gs[i])
    BY <1>3, <1>5
  <2>3. s[Len(gs)] <= 2 * MaxString + 28
    BY <1>1, <1>5, <2>1, <2>2 DEF Room
  <2>4. PICK a \in Nat : a = Total(ns)
    BY <1>6
  <2>5. MaxString \in Nat /\ MaxPacket \in Nat /\ 2 * MaxString + 28 <= MaxPacket
    BY WireAssumption
  <2>6. a <= 2 * MaxString + 28
    BY <2>1, <2>3, <2>4
  <2> QED BY <2>4, <2>5, <2>6
<1>8. Putable(data, fs)
  BY <1>1, <1>3, SpelledPutable
<1>9. buf = flat /\ flat \in Seq(Cell)
  BY <1>4, <1>6, <1>8, BufferIs
<1>10. FetchFields(flat, fs) = data
  <2>1. FetchFields(flat, fs) = Fetched(data, fs, Len(fs))
    BY <1>8, FetchBack
  <2>2. ValNames(fs, Len(fs)) = Names(gs) /\ LenNames(fs, Len(fs)) = Sized(gs)
    BY <1>1, SpelledNames
  <2>3. data.val = [x \in Names(gs) |-> data.val[x]]
          /\ data.len = [x \in Sized(gs) |-> data.len[x]]
    <3>1. Struct(t, args).val = [x \in Names(gs) |-> Struct(t, args).val[x]]
          /\ Struct(t, args).len = [x \in Sized(gs) |-> Struct(t, args).len[x]]
          /\ Struct(t, args) = [val |-> Struct(t, args).val, len |-> Struct(t, args).len]
      BY DEF Struct, gs
    <3>2. CASE t # "repl_svcinfo"
      <4>1. data = Struct(t, args)
        BY <3>2 DEF Serial, data
      <4> QED BY <3>1, <4>1
    <3>3. CASE t = "repl_svcinfo"
      <4> DEFINE V == Struct(t, args).val
                 N == Struct(t, args).len
      <4>1. data = Serial("repl_svcinfo", [val |-> V, len |-> N])
        BY <3>1, <3>3 DEF data
      <4>2. DOMAIN V = Names(gs) /\ N = [x \in Sized(gs) |-> N[x]]
        BY <3>1
      <4> HIDE DEF V, N
      <4>3. data = [val |-> [x \in DOMAIN V |->
                         IF x = "svcinfo"
                         THEN Buffer(V.svcinfo, PutSvcinfo, N.svcinfo) ELSE V[x]],
                    len |-> N]
        BY <4>1, SerialIs
      <4> QED BY <4>2, <4>3
    <3> QED BY <3>2, <3>3
  <2> QED BY <1>3, <2>1, <2>2, <2>3 DEF Fetched
(* the first member is the message type *)
<1>11. Number(Cells(flat, 0, WordLen)) = MsgCode(t)
  <2>1. PICK off : Places(off, Puts(data, fs), flat)
    BY <1>8, PutsPieces, FlattenPlaces
  <2>2. PICK pos : Spelling(pos, gs, fs)
    BY <1>1 DEF Spelled
  <2>3. fs[1] = Id /\ 1 \in 1 .. Len(fs)
    <3>1. 1 \in 1 .. Len(gs) /\ gs[1].kind = "number" /\ 1 - 1 = 0
      BY <1>5 DEF Id, E, U
    <3>2. pos[1] = pos[1 - 1] + 1 /\ fs[pos[1 - 1] + 1] = gs[1] /\ pos[0] = 0
      BY <2>2, <3>1 DEF Spelling
    <3>3. pos[1] \in 1 .. Len(fs)
      BY <2>2, <3>1, SpellingAt
    <3>4. pos[1 - 1] + 1 = 1
      BY <3>1, <3>2
    <3> QED BY <1>5, <3>2, <3>3, <3>4
  <2>4. PutField(data, fs[1]) = Word(MsgCode(t))
    <3>1. fs[1].kind = "number" /\ fs[1].name = "msgtype"
      BY <2>3 DEF Id, E, U
    <3>2. "msgtype" \in Names(gs)
      <4>1. 1 \in DOMAIN gs /\ gs[1].name = "msgtype"
        BY <1>1, <1>5 DEF Members, Id, E, U
      <4> QED BY <4>1 DEF Names
    <3>3. Struct(t, args).val["msgtype"] = MsgCode(t)
      BY <3>2 DEF Struct, gs
    <3>4. data.val["msgtype"] = MsgCode(t)
      <4>1. CASE t # "repl_svcinfo"
        BY <3>3, <4>1 DEF Serial, data
      <4>2. CASE t = "repl_svcinfo"
        <5> DEFINE V == Struct(t, args).val
                   N == Struct(t, args).len
        <5>1. data = Serial("repl_svcinfo", [val |-> V, len |-> N]) /\ DOMAIN V = Names(gs)
          BY <4>2 DEF data, Struct, gs
        <5> HIDE DEF V, N
        <5>2. data = [val |-> [x \in DOMAIN V |->
                           IF x = "svcinfo"
                           THEN Buffer(V.svcinfo, PutSvcinfo, N.svcinfo) ELSE V[x]],
                      len |-> N]
          BY <5>1, SerialIs
        <5>3. data.val["msgtype"] = V["msgtype"]
          BY <3>2, <5>1, <5>2
        <5> QED BY <3>3, <5>3 DEF V
      <4> QED BY <4>1, <4>2
    <3> QED BY <3>1, <3>4 DEF PutField
  <2>5. MsgCode(t) \in UInt32
    BY <1>1, TypeBack
  <2>6. PICK w \in Seq(Cell) : w = Word(MsgCode(t)) /\ Len(w) = WordLen /\ Number(w) = MsgCode(t)
    BY <2>5, WordNumber
  <2>7. /\ off[0] = 0 /\ WordLen \in Nat /\ Len(flat) \in Nat /\ 0 + WordLen <= Len(flat)
        /\ \A k \in 1 .. WordLen : flat[0 + k] = w[k]
    <3>1. Puts(data, fs)[1] = w /\ 1 \in 1 .. Len(Puts(data, fs)) /\ 1 - 1 = 0
      BY <2>3, <2>4, <2>6, <1>8 DEF Puts, Putable
    <3>2. off[1] = 0 + WordLen /\ off[0] = 0 /\ off[1] <= Len(flat)
          /\ \A k \in 1 .. WordLen : flat[0 + k] = w[k]
      BY <2>1, <2>6, <3>1 DEF Places
    <3> QED BY <1>6, <3>2 DEF WordLen
  <2>8. Cells(flat, 0, WordLen) = w
    <3>1. 0 \in Nat
      OBVIOUS
    <3> HIDE DEF flat
    <3> QED BY <2>6, <2>7, <3>1, CellsBack
  <2> QED BY <2>6, <2>8
<1>12. DeserializePayload(buf, PktTypes[pkt.pkttype]) = <<[type |-> t, payload |-> pkt.payload]>>
  <2> DEFINE fam == {p \in DOMAIN PktTypes : PktTypes[p] = PktTypes[PktOf(t)]}
  <2>1. PktOf(t) \in DOMAIN PktTypes /\ fam = {PktOf(t)}
    BY <1>1, TypeAt, Families
  <2>2. (CHOOSE p \in fam : TRUE) = PktOf(t) /\ fam # {}
    BY <2>1
  <2>3. /\ TypeIndex(t) \in DOMAIN Family[PktOf(t)] /\ Family[PktOf(t)][TypeIndex(t)] = t
        /\ MsgCode(t) - Origin[PktOf(t)] + 1 = TypeIndex(t)
    <3>1. /\ PktOf(t) \in DOMAIN Family
          /\ TypeIndex(t) \in DOMAIN Family[PktOf(t)] /\ Family[PktOf(t)][TypeIndex(t)] = t
          /\ MsgCode(t) = Origin[PktOf(t)] + TypeIndex(t) - 1
      BY <1>1, TypeAt
    <3>2. Origin[PktOf(t)] \in Nat /\ TypeIndex(t) \in Nat
      BY <3>1, Families
    <3> QED BY <3>1, <3>2
  <2> HIDE DEF fam
  <2>4. DeserializePayload(buf, PktTypes[PktOf(t)])
          = <<[type |-> t, payload |-> Deserial(t, FetchFields(buf, DeserialDispatch(t)))]>>
    BY <1>9, <1>11, <2>2, <2>3 DEF DeserializePayload, fam
  <2>5. FetchFields(buf, DeserialDispatch(t)) = data
    BY <1>9, <1>10, SameTables DEF fs
  <2> QED BY <1>2, <1>3, <2>4, <2>5
<1>13. pkt.pkttype \in DOMAIN PktTypes
  BY <1>1, <1>2, TypeAt, Families
<1> QED BY <1>2, <1>6, <1>7, <1>9, <1>12, <1>13 DEF pkt, buf
-----------------------------------------------------------------------------
(* The checksum is a number, whatever it is taken of.                      *)
LEMMA CrcNumber ==
  ASSUME NEW block \in Seq(Cell)
  PROVE  Crc32(block) \in UInt32
<1> DEFINE n == Len(block)
           Next(f) == [i \in 0 .. n |->
                         IF i = 0 THEN 0 ELSE (f[i - 1] * 31 + block[i]) % (Base * Base)]
           F == CHOOSE f : f = Next(f)
           step == [p \in (1 .. n) \X UInt32 |-> (p[2] * 31 + block[p[1]]) % (Base * Base)]
<1>1. PICK M \in Nat : M = Base * Base /\ M > 0 /\ \A x : x \in UInt32 <=> x \in Nat /\ x < M
  <2>1. PICK M \in Nat : M = Base * Base
    BY Numbers
  <2>2. M > 0
    BY <2>1 DEF Base
  <2> QED BY <2>1, <2>2, Numbers
<1>2. n \in Nat /\ \A i \in 1 .. n : block[i] \in Nat
  BY Numbers
<1>3. ASSUME NEW i \in 1 .. n, NEW v \in UInt32
      PROVE  (v * 31 + block[i]) % (Base * Base) \in UInt32
  <2>1. PICK k \in Nat : k = v * 31 + block[i]
    BY <1>1, <1>2
  <2>2. k % M \in Nat /\ k % M < M
    BY <1>1
  <2> QED BY <1>1, <2>1, <2>2
<1>4. Step(step, n, UInt32) /\ 0 \in UInt32
  BY <1>1, <1>3 DEF Step
<1>5. \A i \in 1 .. n, v \in UInt32 : step[<<i, v>>] = (v * 31 + block[i]) % (Base * Base)
  OBVIOUS
<1> HIDE DEF step, n
<1>6. PICK g : Follows(g, n, UInt32, 0, step)
  BY <1>2, <1>4, Recursion
<1>7. g = Next(g)
  <2>1. \A i \in 0 .. n : g[i] = IF i = 0 THEN 0 ELSE (g[i - 1] * 31 + block[i]) % (Base * Base)
    <3> TAKE i \in 0 .. n
    <3>1. CASE i = 0
      BY <1>6, <3>1 DEF Follows
    <3>2. CASE i # 0
      <4>1. i \in 1 .. n /\ i - 1 \in 0 .. n
        BY <1>2, <3>2
      <4>2. g[i - 1] \in UInt32 /\ g[i] = step[<<i, g[i - 1]>>]
        BY <1>6, <4>1 DEF Follows
      <4> QED BY <1>5, <3>2, <4>1, <4>2
    <3> QED BY <3>1, <3>2
  <2>2. g = [i \in 0 .. n |-> g[i]]
    BY <1>6 DEF Follows
  <2> QED BY <2>1, <2>2
<1>8. F = Next(F)
  BY <1>7
<1> HIDE DEF F
<1>9. F[0] = 0 /\ \A i \in 1 .. n : F[i] = (F[i - 1] * 31 + block[i]) % (Base * Base)
  BY <1>2, <1>8
<1>10. \A i \in 1 .. n : g[i] = (g[i - 1] * 31 + block[i]) % (Base * Base)
  <2> TAKE i \in 1 .. n
  <2>1. i - 1 \in 0 .. n
    BY <1>2
  <2>2. g[i - 1] \in UInt32 /\ g[i] = step[<<i, g[i - 1]>>]
    BY <1>6, <2>1 DEF Follows
  <2> QED BY <1>5, <2>2
<1>11. Alike(F, g, 0, n)
  BY <1>6, <1>9, <1>10 DEF Alike, Follows
<1>12. F[n] = g[n] /\ g[n] \in UInt32
  <2>1. 0 \in Int /\ n \in Int /\ n \in 0 .. n
    BY <1>2
  <2>2. \A i \in 0 .. n : F[i] = g[i]
    BY <2>1, <1>11, Unique
  <2> QED BY <1>6, <2>1, <2>2 DEF Follows
<1>13. Crc32(block) = (Base * Base - 1) - F[n]
  BY DEF Crc32, F, n
<1>14. PICK r \in Nat : r = F[n] /\ r < M
  BY <1>1, <1>12
<1>15. (M - 1) - r \in Nat /\ (M - 1) - r < M
  BY <1>14
<1> QED BY <1>1, <1>13, <1>14, <1>15

(* c is s and r behind it; s is a block of n cells; the n cells of c at    *)
(* offset at are p.                                                        *)
Joined(c, s, r) == s \in Seq(Cell) /\ r \in Seq(Cell) /\ c = s \o r
Block(s, n) == s \in Seq(Cell) /\ n \in Nat /\ Len(s) = n
Part(c, at, n, p) == at \in Nat /\ n \in Nat /\ at + n <= Len(c) /\ Cells(c, at, n) = p

(* Blocks joined have the size of both.                                    *)
LEMMA JoinBlock ==
  ASSUME NEW c, NEW s, NEW r, NEW x \in Nat, NEW y \in Nat,
         Joined(c, s, r), Block(s, x), Block(r, y)
  PROVE  Block(c, x + y)
<1>1. /\ s \o r \in Seq(Cell) /\ Len(s \o r) = Len(s) + Len(r)
  BY ConcatProperties DEF Joined
<1>2. c = s \o r /\ x = Len(s) /\ y = Len(r)
  BY DEF Joined, Block
<1>3. c \in Seq(Cell) /\ Len(c) = x + y
  BY <1>1, <1>2
<1> QED BY <1>3 DEF Block

(* What is part of the first is part of the whole.                         *)
LEMMA JoinLeft ==
  ASSUME NEW c, NEW s, NEW r, Joined(c, s, r), NEW at, NEW n, NEW p, Part(s, at, n, p)
  PROVE  Part(c, at, n, p)
<1>1. /\ s \o r \in Seq(Cell) /\ Len(s \o r) = Len(s) + Len(r)
      /\ Len(s) \in Nat /\ Len(r) \in Nat
      /\ \A i \in 1 .. Len(s) : (s \o r)[i] = s[i]
  BY ConcatProperties DEF Joined
<1>2. PICK a \in Nat, b \in Nat : a = Len(s) /\ b = Len(r)
  BY <1>1
<1>3. c = s \o r /\ Len(c) = a + b /\ \A i \in 1 .. a : c[i] = s[i]
  BY <1>1, <1>2 DEF Joined
<1>4. at \in Nat /\ n \in Nat /\ at + n <= a /\ Cells(s, at, n) = p
  BY <1>2 DEF Part
<1>5. \A i \in 1 .. n : at + i \in 1 .. a /\ at + i <= a + b /\ at + i <= a
  BY <1>2, <1>4
<1>6. \A i \in 1 .. n : (IF at + i <= Len(c) THEN c[at + i] ELSE 0)
                          = (IF at + i <= Len(s) THEN s[at + i] ELSE 0)
  BY <1>2, <1>3, <1>5
<1>7. Cells(c, at, n) = Cells(s, at, n)
  BY <1>6 DEF Cells
<1>8. at + n <= Len(c)
  BY <1>2, <1>3, <1>4
<1> QED BY <1>4, <1>7, <1>8 DEF Part

(* And the second is part of it.                                           *)
LEMMA JoinRight ==
  ASSUME NEW c, NEW s, NEW r, NEW x \in Nat, NEW y \in Nat,
         Joined(c, s, r), Block(s, x), Block(r, y)
  PROVE  Part(c, x, y, r)
<1>1. /\ s \o r \in Seq(Cell) /\ Len(s \o r) = Len(s) + Len(r)
      /\ \A i \in 1 .. Len(r) : (s \o r)[Len(s) + i] = r[i]
  BY ConcatProperties DEF Joined
<1>2. r \in Seq(Cell) /\ c = s \o r /\ x = Len(s) /\ y = Len(r)
  BY DEF Joined, Block
<1>3. Len(c) \in Nat /\ x + y <= Len(c)
  BY <1>1, <1>2
<1>4. \A k \in 1 .. y : c[x + k] = r[k]
  BY <1>1, <1>2
<1>5. r \in Seq(Cell) /\ Len(r) = y
  BY <1>2
<1>6. Cells(c, x, y) = r
  BY <1>3, <1>4, <1>5, CellsBack
<1> QED BY <1>3, <1>6 DEF Part

(* A block is a part of itself.                                            *)
LEMMA WholePart ==
  ASSUME NEW s, NEW n, Block(s, n)
  PROVE  Part(s, 0, n, s)
BY CellsAll DEF Block, Part
-----------------------------------------------------------------------------
(* The cells of a call, and the record of it that a callback gets.         *)
CallPkt(m) == CreatePkt(0, m.type, m.args)[1]
Frame(m) == Cells(SerializePacket(CallPkt(m)), 0, HeaderLen + CallPkt(m).payload_len + FooterLen)
Record(m) == [type |-> m.type, payload |-> CallPkt(m).payload]

(* f is the header, the payload buf and the footer of a packet.            *)
Framed(f, n, kind, buf) ==
  /\ f \in Seq(Cell) /\ n \in Nat /\ Len(f) = 8 + n + 2
  /\ Number(Cells(f, 0, 2)) = n /\ Number(Cells(f, 2, 2)) = 0
  /\ Number(Cells(f, 6, 2)) = kind
  /\ Cells(f, 8, n) = buf /\ Number(Cells(f, 8 + n, 2)) = Crc32(buf)

(* The packet that upk_serialize_packet makes is such a frame.             *)
LEMMA FrameFacts ==
  ASSUME NEW m, IsCall(m.type, m.args, MaxString)
  PROVE  LET pkt == CallPkt(m)
         IN /\ Framed(Frame(m), pkt.payload_len, PktTypes[pkt.pkttype], SerializePayload(pkt))
            /\ Frame(m) = SerializePacket(pkt)
<1> DEFINE pkt == CallPkt(m)
           buf == SerializePayload(pkt)
           n == pkt.payload_len
           kind == PktTypes[pkt.pkttype]
<1>1. pkt = Packet(m.type, m.args)
  BY DEF CallPkt, CreatePkt
<1>2. n \in Nat /\ n <= MaxPacket /\ buf \in Seq(Cell) /\ Len(buf) = n
      /\ pkt.pkttype \in DOMAIN PktTypes
  BY <1>1, PayloadBack
<1>3. n \in UInt32 /\ 0 \in UInt32 /\ kind \in UInt32 /\ Crc32(buf) \in UInt32
  <2>1. n \in UInt32
    BY <1>2, WireAssumption, Numbers
  <2>2. kind \in Nat /\ kind <= 3
    BY <1>2, Families
  <2>3. PICK M \in Nat : M = Base * Base /\ M > 10 /\ \A x : x \in UInt32 <=> x \in Nat /\ x < M
    <3>1. PICK M \in Nat : M = Base * Base
      BY Numbers
    <3>2. M > 10
      BY <3>1 DEF Base
    <3> QED BY <3>1, <3>2, Numbers
  <2>4. kind \in UInt32 /\ 0 \in UInt32
    BY <2>2, <2>3
  <2>5. Crc32(buf) \in UInt32
    BY <1>2, CrcNumber
  <2> QED BY <2>1, <2>4, <2>5
<1> HIDE DEF pkt, buf, n, kind
<1>4. PICK a, b, c, d :
        /\ a = Word(n) /\ Block(a, 2) /\ Number(a) = n
        /\ b = Word(0) /\ Block(b, 2) /\ Number(b) = 0
        /\ c = Word(kind) /\ Block(c, 2) /\ Number(c) = kind
        /\ d = Word(Crc32(buf)) /\ Block(d, 2) /\ Number(d) = Crc32(buf)
  <2>1. WordLen = 2
    BY DEF WordLen
  <2>2. \A x \in UInt32 : Block(Word(x), 2) /\ Number(Word(x)) = x
    BY <2>1, WordNumber DEF Block
  <2> QED BY <1>3, <2>2
<1>a. PICK h2, h3, h4, h5, f :
        /\ h2 = a \o b /\ h3 = h2 \o b /\ h4 = h3 \o c /\ h5 = h4 \o buf /\ f = h5 \o d
  OBVIOUS
<1>5. SerializePacket(pkt) = f
  BY <1>4, <1>a DEF SerializePacket, n, buf, kind
<1>6. Block(buf, n)
  BY <1>2 DEF Block
<1>7. Joined(h2, a, b) /\ Joined(h3, h2, b) /\ Joined(h4, h3, c) /\ Joined(h5, h4, buf)
      /\ Joined(f, h5, d)
  <2>1. Joined(h2, a, b)
    BY <1>4, <1>a DEF Joined, Block
  <2>2. Joined(h3, h2, b)
    BY <1>4, <1>a, ConcatProperties DEF Joined, Block
  <2>3. Joined(h4, h3, c)
    BY <1>4, <1>a, <2>2, ConcatProperties DEF Joined, Block
  <2>4. Joined(h5, h4, buf)
    BY <1>6, <1>a, <2>3, ConcatProperties DEF Joined, Block
  <2>5. Joined(f, h5, d)
    BY <1>4, <1>a, <2>4, ConcatProperties DEF Joined, Block
  <2> QED BY <2>1, <2>2, <2>3, <2>4, <2>5
<1>8. Block(h2, 4) /\ Part(h2, 0, 2, a) /\ Part(h2, 2, 2, b)
  <2>1. Block(h2, 2 + 2) /\ Part(h2, 2, 2, b)
    BY <1>4, <1>7, JoinBlock, JoinRight
  <2>2. Part(a, 0, 2, a)
    BY <1>4, WholePart
  <2> QED BY <1>7, <2>1, <2>2, JoinLeft
<1>9. Block(h3, 6) /\ Part(h3, 0, 2, a) /\ Part(h3, 2, 2, b)
  <2>1. Block(h3, 4 + 2)
    BY <1>4, <1>7, <1>8, JoinBlock
  <2> QED BY <1>7, <1>8, <2>1, JoinLeft
<1>10. Block(h4, 8) /\ Part(h4, 0, 2, a) /\ Part(h4, 2, 2, b) /\ Part(h4, 6, 2, c)
  <2>1. Block(h4, 6 + 2) /\ Part(h4, 6, 2, c)
    BY <1>4, <1>7, <1>9, JoinBlock, JoinRight
  <2> QED BY <1>7, <1>9, <2>1, JoinLeft
<1>11. PICK e \in Nat : e = 8 + n
  BY <1>2
<1>12. Block(h5, e) /\ Part(h5, 0, 2, a) /\ Part(h5, 2, 2, b) /\ Part(h5, 6, 2, c)
       /\ Part(h5, 8, n, buf)
  <2>1. Block(h5, 8 + n) /\ Part(h5, 8, n, buf)
    BY <1>2, <1>6, <1>7, <1>10, JoinBlock, JoinRight
  <2> QED BY <1>7, <1>10, <1>11, <2>1, JoinLeft
<1>13. Block(f, e + 2) /\ Part(f, 0, 2, a) /\ Part(f, 2, 2, b) /\ Part(f, 6, 2, c)
       /\ Part(f, 8, n, buf) /\ Part(f, e, 2, d)
  <2>1. Block(f, e + 2) /\ Part(f, e, 2, d)
    BY <1>4, <1>7, <1>12, JoinBlock, JoinRight
  <2> QED BY <1>7, <1>12, <2>1, JoinLeft
<1>14. Frame(m) = f
  <2>1. HeaderLen + n + FooterLen = e + 2
    BY <1>2, <1>11 DEF HeaderLen, FooterLen, WordLen
  <2>2. Cells(f, 0, e + 2) = f
    BY <1>13, WholePart DEF Part
  <2>3. Frame(m) = Cells(f, 0, HeaderLen + n + FooterLen)
    BY <1>5 DEF Frame, pkt, n
  <2> QED BY <2>1, <2>2, <2>3
<1>15. f \in Seq(Cell) /\ Len(f) = 8 + n + 2 /\ Cells(f, 0, 2) = a /\ Cells(f, 2, 2) = b
       /\ Cells(f, 6, 2) = c /\ Cells(f, 8, n) = buf /\ Cells(f, e, 2) = d
  BY <1>11, <1>13 DEF Block, Part
<1> QED BY <1>2, <1>4, <1>5, <1>11, <1>14, <1>15 DEF Framed, pkt, n, kind, buf
-----------------------------------------------------------------------------
(* A block, cut behind its first k cells.                                  *)
LEMMA Split ==
  ASSUME NEW s, NEW n, Block(s, n), NEW k \in 0 .. n
  PROVE  \E h, t : Joined(s, h, t) /\ Block(h, k) /\ Block(t, n - k)
<1>1. s \in Seq(Cell) /\ n \in Nat /\ Len(s) = n
  BY DEF Block
<1>2. /\ 1 \in 1 .. Len(s) + 1 /\ k \in 1 - 1 .. Len(s) /\ Len(s) \in k .. Len(s)
  BY <1>1
<1>3. SubSeq(s, 1, k) \o SubSeq(s, k + 1, Len(s)) = s
  <2>1. SubSeq(s, 1, k) \o SubSeq(s, k + 1, Len(s)) = SubSeq(s, 1, Len(s))
    BY <1>1, <1>2, ConcatAdjacentSubSeq
  <2> QED BY <1>1, <2>1, SubSeqFull
<1>4. SubSeq(s, 1, k) \in Seq(Cell) /\ Len(SubSeq(s, 1, k)) = k
  <2>1. 1 \in Int /\ k \in Int /\ \A i \in 1 .. k : s[i] \in Cell
    BY <1>1
  <2>2. k = IF 1 <= k THEN k - 1 + 1 ELSE 0
    OBVIOUS
  <2> QED BY <2>1, <2>2, SubSeqProperties
<1>5. SubSeq(s, k + 1, n) \in Seq(Cell) /\ Len(SubSeq(s, k + 1, n)) = n - k
  <2>1. k + 1 \in Int /\ n \in Int /\ \A i \in k + 1 .. n : s[i] \in Cell
    BY <1>1
  <2>2. n - k = IF k + 1 <= n THEN n - (k + 1) + 1 ELSE 0
    BY <1>1
  <2> QED BY <2>1, <2>2, SubSeqProperties
<1>6. Joined(s, SubSeq(s, 1, k), SubSeq(s, k + 1, n))
  BY <1>1, <1>3, <1>4, <1>5 DEF Joined
<1>7. Block(SubSeq(s, 1, k), k) /\ Block(SubSeq(s, k + 1, n), n - k)
  <2>1. n - k \in Nat /\ k \in Nat
    BY <1>1
  <2> QED BY <1>4, <1>5, <2>1 DEF Block
<1> QED BY <1>6, <1>7

(* What begins with h and goes on with t, read h first.                    *)
LEMMA ReadBlock ==
  ASSUME NEW s, NEW h, NEW t, NEW k \in Nat, NEW n, Joined(s, h, t), Block(h, k), Block(s, n)
  PROVE  SubSeq(s, 1, k) = h /\ SubSeq(s, k + 1, n) = t
<1>1. h \in Seq(Cell) /\ t \in Seq(Cell) /\ s = h \o t /\ Len(h) = k /\ Len(s) = n /\ n \in Nat
  BY DEF Joined, Block
<1>2. /\ Len(h \o t) = Len(h) + Len(t) /\ Len(t) \in Nat
      /\ \A i \in 1 .. Len(h) + Len(t) :
           (h \o t)[i] = IF i <= Len(h) THEN h[i] ELSE t[i - Len(h)]
  <2>1. h \in Seq(Cell) /\ t \in Seq(Cell)
    BY <1>1
  <2>2. Len(t) \in Nat
    BY <2>1
  <2> QED BY <2>1, <2>2, ConcatProperties
<1>3. PICK m \in Nat : m = Len(t)
  BY <1>2
<1>4. /\ n = k + m
      /\ \A i \in 1 .. k : s[i] = h[i] /\ h[i] \in Cell
      /\ \A i \in 1 .. m : s[k + i] = t[i] /\ t[i] \in Cell
  <2>1. n = k + m
    BY <1>1, <1>2, <1>3
  <2>2. \A i \in 1 .. k : i \in 1 .. Len(h) + Len(t) /\ i <= Len(h)
    BY <1>1, <1>3
  <2>3. \A i \in 1 .. m : /\ k + i \in 1 .. Len(h) + Len(t)
                          /\ ~(k + i <= Len(h)) /\ k + i - Len(h) = i
    BY <1>1, <1>3
  <2>4. \A i \in 1 .. k : s[i] = h[i] /\ h[i] \in Cell
    BY <1>1, <1>2, <2>2
  <2>5. \A i \in 1 .. m : s[k + i] = t[i] /\ t[i] \in Cell
    BY <1>1, <1>2, <1>3, <2>3
  <2> QED BY <2>1, <2>4, <2>5
<1>5. SubSeq(s, 1, k) = h
  <2>1. 1 \in Int /\ k \in Int /\ \A i \in 1 .. k : s[i] \in Cell
    BY <1>4
  <2>2. PICK x : x = SubSeq(s, 1, k)
    OBVIOUS
  <2>3. x \in Seq(Cell) /\ Len(x) = IF 1 <= k THEN k - 1 + 1 ELSE 0
    BY <2>1, <2>2, SubSeqProperties
  <2>4. \A i \in 1 .. k - 1 + 1 : x[i] = s[1 + i - 1]
    BY <2>1, <2>2, SubSeqProperties
  <2>5. Len(x) = Len(h) /\ \A i \in 1 .. Len(x) : x[i] = h[i]
    BY <1>1, <1>4, <2>3, <2>4
  <2> QED BY <1>1, <2>2, <2>3, <2>5, SeqEqual
<1>6. SubSeq(s, k + 1, n) = t
  <2>1. k + 1 \in Int /\ n \in Int /\ \A i \in k + 1 .. n : s[i] \in Cell
    <3>1. \A i \in k + 1 .. n : i - k \in 1 .. m /\ i = k + (i - k)
      BY <1>4
    <3> QED BY <1>1, <1>4, <3>1
  <2>2. PICK x : x = SubSeq(s, k + 1, n)
    OBVIOUS
  <2>3. x \in Seq(Cell) /\ Len(x) = IF k + 1 <= n THEN n - (k + 1) + 1 ELSE 0
    BY <2>1, <2>2, SubSeqProperties
  <2>4. \A i \in 1 .. n - (k + 1) + 1 : x[i] = s[(k + 1) + i - 1]
    BY <2>1, <2>2, SubSeqProperties
  <2>5. Len(x) = m /\ \A i \in 1 .. m : x[i] = s[k + i]
    BY <1>4, <2>3, <2>4
  <2>6. Len(x) = Len(t) /\ \A i \in 1 .. Len(x) : x[i] = t[i]
    BY <1>3, <1>4, <2>5
  <2> QED BY <1>1, <2>2, <2>3, <2>6, SeqEqual
<1> QED BY <1>5, <1>6

(* Two ways to see the same cells: where s is no shorter than f, it begins *)
(* with f.                                                                 *)
LEMMA Prefixed ==
  ASSUME NEW x, NEW s, NEW u, NEW f, NEW g, NEW k, NEW n,
         Joined(x, s, u), Joined(x, f, g), Block(f, k), Block(s, n), k <= n
  PROVE  \E r : Joined(s, f, r) /\ Joined(g, r, u)
<1>0. k \in Nat /\ n \in Nat
  BY DEF Block
<1>1. PICK h, r : Joined(s, h, r) /\ Block(h, k)
  <2>1. k \in 0 .. n
    BY <1>0
  <2> QED BY <2>1, Split
<1>2. s \in Seq(Cell) /\ u \in Seq(Cell) /\ f \in Seq(Cell) /\ g \in Seq(Cell)
      /\ h \in Seq(Cell) /\ r \in Seq(Cell)
  BY <1>1 DEF Joined
<1>3. x = s \o u /\ x = f \o g /\ s = h \o r
  BY <1>1 DEF Joined
<1>4. PICK y : y = r \o u
  OBVIOUS
<1>5. y \in Seq(Cell) /\ x \in Seq(Cell)
  BY <1>2, <1>3, <1>4, ConcatProperties
<1>6. x = h \o y
  <2>1. (h \o r) \o u = h \o (r \o u)
    <3>1. h \in Seq(Cell) /\ r \in Seq(Cell) /\ u \in Seq(Cell)
      BY <1>2
    <3> QED BY <3>1, ConcatAssociative
  <2> QED BY <1>3, <1>4, <2>1
<1>7. Joined(x, h, y)
  BY <1>2, <1>5, <1>6 DEF Joined
<1>8. PICK e : e = Len(x) /\ Block(x, e)
  BY <1>5 DEF Block
<1>9. SubSeq(x, 1, k) = h /\ SubSeq(x, k + 1, e) = y
  BY <1>0, <1>1, <1>7, <1>8, ReadBlock, SMTT(60)
<1>10. SubSeq(x, 1, k) = f /\ SubSeq(x, k + 1, e) = g
  BY <1>0, <1>8, ReadBlock, SMTT(60)
<1>11. Joined(s, f, r) /\ Joined(g, r, u)
  BY <1>1, <1>2, <1>4, <1>9, <1>10 DEF Joined
<1> QED BY <1>11
-----------------------------------------------------------------------------
(* Every message that can be created is read back by                       *)
(* upk_deserialize_packet as it was: type, fields and lengths are those    *)
(* given to the create function, for each of the message types, and all    *)
(* strings that are shorter than UPK_MAX_STRING_LEN.                       *)
THEOREM PacketBack ==
  ASSUME NEW m, IsCall(m.type, m.args, MaxString)
  PROVE  DeserializePacket(SerializePacket(CallPkt(m)), MaxPacket)
           = <<[type |-> m.type, payload |-> CallPkt(m).payload]>>
<1> DEFINE pkt == CallPkt(m)
<1>1. pkt = Packet(m.type, m.args)
  BY DEF CallPkt, CreatePkt
<1>2. PICK f, n, kind, buf : /\ f = SerializePacket(pkt) /\ n = pkt.payload_len
                             /\ kind = PktTypes[pkt.pkttype] /\ buf = SerializePayload(pkt)
  OBVIOUS
<1>3. /\ n \in Nat /\ n <= MaxPacket /\ pkt.pkttype \in DOMAIN PktTypes
      /\ DeserializePayload(buf, kind) = <<[type |-> m.type, payload |-> pkt.payload]>>
  BY <1>1, <1>2, PayloadBack
<1>4. kind \in Nat /\ kind <= 3
  BY <1>2, <1>3, Families
<1>5. Framed(f, n, kind, buf)
  BY <1>2, FrameFacts
<1>6. /\ Number(Cells(f, 0, 2)) = n /\ Number(Cells(f, 2, 2)) = 0 /\ Number(Cells(f, 6, 2)) = kind
      /\ Cells(f, 8, n) = buf /\ Number(Cells(f, 8 + n, 2)) = Crc32(buf)
  BY <1>5 DEF Framed
<1>7. /\ ~(n > MaxPacket) /\ ~(kind >= PktLimit) /\ WordLen = 2
      /\ (1 - 1) * 2 = 0 /\ (2 - 1) * 2 = 2 /\ (4 - 1) * 2 = 6 /\ 4 * 2 = 8
  BY <1>3, <1>4, WireAssumption DEF PktLimit, WordLen
<1>8. DeserializePacket(f, MaxPacket) = DeserializePayload(buf, kind)
  BY <1>6, <1>7 DEF DeserializePacket
<1> QED BY <1>2, <1>3, <1>8

(* What the callbacks are given for it is what was recorded as sent.       *)
LEMMA TypeSent ==
  ASSUME NEW m, IsCall(m.type, m.args, MaxString)
  PROVE  MsgSizes[MsgtypeIdx(CallPkt(m).payload.val.msgtype) + 1] = m.type
<1>1. CallPkt(m).payload = Struct(m.type, m.args)
  BY DEF CallPkt, CreatePkt, Packet
<1>2. IsType(m.type)
  BY CallFacts
<1>3. PICK gs : gs = Fields(m.type) /\ Members(gs, m.type)
  BY <1>2, TypeFacts
<1>4. "msgtype" \in Names(gs)
  <2>1. gs[1] = Id /\ 1 \in DOMAIN gs
    BY <1>3 DEF Members
  <2>2. Id.name = "msgtype"
    BY DEF Id, E, U
  <2> QED BY <2>1, <2>2 DEF Names
<1>5. Struct(m.type, m.args).val["msgtype"] = MsgCode(m.type)
  BY <1>3, <1>4 DEF Struct
<1> QED BY <1>1, <1>2, <1>5, TypeBack

(* A frame is a header of eight cells that says how many follow before the *)
(* footer, and what follows.                                               *)
Headed(h, n) == /\ Block(h, 8) /\ n \in Nat /\ n <= MaxPacket
                /\ Number(Cells(h, 0, 2)) = n /\ Number(Cells(h, 2, 2)) = 0

(* The packet of a message can be cut behind its header.                   *)
LEMMA FrameCut ==
  ASSUME NEW m, IsCall(m.type, m.args, MaxString)
  PROVE  \E h, t, n, k : /\ Joined(Frame(m), h, t) /\ Headed(h, n) /\ k = n + 2 /\ Block(t, k)
                         /\ Block(Frame(m), 8 + k)
<1>1. PICK f, n, kind, buf : /\ f = Frame(m) /\ n = CallPkt(m).payload_len
                             /\ Framed(f, n, kind, buf)
  BY FrameFacts
<1>2. n <= MaxPacket
  <2>1. CallPkt(m) = Packet(m.type, m.args)
    BY DEF CallPkt, CreatePkt
  <2> QED BY <1>1, <2>1, PayloadBack
<1>3. /\ f \in Seq(Cell) /\ n \in Nat /\ Len(f) = 8 + n + 2
      /\ Number(Cells(f, 0, 2)) = n /\ Number(Cells(f, 2, 2)) = 0
  BY <1>1 DEF Framed
<1>4. PICK k \in Nat, e \in Nat : k = n + 2 /\ e = 8 + k
  BY <1>3
<1>5. Block(f, e)
  BY <1>3, <1>4 DEF Block
<1>6. PICK h, t : Joined(f, h, t) /\ Block(h, 8) /\ Block(t, k)
  <2>1. 8 \in 0 .. e /\ e - 8 = k
    BY <1>4
  <2> QED BY <1>5, <2>1, Split
<1>7. Cells(f, 0, 2) = Cells(h, 0, 2) /\ Cells(f, 2, 2) = Cells(h, 2, 2)
  <2>1. Part(h, 0, 2, Cells(h, 0, 2)) /\ Part(h, 2, 2, Cells(h, 2, 2))
    BY <1>6 DEF Part, Block
  <2>2. Part(f, 0, 2, Cells(h, 0, 2)) /\ Part(f, 2, 2, Cells(h, 2, 2))
    BY <1>6, <2>1, JoinLeft
  <2> QED BY <2>2 DEF Part
<1>8. Headed(h, n)
  BY <1>2, <1>3, <1>6, <1>7 DEF Headed
<1> QED BY <1>1, <1>4, <1>5, <1>6, <1>8
-----------------------------------------------------------------------------
(* What read() gives, where there is enough to read, and where not.        *)
LEMMA ReadIs ==
  ASSUME NEW s, NEW e, Block(s, e), NEW want \in Nat \ {0}, NEW err
  PROVE  /\ \A h, t : Joined(s, h, t) /\ Block(h, want) =>
              Read(s, want, err) = [cells |-> h, n |-> want, rest |-> t, errno |-> err]
         /\ e < want => Read(s, want, err).n < want
         /\ e > 0 => Read(s, want, err).n # 0
         /\ e = 0 /\ ~peer => Read(s, want, err).n = 0
<1>1. s \in Seq(Cell) /\ e \in Nat /\ Len(s) = e
  BY DEF Block
<1>2. ASSUME NEW h, NEW t, Joined(s, h, t), Block(h, want)
      PROVE  Read(s, want, err) = [cells |-> h, n |-> want, rest |-> t, errno |-> err]
  <2>1. SubSeq(s, 1, want) = h /\ SubSeq(s, want + 1, e) = t
    <3>1. want \in Nat
      OBVIOUS
    <3> QED BY <1>2, <3>1, ReadBlock
  <2>2. want <= e
    <3>1. PICK y \in Nat : Block(t, y)
      BY <1>2 DEF Joined, Block
    <3>2. Block(s, want + y)
      BY <1>2, <3>1, JoinBlock
    <3> QED BY <1>1, <3>1, <3>2 DEF Block
  <2>3. (IF want < Len(s) THEN want ELSE Len(s)) = want
    BY <1>1, <2>2
  <2> QED BY <1>1, <2>1, <2>3 DEF Read
<1>3. e < want => Read(s, want, err).n < want
  <2> SUFFICES ASSUME e < want PROVE Read(s, want, err).n < want
    OBVIOUS
  <2>1. (IF want < Len(s) THEN want ELSE Len(s)) = e
    BY <1>1
  <2>2. Read(s, want, err).n = e \/ Read(s, want, err).n = 0 - 1
    BY <2>1 DEF Read
  <2> QED BY <1>1, <2>2
<1>4. e > 0 => Read(s, want, err).n # 0
  <2> SUFFICES ASSUME e > 0 PROVE Read(s, want, err).n # 0
    OBVIOUS
  <2>1. PICK k : k = (IF want < Len(s) THEN want ELSE Len(s)) /\ k # 0
    BY <1>1
  <2>2. Read(s, want, err).n = k
    BY <2>1 DEF Read
  <2> QED BY <2>1, <2>2
<1>5. e = 0 /\ ~peer => Read(s, want, err).n = 0
  <2>1. e = 0 => (IF want < Len(s) THEN want ELSE Len(s)) = 0
    BY <1>1
  <2> QED BY <2>1 DEF Read
<1> QED BY <1>2, <1>3, <1>4, <1>5

(* What is read is put where it belongs: a header to the start, the rest   *)
(* behind it.                                                              *)
LEMMA OverlayStart ==
  ASSUME NEW h, NEW k, Block(h, k)
  PROVE  Overlay(<<>>, 0, h) = h
<1>1. h \in Seq(Cell) /\ Len(h) = k /\ k \in Nat
  BY DEF Block
<1>2. Cells(<<>>, 0, 0) = <<>>
  BY DEF Cells
<1>3. Len(<<>>) = 0 /\ 0 + Len(h) + 1 \in Int /\ 0 < 0 + Len(h) + 1
  BY <1>1
<1>4. SubSeq(<<>>, 0 + Len(h) + 1, Len(<<>>)) = <<>>
  BY <1>3, SubSeqEmpty
<1>5. PICK e \in Seq(Cell) : e = <<>>
  <2>1. <<>> \in Seq(Cell)
    OBVIOUS
  <2> QED BY <2>1
<1>6. e \o h = h /\ h \o e = h
  BY <1>1, <1>5, ConcatEmptySeq
<1> QED BY <1>2, <1>4, <1>5, <1>6 DEF Overlay

(* And what is read behind the header completes the packet.                *)
LEMMA OverlayBehind ==
  ASSUME NEW f, NEW h, NEW t, Joined(f, h, t), Block(h, 8)
  PROVE  Overlay(h, 8, t) = f
<1>1. h \in Seq(Cell) /\ t \in Seq(Cell) /\ f = h \o t /\ Len(h) = 8
  BY DEF Joined, Block
<1>2. Cells(h, 0, 8) = h
  BY <1>1, CellsAll
<1>3. PICK k \in Nat : k = Len(t)
  BY <1>1
<1>4. SubSeq(h, 8 + Len(t) + 1, Len(h)) = <<>>
  <2>1. 8 + k + 1 \in Int /\ 8 \in Int /\ 8 < 8 + k + 1
    BY <1>3
  <2> QED BY <1>1, <1>3, <2>1, SubSeqEmpty
<1>5. PICK e \in Seq(Cell) : e = <<>>
  <2>1. <<>> \in Seq(Cell)
    OBVIOUS
  <2> QED BY <2>1
<1>6. f \in Seq(Cell)
  BY <1>1, ConcatProperties
<1>7. f \o e = f
  BY <1>5, <1>6, ConcatEmptySeq
<1> QED BY <1>1, <1>2, <1>4, <1>5, <1>7 DEF Overlay
-----------------------------------------------------------------------------
(* The messages on their way: as recorded when they were queued, and their *)
(* cells.                                                                  *)
Records == {Record(m) : m \in Messages}
Log(rs, fs) ==
  /\ rs \in Seq(Records) /\ Pieces(fs, Cell) /\ Len(rs) = Len(fs)
  /\ \A i \in 1 .. Len(rs) : \E m \in Messages : rs[i] = Record(m) /\ fs[i] = Frame(m)

(* The packet and the record of a message.                                 *)
LEMMA FrameIs ==
  ASSUME NEW m \in Messages
  PROVE  /\ IsCall(m.type, m.args, MaxString)
         /\ Frame(m) \in Seq(Cell) /\ Frame(m) # <<>> /\ Record(m) \in Records
<1>1. IsCall(m.type, m.args, MaxString)
  BY WireAssumption
<1>2. PICK h, t, n, k : Joined(Frame(m), h, t) /\ Headed(h,
        n) /\ k = n + 2 /\ Block(Frame(m), 8 + k)
  BY <1>1, FrameCut
<1>3. Frame(m) \in Seq(Cell) /\ Len(Frame(m)) = 8 + k /\ k \in Nat
  BY <1>2 DEF Block, Headed
<1>4. Frame(m) # <<>>
  BY <1>3
<1> QED BY <1>1, <1>3, <1>4 DEF Records

(* One more is sent.                                                       *)
LEMMA LogAppend ==
  ASSUME NEW rs, NEW fs, Log(rs, fs), NEW m \in Messages
  PROVE  /\ Log(Append(rs, Record(m)), Append(fs, Frame(m)))
         /\ FlattenSeq(Append(fs, Frame(m))) = FlattenSeq(fs) \o Frame(m)
<1>1. PICK r \in Records, f \in Seq(Cell) : r = Record(m) /\ f = Frame(m)
  BY FrameIs
<1>2. rs \in Seq(Records) /\ Pieces(fs, Cell) /\ fs \in Seq(Seq(Cell))
  BY DEF Log, Pieces
<1>3. PICK n \in Nat : n = Len(rs) /\ n = Len(fs)
  BY <1>2 DEF Log
<1>4. /\ Append(rs, r) \in Seq(Records) /\ Len(Append(rs, r)) = n + 1
      /\ Append(rs, r)[n + 1] = r /\ \A i \in 1 .. n : Append(rs, r)[i] = rs[i]
  <2>1. rs \in Seq(Records) /\ r \in Records
    BY <1>1, <1>2
  <2>2. /\ Append(rs, r) \in Seq(Records) /\ Len(Append(rs, r)) = Len(rs) + 1
        /\ \A i \in 1 .. Len(rs) : Append(rs, r)[i] = rs[i]
        /\ Append(rs, r)[Len(rs) + 1] = r
    BY <2>1, AppendProperties
  <2> QED BY <1>3, <2>2
<1>5. /\ Append(fs, f) \in Seq(Seq(Cell)) /\ Len(Append(fs, f)) = n + 1
      /\ Append(fs, f)[n + 1] = f /\ \A i \in 1 .. n : Append(fs, f)[i] = fs[i]
  BY <1>2, <1>3, AppendProperties
<1>6. \A i \in 1 .. n + 1 : \E x \in Messages :
        Append(rs, r)[i] = Record(x) /\ Append(fs, f)[i] = Frame(x)
  <2> TAKE i \in 1 .. n + 1
  <2>1. CASE i = n + 1
    BY <1>1, <1>4, <1>5, <2>1
  <2>2. CASE i # n + 1
    <3>1. i \in 1 .. n
      BY <2>2
    <3>2. PICK x \in Messages : rs[i] = Record(x) /\ fs[i] = Frame(x)
      BY <1>3, <3>1 DEF Log
    <3> QED BY <1>4, <1>5, <3>1, <3>2
  <2> QED BY <2>1, <2>2
<1>7. Log(Append(rs, r), Append(fs, f))
  BY <1>4, <1>5, <1>6 DEF Log, Pieces
<1>8. FlattenSeq(Append(fs, f)) = FlattenSeq(fs) \o f
  BY <1>2, FlattenAppend
<1> QED BY <1>1, <1>7, <1>8

(* The first of them is received.                                          *)
LEMMA LogFirst ==
  ASSUME NEW rs, NEW fs, Log(rs, fs), fs # <<>>
  PROVE  \E m \in Messages : \E rt, ft :
           /\ Log(rt, ft) /\ rs = <<Record(m)>> \o rt
           /\ Joined(FlattenSeq(fs), Frame(m), FlattenSeq(ft))
<1>1. rs \in Seq(Records) /\ Pieces(fs, Cell) /\ fs \in Seq(Seq(Cell))
  BY DEF Log, Pieces
<1>2. PICK n \in Nat \ {0} : n = Len(rs) /\ n = Len(fs)
  BY <1>1 DEF Log
<1>3. PICK m \in Messages : rs[1] = Record(m) /\ fs[1] = Frame(m)
  BY <1>2 DEF Log
<1>4. PICK rt, ft : rt = Tail(rs) /\ ft = Tail(fs)
  OBVIOUS
<1>5. rt \in Seq(Records) /\ Len(rt) = n - 1 /\ \A i \in 1 .. n - 1 : rt[i] = rs[i + 1]
  <2>1. rs # <<>>
    BY <1>2
  <2> QED BY <1>1, <1>2, <1>4, <2>1, HeadTailProperties
<1>6. ft \in Seq(Seq(Cell)) /\ Len(ft) = n - 1 /\ \A i \in 1 .. n - 1 : ft[i] = fs[i + 1]
  BY <1>1, <1>2, <1>4
<1>7. \A i \in 1 .. n - 1 : \E x \in Messages : rt[i] = Record(x) /\ ft[i] = Frame(x)
  <2> TAKE i \in 1 .. n - 1
  <2>1. i + 1 \in 1 .. n
    BY <1>2
  <2>2. PICK x \in Messages : rs[i + 1] = Record(x) /\ fs[i + 1] = Frame(x)
    BY <1>2, <2>1 DEF Log
  <2> QED BY <1>5, <1>6, <2>2
<1>8. Log(rt, ft)
  BY <1>5, <1>6, <1>7 DEF Log, Pieces
<1>9. rs = <<Record(m)>> \o rt
  <2>1. PICK r \in Records : r = Record(m)
    BY FrameIs
  <2>2. <<r>> \in Seq(Records) /\ Len(<<r>>) = 1 /\ <<r>>[1] = r
    BY <2>1
  <2>3. PICK c : c = <<r>> \o rt
    OBVIOUS
  <2>4. /\ c \in Seq(Records) /\ Len(c) = Len(<<r>>) + Len(rt)
        /\ \A i \in 1 .. Len(<<r>>) + Len(rt) :
             c[i] = IF i <= Len(<<r>>) THEN <<r>>[i] ELSE rt[i - Len(<<r>>)]
    BY <1>5, <2>2, <2>3, ConcatProperties
  <2>5. Len(c) = n /\ \A i \in 1 .. n : c[i] = IF i <= 1 THEN <<r>>[i] ELSE rt[i - 1]
    BY <1>5, <2>2, <2>4
  <2>6. ASSUME NEW i \in 1 .. n PROVE rs[i] = c[i]
    <3>1. CASE i = 1
      BY <1>3, <2>1, <2>2, <2>5, <3>1
    <3>2. CASE i # 1
      <4>1. i - 1 \in 1 .. n - 1 /\ ~(i <= 1) /\ (i - 1) + 1 = i
        BY <3>2
      <4> QED BY <1>5, <2>5, <4>1
    <3> QED BY <3>1, <3>2
  <2>7. rs = c
    BY <1>1, <1>2, <2>4, <2>5, <2>6, SeqEqual
  <2> QED BY <2>1, <2>3, <2>7
<1>10. FlattenSeq(fs) = Frame(m) \o FlattenSeq(ft)
  BY <1>1, <1>3, <1>4, FlattenCons
<1>11. FlattenSeq(ft) \in Seq(Cell) /\ Frame(m) \in Seq(Cell)
  BY <1>8, FlattenPlaces, FrameIs DEF Log
<1>12. Joined(FlattenSeq(fs), Frame(m), FlattenSeq(ft))
  BY <1>10, <1>11 DEF Joined
<1> QED BY <1>8, <1>9, <1>12
-----------------------------------------------------------------------------
(* What of the packet in the queue is still to be written.                 *)
Left(q, u) ==
  \/ q = <<>> /\ u = <<>>
  \/ \E z, x : q = <<[msg |-> z, written |-> Len(x)]>> /\ Joined(z, x, u) /\ u # <<>>

(* In the socket and in the queue are exactly the cells of the messages    *)
(* that were sent and not yet received.                                    *)
Flowing(s, q, all, have) ==
  \E rs, fs, u : /\ Log(rs, fs) /\ Left(q, u) /\ Joined(FlattenSeq(fs), s, u)
                 /\ have \in Seq(Records) /\ all = have \o rs

Orderly ==
  /\ alive /\ nHdr = 0 /\ nRem = 0 /\ readbuf = <<>>
  /\ Flowing(stream, writeq, sent, got)

WireInv == ~cut => Orderly

(* At first nothing is on its way.                                         *)
LEMMA FlowsInit == Flowing(<<>>, <<>>, <<>>, <<>>)
<1>1. Log(<<>>, <<>>)
  BY DEF Log, Pieces
<1>2. Joined(FlattenSeq(<<>>), <<>>, <<>>)
  <2>1. <<>> \in Seq(Cell)
    OBVIOUS
  <2>2. <<>> \o <<>> = <<>>
    BY <2>1, ConcatEmptySeq
  <2> QED BY <2>1, <2>2, FlattenEmpty DEF Joined
<1>3. <<>> \in Seq(Records)
  OBVIOUS
<1>4. <<>> \o <<>> = <<>>
  BY <1>3, ConcatEmptySeq
<1> QED BY <1>1, <1>2, <1>3, <1>4 DEF Flowing, Left

(* upk_queue_packet puts the cells of a message behind the others.         *)
LEMMA FlowsQueued ==
  ASSUME NEW s, NEW all, NEW have, Flowing(s, <<>>, all, have), NEW m \in Messages
  PROVE  Flowing(s, <<[msg |-> Frame(m), written |-> 0]>>, Append(all, Record(m)), have)
<1>1. PICK rs, fs, u : /\ Log(rs, fs) /\ Left(<<>>, u) /\ Joined(FlattenSeq(fs), s, u)
                       /\ have \in Seq(Records) /\ all = have \o rs
  BY DEF Flowing
<1>2. u = <<>>
  BY <1>1 DEF Left
<1>3. PICK f \in Seq(Cell), r \in Records : f = Frame(m) /\ r = Record(m) /\ f # <<>>
  BY FrameIs
<1>4. PICK qs, gs : qs = Append(rs, r) /\ gs = Append(fs, f)
  OBVIOUS
<1>5. Log(qs, gs) /\ FlattenSeq(gs) = FlattenSeq(fs) \o f
  BY <1>1, <1>3, <1>4, LogAppend
<1>6. FlattenSeq(fs) = s /\ s \in Seq(Cell)
  <2>1. s \in Seq(Cell) /\ FlattenSeq(fs) = s \o <<>>
    BY <1>1, <1>2 DEF Joined
  <2> QED BY <2>1, ConcatEmptySeq
<1>7. Joined(FlattenSeq(gs), s, f)
  BY <1>3, <1>5, <1>6 DEF Joined
<1>8. Left(<<[msg |-> f, written |-> 0]>>, f)
  <2>1. PICK e \in Seq(Cell) : e = <<>> /\ Len(e) = 0
    <3>1. <<>> \in Seq(Cell) /\ Len(<<>>) = 0
      OBVIOUS
    <3> QED BY <3>1
  <2>2. e \o f = f
    BY <1>3, <2>1, ConcatEmptySeq
  <2>3. Joined(f, e, f)
    BY <1>3, <2>1, <2>2 DEF Joined
  <2> QED BY <1>3, <2>1, <2>3 DEF Left
<1>9. Append(all, r) = have \o qs
  <2>1. rs \in Seq(Records) /\ have \in Seq(Records)
    BY <1>1 DEF Log
  <2>2. have \o Append(rs, r) = Append(have \o rs, r)
    <3>1. PICK one \in Seq(Records) : one = <<r>>
      <4>1. r \in Records
        BY <1>3
      <4>2. <<r>> \in Seq(Records)
        BY <4>1
      <4> QED BY <4>2
    <3>2. Append(rs, r) = rs \o one
      BY <1>3, <2>1, <3>1, AppendIsConcat
    <3>3. PICK c \in Seq(Records) : c = have \o rs
      BY <2>1, ConcatProperties
    <3>4. Append(c, r) = c \o one
      BY <1>3, <3>1, <3>3, AppendIsConcat
    <3>5. (have \o rs) \o one = have \o (rs \o one)
      BY <2>1, <3>1, ConcatAssociative, SMTT(60)
    <3> QED BY <3>2, <3>3, <3>4, <3>5
  <2> QED BY <1>1, <1>4, <2>2
<1> QED BY <1>1, <1>3, <1>5, <1>7, <1>8, <1>9 DEF Flowing
-----------------------------------------------------------------------------
(* Joining goes either way: to the left,                                   *)
LEMMA JoinLeftward ==
  ASSUME NEW z, NEW x, NEW u, NEW v, NEW w, NEW y,
         Joined(z, x, u), Joined(u, v, w), Joined(y, x, v)
  PROVE  Joined(z, y, w)
<1>1. x \in Seq(Cell) /\ v \in Seq(Cell) /\ w \in Seq(Cell)
  BY DEF Joined
<1>2. z = x \o u /\ u = v \o w /\ y = x \o v
  BY DEF Joined
<1>3. (x \o v) \o w = x \o (v \o w)
  BY <1>1, ConcatAssociative
<1>4. x \o v \in Seq(Cell)
  BY <1>1, ConcatProperties
<1> QED BY <1>1, <1>2, <1>3, <1>4 DEF Joined

(* and to the right.                                                       *)
LEMMA JoinRightward ==
  ASSUME NEW z, NEW y, NEW w, NEW x, NEW v, Joined(z, y, w), Joined(y, x, v)
  PROVE  \E u : Joined(z, x, u) /\ Joined(u, v, w)
<1>1. x \in Seq(Cell) /\ v \in Seq(Cell) /\ w \in Seq(Cell)
  BY DEF Joined
<1>2. z = y \o w /\ y = x \o v
  BY DEF Joined
<1>3. (x \o v) \o w = x \o (v \o w)
  BY <1>1, ConcatAssociative
<1>4. PICK u : u = v \o w
  OBVIOUS
<1>5. u \in Seq(Cell)
  BY <1>1, <1>4, ConcatProperties
<1> QED BY <1>1, <1>2, <1>3, <1>4, <1>5 DEF Joined

(* Any two can be joined.                                                  *)
LEMMA JoinExists ==
  ASSUME NEW x \in Seq(Cell), NEW v \in Seq(Cell)
  PROVE  \E y : Joined(y, x, v)
BY DEF Joined

(* Every sequence of cells is a block.                                     *)
LEMMA BlockOf ==
  ASSUME NEW s \in Seq(Cell)
  PROVE  \E n \in Nat : Block(s, n) /\ n = Len(s)
BY DEF Block

(* So is what is in the socket.                                            *)
LEMMA FlowsBlock ==
  ASSUME NEW s, NEW q, NEW all, NEW have, Flowing(s, q, all, have)
  PROVE  \E e \in Nat : Block(s, e)
<1>1. s \in Seq(Cell)
  BY DEF Flowing, Joined
<1> QED BY <1>1, BlockOf

(* upk_write_packets moves cells from the queue to the socket.             *)
LEMMA FlowsWritten ==
  ASSUME NEW s, NEW q, NEW all, NEW have, Flowing(s, q, all, have), q # <<>>,
         NEW n, n \in 1 .. (Len(q[1].msg) - q[1].written)
  PROVE  Flowing(s \o Cells(q[1].msg, q[1].written, n),
                 IF n = Len(q[1].msg) - q[1].written THEN <<>>
                 ELSE [q EXCEPT ![1].written = @ + n], all, have)
<1>1. PICK rs, fs, u : /\ Log(rs, fs) /\ Left(q, u) /\ Joined(FlattenSeq(fs), s, u)
                       /\ have \in Seq(Records) /\ all = have \o rs
  BY DEF Flowing
<1>2. PICK z, x : q = <<[msg |-> z, written |-> Len(x)]>> /\ Joined(z, x, u) /\ u # <<>>
  BY <1>1 DEF Left
<1>3. s \in Seq(Cell) /\ x \in Seq(Cell) /\ u \in Seq(Cell)
  BY <1>1, <1>2 DEF Joined
<1>4. PICK a \in Nat, c \in Nat : Block(x, a) /\ a = Len(x) /\ Block(u, c) /\ c = Len(u)
  BY <1>3, BlockOf
<1>5. Block(z, a + c)
  BY <1>2, <1>4, JoinBlock
<1>6. q[1].msg = z /\ q[1].written = a /\ q[1].msg = z /\ Len(z) - a = c
  BY <1>2, <1>4, <1>5 DEF Block
<1>7. n \in 1 .. c
  BY <1>6
<1>8. PICK v, w, d : Joined(u, v, w) /\ Block(v, n) /\ d = c - n /\ Block(w, d)
  <2>1. n \in 0 .. c
    BY <1>4, <1>7
  <2> QED BY <1>4, <2>1, Split
<1>9. v \in Seq(Cell) /\ w \in Seq(Cell)
  BY <1>8 DEF Joined
<1>10. PICK y, r : Joined(y, x, v) /\ Joined(r, s, v)
  BY <1>3, <1>9, JoinExists
<1>11. Joined(z, y, w) /\ Joined(FlattenSeq(fs), r, w)
  BY <1>1, <1>2, <1>8, <1>10, JoinLeftward
<1>12. Cells(z, a, n) = v /\ Block(y, a + n)
  <2>1. n \in Nat
    BY <1>7
  <2>2. Part(y, a, n, v) /\ Block(y, a + n)
    BY <1>4, <1>8, <1>10, <2>1, JoinRight, JoinBlock
  <2>3. Part(z, a, n, v)
    BY <1>11, <2>2, JoinLeft
  <2> QED BY <2>2, <2>3 DEF Part
<1>13. s \o v = r
  BY <1>10 DEF Joined
<1>14. CASE n = c
  <2>1. w = <<>>
    <3>1. w \in Seq(Cell) /\ Len(w) = 0
      BY <1>4, <1>8, <1>14 DEF Block
    <3> QED BY <3>1
  <2>2. Flowing(r, <<>>, all, have)
    BY <1>1, <1>11, <2>1 DEF Flowing, Left
  <2> QED BY <1>6, <1>12, <1>13, <1>14, <2>2
<1>15. CASE n # c
  <2>1. w # <<>>
    <3>1. Len(w) # 0
      BY <1>4, <1>7, <1>8, <1>15 DEF Block
    <3> QED BY <3>1
  <2>2. PICK b : b = a + n /\ b = Len(y)
    BY <1>12 DEF Block
  <2>3. Left(<<[msg |-> z, written |-> b]>>, w)
    BY <1>11, <2>1, <2>2 DEF Left
  <2>4. [q EXCEPT ![1].written = @ + n] = <<[msg |-> z, written |-> b]>>
    BY <1>2, <1>4, <2>2
  <2>5. Flowing(r, <<[msg |-> z, written |-> b]>>, all, have)
    BY <1>1, <1>11, <2>3 DEF Flowing
  <2> QED BY <1>6, <1>12, <1>13, <1>15, <2>4, <2>5
<1> QED BY <1>14, <1>15

(* The cells in the socket begin with those of the next message.           *)
LEMMA FlowsFirst ==
  ASSUME NEW s, NEW q, NEW all, NEW have, Flowing(s, q, all, have),
         NEW e, Block(s, e), e >= 8
  PROVE  \E m \in Messages : \E h, t, n, k, s1 :
           /\ Joined(s, h, s1) /\ Joined(Frame(m), h, t) /\ Headed(h, n)
           /\ k = n + 2 /\ Block(t, k)
           /\ \A d : Block(s1, d) /\ k <= d =>
                \E r : Joined(s1, t, r) /\ Flowing(r, q, all, Append(have, Record(m)))
<1>1. PICK rs, fs, u : /\ Log(rs, fs) /\ Left(q, u) /\ Joined(FlattenSeq(fs), s, u)
                       /\ have \in Seq(Records) /\ all = have \o rs
  BY DEF Flowing
<1>2. PICK x : x = FlattenSeq(fs) /\ Joined(x, s, u)
  BY <1>1
<1>3. fs # <<>>
  <2> SUFFICES ASSUME fs = <<>> PROVE FALSE
    OBVIOUS
  <2>1. x = <<>>
    BY <1>2, FlattenEmpty
  <2>2. u \in Seq(Cell)
    BY <1>2 DEF Joined
  <2>3. PICK c \in Nat : Block(u, c)
    BY <2>2, BlockOf
  <2>4. e \in Nat
    BY DEF Block
  <2>5. Block(x, e + c)
    BY <1>2, <2>3, <2>4, JoinBlock
  <2>6. Len(<<>>) = e + c
    BY <2>1, <2>5 DEF Block
  <2> QED BY <2>3, <2>4, <2>6
<1>4. PICK m \in Messages : \E rt, ft :
        /\ Log(rt, ft) /\ rs = <<Record(m)>> \o rt
        /\ Joined(FlattenSeq(fs), Frame(m), FlattenSeq(ft))
  BY <1>1, <1>3, LogFirst
<1>5. PICK rt, ft, g : /\ Log(rt, ft) /\ rs = <<Record(m)>> \o rt
                       /\ g = FlattenSeq(ft) /\ Joined(x, Frame(m), g)
  BY <1>2, <1>4
<1>6. PICK h, t, n, k : /\ Joined(Frame(m), h, t) /\ Headed(h, n) /\ k = n + 2 /\ Block(t, k)
  BY FrameIs, FrameCut
<1>7. PICK y : Joined(x, h, y) /\ Joined(y, t, g)
  BY <1>5, <1>6, JoinRightward
<1>8. PICK s1 : Joined(s, h, s1) /\ Joined(y, s1, u)
  <2>1. Block(h, 8) /\ 8 <= e
    BY <1>6 DEF Headed, Block
  <2> QED BY <1>2, <1>7, <2>1, Prefixed
<1>9. ASSUME NEW d, Block(s1, d), k <= d
      PROVE  \E r : Joined(s1, t, r) /\ Flowing(r, q, all, Append(have, Record(m)))
  <2>1. PICK r : Joined(s1, t, r) /\ Joined(g, r, u)
    BY <1>6, <1>7, <1>8, <1>9, Prefixed
  <2>2. PICK one \in Seq(Records) : one = <<Record(m)>> /\ Append(have, Record(m)) = have \o one
    <3>1. Record(m) \in Records /\ have \in Seq(Records)
      BY <1>1, FrameIs
    <3>2. <<Record(m)>> \in Seq(Records)
      BY <3>1
    <3>3. Append(have, Record(m)) = have \o <<Record(m)>>
      BY <3>1, AppendIsConcat
    <3> QED BY <3>2, <3>3
  <2>3. rt \in Seq(Records) /\ have \in Seq(Records)
    BY <1>1, <1>5 DEF Log
  <2>4. all = have \o (one \o rt)
    BY <1>1, <1>5, <2>2
  <2>5. have \o (one \o rt) = (have \o one) \o rt
    BY <2>2, <2>3, ConcatAssociative
  <2>6. PICK got1 : got1 = Append(have, Record(m)) /\ got1 = have \o one
    BY <2>2
  <2>7. got1 \in Seq(Records) /\ all = got1 \o rt
    <3>1. have \o one \in Seq(Records)
      BY <2>2, <2>3, ConcatProperties
    <3> QED BY <2>4, <2>5, <2>6, <3>1
  <2>8. Flowing(r, q, all, got1)
    BY <1>1, <1>5, <2>1, <2>7 DEF Flowing
  <2> QED BY <2>1, <2>6, <2>8
<1> QED BY <1>6, <1>8, <1>9
-----------------------------------------------------------------------------
(* A read that finds less than it asks for sets cut, which stays set.      *)
LEMMA ReadPayloadCut ==
  ASSUME NEW s, NEW err, NEW buf, NEW hdr, NEW rem, NEW wasCut,
         ReadPayload(s, err, buf, hdr, rem, wasCut), ~cut'
  PROVE  ~wasCut /\ ~(Read(s, rem, err).n < rem)
<1>1. cut' = (wasCut \/ Read(s, rem, err).n < rem)
  BY DEF ReadPayload
<1> QED BY <1>1

(* So it is for the header checked before it.                              *)
LEMMA CheckHeaderCut ==
  ASSUME NEW s, NEW err, NEW buf, NEW hdr, NEW wasCut,
         CheckHeader(s, err, buf, hdr, wasCut), ~cut'
  PROVE  ~wasCut
BY ReadPayloadCut DEF CheckHeader

(* For the header read before that.                                        *)
LEMMA ReadHeaderCut ==
  ASSUME ReadHeader, ~cut'
  PROVE  ~cut
BY CheckHeaderCut DEF ReadHeader

(* And for all of upk_read_packets.                                        *)
LEMMA ReadPacketsCut ==
  ASSUME ReadPackets, ~cut'
  PROVE  ~cut
BY ReadHeaderCut, ReadPayloadCut DEF ReadPackets

(* upk_read_packets with nothing of an earlier packet left: it takes one   *)
(* message out of the socket, and hands over that one.                     *)
LEMMA ReadStep ==
  ASSUME WireInv, ReadPackets, ~cut'
  PROVE  Orderly'
<1>1. ~cut /\ Orderly
  BY ReadPacketsCut DEF WireInv
<1>2. /\ alive /\ nHdr = 0 /\ nRem = 0 /\ readbuf = <<>>
      /\ Flowing(stream, writeq, sent, got)
  BY <1>1 DEF Orderly
<1>3. ReadHeader /\ Readable /\ sent' = sent /\ writeq' = writeq
  BY <1>2 DEF ReadPackets, sender
<1>4. PICK e \in Nat : Block(stream, e)
  BY <1>2, FlowsBlock
<1>5. PICK r : r = Read(stream, 8, "ok")
  OBVIOUS
<1>6. HeaderLen = 8 /\ FooterLen = 2 /\ WordLen = 2 /\ 8 - 0 = 8
  BY DEF HeaderLen, FooterLen, WordLen
<1>7. \/ /\ Disconnect /\ UNCHANGED <<stream, readbuf, nHdr, nRem, cut>>
      \/ /\ r.n > 0
         /\ CheckHeader(r.rest, r.errno, Overlay(<<>>, 0, r.cells), 0 + r.n, cut \/ r.n < 8)
  BY <1>2, <1>3, <1>5, <1>6 DEF ReadHeader
<1>8. CASE Disconnect /\ UNCHANGED <<stream, readbuf, nHdr, nRem, cut>>
  BY <1>2, <1>3, <1>8 DEF Orderly, Disconnect
<1>9. CASE CheckHeader(r.rest, r.errno, Overlay(<<>>, 0, r.cells), 0 + r.n, cut \/ r.n < 8)
  <2>1. ~(r.n < 8)
    BY <1>9, CheckHeaderCut
  <2>2. e >= 8
    <3>1. e < 8 => r.n < 8
      BY <1>4, <1>5, ReadIs
    <3> QED BY <1>4, <2>1, <3>1
  <2>3. PICK m \in Messages : \E h, t, n, k, s1 :
          /\ Joined(stream, h, s1) /\ Joined(Frame(m), h, t) /\ Headed(h, n)
          /\ k = n + 2 /\ Block(t, k)
          /\ \A d : Block(s1, d) /\ k <= d =>
               \E q : Joined(s1, t, q) /\ Flowing(q, writeq, sent, Append(got, Record(m)))
    BY <1>2, <1>4, <2>2, FlowsFirst
  <2>4. PICK h, t, n, k, s1 :
          /\ Joined(stream, h, s1) /\ Joined(Frame(m), h, t) /\ Headed(h, n)
          /\ k = n + 2 /\ Block(t, k)
          /\ \A d : Block(s1, d) /\ k <= d =>
               \E q : Joined(s1, t, q) /\ Flowing(q, writeq, sent, Append(got, Record(m)))
    BY <2>3
  <2>5. /\ Block(h, 8) /\ n \in Nat /\ n <= MaxPacket
        /\ Number(Cells(h, 0, 2)) = n /\ Number(Cells(h, 2, 2)) = 0
    BY <2>4 DEF Headed
  <2>6. r = [cells |-> h, n |-> 8, rest |-> s1, errno |-> "ok"]
    BY <1>4, <1>5, <2>4, <2>5, ReadIs
  <2>7. Overlay(<<>>, 0, r.cells) = h
    BY <2>5, <2>6, OverlayStart
  <2>8. PICK wasCut : CheckHeader(s1, "ok", h, 8, wasCut)
    <3>1. 0 + r.n = 8 /\ r.rest = s1 /\ r.errno = "ok"
      BY <2>6
    <3> QED BY <1>9, <2>7, <3>1
  <2>9. ReadPayload(s1, "ok", h, 0, k, wasCut)
    <3>1. ~(n > MaxPacket) /\ k = n + FooterLen
      BY <1>6, <2>4, <2>5, WireAssumption
    <3>2. ReadPayload(s1, "ok", h, 0, n + FooterLen, wasCut)
      BY <1>6, <2>5, <2>8, <3>1 DEF CheckHeader
    <3> QED BY <3>1, <3>2
  <2>10. PICK p : p = Read(s1, k, "ok") /\ ~(p.n < k)
    BY <2>9, ReadPayloadCut
  <2>11. k \in Nat \ {0}
    BY <2>4, <2>5
  <2>12. PICK d \in Nat : Block(s1, d) /\ k <= d
    <3>1. s1 \in Seq(Cell)
      BY <2>4 DEF Joined
    <3>2. PICK d \in Nat : Block(s1, d)
      BY <3>1, BlockOf
    <3>3. d < k => p.n < k
      BY <2>10, <2>11, <3>2, ReadIs
    <3> QED BY <2>10, <2>11, <3>2, <3>3
  <2>13. PICK q : Joined(s1, t, q) /\ Flowing(q, writeq, sent, Append(got, Record(m)))
    BY <2>4, <2>12
  <2>14. p = [cells |-> t, n |-> k, rest |-> q, errno |-> "ok"]
    BY <2>4, <2>10, <2>11, <2>12, <2>13, ReadIs
  <2>15. Overlay(h, 8, t) = Frame(m)
    BY <2>4, <2>5, OverlayBehind
  <2>16. DeserializePacket(Frame(m), MaxPacket) = <<Record(m)>>
    <3>1. Frame(m) = SerializePacket(CallPkt(m))
      BY FrameIs, FrameFacts
    <3> QED BY <3>1, FrameIs, PacketBack DEF Record
  <2>17. Callback(Record(m)) <=> got' = Append(got, Record(m))
    <3>1. MsgSizes[MsgtypeIdx(CallPkt(m).payload.val.msgtype) + 1] = m.type
      BY FrameIs, TypeSent
    <3> QED BY <3>1 DEF Callback, Record
  <2>18. /\ stream' = q /\ nHdr' = 0 /\ readbuf' = <<>> /\ nRem' = 0 /\ alive' = alive
         /\ got' = Append(got, Record(m))
    <3>1. /\ p.n = k /\ p.rest = q /\ p.errno = "ok" /\ p.cells = t /\ k - p.n = 0
          /\ k # 0 /\ <<Record(m)>> # <<>> /\ <<Record(m)>>[1] = Record(m)
      BY <2>11, <2>14
    <3>2. stream' = q /\ nHdr' = 0
      BY <2>9, <2>10, <3>1 DEF ReadPayload
    <3>3. /\ readbuf' = <<>> /\ nRem' = 0
          /\ Callback(Record(m)) /\ UNCHANGED <<fd, alive>>
      BY <1>6, <2>9, <2>10, <2>15, <2>16, <3>1 DEF ReadPayload
    <3> QED BY <2>17, <3>2, <3>3
  <2> QED BY <1>2, <1>3, <2>13, <2>18 DEF Orderly
<1> QED BY <1>7, <1>8, <1>9

(* Until a read finds less than it asked for, the receiver is between two  *)
(* packets, and what is in the socket and in the write queue are the       *)
(* packets of the messages queued and not yet handed over, in order: no    *)
(* cell is missing, there twice, or of another packet.                     *)
THEOREM WireInvAlways == WireSpec => []WireInv
<1>1. WireInit => WireInv
  BY FlowsInit DEF WireInit, WireInv, Orderly
<1>2. WireInv /\ [WireNext]_wireVars => WireInv'
  <2> SUFFICES ASSUME WireInv, [WireNext]_wireVars, ~cut' PROVE Orderly'
    BY DEF WireInv
  <2>1. ASSUME NEW m \in Messages, QueuePacket(m) PROVE Orderly'
    <3>1. UNCHANGED <<stream, alive, readbuf, nHdr, nRem, got, cut>> /\ writeq = <<>>
      BY <2>1 DEF QueuePacket, receiver
    <3>2. writeq' = <<[msg |-> Frame(m), written |-> 0]>> /\ sent' = Append(sent, Record(m))
      BY <2>1 DEF QueuePacket, Frame, Record, CallPkt
    <3>3. Orderly
      BY <3>1 DEF WireInv
    <3>4. Flowing(stream, <<>>, sent, got)
      BY <3>1, <3>3 DEF Orderly
    <3>5. Flowing(stream, <<[msg |-> Frame(m), written |-> 0]>>, Append(sent, Record(m)), got)
      BY <3>4, FlowsQueued
    <3> QED BY <3>1, <3>2, <3>3, <3>5 DEF Orderly
  <2>2. ASSUME WritePackets PROVE Orderly'
    <3>1. UNCHANGED <<sent, alive, readbuf, nHdr, nRem, got, cut>> /\ writeq # <<>>
      BY <2>2 DEF WritePackets, receiver
    <3>2. Orderly
      BY <3>1 DEF WireInv
    <3>3. Flowing(stream, writeq, sent, got)
      BY <3>2 DEF Orderly
    <3>4. PICK w : w = writeq[1]
      OBVIOUS
    <3>5. PICK left : left = Len(w.msg) - w.written
      OBVIOUS
    <3>6. left \in 1 .. left
      <4>1. PICK z, x, u : /\ writeq = <<[msg |-> z, written |-> Len(x)]>> /\ Joined(z, x, u)
                           /\ u # <<>>
        BY <3>1, <3>3 DEF Flowing, Left
      <4>2. x \in Seq(Cell) /\ u \in Seq(Cell)
        BY <4>1 DEF Joined
      <4>3. PICK a \in Nat, c \in Nat : Block(x, a) /\ a = Len(x) /\ Block(u, c) /\ c = Len(u)
        BY <4>2, BlockOf
      <4>4. Block(z, a + c) /\ c # 0
        <5>1. c # 0
          BY <4>1, <4>2, <4>3, EmptySeq
        <5> QED BY <4>1, <4>3, <5>1, JoinBlock
      <4>5. left = c
        BY <3>4, <3>5, <4>1, <4>3, <4>4 DEF Block
      <4> QED BY <4>3, <4>4, <4>5
    <3>7. PICK n \in 1 .. left :
            /\ stream' = stream \o Cells(w.msg, w.written, n)
            /\ writeq' = IF n = left THEN <<>> ELSE [writeq EXCEPT ![1].written = @ + n]
      BY <2>2, <3>4, <3>5, <3>6 DEF WritePackets
    <3>8. Flowing(stream', writeq', sent, got)
      BY <3>1, <3>3, <3>4, <3>5, <3>7, FlowsWritten
    <3> QED BY <3>1, <3>2, <3>8 DEF Orderly
  <2>3. ASSUME PeerClose PROVE Orderly'
    BY <2>3 DEF PeerClose, receiver, WireInv, Orderly
  <2>4. ASSUME ReadPackets PROVE Orderly'
    BY <2>4, ReadStep
  <2>5. ASSUME UNCHANGED wireVars PROVE Orderly'
    BY <2>5 DEF wireVars, WireInv, Orderly
  <2> QED BY <2>1, <2>2, <2>3, <2>4, <2>5 DEF WireNext
<1> QED BY <1>1, <1>2, PTL DEF WireSpec

(* For all messages, however they are split by short writes: until a read  *)
(* finds less than it asked for, the receiver runs and has handed over the *)
(* messages queued first, as they were and in order (upk_queue_packet,     *)
(* upk_write_packets, upk_read_packets,                                    *)
(* upk_call_received_packet_callbacks).                                    *)
THEOREM IntactAlways == WireSpec => []Intact
<1>1. WireInv => Intact
  <2> SUFFICES ASSUME WireInv, ~cut PROVE alive /\ IsPrefix(got, sent)
    BY DEF Intact
  <2>1. Orderly
    BY DEF WireInv
  <2>2. PICK rs : rs \in Seq(Records) /\ got \in Seq(Records) /\ sent = got \o rs
    BY <2>1 DEF Orderly, Flowing, Log
  <2>3. PICK a \in Nat, c \in Nat : a = Len(got) /\ c = Len(rs)
    BY <2>2
  <2>4. Len(sent) = a + c
    BY <2>2, <2>3, ConcatProperties
  <2>5. SubSeq(got, 1, a) = got
    BY <2>2, <2>3, SubSeqFull
  <2>6. SubSeq(sent, 1, a) = got
    <3>1. CASE a = 0
      <4>1. got = <<>>
        BY <2>2, <2>3, <3>1, EmptySeq
      <4>2. SubSeq(sent, 1, 0) = <<>>
        BY SubSeqEmpty
      <4> QED BY <3>1, <4>1, <4>2
    <3>2. CASE a # 0
      <4>1. 1 \in 1 .. Len(got) /\ a \in 1 .. Len(got)
        BY <2>3, <3>2
      <4>2. SubSeq(got \o rs, 1, a) = SubSeq(got, 1, a)
        BY <2>2, <4>1, SubSeqOfConcat1
      <4> QED BY <2>2, <2>5, <4>2
    <3> QED BY <3>1, <3>2
  <2>7. IsPrefix(got, sent)
    BY <2>3, <2>4, <2>5, <2>6 DEF IsPrefix
  <2> QED BY <2>1, <2>7 DEF Orderly
<1> QED BY <1>1, WireInvAlways, PTL
=============================================================================
