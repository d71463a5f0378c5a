------------------------- MODULE PacketTagListProofs -------------------------
(***************************************************************************)
(* Packet tags, for any number of packets, types and values and every      *)
(* sequence of calls: a node counts the pointers to it, every node is on   *)
(* the list of a packet, and the tree with its shared nodes is as good as  *)
(* a list per packet.                                                      *)
(***************************************************************************)
EXTENDS PacketTagList, SumTheorems
LOCAL INSTANCE SequencesExt
LOCAL INSTANCE FiniteSetsExt

Nodes(s) == DOMAIN s.node
Places(s) == Packet \cup Nodes(s)

Tgt(s, l) == IF l \in Packet THEN s.next[l] ELSE s.node[l].next
In(s, a)  == {l \in Places(s) : Tgt(s, l) = a}

Shape(s) ==
  /\ s = [next |-> s.next, node |-> s.node]
  /\ s.next \in [Packet -> Nodes(s) \cup {Null}]
  /\ Nodes(s) \subseteq Address
  /\ s.node \in [Nodes(s) -> TagData]
  /\ \A a \in Nodes(s) : s.node[a].next \in Nodes(s) \cup {Null}

(* The list q behind the link l: the i-th link of the way leads to the     *)
(* i-th node, the last one nowhere.                                        *)
LinkAt(q, l, i) == IF i = 1 THEN l ELSE q[i - 1]
NodeAt(q, i)    == IF i <= Len(q) THEN q[i] ELSE Null
IsPath(s, l, q) ==
  /\ q \in Seq(Nodes(s))
  /\ \A i \in 1..(Len(q) + 1) : Tgt(s, LinkAt(q, l, i)) = NodeAt(q, i)

OneEach(s, q) ==
  \A i, j \in 1..Len(q) : s.node[q[i]].tid = s.node[q[j]].tid => i = j

On(f, a) == \E p \in Packet : \E i \in 1..Len(f[p]) : f[p][i] = a

(* The packets have the lists f, which are all there is. *)
Good(s, f) ==
  /\ Shape(s)
  /\ f \in [Packet -> Seq(Address)]
  /\ \A p \in Packet : IsPath(s, p, f[p]) /\ OneEach(s, f[p])
  /\ \A a \in Nodes(s) : On(f, a)
  /\ \A a \in Nodes(s) : s.node[a].count = Cardinality(In(s, a))

With(f, p, g) == [f EXCEPT ![p] = g]

(* The first n nodes of q have one pointer each. *)
Alone(s, q, n) == \A k \in 1..n : s.node[q[k]].count = 1

TagAt(s, a) == [tid |-> s.node[a].tid, data |-> s.node[a].data]

(* The tags of all packets but p are those they were. *)
Others(s, t, f, p) ==
  \A q \in Packet \ {p} : \A k \in 1..Len(f[q]) :
     f[q][k] \in Nodes(t) /\ TagAt(t, f[q][k]) = TagAt(s, f[q][k])

-----------------------------------------------------------------------------
LEMMA Apart ==
  /\ Address \subseteq Nat /\ Null \notin Address /\ Packet \cap Address = {}
  /\ None \notin Value
  /\ \A tag \in Tag : tag.tid \in Type /\ tag.data \in Value
                      /\ tag = [tid |-> tag.tid, data |-> tag.data]
  <1>1. \A tag \in Tag : tag \in [tid : Type, data : Value]
    BY TagListAssumption
  <1> QED
    BY <1>1, TagListAssumption

LEMMA NodeType ==
  ASSUME NEW s, Shape(s), NEW a \in Nodes(s)
  PROVE  /\ a \in Address /\ a # Null /\ a \notin Packet
         /\ s.node[a].tid \in Type /\ s.node[a].data \in Value
         /\ s.node[a].count \in Nat /\ s.node[a].next \in Nodes(s) \cup {Null}
         /\ s.node[a] = [tid |-> s.node[a].tid, data |-> s.node[a].data,
                         count |-> s.node[a].count, next |-> s.node[a].next]
  BY Apart DEF Shape, TagData

LEMMA PathStep ==
  ASSUME NEW s, NEW l, NEW q, IsPath(s, l, q), NEW i \in 1..Len(q)
  PROVE  q[i] \in Nodes(s) /\ Tgt(s, LinkAt(q, l, i)) = q[i]
  BY DEF IsPath, NodeAt

LEMMA PathEnd ==
  ASSUME NEW s, NEW l, NEW q, IsPath(s, l, q)
  PROVE  Len(q) \in Nat /\ Tgt(s, LinkAt(q, l, Len(q) + 1)) = Null
  BY DEF IsPath, NodeAt

(* From a node on the way to the next. *)
LEMMA PathNext ==
  ASSUME NEW s, Shape(s), NEW l, NEW q, IsPath(s, l, q), NEW i \in 1..Len(q)
  PROVE  s.node[q[i]].next = NodeAt(q, i + 1)
  <1>1. q[i] \in Nodes(s) /\ q[i] \notin Packet
    BY PathStep, NodeType
  <1>2. i + 1 \in 1..(Len(q) + 1) /\ LinkAt(q, l, i + 1) = q[i]
    BY PathEnd DEF LinkAt
  <1>3. Tgt(s, q[i]) = NodeAt(q, i + 1)
    BY <1>2 DEF IsPath
  <1> QED
    BY <1>1, <1>3 DEF Tgt

(* Behind a link there is one list only. *)
LEMMA OneList ==
  ASSUME NEW s, Shape(s), NEW l, NEW q, IsPath(s, l, q), NEW r, IsPath(s, l, r)
  PROVE  q = r
  <1> DEFINE P == {n \in Nat : \A j \in 1..n :
                      j <= Len(q) => j <= Len(r) /\ q[j] = r[j]}
  <1>0. /\ q \in Seq(Nodes(s)) /\ r \in Seq(Nodes(s))
        /\ Len(q) \in Nat /\ Len(r) \in Nat
        /\ \A j \in 1..Len(q) : q[j] \in Nodes(s) /\ q[j] # Null
        /\ \A j \in 1..Len(r) : r[j] \in Nodes(s) /\ r[j] # Null
    <2>1. q \in Seq(Nodes(s)) /\ r \in Seq(Nodes(s))
      BY DEF IsPath
    <2>2. \A a \in Nodes(s) : a # Null
      BY NodeType
    <2> QED
      BY <2>1, <2>2
  <1>1. 0 \in P
    OBVIOUS
  <1>2. ASSUME NEW n \in P PROVE n + 1 \in P
    <2>1. n \in Nat /\ \A j \in 1..n : j <= Len(q) => j <= Len(r) /\ q[j] = r[j]
      OBVIOUS
    <2>2. ASSUME n + 1 <= Len(q)
          PROVE  n + 1 <= Len(r) /\ q[n + 1] = r[n + 1]
      <3>1. Tgt(s, LinkAt(q, l, n + 1)) = q[n + 1]
        BY <1>0, <2>1, <2>2, PathStep
      <3>2. n + 1 \in 1..(Len(r) + 1) /\ LinkAt(r, l, n + 1) = LinkAt(q, l, n + 1)
        BY <1>0, <2>1, <2>2 DEF LinkAt
      <3>3. NodeAt(r, n + 1) = q[n + 1]
        BY <3>1, <3>2 DEF IsPath
      <3> QED
        BY <1>0, <2>1, <2>2, <3>3 DEF NodeAt
    <2>3. \A j \in 1..(n + 1) : j <= Len(q) => j <= Len(r) /\ q[j] = r[j]
      BY <2>1, <2>2
    <2> QED
      BY <2>1, <2>3
  <1>3. P = Nat
    BY <1>1, <1>2, Induction
  <1>4. \A j \in 1..Len(q) : j <= Len(r) /\ q[j] = r[j]
    BY <1>0, <1>3
  <1> HIDE DEF P
  <1>5. Len(q) = Len(r)
    <2> SUFFICES ASSUME Len(r) > Len(q) PROVE FALSE
      BY <1>0, <1>4
    <2> DEFINE j == Len(q) + 1
    <2>1. j \in 1..Len(r) /\ Tgt(s, LinkAt(r, l, j)) = r[j]
      BY <1>0, PathStep
    <2>2. LinkAt(r, l, j) = LinkAt(q, l, j)
      BY <1>0, <1>4 DEF LinkAt
    <2>3. Tgt(s, LinkAt(q, l, j)) = Null
      BY PathEnd
    <2> QED
      BY <1>0, <2>1, <2>2, <2>3
  <1> QED
    BY <1>0, <1>4, <1>5, SeqEqual

LEMMA NothingBehind ==
  ASSUME NEW s, NEW l, Tgt(s, l) = Null
  PROVE  IsPath(s, l, << >>)
  <1>1. << >> \in Seq(Nodes(s)) /\ Len(<< >>) = 0
    OBVIOUS
  <1>2. \A i \in 1..(0 + 1) : Tgt(s, LinkAt(<< >>, l, i)) = Null
    BY DEF LinkAt
  <1> QED
    BY <1>1, <1>2 DEF IsPath, NodeAt

(* What is behind the first node of a list. *)
LEMMA Behind ==
  ASSUME NEW s, Shape(s), NEW l, NEW q, IsPath(s, l, q), q # << >>
  PROVE  /\ q[1] \in Nodes(s) /\ Tgt(s, l) = q[1]
         /\ IsPath(s, q[1], Tail(q)) /\ q = <<q[1]>> \o Tail(q)
         /\ Len(Tail(q)) = Len(q) - 1
  <1> DEFINE r == Tail(q)
  <1>1. q \in Seq(Nodes(s)) /\ Len(q) \in Nat /\ Len(q) >= 1
    BY EmptySeq DEF IsPath
  <1>2. /\ r \in Seq(Nodes(s)) /\ Len(r) = Len(q) - 1
        /\ \A i \in 1..Len(r) : r[i] = q[i + 1]
    BY <1>1, HeadTailProperties, EmptySeq
  <1>3. q = <<q[1]>> \o r
    BY <1>1
  <1> HIDE DEF r
  <1>4. q[1] \in Nodes(s) /\ Tgt(s, l) = q[1]
    <2>1. LinkAt(q, l, 1) = l
      BY DEF LinkAt
    <2> QED
      BY <1>1, <2>1, PathStep
  <1>5. ASSUME NEW i \in 1..(Len(r) + 1)
        PROVE  Tgt(s, LinkAt(r, q[1], i)) = NodeAt(r, i)
    <2>1. i + 1 \in 1..(Len(q) + 1) /\ LinkAt(r, q[1], i) = LinkAt(q, l, i + 1)
      BY <1>1, <1>2 DEF LinkAt
    <2>2. NodeAt(r, i) = NodeAt(q, i + 1)
      BY <1>1, <1>2 DEF NodeAt
    <2> QED
      BY <2>1, <2>2 DEF IsPath
  <1>6. IsPath(s, q[1], r)
    BY <1>2, <1>5 DEF IsPath
  <1> QED
    BY <1>2, <1>3, <1>4, <1>6 DEF r

LEMMA InFront ==
  ASSUME NEW s, Shape(s), NEW l, NEW a \in Nodes(s), Tgt(s, l) = a,
         NEW q, IsPath(s, a, q)
  PROVE  IsPath(s, l, <<a>> \o q)
  <1> DEFINE r == <<a>> \o q
  <1>1. q \in Seq(Nodes(s)) /\ Len(q) \in Nat
    BY DEF IsPath
  <1>2. /\ r \in Seq(Nodes(s)) /\ Len(r) = Len(q) + 1 /\ r[1] = a
        /\ \A i \in 1..Len(q) : r[i + 1] = q[i]
    BY <1>1
  <1> HIDE DEF r
  <1>3. ASSUME NEW i \in 1..(Len(r) + 1)
        PROVE  Tgt(s, LinkAt(r, l, i)) = NodeAt(r, i)
    <2>1. CASE i = 1
      BY <1>1, <1>2, <2>1 DEF LinkAt, NodeAt
    <2>2. CASE i # 1
      <3>1. PICK j \in 1..(Len(q) + 1) : i = j + 1
        BY <1>1, <1>2, <2>2
      <3>2. LinkAt(r, l, i) = LinkAt(q, a, j)
        <4>1. CASE j = 1
          BY <1>2, <3>1, <4>1 DEF LinkAt
        <4>2. CASE j # 1
          <5>1. j - 1 \in 1..Len(q) /\ r[(j - 1) + 1] = q[j - 1] /\ i - 1 = (j - 1) + 1
            BY <1>1, <1>2, <3>1, <4>2
          <5> QED
            BY <3>1, <4>2, <5>1 DEF LinkAt
        <4> QED
          BY <4>1, <4>2
      <3>3. NodeAt(r, i) = NodeAt(q, j)
        BY <1>1, <1>2, <3>1 DEF NodeAt
      <3> QED
        BY <3>2, <3>3 DEF IsPath
    <2> QED
      BY <2>1, <2>2
  <1>4. IsPath(s, l, r)
    BY <1>2, <1>3 DEF IsPath
  <1> QED
    BY <1>4 DEF r

(* The rest of a list, from one of its nodes. *)
LEMMA RestOfList ==
  ASSUME NEW s, Shape(s), NEW l, NEW q, IsPath(s, l, q), NEW i \in 1..Len(q)
  PROVE  \E r : IsPath(s, q[i], r)
  <1> DEFINE P == {n \in Nat : n + 1 <= Len(q) => \E r : IsPath(s, q[n + 1], r)}
  <1>0. q \in Seq(Nodes(s)) /\ Len(q) \in Nat
    BY DEF IsPath
  <1>1. 0 \in P
    <2>1. ASSUME 1 <= Len(q) PROVE \E r : IsPath(s, q[1], r)
      <3>1. q # << >>
        BY <1>0, <2>1
      <3> QED
        BY <3>1, Behind
    <2> QED
      BY <2>1
  <1>2. ASSUME NEW n \in P PROVE n + 1 \in P
    <2>1. n \in Nat /\ (n + 1 <= Len(q) => \E r : IsPath(s, q[n + 1], r))
      OBVIOUS
    <2>2. ASSUME (n + 1) + 1 <= Len(q) PROVE \E r : IsPath(s, q[(n + 1) + 1], r)
      <3>1. PICK r : IsPath(s, q[n + 1], r)
        BY <1>0, <2>1, <2>2
      <3>2. n + 1 \in 1..Len(q) /\ (n + 1) + 1 \in 1..Len(q)
        BY <1>0, <2>1, <2>2
      <3>3. s.node[q[n + 1]].next = q[(n + 1) + 1]
        BY <1>0, <3>2, PathNext DEF NodeAt
      <3>4. q[n + 1] \in Nodes(s) /\ q[n + 1] \notin Packet
            /\ q[(n + 1) + 1] \in Nodes(s) /\ q[(n + 1) + 1] # Null
        BY <3>2, PathStep, NodeType
      <3>5. Tgt(s, q[n + 1]) = q[(n + 1) + 1]
        BY <3>3, <3>4 DEF Tgt
      <3>6. r # << >>
        <4> SUFFICES ASSUME r = << >> PROVE FALSE
          OBVIOUS
        <4>1. LinkAt(r, q[n + 1], Len(r) + 1) = q[n + 1] /\ Tgt(s, LinkAt(r, q[n + 1], Len(r) + 1)) = Null
          BY <3>1, PathEnd DEF LinkAt
        <4> QED
          BY <3>4, <3>5, <4>1
      <3>7. Tgt(s, q[n + 1]) = r[1] /\ IsPath(s, r[1], Tail(r))
        BY <3>1, <3>6, Behind
      <3> QED
        BY <3>5, <3>7
    <2> QED
      BY <2>1, <2>2
  <1>3. P = Nat
    BY <1>1, <1>2, Induction
  <1>4. i - 1 \in Nat /\ (i - 1) + 1 = i /\ i <= Len(q)
    BY <1>0
  <1> QED
    BY <1>3, <1>4

-----------------------------------------------------------------------------
(* Chain finds the list of a packet. *)
IsWalk(h, s) ==
  h = [a \in Address \cup {Null} |->
         IF a \in DOMAIN s.node THEN <<a>> \o h[s.node[a].next] ELSE << >>]

LEMMA ChainUnfold ==
  ASSUME NEW s, NEW p
  PROVE  Chain(s, p) = (CHOOSE h : IsWalk(h, s))[s.next[p]]
  BY Zenon DEF Chain, IsWalk

ListFrom(s, a) == CHOOSE q : IsPath(s, a, q)

LEMMA WalkExists ==
  ASSUME NEW s, Shape(s), \A a \in Nodes(s) : \E q : IsPath(s, a, q)
  PROVE  \E h : IsWalk(h, s)
  <1>0. \A a \in Nodes(s) : IsPath(s, a, ListFrom(s, a))
    BY Zenon DEF ListFrom
  <1>1. PICK h : h = [a \in Address \cup {Null} |->
                        IF a \in Nodes(s) THEN <<a>> \o ListFrom(s, a) ELSE << >>]
    OBVIOUS
  <1>2. Nodes(s) \subseteq Address /\ Null \notin Address
    BY Apart DEF Shape
  <1>3. ASSUME NEW a \in Nodes(s)
        PROVE  h[s.node[a].next] = ListFrom(s, a)
    <2> DEFINE q == ListFrom(s, a)
    <2>1. IsPath(s, a, q) /\ a \notin Packet /\ s.node[a].next \in Nodes(s) \cup {Null}
      BY <1>0, NodeType
    <2> HIDE DEF q
    <2>2. Tgt(s, a) = s.node[a].next
      BY <2>1 DEF Tgt
    <2>3. CASE q = << >>
      <3>1. LinkAt(q, a, Len(q) + 1) = a
        BY <2>3 DEF LinkAt
      <3>2. s.node[a].next = Null
        BY <2>1, <2>2, <3>1, PathEnd
      <3>3. h[Null] = << >>
        BY <1>1, <1>2
      <3> QED
        BY <2>3, <3>2, <3>3 DEF q
    <2>4. CASE q # << >>
      <3>1. PICK b : b = q[1]
        OBVIOUS
      <3>2. /\ b \in Nodes(s) /\ Tgt(s, a) = b /\ IsPath(s, b, Tail(q))
            /\ q = <<b>> \o Tail(q)
        BY <2>1, <2>4, <3>1, Behind
      <3>3. IsPath(s, b, ListFrom(s, b))
        BY <1>0, <3>2
      <3>4. ListFrom(s, b) = Tail(q)
        BY <3>2, <3>3, OneList
      <3>5. h[b] = <<b>> \o Tail(q)
        BY <1>1, <1>2, <3>2, <3>4
      <3> QED
        BY <2>2, <3>2, <3>5 DEF q
    <2> QED
      BY <2>3, <2>4
  <1>4. h = [a \in Address \cup {Null} |->
               IF a \in Nodes(s) THEN <<a>> \o h[s.node[a].next] ELSE << >>]
    BY <1>1, <1>3
  <1>5. IsWalk(h, s)
    BY <1>4, Zenon DEF IsWalk, Nodes
  <1> QED
    BY <1>5

LEMMA WalkIs ==
  ASSUME NEW s, Shape(s), NEW h, IsWalk(h, s)
  PROVE  \A q, l : IsPath(s, l, q) => h[Tgt(s, l)] = q
  <1>0. /\ \A a \in Nodes(s) : h[a] = <<a>> \o h[s.node[a].next]
        /\ h[Null] = << >>
    <2>1. Nodes(s) \subseteq Address /\ Null \notin Address
      BY Apart DEF Shape
    <2>2. h = [a \in Address \cup {Null} |->
               IF a \in Nodes(s) THEN <<a>> \o h[s.node[a].next] ELSE << >>]
      BY Zenon DEF IsWalk, Nodes
    <2> QED
      BY <2>1, <2>2
  <1> DEFINE P == {n \in Nat : \A q, l : IsPath(s, l, q) /\ Len(q) = n
                                            => h[Tgt(s, l)] = q}
  <1>1. 0 \in P
    <2>1. ASSUME NEW q, NEW l, IsPath(s, l, q), Len(q) = 0
          PROVE  h[Tgt(s, l)] = q
      <3>1. q = << >>
        BY <2>1, EmptySeq DEF IsPath
      <3>2. LinkAt(q, l, Len(q) + 1) = l
        BY <2>1 DEF LinkAt
      <3>3. Tgt(s, l) = Null
        BY <2>1, <3>2, PathEnd
      <3> QED
        BY <1>0, <3>1, <3>3
    <2> QED
      BY <2>1
  <1>2. ASSUME NEW n \in P PROVE n + 1 \in P
    <2>1. n \in Nat /\ \A q, l : IsPath(s, l, q) /\ Len(q) = n => h[Tgt(s, l)] = q
      OBVIOUS
    <2>2. ASSUME NEW q, NEW l, IsPath(s, l, q), Len(q) = n + 1
          PROVE  h[Tgt(s, l)] = q
      <3>0. q # << >>
        BY <2>1, <2>2
      <3>1. PICK b, r : b = q[1] /\ r = Tail(q)
        OBVIOUS
      <3>2. /\ b \in Nodes(s) /\ Tgt(s, l) = b /\ IsPath(s, b, r)
            /\ q = <<b>> \o r /\ Len(r) = Len(q) - 1
        BY <2>2, <3>0, <3>1, Behind
      <3>3. h[Tgt(s, b)] = r
        BY <2>1, <2>2, <3>2
      <3>4. Tgt(s, b) = s.node[b].next
        BY <3>2, NodeType DEF Tgt
      <3> QED
        BY <1>0, <3>2, <3>3, <3>4
    <2> HIDE DEF P
    <2>3. \A q, l : IsPath(s, l, q) /\ Len(q) = n + 1 => h[Tgt(s, l)] = q
      BY <2>2
    <2> QED
      BY <2>1, <2>3 DEF P
  <1>3. P = Nat
    BY <1>1, <1>2, Induction
  <1> QED
    BY <1>3, PathEnd

LEMMA ChainIs ==
  ASSUME NEW s, NEW f, Good(s, f), NEW p \in Packet
  PROVE  Chain(s, p) = f[p]
  <1>1. \A a \in Nodes(s) : \E q : IsPath(s, a, q)
    <2>1. TAKE a \in Nodes(s)
    <2>2. PICK q \in Packet : \E i \in 1..Len(f[q]) : f[q][i] = a
      BY DEF Good, On
    <2>3. PICK i \in 1..Len(f[q]) : f[q][i] = a
      BY <2>2
    <2>4. Shape(s) /\ IsPath(s, q, f[q])
      BY DEF Good
    <2> QED
      BY <2>3, <2>4, RestOfList
  <1>2. Shape(s) /\ IsPath(s, p, f[p])
    BY DEF Good
  <1> DEFINE h == CHOOSE h : IsWalk(h, s)
  <1>3. IsWalk(h, s)
    BY <1>1, <1>2, WalkExists, Zenon
  <1>4. Chain(s, p) = h[s.next[p]]
    BY ChainUnfold, Zenon
  <1> HIDE DEF h
  <1>5. h[Tgt(s, p)] = f[p]
    BY <1>2, <1>3, WalkIs
  <1> QED
    BY <1>4, <1>5 DEF Tgt

-----------------------------------------------------------------------------
LEMMA LeastIs ==
  ASSUME NEW I \in SUBSET Nat, I # {}
  PROVE  Min(I) \in I /\ \A k \in I : Min(I) <= k
  <1>1. \E n \in I : \A k \in I : n <= k
    BY Least
  <1> QED
    BY <1>1, Zenon DEF Min

LEMMA FindIs ==
  ASSUME NEW s, NEW p, NEW t, NEW q, q = Chain(s, p), Len(q) \in Nat
  PROVE  /\ Find(s, p, t) \in 0..Len(q)
         /\ Find(s, p, t) = 0 => \A k \in 1..Len(q) : s.node[q[k]].tid # t
         /\ Find(s, p, t) # 0 => s.node[q[Find(s, p, t)]].tid = t
  <1> DEFINE I == {i \in 1..Len(q) : s.node[q[i]].tid = t}
  <1>1. Find(s, p, t) = IF I # {} THEN Min(I) ELSE 0
    BY Zenon DEF Find, SelectInSeq
  <1>2. CASE I = {}
    <2>1. Find(s, p, t) = 0
      BY <1>1, <1>2
    <2>2. \A k \in 1..Len(q) : s.node[q[k]].tid # t
      BY <1>2
    <2> QED
      BY <2>1, <2>2
  <1>3. CASE I # {}
    <2>1. I \in SUBSET Nat
      OBVIOUS
    <2>2. Min(I) \in I
      BY <1>3, <2>1, LeastIs
    <2>3. Find(s, p, t) = Min(I)
      BY <1>1, <1>3
    <2> HIDE DEF I
    <2>4. Find(s, p, t) \in I
      BY <2>2, <2>3
    <2> QED
      BY <2>4 DEF I
  <1> QED
    BY <1>2, <1>3

LEMMA MergeIs ==
  ASSUME NEW s, NEW p, NEW q, q = Chain(s, p), Len(q) \in Nat
  PROVE  /\ Merge(s, p) \in 0..Len(q)
         /\ Merge(s, p) = 0 => \A k \in 1..Len(q) : ~(s.node[q[k]].count > 1)
         /\ Merge(s, p) # 0 => s.node[q[Merge(s, p)]].count > 1
         /\ \A k \in 1..Len(q) : k < Merge(s, p) => ~(s.node[q[k]].count > 1)
  <1> DEFINE I == {i \in 1..Len(q) : s.node[q[i]].count > 1}
  <1>1. Merge(s, p) = IF I # {} THEN Min(I) ELSE 0
    BY Zenon DEF Merge, SelectInSeq
  <1>2. CASE I = {}
    <2>1. Merge(s, p) = 0
      BY <1>1, <1>2
    <2>2. \A k \in 1..Len(q) : ~(s.node[q[k]].count > 1)
      BY <1>2
    <2> QED
      BY <2>1, <2>2
  <1>3. CASE I # {}
    <2>1. I \in SUBSET Nat
      OBVIOUS
    <2>2. Min(I) \in I /\ \A k \in I : Min(I) <= k
      BY <1>3, <2>1, LeastIs
    <2>3. Merge(s, p) = Min(I)
      BY <1>1, <1>3
    <2> HIDE DEF I
    <2>4. Merge(s, p) \in I /\ \A k \in I : Merge(s, p) <= k
      BY <2>2, <2>3
    <2>5. PICK m : m = Merge(s, p)
      OBVIOUS
    <2>6. m \in 1..Len(q) /\ s.node[q[m]].count > 1
      BY <2>4, <2>5 DEF I
    <2>7. ASSUME NEW k \in 1..Len(q), k < m PROVE ~(s.node[q[k]].count > 1)
      <3> SUFFICES ASSUME s.node[q[k]].count > 1 PROVE FALSE
        OBVIOUS
      <3>1. k \in I
        BY DEF I
      <3> QED
        BY <2>4, <2>5, <2>6, <2>7, <3>1
    <2> QED
      BY <2>5, <2>6, <2>7
  <1> QED
    BY <1>2, <1>3

-----------------------------------------------------------------------------
LEMMA PlacesFinite ==
  ASSUME NEW s, Shape(s)
  PROVE  /\ IsFiniteSet(Places(s))
         /\ \A a : IsFiniteSet(In(s, a)) /\ Cardinality(In(s, a)) \in Nat
  <1>1. IsFiniteSet(Address) /\ IsFiniteSet(Packet)
    BY MemoryAssumption
  <1>2. Nodes(s) \in SUBSET Address
    BY DEF Shape
  <1>3. IsFiniteSet(Nodes(s))
    BY <1>1, <1>2, FS_Subset
  <1>4. IsFiniteSet(Places(s))
    BY <1>1, <1>3, FS_Union DEF Places
  <1>5. ASSUME NEW a PROVE IsFiniteSet(In(s, a)) /\ Cardinality(In(s, a)) \in Nat
    <2>1. In(s, a) \in SUBSET Places(s)
      BY DEF In
    <2>2. IsFiniteSet(In(s, a))
      BY <1>4, <2>1, FS_Subset
    <2> QED
      BY <2>2, FS_CardinalityType
  <1> QED
    BY <1>4, <1>5

LEMMA ListIs ==
  ASSUME NEW s, NEW f, Good(s, f), NEW p \in Packet
  PROVE  /\ Shape(s) /\ IsPath(s, p, f[p]) /\ OneEach(s, f[p])
         /\ f[p] \in Seq(Nodes(s)) /\ Len(f[p]) \in Nat
  BY DEF Good, IsPath

(* The i-th node of a list, and the pointer to it. *)
LEMMA Listed ==
  ASSUME NEW s, NEW f, Good(s, f), NEW p \in Packet, NEW i \in 1..Len(f[p])
  PROVE  /\ f[p][i] \in Nodes(s)
         /\ LinkAt(f[p], p, i) \in In(s, f[p][i])
         /\ s.node[f[p][i]].count = Cardinality(In(s, f[p][i]))
         /\ s.node[f[p][i]].count >= 1
  <1>1. /\ Shape(s) /\ IsPath(s, p, f[p]) /\ f[p] \in Seq(Nodes(s))
        /\ Len(f[p]) \in Nat
    BY ListIs
  <1>2. PICK a : a = f[p][i]
    OBVIOUS
  <1>3. a \in Nodes(s) /\ Tgt(s, LinkAt(f[p], p, i)) = a
    BY <1>1, <1>2, PathStep
  <1>4. LinkAt(f[p], p, i) \in Places(s)
    BY <1>1 DEF LinkAt, Places
  <1>5. LinkAt(f[p], p, i) \in In(s, a)
    BY <1>3, <1>4 DEF In
  <1>6. s.node[a].count = Cardinality(In(s, a))
    BY <1>3 DEF Good
  <1>7. IsFiniteSet(In(s, a)) /\ Cardinality(In(s, a)) \in Nat
    BY <1>1, PlacesFinite
  <1>8. Cardinality(In(s, a)) # 0
    BY <1>5, <1>7, FS_EmptySet
  <1> QED
    BY <1>2, <1>3, <1>5, <1>6, <1>7, <1>8

OnlyLink(s, q, p, i) == In(s, q[i]) = {LinkAt(q, p, i)}

LEMMA AloneIn ==
  ASSUME NEW s, NEW f, Good(s, f), NEW p \in Packet
  PROVE  \A i \in 1..Len(f[p]) : s.node[f[p][i]].count = 1 => OnlyLink(s, f[p], p, i)
  <1> TAKE i \in 1..Len(f[p])
  <1> HAVE s.node[f[p][i]].count = 1
  <1>1. PICK S : S = In(s, f[p][i])
    OBVIOUS
  <1>2. LinkAt(f[p], p, i) \in S /\ Cardinality(S) = 1
    BY <1>1, Listed
  <1>3. IsFiniteSet(S)
    BY <1>1, ListIs, PlacesFinite
  <1>4. PICK x : S = {x}
    BY <1>2, <1>3, FS_Singleton
  <1> QED
    BY <1>1, <1>2, <1>4 DEF OnlyLink

(* The nodes in front of a merge are on no other list, and once on theirs. *)
LEMMA Private ==
  ASSUME NEW s, NEW f, Good(s, f), NEW p \in Packet,
         NEW n \in 0..Len(f[p]), Alone(s, f[p], n),
         NEW q \in Packet, NEW j \in 1..Len(f[q]), NEW k \in 1..n,
         f[q][j] = f[p][k]
  PROVE  q = p /\ j = k
  <1>0. /\ f[p] \in Seq(Nodes(s)) /\ Len(f[p]) \in Nat
        /\ f[q] \in Seq(Nodes(s)) /\ Len(f[q]) \in Nat /\ Shape(s)
        /\ OneEach(s, f[p])
    BY ListIs
  <1> DEFINE Mine(m) == \A h \in 1..Len(f[q]) : f[q][h] = f[p][m] => q = p
             P == {m \in Nat : m + 1 <= n => Mine(m + 1)}
  <1>1. ASSUME NEW m \in 1..n, NEW h \in 1..Len(f[q]), f[q][h] = f[p][m]
        PROVE  LinkAt(f[q], q, h) = LinkAt(f[p], p, m)
    <2>1. m \in 1..Len(f[p]) /\ s.node[f[p][m]].count = 1
      BY <1>0 DEF Alone
    <2>2. In(s, f[p][m]) = {LinkAt(f[p], p, m)}
      <3>1. OnlyLink(s, f[p], p, m)
        BY <2>1, AloneIn
      <3> QED
        BY <3>1 DEF OnlyLink
    <2>3. LinkAt(f[q], q, h) \in In(s, f[q][h])
      BY Listed
    <2> QED
      BY <1>1, <2>2, <2>3
  <1>2. 0 \in P
    <2>1. ASSUME 1 <= n, NEW h \in 1..Len(f[q]), f[q][h] = f[p][1] PROVE q = p
      <3>1. LinkAt(f[q], q, h) = LinkAt(f[p], p, 1)
        BY <1>0, <1>1, <2>1
      <3>2. LinkAt(f[q], q, h) = p
        BY <3>1 DEF LinkAt
      <3>3. h # 1 => LinkAt(f[q], q, h) = f[q][h - 1] /\ h - 1 \in 1..Len(f[q])
        BY <1>0 DEF LinkAt
      <3>4. h # 1 => f[q][h - 1] \in Nodes(s)
        BY <1>0, <3>3
      <3>5. h # 1 => FALSE
        BY <1>0, <3>2, <3>3, <3>4, NodeType
      <3> QED
        BY <3>2, <3>5 DEF LinkAt
    <2> QED
      BY <2>1
  <1>3. ASSUME NEW m \in P PROVE m + 1 \in P
    <2>0. m \in Nat /\ (m + 1 <= n => Mine(m + 1))
      OBVIOUS
    <2>1. ASSUME (m + 1) + 1 <= n, NEW h \in 1..Len(f[q]), f[q][h] = f[p][(m + 1) + 1]
          PROVE  q = p
      <3>1. LinkAt(f[q], q, h) = LinkAt(f[p], p, (m + 1) + 1)
        BY <1>0, <1>1, <2>0, <2>1
      <3>2. LinkAt(f[p], p, (m + 1) + 1) = f[p][m + 1] /\ m + 1 \in 1..Len(f[p])
        BY <1>0, <2>0, <2>1 DEF LinkAt
      <3>3. f[p][m + 1] \in Nodes(s) /\ f[p][m + 1] \notin Packet
        <4>1. f[p][m + 1] \in Nodes(s)
          BY <1>0, <3>2
        <4> QED
          BY <1>0, <4>1, NodeType
      <3>4. h # 1
        BY <3>1, <3>2, <3>3 DEF LinkAt
      <3>5. f[q][h - 1] = f[p][m + 1] /\ h - 1 \in 1..Len(f[q])
        BY <1>0, <3>1, <3>2, <3>4 DEF LinkAt
      <3> QED
        BY <2>0, <2>1, <3>5
    <2> QED
      BY <2>0, <2>1
  <1>4. P = Nat
    BY <1>2, <1>3, Induction
  <1>5. Mine(k)
    <2>1. PICK m \in Nat : m + 1 = k
      BY <1>0
    <2>2. m \in P
      BY <1>4
    <2>3. m + 1 <= n
      BY <1>0, <2>1
    <2> QED
      BY <2>1, <2>2, <2>3
  <1>6. q = p
    BY <1>5
  <1> QED
    BY <1>0, <1>6 DEF OneEach

(* So is the pointer behind them. *)
LEMMA OwnLink ==
  ASSUME NEW s, NEW f, Good(s, f), NEW p \in Packet,
         NEW i \in 1..(Len(f[p]) + 1), Alone(s, f[p], i - 1),
         NEW q \in Packet, NEW j \in 1..(Len(f[q]) + 1),
         LinkAt(f[q], q, j) = LinkAt(f[p], p, i)
  PROVE  q = p /\ j = i
  <1>0. /\ f[p] \in Seq(Nodes(s)) /\ Len(f[p]) \in Nat
        /\ f[q] \in Seq(Nodes(s)) /\ Len(f[q]) \in Nat /\ Shape(s)
    BY ListIs
  <1>1. \A a \in Nodes(s) : a \notin Packet
    BY <1>0, NodeType
  <1>2. i # 1 => i - 1 \in 1..Len(f[p]) /\ f[p][i - 1] \in Nodes(s)
    BY <1>0
  <1>3. j # 1 => j - 1 \in 1..Len(f[q]) /\ f[q][j - 1] \in Nodes(s)
    BY <1>0
  <1>4. CASE i = 1
    BY <1>1, <1>3, <1>4 DEF LinkAt
  <1>5. CASE i # 1
    <2>1. j # 1 /\ f[q][j - 1] = f[p][i - 1]
      BY <1>1, <1>2, <1>5 DEF LinkAt
    <2>2. PICK n : n = i - 1
      OBVIOUS
    <2>3. n \in 0..Len(f[p]) /\ n \in 1..n /\ Alone(s, f[p], n)
      BY <1>0, <1>2, <1>5, <2>2
    <2>4. q = p /\ j - 1 = n
      BY <1>3, <2>1, <2>2, <2>3, Private
    <2> QED
      BY <1>0, <2>2, <2>4
  <1> QED
    BY <1>4, <1>5

(* A call on p has done its work. *)
LEMMA GoodWith ==
  ASSUME NEW s, NEW f, Good(s, f), NEW p \in Packet, NEW t, Shape(t),
         NEW g, IsPath(t, p, g), OneEach(t, g), Others(s, t, f, p),
         \A q \in Packet \ {p} : \A j \in 1..(Len(f[q]) + 1) :
            Tgt(t, LinkAt(f[q], q, j)) = Tgt(s, LinkAt(f[q], q, j)),
         \A a \in Nodes(t) : \/ \E k \in 1..Len(g) : g[k] = a
                             \/ \E q \in Packet \ {p} : \E k \in 1..Len(f[q]) : f[q][k] = a,
         \A a \in Nodes(t) : t.node[a].count = Cardinality(In(t, a))
  PROVE  Good(t, With(f, p, g))
  <1>1. f \in [Packet -> Seq(Address)] /\ Nodes(t) \subseteq Address
    BY DEF Good, Shape
  <1>2. g \in Seq(Nodes(t)) /\ g \in Seq(Address)
    BY <1>1 DEF IsPath
  <1>3. PICK h : h = With(f, p, g)
    OBVIOUS
  <1>4. /\ h \in [Packet -> Seq(Address)] /\ h[p] = g
        /\ \A q \in Packet \ {p} : h[q] = f[q]
    <2>1. f \in [Packet -> Seq(Address)] /\ g \in Seq(Address)
      BY <1>1, <1>2
    <2>2. h = [f EXCEPT ![p] = g]
      BY <1>3 DEF With
    <2> QED
      BY <2>1, <2>2
  <1>5. ASSUME NEW q \in Packet \ {p} PROVE IsPath(t, q, f[q]) /\ OneEach(t, f[q])
    <2>1. /\ IsPath(s, q, f[q]) /\ OneEach(s, f[q]) /\ f[q] \in Seq(Nodes(s))
          /\ Len(f[q]) \in Nat
      BY ListIs
    <2>2. \A k \in 1..Len(f[q]) : /\ f[q][k] \in Nodes(t)
                                  /\ TagAt(t, f[q][k]) = TagAt(s, f[q][k])
      BY DEF Others
    <2>3. f[q] \in Seq(Nodes(t))
      BY <2>1, <2>2
    <2>4. \A j \in 1..(Len(f[q]) + 1) : Tgt(t, LinkAt(f[q], q, j)) = NodeAt(f[q], j)
      BY <2>1 DEF IsPath
    <2>5. IsPath(t, q, f[q])
      BY <2>3, <2>4 DEF IsPath
    <2>6. \A k \in 1..Len(f[q]) : t.node[f[q][k]].tid = s.node[f[q][k]].tid
      BY <2>2 DEF TagAt
    <2>7. OneEach(t, f[q])
      BY <2>1, <2>6 DEF OneEach
    <2> QED
      BY <2>5, <2>7
  <1>6. \A q \in Packet : IsPath(t, q, h[q]) /\ OneEach(t, h[q])
    BY <1>4, <1>5
  <1>7. \A a \in Nodes(t) : On(h, a)
    BY <1>4 DEF On
  <1> QED
    BY <1>3, <1>4, <1>6, <1>7 DEF Good

(* Where a link leads to in a sound store. *)
LEMMA Leads ==
  ASSUME NEW s, Shape(s), NEW l \in Places(s)
  PROVE  Tgt(s, l) \in Nodes(s) \cup {Null}
  BY DEF Shape, Places, Tgt

(* A node with several pointers is on several lists. *)
LEMMA Shared ==
  ASSUME NEW s, NEW f, Good(s, f), NEW p \in Packet, NEW i \in 1..Len(f[p]),
         s.node[f[p][i]].count > 1
  PROVE  \E q \in Packet \ {p} : \E k \in 1..Len(f[q]) : f[q][k] = f[p][i]
  <1>0. /\ f[p] \in Seq(Nodes(s)) /\ Len(f[p]) \in Nat
        /\ IsPath(s, p, f[p]) /\ Shape(s) /\ OneEach(s, f[p])
    BY ListIs
  <1>1. PICK c, l : c = f[p][i] /\ l = LinkAt(f[p], p, i)
    OBVIOUS
  <1>2. /\ c \in Nodes(s) /\ c # Null /\ l \in In(s, c)
        /\ Cardinality(In(s, c)) > 1
    <2>1. /\ f[p][i] \in Nodes(s) /\ LinkAt(f[p], p, i) \in In(s, f[p][i])
          /\ s.node[f[p][i]].count = Cardinality(In(s, f[p][i]))
      BY Listed
    <2>2. c # Null
      BY <1>0, <1>1, <2>1, NodeType
    <2> QED
      BY <1>1, <2>1, <2>2
  <1>3. PICK x \in In(s, c) : x # l
    <2> SUFFICES ASSUME In(s, c) = {l} PROVE FALSE
      BY <1>2
    <2>1. Cardinality({l}) = 1
      BY FS_Singleton
    <2> QED
      BY <1>2, <2>1
  <1>4. x \in Places(s) /\ Tgt(s, x) = c
    BY DEF In
  <1>5. CASE x \in Packet
    <2>1. /\ IsPath(s, x, f[x]) /\ f[x] \in Seq(Nodes(s)) /\ Len(f[x]) \in Nat
      BY <1>5, ListIs
    <2>2. LinkAt(f[x], x, 1) = x /\ 1 \in 1..(Len(f[x]) + 1)
      BY <2>1 DEF LinkAt
    <2>3. NodeAt(f[x], 1) = c
      BY <1>4, <2>1, <2>2 DEF IsPath
    <2>4. 1 \in 1..Len(f[x]) /\ f[x][1] = c
      BY <1>2, <2>1, <2>3 DEF NodeAt
    <2>5. x # p
      <3> SUFFICES ASSUME x = p PROVE FALSE
        OBVIOUS
      <3>1. i = 1
        BY <1>0, <1>1, <2>4 DEF OneEach
      <3> QED
        BY <1>1, <1>3, <3>1 DEF LinkAt
    <2> QED
      BY <1>1, <1>5, <2>4, <2>5
  <1>6. CASE x \notin Packet
    <2>1. x \in Nodes(s)
      BY <1>4, <1>6 DEF Places
    <2>2. PICK q \in Packet : \E k \in 1..Len(f[q]) : f[q][k] = x
      BY <2>1 DEF Good, On
    <2>3. PICK k \in 1..Len(f[q]) : f[q][k] = x
      BY <2>2
    <2>4. IsPath(s, q, f[q]) /\ f[q] \in Seq(Nodes(s)) /\ Len(f[q]) \in Nat
      BY ListIs
    <2>5. s.node[f[q][k]].next = NodeAt(f[q], k + 1)
      BY <1>0, <2>4, PathNext
    <2>6. NodeAt(f[q], k + 1) = c
      BY <1>4, <1>6, <2>3, <2>5 DEF Tgt
    <2>7. k + 1 \in 1..Len(f[q]) /\ f[q][k + 1] = c
      BY <1>2, <2>4, <2>6 DEF NodeAt
    <2>8. q # p
      <3> SUFFICES ASSUME q = p PROVE FALSE
        OBVIOUS
      <3>1. i = k + 1
        BY <1>0, <1>1, <2>7 DEF OneEach
      <3>2. l = x
        BY <1>1, <2>3, <3>1 DEF LinkAt
      <3> QED
        BY <1>3, <3>2
    <2> QED
      BY <1>1, <2>7, <2>8
  <1> QED
    BY <1>5, <1>6

(* There is always room for another node: every list has one of each type. *)
LEMMA RoomLeft ==
  ASSUME NEW s, NEW f, Good(s, f)
  PROVE  Fresh(s) \in Address /\ Fresh(s) \notin Nodes(s)
  <1>0. Shape(s) /\ Nodes(s) \subseteq Address /\ Address \subseteq Nat
    BY Apart DEF Good, Shape
  <1> DEFINE User(a) == CHOOSE p \in Packet : \E i \in 1..Len(f[p]) : f[p][i] = a
  <1>1. \A a \in Nodes(s) : /\ User(a) \in Packet
                            /\ \E i \in 1..Len(f[User(a)]) : f[User(a)][i] = a
    BY DEF Good, On
  <1> HIDE DEF User
  <1>2. PICK e : e = [a \in Nodes(s) |-> <<User(a), s.node[a].tid>>]
    OBVIOUS
  <1>3. e \in [Nodes(s) -> Packet \X Type]
    BY <1>0, <1>1, <1>2, NodeType
  <1>4. ASSUME NEW a \in Nodes(s), NEW b \in Nodes(s), e[a] = e[b]
        PROVE  a = b
    <2>1. User(a) = User(b) /\ s.node[a].tid = s.node[b].tid
      BY <1>2, <1>4
    <2>2. PICK p \in Packet : p = User(a)
      BY <1>1
    <2>3. PICK i \in 1..Len(f[p]) : f[p][i] = a
      BY <1>1, <2>2
    <2>4. PICK j \in 1..Len(f[p]) : f[p][j] = b
      BY <1>1, <2>1, <2>2
    <2>5. OneEach(s, f[p])
      BY ListIs
    <2>6. i = j
      BY <2>1, <2>3, <2>4, <2>5 DEF OneEach
    <2> QED
      BY <2>3, <2>4, <2>6
  <1>5. IsFiniteSet(Packet) /\ IsFiniteSet(Type) /\ IsFiniteSet(Address)
        /\ Cardinality(Address) > Cardinality(Packet) * Cardinality(Type)
    BY MemoryAssumption
  <1>6. IsFiniteSet(Packet \X Type)
        /\ Cardinality(Packet \X Type) = Cardinality(Packet) * Cardinality(Type)
    BY <1>5, FS_Product
  <1>7. Nodes(s) # Address
    <2> SUFFICES ASSUME Nodes(s) = Address PROVE FALSE
      OBVIOUS
    <2>1. IsFiniteSet(Nodes(s)) /\ Cardinality(Packet \X Type) < Cardinality(Nodes(s))
      <3>1. Cardinality(Address) \in Nat /\ Cardinality(Packet \X Type) \in Nat
        BY <1>5, <1>6, FS_CardinalityType
      <3> QED
        BY <1>5, <1>6, <3>1
    <2>2. \E a, b \in Nodes(s) : a # b /\ e[a] = e[b]
      BY <1>3, <1>6, <2>1, FS_PigeonHole
    <2> QED
      BY <1>4, <2>2
  <1> DEFINE Free == Address \ DOMAIN s.node
  <1>8. Free \in SUBSET Nat /\ Free # {}
    BY <1>0, <1>7 DEF Nodes
  <1>9. \E a \in Free : \A b \in Free : a <= b
    BY <1>8, Least
  <1>10. Fresh(s) \in Free
    BY <1>9, Zenon DEF Fresh
  <1> QED
    BY <1>10 DEF Nodes

-----------------------------------------------------------------------------
(* What the primitives do to a store, sound or not. *)
RawTag == [tid : Type, data : Value, count : Int, next : Address \cup {Null}]
Raw(s) ==
  /\ s = [next |-> s.next, node |-> s.node]
  /\ s.next \in [Packet -> Address \cup {Null}]
  /\ Nodes(s) \subseteq Address
  /\ s.node \in [Nodes(s) -> RawTag]

Cnt(s, a) == s.node[a].count

Relinked(s, t, l, b) ==
  /\ Raw(t) /\ Nodes(t) = Nodes(s)
  /\ \A k \in Places(s) : Tgt(t, k) = IF k = l THEN b ELSE Tgt(s, k)
  /\ \A a \in Nodes(s) : TagAt(t, a) = TagAt(s, a) /\ Cnt(t, a) = Cnt(s, a)

Counted(s, t, b, d) ==
  /\ Raw(t) /\ Nodes(t) = Nodes(s)
  /\ \A k \in Places(s) : Tgt(t, k) = Tgt(s, k)
  /\ \A a \in Nodes(s) : /\ TagAt(t, a) = TagAt(s, a)
                         /\ Cnt(t, a) = IF a = b THEN Cnt(s, a) + d ELSE Cnt(s, a)

Added(s, t, b, n) ==
  /\ Raw(t) /\ Nodes(t) = Nodes(s) \cup {b}
  /\ \A k \in Places(s) : Tgt(t, k) = Tgt(s, k)
  /\ \A a \in Nodes(s) : TagAt(t, a) = TagAt(s, a) /\ Cnt(t, a) = Cnt(s, a)
  /\ Tgt(t, b) = n.next /\ Cnt(t, b) = n.count
  /\ TagAt(t, b) = [tid |-> n.tid, data |-> n.data]

Dropped(s, t, A) ==
  /\ Raw(t) /\ Nodes(t) = Nodes(s) \ A
  /\ \A k \in Places(s) \ A : Tgt(t, k) = Tgt(s, k)
  /\ \A a \in Nodes(s) \ A : TagAt(t, a) = TagAt(s, a) /\ Cnt(t, a) = Cnt(s, a)

Rewritten(s, t, b, x) ==
  /\ Raw(t) /\ Nodes(t) = Nodes(s)
  /\ \A k \in Places(s) : Tgt(t, k) = Tgt(s, k)
  /\ \A a \in Nodes(s) :
       /\ TagAt(t, a) = IF a = b THEN [tid |-> s.node[a].tid, data |-> x] ELSE TagAt(s, a)
       /\ Cnt(t, a) = Cnt(s, a)

LEMMA ShapeIsRaw ==
  ASSUME NEW s, Shape(s)
  PROVE  Raw(s) /\ \A a \in Nodes(s) : Cnt(s, a) \in Nat
  <1>1. \A a \in Nodes(s) : s.node[a] \in RawTag /\ s.node[a].count \in Nat
    BY DEF Shape, TagData, RawTag
  <1> QED
    BY <1>1 DEF Shape, Raw, Cnt

LEMMA RawNode ==
  ASSUME NEW s, Raw(s), NEW a \in Nodes(s)
  PROVE  /\ a \in Address /\ a # Null /\ a \notin Packet
         /\ s.node[a] = [tid |-> s.node[a].tid, data |-> s.node[a].data,
                         count |-> s.node[a].count, next |-> s.node[a].next]
         /\ s.node[a].tid \in Type /\ s.node[a].data \in Value
         /\ s.node[a].count \in Int /\ s.node[a].next \in Address \cup {Null}
  BY Apart DEF Raw, RawTag

(* A store that is like s, but for one node. *)
Put(s, b, n) == [next |-> s.next, node |-> [s.node EXCEPT ![b] = n]]
IsPut(s, t, b, n) ==
  /\ Raw(t) /\ Nodes(t) = Nodes(s) /\ t.next = s.next
  /\ t.node[b] = n /\ \A a \in Nodes(s) \ {b} : t.node[a] = s.node[a]

LEMMA PutIs ==
  ASSUME NEW s, Raw(s), NEW b \in Nodes(s), NEW n \in RawTag
  PROVE  IsPut(s, Put(s, b, n), b, n)
  BY DEF Raw, Nodes, Put, IsPut

LEMMA SetLinkIs ==
  ASSUME NEW s, Raw(s), NEW l \in Places(s), NEW b \in Address \cup {Null}
  PROVE  Relinked(s, SetLink(s, l, b), l, b)
  <1>1. PICK t : t = SetLink(s, l, b)
    OBVIOUS
  <1>2. CASE l \in Packet
    <2>1. t = [next |-> [s.next EXCEPT ![l] = b], node |-> s.node]
      BY <1>1, <1>2 DEF SetLink, Raw
    <2>2. Raw(t) /\ Nodes(t) = Nodes(s) /\ t.node = s.node
      BY <1>2, <2>1 DEF Raw, Nodes
    <2>3. \A k \in Packet : t.next[k] = IF k = l THEN b ELSE s.next[k]
      BY <1>2, <2>1 DEF Raw
    <2>4. \A k \in Places(s) : Tgt(t, k) = IF k = l THEN b ELSE Tgt(s, k)
      BY <1>2, <2>2, <2>3 DEF Tgt
    <2> QED
      BY <1>1, <2>2, <2>4 DEF Relinked, TagAt, Cnt
  <1>3. CASE l \notin Packet
    <2>0. l \in Nodes(s)
      BY <1>3 DEF Places
    <2>1. PICK n : n = [s.node[l] EXCEPT !.next = b]
      OBVIOUS
    <2>2. /\ n = [tid |-> s.node[l].tid, data |-> s.node[l].data,
                  count |-> s.node[l].count, next |-> b]
          /\ n \in RawTag
      <3>1. s.node[l] = [tid |-> s.node[l].tid, data |-> s.node[l].data,
                         count |-> s.node[l].count, next |-> s.node[l].next]
            /\ s.node[l] \in RawTag
        BY <2>0, RawNode DEF Raw
      <3> QED
        BY <2>1, <3>1 DEF RawTag
    <2>3. t = Put(s, l, n)
      BY <1>1, <1>3, <2>1 DEF SetLink, Raw, Put
    <2>4. /\ Raw(t) /\ Nodes(t) = Nodes(s) /\ t.next = s.next
          /\ t.node[l] = n /\ \A a \in Nodes(s) \ {l} : t.node[a] = s.node[a]
      BY <2>0, <2>2, <2>3, PutIs DEF IsPut
    <2>5. \A k \in Places(s) : Tgt(t, k) = IF k = l THEN b ELSE Tgt(s, k)
      BY <1>3, <2>2, <2>4 DEF Tgt, Places
    <2>6. \A a \in Nodes(s) : TagAt(t, a) = TagAt(s, a) /\ Cnt(t, a) = Cnt(s, a)
      BY <2>2, <2>4 DEF TagAt, Cnt
    <2> QED
      BY <1>1, <2>4, <2>5, <2>6 DEF Relinked
  <1> QED
    BY <1>2, <1>3

LEMMA CountIs ==
  ASSUME NEW s, Raw(s), NEW b, b \in Nodes(s) \/ b = Null, NEW d \in Int
  PROVE  Counted(s, Count(s, b, d), b, d)
  <1>1. PICK t : t = Count(s, b, d)
    OBVIOUS
  <1>2. CASE b = Null
    <2>1. t = s /\ b \notin Nodes(s)
      BY <1>1, <1>2, RawNode DEF Count
    <2> QED
      BY <1>1, <2>1 DEF Counted
  <1>3. CASE b # Null
    <2>0. b \in Nodes(s)
      BY <1>3
    <2>1. PICK n : n = [s.node[b] EXCEPT !.count = s.node[b].count + d]
      OBVIOUS
    <2>2. /\ n = [tid |-> s.node[b].tid, data |-> s.node[b].data,
                  count |-> s.node[b].count + d, next |-> s.node[b].next]
          /\ n \in RawTag
      <3>1. s.node[b] = [tid |-> s.node[b].tid, data |-> s.node[b].data,
                         count |-> s.node[b].count, next |-> s.node[b].next]
            /\ s.node[b] \in RawTag
        BY <2>0, RawNode DEF Raw
      <3> QED
        BY <2>1, <3>1 DEF RawTag
    <2>3. t = Put(s, b, n)
      BY <1>1, <1>3, <2>1 DEF Count, Raw, Put
    <2>4. /\ Raw(t) /\ Nodes(t) = Nodes(s) /\ t.next = s.next
          /\ t.node[b] = n /\ \A a \in Nodes(s) \ {b} : t.node[a] = s.node[a]
      BY <2>0, <2>2, <2>3, PutIs DEF IsPut
    <2>5. \A k \in Places(s) : Tgt(t, k) = Tgt(s, k)
      BY <2>0, <2>2, <2>4 DEF Tgt, Places
    <2>6. \A a \in Nodes(s) : /\ TagAt(t, a) = TagAt(s, a)
                              /\ Cnt(t, a) = IF a = b THEN Cnt(s, a) + d ELSE Cnt(s, a)
      BY <2>2, <2>4 DEF TagAt, Cnt
    <2> QED
      BY <1>1, <2>4, <2>5, <2>6 DEF Counted
  <1> QED
    BY <1>2, <1>3

LEMMA NewIs ==
  ASSUME NEW s, Raw(s), NEW b \in Address, b \notin Nodes(s), NEW n \in RawTag
  PROVE  Added(s, New(s, b, n), b, n)
  <1>1. PICK t : t = New(s, b, n)
    OBVIOUS
  <1>2. t = [next |-> s.next,
             node |-> [a \in Nodes(s) \cup {b} |-> IF a = b THEN n ELSE s.node[a]]]
    BY <1>1 DEF New, Raw, Nodes
  <1>3. /\ Nodes(t) = Nodes(s) \cup {b} /\ t.next = s.next /\ t.node[b] = n
        /\ \A a \in Nodes(s) : t.node[a] = s.node[a]
    BY <1>2 DEF Nodes
  <1>4. Raw(t)
    BY <1>2, <1>3 DEF Raw
  <1>5. b \notin Packet
    BY Apart
  <1>6. /\ \A k \in Places(s) : Tgt(t, k) = Tgt(s, k)
        /\ Tgt(t, b) = n.next
    BY <1>3, <1>5 DEF Tgt, Places
  <1> QED
    BY <1>1, <1>3, <1>4, <1>6 DEF Added, TagAt, Cnt

LEMMA DeleteIs ==
  ASSUME NEW s, Raw(s), NEW A
  PROVE  Dropped(s, Delete(s, A), A)
  <1>1. PICK t : t = Delete(s, A)
    OBVIOUS
  <1>2. t = [next |-> s.next, node |-> [a \in Nodes(s) \ A |-> s.node[a]]]
    BY <1>1 DEF Delete, Raw, Nodes
  <1>3. /\ Nodes(t) = Nodes(s) \ A /\ t.next = s.next
        /\ \A a \in Nodes(s) \ A : t.node[a] = s.node[a]
    BY <1>2 DEF Nodes
  <1>4. Raw(t)
    BY <1>2, <1>3 DEF Raw
  <1>5. \A k \in Places(s) \ A : Tgt(t, k) = Tgt(s, k)
    BY <1>3 DEF Tgt, Places
  <1> QED
    BY <1>1, <1>3, <1>4, <1>5 DEF Dropped, TagAt, Cnt

LEMMA RewriteIs ==
  ASSUME NEW s, Raw(s), NEW b \in Nodes(s), NEW x \in Value
  PROVE  Rewritten(s, [s EXCEPT !.node[b].data = x], b, x)
  <1>1. PICK t : t = [s EXCEPT !.node[b].data = x]
    OBVIOUS
  <1>2. PICK n : n = [s.node[b] EXCEPT !.data = x]
    OBVIOUS
  <1>3. /\ n = [tid |-> s.node[b].tid, data |-> x,
                count |-> s.node[b].count, next |-> s.node[b].next]
        /\ n \in RawTag
    <2>1. s.node[b] = [tid |-> s.node[b].tid, data |-> s.node[b].data,
                       count |-> s.node[b].count, next |-> s.node[b].next]
          /\ s.node[b] \in RawTag
      BY RawNode DEF Raw
    <2> QED
      BY <1>2, <2>1 DEF RawTag
  <1>4. t = Put(s, b, n)
    BY <1>1, <1>2 DEF Raw, Put
  <1>5. /\ Raw(t) /\ Nodes(t) = Nodes(s) /\ t.next = s.next
        /\ t.node[b] = n /\ \A a \in Nodes(s) \ {b} : t.node[a] = s.node[a]
    BY <1>3, <1>4, PutIs DEF IsPut
  <1>6. \A k \in Places(s) : Tgt(t, k) = Tgt(s, k)
    BY <1>3, <1>5 DEF Tgt, Places
  <1>7. \A a \in Nodes(s) :
          /\ TagAt(t, a) = IF a = b THEN [tid |-> s.node[a].tid, data |-> x]
                                    ELSE TagAt(s, a)
          /\ Cnt(t, a) = Cnt(s, a)
    BY <1>3, <1>5 DEF TagAt, Cnt
  <1> QED
    BY <1>1, <1>5, <1>6, <1>7 DEF Rewritten

(* A raw store that leads to nodes and counts its pointers is sound. *)
LEMMA RawIsShape ==
  ASSUME NEW t, Raw(t), \A k \in Places(t) : Tgt(t, k) \in Nodes(t) \cup {Null},
         \A a \in Nodes(t) : Cnt(t, a) = Cardinality(In(t, a))
  PROVE  Shape(t)
  <1>1. IsFiniteSet(Nodes(t))
    <2>1. IsFiniteSet(Address) /\ Nodes(t) \in SUBSET Address
      BY MemoryAssumption DEF Raw
    <2> QED
      BY <2>1, FS_Subset
  <1>2. IsFiniteSet(Places(t))
    BY <1>1, MemoryAssumption, FS_Union DEF Places
  <1>3. ASSUME NEW a \in Nodes(t) PROVE t.node[a].count \in Nat
    <2>1. In(t, a) \in SUBSET Places(t)
      BY DEF In
    <2>2. Cardinality(In(t, a)) \in Nat
      BY <1>2, <2>1, FS_Subset, FS_CardinalityType
    <2> QED
      BY <2>2 DEF Cnt
  <1>4. \A a \in Nodes(t) : t.node[a].next \in Nodes(t) \cup {Null}
    BY RawNode DEF Places, Tgt
  <1>5. \A p \in Packet : t.next[p] \in Nodes(t) \cup {Null}
    BY DEF Places, Tgt
  <1>6. t.node \in [Nodes(t) -> TagData]
    <2>1. \A a \in Nodes(t) : t.node[a] \in TagData
      <3> TAKE a \in Nodes(t)
      <3>1. t.node[a] \in RawTag /\ t.node[a].count \in Nat
        BY <1>3 DEF Raw
      <3> QED
        BY <3>1 DEF RawTag, TagData
    <2> QED
      BY <2>1 DEF Raw
  <1>7. t.next \in [Packet -> Nodes(t) \cup {Null}]
    BY <1>5 DEF Raw
  <1> QED
    BY <1>4, <1>6, <1>7 DEF Raw, Shape

-----------------------------------------------------------------------------
(* A call on p has done its work, on the links and nodes of t. *)
LEMMA Done ==
  ASSUME NEW s, NEW f, Good(s, f), NEW p \in Packet, NEW t, Raw(t), NEW g,
         \A k \in Places(t) : Tgt(t, k) \in Nodes(t) \cup {Null},
         \A a \in Nodes(t) : Cnt(t, a) = Cardinality(In(t, a)),
         IsPath(t, p, g), OneEach(t, g), Others(s, t, f, p),
         \A q \in Packet \ {p} : \A j \in 1..(Len(f[q]) + 1) :
            Tgt(t, LinkAt(f[q], q, j)) = Tgt(s, LinkAt(f[q], q, j)),
         \A a \in Nodes(t) : \/ \E k \in 1..Len(g) : g[k] = a
                             \/ \E q \in Packet \ {p} : \E k \in 1..Len(f[q]) : f[q][k] = a
  PROVE  Good(t, With(f, p, g))
  <1>1. Shape(t)
    BY RawIsShape
  <1>2. \A a \in Nodes(t) : t.node[a].count = Cardinality(In(t, a))
    BY DEF Cnt
  <1> QED
    BY <1>1, <1>2, GoodWith

(* The tags on g are as good as those on the list they replace. *)
LEMMA SameTypes ==
  ASSUME NEW s, NEW q, NEW t, NEW g, OneEach(s, q), Len(g) = Len(q),
         \A k \in 1..Len(g) : t.node[g[k]].tid = s.node[q[k]].tid
  PROVE  OneEach(t, g)
  BY DEF OneEach

LEMMA OneMore ==
  ASSUME NEW S, NEW T, NEW x, IsFiniteSet(S), x \notin S, T = S \cup {x}
  PROVE  Cardinality(T) = Cardinality(S) + 1
  BY FS_AddElement

LEMMA OneFewer ==
  ASSUME NEW S, NEW T, NEW x, IsFiniteSet(S), x \in S, T = S \ {x}
  PROVE  Cardinality(T) = Cardinality(S) - 1
  BY FS_RemoveElement

LEMMA OneSwapped ==
  ASSUME NEW S, NEW T, NEW x, NEW y, IsFiniteSet(S), x \in S, y \notin S,
         T = (S \ {x}) \cup {y}
  PROVE  Cardinality(T) = Cardinality(S)
  <1>1. IsFiniteSet(S \ {x}) /\ Cardinality(S \ {x}) = Cardinality(S) - 1
    BY FS_RemoveElement
  <1>2. Cardinality(T) = Cardinality(S \ {x}) + 1
    BY <1>1, FS_AddElement
  <1>3. Cardinality(S) \in Nat
    BY FS_CardinalityType
  <1> QED
    BY <1>1, <1>2, <1>3

(* A copy of the merge, with this data, takes its place on the list of p. *)
CopyDone(s, f, p, i, data, t, g) ==
  /\ Good(t, With(f, p, g)) /\ Others(s, t, f, p)
  /\ Len(g) = Len(f[p]) /\ g[i] = Fresh(s)
  /\ \A k \in 1..Len(g) : k # i => g[k] = f[p][k]
  /\ Alone(t, g, i)
  /\ i < Len(g) => Cnt(t, g[i + 1]) > 1
  /\ \A k \in 1..Len(g) :
       TagAt(t, g[k]) = IF k = i THEN [tid |-> s.node[f[p][k]].tid, data |-> data]
                        ELSE TagAt(s, f[p][k])

LEMMA CopiedIs ==
  ASSUME NEW s, NEW f, Good(s, f), NEW p \in Packet, NEW i \in 1..Len(f[p]),
         Alone(s, f[p], i - 1), s.node[f[p][i]].count > 1, NEW data \in Value
  PROVE  CopyDone(s, f, p, i, data, Copied(s, LinkAt(f[p], p, i), f[p][i], data),
                  [f[p] EXCEPT ![i] = Fresh(s)])
  <1>1. PICK c, l, a, q : /\ c = f[p][i] /\ l = LinkAt(f[p], p, i)
                          /\ a = Fresh(s) /\ q = f[p]
    OBVIOUS
  <1>2. PICK nx : nx = s.node[c].next
    OBVIOUS
  <1>3. /\ Shape(s) /\ IsPath(s, p, q) /\ OneEach(s, q)
        /\ q \in Seq(Nodes(s)) /\ Len(q) \in Nat /\ i \in 1..Len(q)
    BY <1>1, ListIs
  <1>4. c \in Nodes(s) /\ l \in In(s, c) /\ s.node[c].count = Cardinality(In(s, c))
    BY <1>1, Listed
  <1>5. a \in Address /\ a \notin Nodes(s) /\ a # Null /\ a \notin Packet
    <2>1. a \in Address /\ a \notin Nodes(s)
      BY <1>1, RoomLeft
    <2> QED
      BY <2>1, Apart
  <1>6. /\ l \in Places(s) /\ Tgt(s, l) = c /\ c # Null /\ c # a /\ l # a
        /\ c \in Places(s) /\ c \notin Packet
    <2>1. c # Null /\ c \notin Packet
      BY <1>3, <1>4, NodeType
    <2> QED
      BY <1>4, <1>5, <2>1 DEF In, Places
  <1>7. nx \in Nodes(s) \cup {Null} /\ Tgt(s, c) = nx /\ nx = NodeAt(q, i + 1) /\ nx # a
    <2>1. nx \in Nodes(s) \cup {Null}
      BY <1>2, <1>3, <1>4, NodeType
    <2>2. nx = NodeAt(q, i + 1)
      BY <1>1, <1>2, <1>3, PathNext
    <2> QED
      BY <1>2, <1>5, <1>6, <2>1, <2>2 DEF Tgt
  <1>8. c # nx
    <2> SUFFICES ASSUME c = nx PROVE FALSE
      OBVIOUS
    <2>1. i + 1 \in 1..Len(q) /\ q[i + 1] = q[i]
      <3>1. NodeAt(q, i + 1) = c /\ NodeAt(q, i + 1) # Null /\ q[i] = c
        BY <1>1, <1>6, <1>7
      <3> QED
        BY <1>3, <3>1 DEF NodeAt
    <2> QED
      BY <1>3, <2>1 DEF OneEach
  <1>9. Raw(s)
    BY <1>3, ShapeIsRaw
  (* The four stores on the way. *)
  <1>10. PICK s1 : s1 = Count(s, c, -1)
    OBVIOUS
  <1>11. Counted(s, s1, c, -1)
    BY <1>4, <1>9, <1>10, CountIs
  <1>12. PICK n : n = [tid |-> s.node[c].tid, data |-> data, count |-> 1, next |-> nx]
    OBVIOUS
  <1>13. PICK s2 : s2 = New(s1, a, n)
    OBVIOUS
  <1>14. Added(s1, s2, a, n)
    <2>1. n \in RawTag
      <3>1. s.node[c].tid \in Type /\ nx \in Address \cup {Null}
        BY <1>2, <1>4, <1>9, RawNode
      <3> QED
        BY <1>12, <3>1 DEF RawTag
    <2>2. Raw(s1) /\ Nodes(s1) = Nodes(s)
      BY <1>11 DEF Counted
    <2> QED
      BY <1>5, <1>13, <2>1, <2>2, NewIs
  <1>15. PICK s3 : s3 = Count(s2, nx, 1)
    OBVIOUS
  <1>16. Counted(s2, s3, nx, 1)
    <2>1. Raw(s2) /\ nx \in Nodes(s2) \cup {Null}
      BY <1>7, <1>11, <1>14 DEF Counted, Added
    <2> QED
      <3>1. PICK d \in Int : d = 1
        OBVIOUS
      <3>2. Counted(s2, Count(s2, nx, d), nx, d)
        BY <2>1, CountIs
      <3> QED
        BY <1>15, <3>1, <3>2
  <1>17. PICK t : t = SetLink(s3, l, a)
    OBVIOUS
  <1>18. Relinked(s3, t, l, a)
    <2>1. Raw(s3) /\ l \in Places(s3)
      BY <1>6, <1>11, <1>14, <1>16 DEF Counted, Added, Places
    <2> QED
      BY <1>5, <1>17, <2>1, SetLinkIs
  <1>19. t = Copied(s, LinkAt(f[p], p, i), f[p][i], data)
    <2>2. Copied(s, l, c, data) = SetLink(Count(New(Count(s, c, -1), a, n), nx, 1), l, a)
      BY <1>1, <1>2, <1>12, Zenon DEF Copied
    <2> QED
      BY <1>1, <1>10, <1>13, <1>15, <1>17, <2>2
  (* Together. *)
  <1>20. Raw(t) /\ Nodes(t) = Nodes(s) \cup {a} /\ Places(t) = Places(s) \cup {a}
    BY <1>11, <1>14, <1>16, <1>18 DEF Counted, Added, Relinked, Places
  <1>21. \A k \in Places(s) : Tgt(t, k) = IF k = l THEN a ELSE Tgt(s, k)
    BY <1>11, <1>14, <1>16, <1>18 DEF Counted, Added, Relinked, Places
  <1>22. Tgt(t, a) = nx
    BY <1>6, <1>12, <1>14, <1>16, <1>18 DEF Added, Counted, Relinked, Places
  <1>23. /\ \A b \in Nodes(s) : TagAt(t, b) = TagAt(s, b)
         /\ TagAt(t, a) = [tid |-> s.node[c].tid, data |-> data]
    BY <1>11, <1>12, <1>14, <1>16, <1>18 DEF Counted, Added, Relinked
  <1>24. /\ Cnt(t, a) = 1 /\ Cnt(t, c) = Cnt(s, c) - 1
         /\ nx # Null => Cnt(t, nx) = Cnt(s, nx) + 1
         /\ \A b \in Nodes(s) \ {c, nx} : Cnt(t, b) = Cnt(s, b)
    <2>1. /\ Cnt(s2, a) = 1 /\ Cnt(s2, c) = Cnt(s, c) + -1
          /\ \A b \in Nodes(s) \ {c} : Cnt(s2, b) = Cnt(s, b)
      BY <1>4, <1>11, <1>12, <1>14 DEF Counted, Added
    <2>2. \A b \in Nodes(s) \cup {a} :
             Cnt(t, b) = IF b = nx THEN Cnt(s2, b) + 1 ELSE Cnt(s2, b)
      BY <1>11, <1>14, <1>16, <1>18 DEF Counted, Added, Relinked
    <2>3. Cnt(s, c) \in Nat
      BY <1>3, <1>4, ShapeIsRaw
    <2> QED
      BY <1>4, <1>7, <1>8, <2>1, <2>2, <2>3
  (* The list of p, and those of the others. *)
  <1>25. PICK g : g = [q EXCEPT ![i] = a]
    OBVIOUS
  <1>26. /\ g \in Seq(Nodes(t)) /\ Len(g) = Len(q) /\ g[i] = a
         /\ \A k \in 1..Len(q) : k # i => g[k] = q[k]
    <2>1. q \in Seq(Nodes(t)) /\ a \in Nodes(t)
      BY <1>3, <1>20
    <2> QED
      BY <1>3, <1>25, <2>1
  <1>27. \A h \in Packet : \A j \in 1..(Len(f[h]) + 1) :
            LinkAt(f[h], h, j) \in Places(s) /\ (LinkAt(f[h], h, j) = l => h = p /\ j = i)
    <2> TAKE h \in Packet
    <2> TAKE j \in 1..(Len(f[h]) + 1)
    <2>1. LinkAt(f[h], h, j) \in Places(s)
      <3>1. f[h] \in Seq(Nodes(s)) /\ Len(f[h]) \in Nat
        BY ListIs
      <3> QED
        BY <3>1 DEF LinkAt, Places
    <2>2. ASSUME LinkAt(f[h], h, j) = l PROVE h = p /\ j = i
      <3>1. i \in 1..(Len(f[p]) + 1)
        BY <1>1, <1>3
      <3> QED
        BY <1>1, <2>2, <3>1, OwnLink
    <2> QED
      BY <2>1, <2>2
  <1>28. IsPath(t, p, g)
    <2> SUFFICES ASSUME NEW j \in 1..(Len(g) + 1)
                 PROVE  Tgt(t, LinkAt(g, p, j)) = NodeAt(g, j)
      BY <1>26 DEF IsPath
    <2>1. CASE j = i
      <3>1. LinkAt(g, p, j) = l
        BY <1>1, <1>3, <1>26, <2>1 DEF LinkAt
      <3>2. NodeAt(g, j) = a
        BY <1>3, <1>26, <2>1 DEF NodeAt
      <3> QED
        BY <1>6, <1>21, <3>1, <3>2
    <2>2. CASE j = i + 1
      <3>1. LinkAt(g, p, j) = a
        BY <1>3, <1>26, <2>2 DEF LinkAt
      <3>2. NodeAt(g, j) = nx
        BY <1>3, <1>7, <1>26, <2>2 DEF NodeAt
      <3> QED
        BY <1>22, <3>1, <3>2
    <2>3. CASE j # i /\ j # i + 1
      <3>1. LinkAt(g, p, j) = LinkAt(q, p, j) /\ NodeAt(g, j) = NodeAt(q, j)
        BY <1>3, <1>26, <2>3 DEF LinkAt, NodeAt
      <3>2. LinkAt(q, p, j) \in Places(s) /\ LinkAt(q, p, j) # l
        BY <1>1, <1>3, <1>26, <1>27, <2>3
      <3>3. Tgt(s, LinkAt(q, p, j)) = NodeAt(q, j)
        BY <1>3, <1>26 DEF IsPath
      <3> QED
        BY <1>21, <3>1, <3>2, <3>3
    <2> QED
      BY <2>1, <2>2, <2>3
  <1>29. \A h \in Packet \ {p} : \A j \in 1..(Len(f[h]) + 1) :
            Tgt(t, LinkAt(f[h], h, j)) = Tgt(s, LinkAt(f[h], h, j))
    BY <1>21, <1>27
  <1>30. Others(s, t, f, p)
    <2>1. \A h \in Packet \ {p} : \A k \in 1..Len(f[h]) : f[h][k] \in Nodes(s)
      BY Listed
    <2> QED
      BY <1>20, <1>23, <2>1 DEF Others
  <1>31. \A k \in 1..Len(g) :
           TagAt(t, g[k]) = IF k = i THEN [tid |-> s.node[q[k]].tid, data |-> data]
                            ELSE TagAt(s, q[k])
    <2>1. \A k \in 1..Len(q) : q[k] \in Nodes(s)
      BY <1>3
    <2> QED
      BY <1>1, <1>23, <1>26, <2>1
  <1>32. OneEach(t, g)
    <2>1. \A k \in 1..Len(g) : t.node[g[k]].tid = s.node[q[k]].tid
      BY <1>31 DEF TagAt
    <2> QED
      BY <1>3, <1>26, <2>1, SameTypes
  <1>33. \A b \in Nodes(t) : \/ \E k \in 1..Len(g) : g[k] = b
                             \/ \E h \in Packet \ {p} : \E k \in 1..Len(f[h]) : f[h][k] = b
    <2> TAKE b \in Nodes(t)
    <2>1. CASE b = a
      BY <1>3, <1>26, <2>1
    <2>2. CASE b = c
      BY <1>1, <2>2, Shared
    <2>3. CASE b # a /\ b # c
      <3>1. PICK h \in Packet : \E k \in 1..Len(f[h]) : f[h][k] = b
        BY <1>20, <2>3 DEF Good, On
      <3>2. CASE h = p
        <4>1. PICK k \in 1..Len(q) : q[k] = b
          BY <1>1, <3>1, <3>2
        <4>2. k # i
          BY <1>1, <2>3, <4>1
        <4> QED
          BY <1>26, <4>1, <4>2
      <3> QED
        BY <3>1, <3>2
    <2> QED
      BY <2>1, <2>2, <2>3
  (* The counts. *)
  <1>34. \A k \in Places(t) : Tgt(t, k) \in Nodes(t) \cup {Null}
    <2>1. \A k \in Places(s) : Tgt(s, k) \in Nodes(s) \cup {Null}
      BY <1>3, Leads
    <2> QED
      BY <1>7, <1>20, <1>21, <1>22, <2>1
  <1>35. ASSUME NEW b \in Nodes(t) PROVE Cnt(t, b) = Cardinality(In(t, b))
    <2>0. \A k \in Places(s) : Tgt(s, k) # a
      BY <1>3, <1>5, Leads
    <2>1. CASE b = a
      <3>1. In(t, b) = {l}
        BY <1>6, <1>7, <1>20, <1>21, <1>22, <2>0, <2>1 DEF In
      <3>2. Cardinality({l}) = 1
        BY FS_Singleton
      <3> QED
        BY <1>24, <2>1, <3>1, <3>2
    <2>2. ASSUME b \in Nodes(s)
          PROVE  /\ IsFiniteSet(In(s, b)) /\ Cnt(s, b) = Cardinality(In(s, b))
                 /\ Cnt(s, b) \in Nat
      <3>1. IsFiniteSet(In(s, b))
        BY <1>3, PlacesFinite
      <3>2. s.node[b].count = Cardinality(In(s, b))
        BY <2>2 DEF Good
      <3>3. Cnt(s, b) \in Nat
        BY <1>3, <2>2, ShapeIsRaw
      <3> QED
        BY <3>1, <3>2, <3>3 DEF Cnt
    <2>3. CASE b = c
      <3>1. In(t, b) = In(s, b) \ {l}
        BY <1>5, <1>6, <1>7, <1>8, <1>20, <1>21, <1>22, <2>3 DEF In
      <3>2. IsFiniteSet(In(s, b)) /\ l \in In(s, b)
        BY <1>4, <2>2, <2>3
      <3>3. Cardinality(In(t, b)) = Cardinality(In(s, b)) - 1
        BY <3>1, <3>2, OneFewer
      <3> QED
        BY <1>4, <1>24, <2>2, <2>3, <3>3
    <2>4. CASE b = nx
      <3>1. b \in Nodes(s)
        BY <1>7, <1>20, <2>4
      <3>2. In(t, b) = In(s, b) \cup {a}
        <4>1. b # a /\ b # c
          BY <1>7, <1>8, <2>4
        <4> QED
          BY <1>5, <1>6, <1>20, <1>21, <1>22, <2>4, <4>1 DEF In
      <3>3. a \notin In(s, b) /\ IsFiniteSet(In(s, b))
        BY <1>5, <2>2, <3>1 DEF In, Places
      <3>4. Cardinality(In(t, b)) = Cardinality(In(s, b)) + 1
        BY <3>2, <3>3, OneMore
      <3>5. nx # Null
        BY <1>3, <2>4, <3>1, NodeType
      <3> QED
        BY <1>24, <2>2, <2>4, <3>1, <3>4, <3>5
    <2>5. CASE b # a /\ b # c /\ b # nx
      <3>1. b \in Nodes(s)
        BY <1>20, <2>5
      <3>2. In(t, b) = In(s, b)
        BY <1>5, <1>6, <1>20, <1>21, <1>22, <2>5 DEF In, Places
      <3> QED
        BY <1>24, <2>2, <2>5, <3>1, <3>2
    <2> QED
      BY <2>1, <2>3, <2>4, <2>5
  <1>36. Good(t, With(f, p, g))
    BY <1>20, <1>28, <1>29, <1>30, <1>32, <1>33, <1>34, <1>35, Done
  <1>37. Alone(t, g, i)
    <2> SUFFICES ASSUME NEW k \in 1..i PROVE Cnt(t, g[k]) = 1
      BY DEF Alone, Cnt
    <2>1. CASE k = i
      BY <1>24, <1>26, <2>1
    <2>2. CASE k # i
      <3>1. k \in 1..(i - 1) /\ k \in 1..Len(q)
        BY <1>3, <2>2
      <3>2. q[k] \in Nodes(s) /\ g[k] = q[k] /\ Cnt(s, q[k]) = 1
        BY <1>1, <1>3, <1>26, <2>2, <3>1 DEF Alone, Cnt
      <3>3. q[k] # c
        BY <1>1, <1>3, <2>2, <3>1 DEF OneEach
      <3>4. q[k] # nx
        <4> SUFFICES ASSUME q[k] = nx PROVE FALSE
          OBVIOUS
        <4>1. nx # Null
          BY <1>3, <3>2, NodeType
        <4>2. i + 1 \in 1..Len(q) /\ q[i + 1] = q[k]
          BY <1>3, <1>7, <4>1 DEF NodeAt
        <4> QED
          BY <1>3, <3>1, <4>2 DEF OneEach
      <3> QED
        BY <1>24, <3>2, <3>3, <3>4
    <2> QED
      BY <2>1, <2>2
  <1>38. ASSUME i < Len(g) PROVE Cnt(t, g[i + 1]) > 1
    <2>1. i + 1 \in 1..Len(q) /\ g[i + 1] = q[i + 1] /\ nx = q[i + 1]
      BY <1>3, <1>7, <1>26, <1>38 DEF NodeAt
    <2>2. nx \in Nodes(s) /\ nx # Null
      <3>1. nx \in Nodes(s)
        BY <1>3, <2>1
      <3> QED
        BY <1>3, <3>1, NodeType
    <2>3. q[i + 1] \in Nodes(s) /\ s.node[q[i + 1]].count >= 1
      BY <1>1, <2>1, Listed
    <2>4. Cnt(s, nx) \in Nat
      BY <1>3, <2>2, ShapeIsRaw
    <2> QED
      BY <1>24, <2>1, <2>2, <2>3, <2>4 DEF Cnt
  <1> QED
    BY <1>1, <1>19, <1>25, <1>26, <1>30, <1>31, <1>36, <1>37, <1>38 DEF CopyDone

-----------------------------------------------------------------------------
(* The copying loop. *)
Turn(s, p, m, w, j) ==
  IF j < m THEN [store |-> s, link |-> LinkTo(s, p, m)]
  ELSE Unmerge(w, Chain(s, p)[j])
IsLoop(h, s, p, m) ==
  h = [j \in Nat |->
         IF j < m THEN [store |-> s, link |-> LinkTo(s, p, m)]
         ELSE Unmerge(h[j - 1], Chain(s, p)[j])]

LEMMA UnmergedIs ==
  ASSUME NEW s, NEW p, NEW m, NEW i
  PROVE  Unmerged(s, p, m, i) = (CHOOSE h : IsLoop(h, s, p, m))[i - 1]
  BY Zenon DEF Unmerged, IsLoop

LEMMA LoopExists ==
  ASSUME NEW s, NEW p, NEW m \in Nat, m > 0
  PROVE  \E h : IsLoop(h, s, p, m)
  <1> DEFINE More(w, j) == Turn(s, p, m, w, j)
             Base == [store |-> s, link |-> LinkTo(s, p, m)]
             Part(f, k) == /\ f[0] = Base
                           /\ \A n \in 0..k : n # 0 => f[n] = More(f[n - 1], n)
             P == {k \in Nat : \E f : Part(f, k)}
  <1> HIDE DEF More, Base
  <1>1. 0 \in P
    <2>1. PICK f : f = [n \in 0..0 |-> Base]
      OBVIOUS
    <2>2. Part(f, 0)
      BY <2>1
    <2> QED
      BY <2>2
  <1>2. ASSUME NEW k \in P PROVE k + 1 \in P
    <2>1. PICK f : Part(f, k)
      OBVIOUS
    <2>2. PICK g : g = [n \in 0..(k + 1) |-> IF n = k + 1 THEN More(f[k], k + 1) ELSE f[n]]
      OBVIOUS
    <2>3. g[0] = Base
      BY <2>1, <2>2
    <2>4. ASSUME NEW n \in 0..(k + 1), n # 0
          PROVE  g[n] = More(g[n - 1], n)
      <3>1. n - 1 \in 0..(k + 1) /\ n - 1 # k + 1 /\ k \in Nat
        BY <2>4
      <3>2. g[n - 1] = f[n - 1]
        BY <2>2, <3>1
      <3>3. CASE n = k + 1
        <4>1. n - 1 = k /\ g[n] = More(f[k], k + 1)
          BY <2>2, <3>1, <3>3
        <4> QED
          BY <3>2, <3>3, <4>1
      <3>4. CASE n # k + 1
        <4>1. n \in 0..k /\ g[n] = f[n]
          BY <2>2, <3>1, <3>4
        <4> QED
          BY <2>1, <2>4, <3>2, <4>1
      <3> QED
        BY <3>3, <3>4
    <2>5. Part(g, k + 1)
      BY <2>3, <2>4
    <2> HIDE DEF Part
    <2> QED
      BY <2>5
  <1>3. P = Nat
    <2> HIDE DEF P
    <2>1. P \in SUBSET Nat
      BY DEF P
    <2> QED
      BY <1>1, <1>2, <2>1, Induction
  <1>4. ASSUME NEW k \in Nat, NEW l \in Nat, NEW f, NEW g, Part(f, k), Part(g, l), NEW n \in Nat
        PROVE  n <= k /\ n <= l => f[n] = g[n]
    <2> DEFINE Q == {i \in Nat : i <= k /\ i <= l => f[i] = g[i]}
    <2>1. 0 \in Q
      BY <1>4
    <2>2. ASSUME NEW i \in Q PROVE i + 1 \in Q
      <3> SUFFICES ASSUME i + 1 <= k, i + 1 <= l PROVE f[i + 1] = g[i + 1]
        OBVIOUS
      <3>1. PICK j \in Nat : j = i + 1
        OBVIOUS
      <3>2. j \in 0..k /\ j \in 0..l /\ j # 0 /\ j - 1 = i /\ i <= k /\ i <= l
        BY <3>1
      <3>3. f[i] = g[i]
        BY <3>2
      <3>4. f[j] = More(f[j - 1], j) /\ g[j] = More(g[j - 1], j)
        BY <1>4, <3>2
      <3> QED
        BY <3>1, <3>2, <3>3, <3>4
    <2>3. Q \in SUBSET Nat
      OBVIOUS
    <2>4. Q = Nat
      <3> HIDE DEF Q
      <3> QED
        BY <2>1, <2>2, <2>3, Induction
    <2> QED
      BY <2>4
  <1> DEFINE H(k) == CHOOSE f : Part(f, k)
  <1>5. ASSUME NEW k \in Nat PROVE Part(H(k), k)
    <2>1. \E f : Part(f, k)
      BY <1>3
    <2> HIDE DEF Part
    <2> QED
      BY <2>1
  <1>6. PICK F : F = [n \in Nat |-> H(n)[n]]
    OBVIOUS
  <1> HIDE DEF H
  <1>7. F[0] = Base
    BY <1>5, <1>6
  <1>8. ASSUME NEW n \in Nat, n # 0
        PROVE  F[n] = More(F[n - 1], n)
    <2>1. n - 1 \in Nat /\ n \in 0..n /\ n - 1 <= n /\ n - 1 <= n - 1
      BY <1>8
    <2>2. F[n] = H(n)[n] /\ F[n - 1] = H(n - 1)[n - 1]
      BY <1>6, <2>1
    <2>3. H(n)[n] = More(H(n)[n - 1], n)
      BY <1>5, <1>8, <2>1
    <2>4. H(n)[n - 1] = H(n - 1)[n - 1]
      <3>1. Part(H(n), n) /\ Part(H(n - 1), n - 1)
        BY <1>5, <2>1
      <3> HIDE DEF Part
      <3> QED
        BY <1>4, <2>1, <3>1
    <2> QED
      BY <2>2, <2>3, <2>4
  <1>9. \A n \in Nat : F[n] = IF n < m THEN [store |-> s, link |-> LinkTo(s, p, m)]
                              ELSE Unmerge(F[n - 1], Chain(s, p)[n])
    <2> TAKE n \in Nat
    <2>1. CASE n = 0
      BY <1>7, <2>1 DEF Base
    <2>2. CASE n # 0
      BY <1>8, <2>2 DEF More, Turn
    <2> QED
      BY <2>1, <2>2
  <1>10. F = [n \in Nat |-> IF n < m THEN [store |-> s, link |-> LinkTo(s, p, m)]
                            ELSE Unmerge(F[n - 1], Chain(s, p)[n])]
    BY <1>6, <1>9
  <1>11. IsLoop(F, s, p, m)
    BY <1>10, Zenon DEF IsLoop
  <1> QED
    BY <1>11

LEMMA WithTwice ==
  ASSUME NEW f \in [Packet -> Seq(Address)], NEW p \in Packet,
         NEW g \in Seq(Address), NEW h
  PROVE  /\ With(f, p, g)[p] = g
         /\ \A q \in Packet \ {p} : With(f, p, g)[q] = f[q]
         /\ With(With(f, p, g), p, h) = With(f, p, h)
  BY DEF With

(* The first j nodes of p's list have been copied, up to the merge. *)
Copying(s, f, p, w, j, g) ==
  /\ Good(w.store, With(f, p, g)) /\ w.link = LinkAt(g, p, j + 1)
  /\ g \in Seq(Address) /\ Len(g) = Len(f[p])
  /\ \A k \in 1..Len(g) : k > j => g[k] = f[p][k]
  /\ \A k \in 1..Len(g) : TagAt(w.store, g[k]) = TagAt(s, f[p][k])
  /\ Alone(w.store, g, j)
  /\ j < Len(g) => Cnt(w.store, g[j + 1]) > 1
  /\ Others(s, w.store, f, p)

LEMMA OneTurn ==
  ASSUME NEW s, NEW f, Good(s, f), NEW p \in Packet, NEW w, NEW j \in Nat, NEW g,
         Copying(s, f, p, w, j, g), j < Len(g)
  PROVE  \E h : Copying(s, f, p, Unmerge(w, f[p][j + 1]), j + 1, h)
  <1>1. PICK u, F, i, c : /\ u = w.store /\ F = With(f, p, g) /\ i = j + 1
                          /\ c = f[p][j + 1]
    OBVIOUS
  <1>2. f \in [Packet -> Seq(Address)] /\ g \in Seq(Address) /\ Len(g) \in Nat
    BY DEF Good, Copying
  <1>3. F[p] = g /\ \A q \in Packet \ {p} : F[q] = f[q]
    BY <1>1, <1>2, WithTwice
  <1>4. /\ Good(u, F) /\ i \in 1..Len(F[p]) /\ Alone(u, F[p], i - 1)
        /\ u.node[F[p][i]].count > 1 /\ F[p][i] = c
    BY <1>1, <1>2, <1>3 DEF Copying, Cnt
  <1>5. PICK x : x = u.node[c].data
    OBVIOUS
  <1>6. x \in Value
    <2>1. Shape(u) /\ c \in Nodes(u)
      BY <1>4, ListIs, Listed
    <2> QED
      BY <1>5, <2>1, NodeType
  <1>7. PICK t, h : /\ t = Copied(u, LinkAt(F[p], p, i), F[p][i], x)
                    /\ h = [F[p] EXCEPT ![i] = Fresh(u)]
    OBVIOUS
  <1>8. CopyDone(u, F, p, i, x, t, h)
    BY <1>4, <1>6, <1>7, CopiedIs
  <1>9. PICK v : v = Unmerge(w, c)
    OBVIOUS
  <1>10. v.store = t /\ v.link = Fresh(u)
    <2>1. w.link = LinkAt(F[p], p, i)
      BY <1>1, <1>3 DEF Copying
    <2>2. v = [store |-> Copied(u, w.link, c, x), link |-> Fresh(u)]
      BY <1>1, <1>5, <1>9 DEF Unmerge
    <2> QED
      BY <1>4, <1>7, <2>1, <2>2
  <1>11. /\ h \in Seq(Address) /\ Len(h) = Len(g) /\ h[i] = Fresh(u)
         /\ \A k \in 1..Len(h) : k # i => h[k] = g[k]
    <2>1. Fresh(u) \in Address
      BY <1>4, RoomLeft
    <2> QED
      BY <1>2, <1>3, <1>4, <1>7, <2>1
  <1>12. Good(v.store, With(f, p, h))
    <2>1. Good(t, With(F, p, h))
      BY <1>8 DEF CopyDone
    <2>2. With(F, p, h) = With(f, p, h)
      BY <1>1, <1>2, WithTwice
    <2> QED
      BY <1>10, <2>1, <2>2
  <1>13. v.link = LinkAt(h, p, i + 1)
    BY <1>4, <1>10, <1>11 DEF LinkAt
  <1>14. \A k \in 1..Len(h) : k > i => h[k] = f[p][k]
    <2>1. \A k \in 1..Len(g) : k > j => g[k] = f[p][k]
      BY DEF Copying
    <2> QED
      BY <1>1, <1>2, <1>11, <2>1
  <1>15. \A k \in 1..Len(h) : TagAt(v.store, h[k]) = TagAt(s, f[p][k])
    <2>1. \A k \in 1..Len(g) : TagAt(u, g[k]) = TagAt(s, f[p][k])
      BY <1>1 DEF Copying
    <2>2. \A k \in 1..Len(h) :
             TagAt(t, h[k]) = IF k = i THEN [tid |-> u.node[g[k]].tid, data |-> x]
                              ELSE TagAt(u, g[k])
      BY <1>3, <1>8 DEF CopyDone
    <2>3. TagAt(u, g[i]) = [tid |-> u.node[g[i]].tid, data |-> x]
      BY <1>3, <1>4, <1>5 DEF TagAt
    <2> QED
      BY <1>10, <1>11, <2>1, <2>2, <2>3
  <1>16. Alone(v.store, h, i) /\ (i < Len(h) => Cnt(v.store, h[i + 1]) > 1)
    BY <1>8, <1>10 DEF CopyDone
  <1>17. Others(s, v.store, f, p)
    <2>1. Others(s, u, f, p) /\ Others(u, t, F, p)
      BY <1>1, <1>8 DEF CopyDone, Copying
    <2> QED
      BY <1>3, <1>10, <2>1 DEF Others
  <1>18. Len(h) = Len(f[p])
    BY <1>11 DEF Copying
  <1>19. Copying(s, f, p, v, i, h)
    BY <1>11, <1>12, <1>13, <1>14, <1>15, <1>16, <1>17, <1>18 DEF Copying
  <1> QED
    BY <1>1, <1>9, <1>19

LEMMA WithItself ==
  ASSUME NEW s, NEW f, Good(s, f), NEW p \in Packet
  PROVE  With(f, p, f[p]) = f
  BY DEF Good, With

LEMMA NothingElse ==
  ASSUME NEW s, NEW f, Good(s, f), NEW p
  PROVE  Others(s, s, f, p)
  <1>1. \A q \in Packet : \A k \in 1..Len(f[q]) : f[q][k] \in Nodes(s)
    BY Listed
  <1> QED
    BY <1>1 DEF Others

LEMMA LoopIs ==
  ASSUME NEW s, NEW f, Good(s, f), NEW p \in Packet,
         NEW m \in 1..Len(f[p]), NEW i \in 1..Len(f[p]), m <= i,
         Alone(s, f[p], m - 1), s.node[f[p][m]].count > 1
  PROVE  \E g : Copying(s, f, p, Unmerged(s, p, m, i), i - 1, g)
  <1>0. /\ Chain(s, p) = f[p] /\ f[p] \in Seq(Address) /\ Len(f[p]) \in Nat
        /\ f \in [Packet -> Seq(Address)]
    BY ChainIs DEF Good
  <1> DEFINE h == CHOOSE h : IsLoop(h, s, p, m)
  <1>1. IsLoop(h, s, p, m)
    <2>1. m \in Nat /\ m > 0
      BY <1>0
    <2> QED
      BY <2>1, LoopExists, Zenon
  <1>2. Unmerged(s, p, m, i) = h[i - 1]
    BY UnmergedIs, Zenon
  <1> HIDE DEF h
  <1>3. \A j \in Nat : h[j] = IF j < m THEN [store |-> s, link |-> LinkTo(s, p, m)]
                              ELSE Unmerge(h[j - 1], f[p][j])
    BY <1>0, <1>1 DEF IsLoop
  <1> DEFINE P == {n \in Nat : n + m <= i =>
                      \E g : Copying(s, f, p, h[(n + m) - 1], (n + m) - 1, g)}
  <1>4. 0 \in P
    <2>1. PICK j \in Nat : j = m - 1 /\ j < m /\ j + 1 = m
      BY <1>0
    <2>2. PICK w : w = h[j]
      OBVIOUS
    <2>3. w.store = s /\ w.link = LinkTo(s, p, m)
      BY <1>3, <2>1, <2>2
    <2>4. w.link = LinkAt(f[p], p, j + 1)
      BY <1>0, <2>1, <2>3 DEF LinkTo, LinkAt
    <2>5. Good(w.store, With(f, p, f[p]))
      BY <2>3, WithItself
    <2>6. Others(s, w.store, f, p)
      BY <2>3, NothingElse
    <2>7. Alone(w.store, f[p], j) /\ (j < Len(f[p]) => Cnt(w.store, f[p][j + 1]) > 1)
      BY <2>1, <2>3 DEF Cnt
    <2>8. Copying(s, f, p, w, j, f[p])
      BY <1>0, <2>3, <2>4, <2>5, <2>6, <2>7 DEF Copying
    <2>9. (0 + m) - 1 = j
      BY <1>0, <2>1
    <2> QED
      BY <2>2, <2>8, <2>9
  <1>5. ASSUME NEW n \in P PROVE n + 1 \in P
    <2>1. PICK j \in Nat : j = (n + m) - 1 /\ j + 1 = ((n + 1) + m) - 1
      BY <1>0
    <2>2. ASSUME (n + 1) + m <= i
          PROVE  \E g : Copying(s, f, p, h[j + 1], j + 1, g)
      <3>1. PICK g : Copying(s, f, p, h[j], j, g)
        BY <1>0, <2>1, <2>2
      <3>2. Len(g) = Len(f[p])
        BY <3>1 DEF Copying
      <3>3. j < Len(g) /\ ~(j + 1 < m) /\ j + 1 \in Nat /\ (j + 1) - 1 = j
        BY <1>0, <2>1, <2>2, <3>2
      <3>4. h[j + 1] = Unmerge(h[j], f[p][j + 1])
        BY <1>3, <3>3
      <3>5. PICK w : w = h[j]
        OBVIOUS
      <3>6. \E k : Copying(s, f, p, Unmerge(w, f[p][j + 1]), j + 1, k)
        BY <3>1, <3>3, <3>5, OneTurn
      <3> QED
        BY <3>4, <3>5, <3>6
    <2> QED
      BY <2>1, <2>2
  <1>6. P = Nat
    BY <1>4, <1>5, Induction
  <1>7. PICK n \in Nat : n = i - m
    BY <1>0
  <1>8. n + m <= i /\ (n + m) - 1 = i - 1
    BY <1>0, <1>7
  <1>9. \E g : Copying(s, f, p, h[(n + m) - 1], (n + m) - 1, g)
    BY <1>6, <1>8
  <1> QED
    BY <1>2, <1>8, <1>9

-----------------------------------------------------------------------------
(* What a call does: the packet p now has the tags L, the others have what *)
(* they had.                                                               *)
TagsIn(s, q) == [k \in DOMAIN q |-> TagAt(s, q[k])]
Changed(s, f, p, t, L) ==
  \E g \in Seq(Address) :
     Good(t, With(f, p, g)) /\ Others(s, t, f, p) /\ TagsIn(t, g) = L

Tags == [tid : Type, data : Value]

LEMMA TagsInIs ==
  ASSUME NEW s, NEW q, Shape(s), q \in Seq(Nodes(s))
  PROVE  /\ TagsIn(s, q) \in Seq(Tags) /\ Len(TagsIn(s, q)) = Len(q)
         /\ \A k \in 1..Len(q) : TagsIn(s, q)[k] = TagAt(s, q[k])
  <1>1. \A k \in 1..Len(q) : q[k] \in Nodes(s)
    OBVIOUS
  <1>2. \A a \in Nodes(s) : TagAt(s, a) \in Tags
    BY NodeType DEF TagAt, Tags
  <1> QED
    BY <1>1, <1>2 DEF TagsIn

(* The tags on a list, item by item. *)
LEMMA TagsAre ==
  ASSUME NEW t, NEW g, Shape(t), g \in Seq(Nodes(t)), NEW L \in Seq(Tags),
         Len(g) = Len(L), \A k \in 1..Len(L) : TagAt(t, g[k]) = L[k]
  PROVE  TagsIn(t, g) = L
  <1>1. PICK M : M = TagsIn(t, g)
    OBVIOUS
  <1>2. M \in Seq(Tags) /\ Len(M) = Len(L) /\ \A k \in 1..Len(L) : M[k] = L[k]
    <2>1. M \in Seq(Tags) /\ Len(M) = Len(g)
      BY <1>1, TagsInIs
    <2>2. \A k \in 1..Len(g) : M[k] = TagAt(t, g[k])
      BY <1>1, TagsInIs
    <2> QED
      BY <2>1, <2>2
  <1>3. M = L
    BY <1>2, SeqEqual
  <1> QED
    BY <1>1, <1>3

LEMMA RemoveAtIs ==
  ASSUME NEW S, NEW q \in Seq(S), NEW i \in 1..Len(q)
  PROVE  /\ RemoveAt(q, i) \in Seq(S) /\ Len(RemoveAt(q, i)) = Len(q) - 1
         /\ \A k \in 1..(Len(q) - 1) :
               RemoveAt(q, i)[k] = IF k < i THEN q[k] ELSE q[k + 1]
  <1> DEFINE a == SubSeq(q, 1, i - 1)
             b == SubSeq(q, i + 1, Len(q))
  <1>1. Len(q) \in Nat /\ i \in Int /\ i >= 1 /\ i <= Len(q)
    OBVIOUS
  <1>2. a \in Seq(S) /\ Len(a) = i - 1 /\ \A k \in 1..(i - 1) : a[k] = q[k]
    BY <1>1
  <1>3. /\ b \in Seq(S) /\ Len(b) = Len(q) - i
        /\ \A k \in 1..(Len(q) - i) : b[k] = q[i + k]
    BY <1>1
  <1>4. PICK x, y : x = a /\ y = b
    OBVIOUS
  <1>5. RemoveAt(q, i) = x \o y
    BY <1>4, Zenon DEF RemoveAt
  <1> HIDE DEF a, b
  <1>6. PICK r : r = x \o y
    OBVIOUS
  <1>7. /\ r \in Seq(S) /\ Len(r) = Len(x) + Len(y)
        /\ \A k \in 1..Len(x) : r[k] = x[k]
        /\ \A k \in 1..Len(y) : r[Len(x) + k] = y[k]
    BY <1>2, <1>3, <1>4, <1>6
  <1>9. /\ Len(x) = i - 1 /\ Len(y) = Len(q) - i
        /\ \A k \in 1..Len(x) : r[k] = q[k]
        /\ \A k \in 1..Len(y) : r[(i - 1) + k] = q[i + k]
    <2>1. Len(x) = i - 1 /\ Len(y) = Len(q) - i
      BY <1>2, <1>3, <1>4
    <2>2. \A k \in 1..Len(x) : x[k] = q[k]
      BY <1>2, <1>4, <2>1
    <2>3. \A k \in 1..Len(y) : y[k] = q[i + k]
      BY <1>3, <1>4, <2>1
    <2> QED
      BY <1>7, <2>1, <2>2, <2>3
  <1>8. ASSUME NEW k \in 1..(Len(q) - 1)
        PROVE  r[k] = IF k < i THEN q[k] ELSE q[k + 1]
    <2>1. CASE k < i
      BY <1>1, <1>9, <2>1
    <2>2. CASE ~(k < i)
      <3>1. PICK h \in Int : h = k - (i - 1)
        BY <1>1
      <3>2. h \in 1..Len(y) /\ k = (i - 1) + h /\ i + h = k + 1
        BY <1>1, <1>9, <2>2, <3>1
      <3> QED
        BY <1>9, <2>2, <3>2
    <2> QED
      BY <2>1, <2>2
  <1> QED
    <2>1. r \in Seq(S) /\ Len(r) = Len(q) - 1
      BY <1>1, <1>7, <1>9
    <2> QED
      BY <1>5, <1>6, <1>8, <2>1

(* The pointer to the i-th node of p now leads around it; the node is      *)
(* still there if another list has it.                                     *)
LEMMA LinkedAround ==
  ASSUME NEW s, NEW f, Good(s, f), NEW p \in Packet, NEW i \in 1..Len(f[p]),
         Alone(s, f[p], i - 1),
         NEW c, c = f[p][i], NEW l, l = LinkAt(f[p], p, i), NEW nx, nx = s.node[c].next,
         NEW t, Raw(t), Nodes(t) \subseteq Nodes(s),
         \A b \in Nodes(s) \ {c} : b \in Nodes(t),
         c \in Nodes(t) <=>
           (\E h \in Packet \ {p} : \E k \in 1..Len(f[h]) : f[h][k] = c),
         \A k \in Places(t) : Tgt(t, k) = IF k = l THEN nx ELSE Tgt(s, k),
         \A k \in Places(t) : Tgt(t, k) \in Nodes(t) \cup {Null},
         \A b \in Nodes(t) : TagAt(t, b) = TagAt(s, b),
         \A b \in Nodes(t) : Cnt(t, b) = Cardinality(In(t, b))
  PROVE  Changed(s, f, p, t, RemoveAt(TagsIn(s, f[p]), i))
  <1>1. PICK q, g : q = f[p] /\ g = RemoveAt(q, i)
    OBVIOUS
  <1>2. /\ Shape(s) /\ IsPath(s, p, q) /\ OneEach(s, q)
        /\ q \in Seq(Nodes(s)) /\ Len(q) \in Nat /\ i \in 1..Len(q)
    BY <1>1, ListIs
  <1>3. nx = NodeAt(q, i + 1)
    BY <1>1, <1>2, PathNext
  <1>4. /\ Len(g) = Len(q) - 1
        /\ \A k \in 1..(Len(q) - 1) : g[k] = IF k < i THEN q[k] ELSE q[k + 1]
    BY <1>1, <1>2, RemoveAtIs
  <1>5. \A k \in 1..Len(q) : k # i => q[k] \in Nodes(t)
    <2> TAKE k \in 1..Len(q)
    <2>1. q[k] \in Nodes(s) /\ q[i] = c
      BY <1>1, <1>2
    <2>2. k # i => q[k] # c
      BY <1>2, <2>1 DEF OneEach
    <2> QED
      BY <2>1, <2>2
  <1>6. g \in Seq(Nodes(t))
    <2>1. g \in Seq(Nodes(s))
      BY <1>1, <1>2, RemoveAtIs
    <2>2. \A k \in 1..Len(g) : g[k] \in Nodes(t)
      BY <1>2, <1>4, <1>5
    <2> QED
      BY <2>1, <2>2
  <1>7. \A h \in Packet : \A j \in 1..(Len(f[h]) + 1) :
           LinkAt(f[h], h, j) = l => h = p /\ j = i
    <2> TAKE h \in Packet
    <2> TAKE j \in 1..(Len(f[h]) + 1)
    <2> HAVE LinkAt(f[h], h, j) = l
    <2>1. i \in 1..(Len(f[p]) + 1)
      BY <1>1, <1>2
    <2> QED
      BY <2>1, OwnLink
  <1>8. IsPath(t, p, g)
    <2> SUFFICES ASSUME NEW j \in 1..(Len(g) + 1)
                 PROVE  Tgt(t, LinkAt(g, p, j)) = NodeAt(g, j)
      BY <1>6 DEF IsPath
    <2>1. LinkAt(g, p, j) \in Places(t)
      <3>1. j # 1 => j - 1 \in 1..Len(g) /\ g[j - 1] \in Nodes(t)
        BY <1>2, <1>4, <1>6
      <3> QED
        BY <3>1 DEF LinkAt, Places
    <2>2. CASE j = i
      <3>1. LinkAt(g, p, j) = l
        BY <1>1, <1>2, <1>4, <2>2 DEF LinkAt
      <3>2. NodeAt(g, j) = nx
        BY <1>2, <1>3, <1>4, <2>2 DEF NodeAt
      <3> QED
        BY <2>1, <3>1, <3>2
    <2>3. CASE j < i
      <3>1. LinkAt(g, p, j) = LinkAt(q, p, j) /\ NodeAt(g, j) = NodeAt(q, j)
            /\ j \in 1..(Len(q) + 1)
        BY <1>2, <1>4, <2>3 DEF LinkAt, NodeAt
      <3>2. LinkAt(q, p, j) # l
        BY <1>1, <1>2, <1>7, <2>3, <3>1
      <3>3. Tgt(s, LinkAt(q, p, j)) = NodeAt(q, j)
        BY <1>2, <3>1 DEF IsPath
      <3> QED
        BY <2>1, <3>1, <3>2, <3>3
    <2>4. CASE j > i
      <3>1. LinkAt(g, p, j) = LinkAt(q, p, j + 1) /\ NodeAt(g, j) = NodeAt(q, j + 1)
            /\ j + 1 \in 1..(Len(q) + 1)
        BY <1>2, <1>4, <2>4 DEF LinkAt, NodeAt
      <3>2. LinkAt(q, p, j + 1) # l
        BY <1>1, <1>2, <1>7, <2>4, <3>1
      <3>3. Tgt(s, LinkAt(q, p, j + 1)) = NodeAt(q, j + 1)
        BY <1>2, <3>1 DEF IsPath
      <3> QED
        BY <2>1, <3>1, <3>2, <3>3
    <2> QED
      BY <1>2, <2>2, <2>3, <2>4
  <1>9. \A h \in Packet \ {p} : \A k \in 1..Len(f[h]) : f[h][k] \in Nodes(t)
    <2> TAKE h \in Packet \ {p}
    <2> TAKE k \in 1..Len(f[h])
    <2>1. f[h][k] \in Nodes(s)
      BY Listed
    <2> QED
      BY <2>1
  <1>10. Others(s, t, f, p)
    BY <1>9 DEF Others
  <1>11. \A h \in Packet \ {p} : \A j \in 1..(Len(f[h]) + 1) :
            Tgt(t, LinkAt(f[h], h, j)) = Tgt(s, LinkAt(f[h], h, j))
    <2> TAKE h \in Packet \ {p}
    <2> TAKE j \in 1..(Len(f[h]) + 1)
    <2>1. Len(f[h]) \in Nat
      BY ListIs
    <2>2. j # 1 => j - 1 \in 1..Len(f[h])
      BY <2>1
    <2>3. LinkAt(f[h], h, j) \in Places(t)
      BY <1>9, <2>2 DEF LinkAt, Places
    <2> QED
      BY <1>7, <2>3
  <1>12. OneEach(t, g)
    <2>1. \A b \in Nodes(t) : t.node[b].tid = s.node[b].tid
      BY DEF TagAt
    <2>2. \A k \in 1..Len(g) : g[k] \in Nodes(t)
      BY <1>6
    <2>3. ASSUME NEW j \in 1..Len(g), NEW k \in 1..Len(g),
                 t.node[g[j]].tid = t.node[g[k]].tid
          PROVE  j = k
      <3>1. PICK x \in 1..Len(q) : g[j] = q[x] /\ x = IF j < i THEN j ELSE j + 1
        BY <1>2, <1>4
      <3>2. PICK y \in 1..Len(q) : g[k] = q[y] /\ y = IF k < i THEN k ELSE k + 1
        BY <1>2, <1>4
      <3>3. s.node[q[x]].tid = s.node[q[y]].tid
        BY <2>1, <2>2, <2>3, <3>1, <3>2
      <3>4. x = y
        BY <1>2, <3>3 DEF OneEach
      <3> QED
        BY <1>2, <3>1, <3>2, <3>4
    <2> QED
      BY <2>3 DEF OneEach
  <1>13. \A b \in Nodes(t) : \/ \E k \in 1..Len(g) : g[k] = b
                             \/ \E h \in Packet \ {p} : \E k \in 1..Len(f[h]) : f[h][k] = b
    <2> TAKE b \in Nodes(t)
    <2>1. PICK h \in Packet : \E k \in 1..Len(f[h]) : f[h][k] = b
      BY DEF Good, On
    <2>2. CASE h = p
      <3>1. PICK k \in 1..Len(q) : q[k] = b
        BY <1>1, <2>1, <2>2
      <3>2. CASE k = i
        BY <1>1, <3>1, <3>2
      <3>3. CASE k < i
        <4>1. k \in 1..Len(g) /\ g[k] = b
          BY <1>2, <1>4, <3>1, <3>3
        <4> QED
          BY <4>1
      <3>4. CASE k > i
        <4>1. k - 1 \in 1..Len(g) /\ ~(k - 1 < i) /\ (k - 1) + 1 = k
          BY <1>2, <1>4, <3>4
        <4>2. g[k - 1] = b
          BY <1>4, <3>1, <4>1
        <4> QED
          BY <4>1, <4>2
      <3> QED
        BY <1>2, <3>2, <3>3, <3>4
    <2> QED
      BY <2>1, <2>2
  <1>14. Good(t, With(f, p, g))
    BY <1>8, <1>10, <1>11, <1>12, <1>13, Done
  <1>15. g \in Seq(Address)
    BY <1>6 DEF Raw
  <1>16. TagsIn(t, g) = RemoveAt(TagsIn(s, q), i)
    <2>1. PICK L, M : L = TagsIn(s, q) /\ M = RemoveAt(L, i)
      OBVIOUS
    <2>2. L \in Seq(Tags) /\ Len(L) = Len(q) /\ \A k \in 1..Len(q) : L[k] = TagAt(s, q[k])
      <3>1. L \in Seq(Tags) /\ Len(L) = Len(q)
        BY <1>2, <2>1, TagsInIs
      <3>2. \A k \in 1..Len(q) : L[k] = TagAt(s, q[k])
        BY <1>2, <2>1, TagsInIs
      <3> QED
        BY <3>1, <3>2
    <2>3. M \in Seq(Tags) /\ Len(M) = Len(L) - 1
          /\ \A k \in 1..(Len(L) - 1) : M[k] = IF k < i THEN L[k] ELSE L[k + 1]
      <3>1. i \in 1..Len(L)
        BY <1>2, <2>2
      <3>2. M \in Seq(Tags) /\ Len(M) = Len(L) - 1
        BY <2>1, <2>2, <3>1, RemoveAtIs
      <3>3. \A k \in 1..(Len(L) - 1) : M[k] = IF k < i THEN L[k] ELSE L[k + 1]
        BY <2>1, <2>2, <3>1, RemoveAtIs
      <3> QED
        BY <3>2, <3>3
    <2>4. \A k \in 1..Len(M) : TagAt(t, g[k]) = M[k]
      <3> TAKE k \in 1..Len(M)
      <3>1. k \in 1..Len(g) /\ g[k] \in Nodes(t)
        BY <1>2, <1>4, <1>6, <2>2, <2>3
      <3>2. TagAt(t, g[k]) = TagAt(s, g[k])
        BY <3>1
      <3> QED
        <4>1. PICK x \in 1..Len(q) : g[k] = q[x] /\ x = IF k < i THEN k ELSE k + 1
          BY <1>2, <1>4, <3>1
        <4>2. M[k] = L[x]
          BY <1>2, <2>2, <2>3, <3>1, <4>1
        <4> QED
          BY <2>2, <3>2, <4>1, <4>2
    <2>5. Shape(t)
      BY RawIsShape
    <2> QED
      <3>1. Len(g) = Len(M) /\ M \in Seq(Tags)
        BY <1>2, <1>4, <2>2, <2>3
      <3>2. TagsIn(t, g) = M
        BY <1>6, <2>4, <2>5, <3>1, TagsAre
      <3> QED
        BY <2>1, <3>2
  <1> QED
    BY <1>1, <1>10, <1>14, <1>15, <1>16 DEF Changed

(* What both ways of removing know of the i-th node c of p. *)
LEMMA AtNode ==
  ASSUME NEW s, NEW f, Good(s, f), NEW p \in Packet, NEW i \in 1..Len(f[p]),
         NEW c, c = f[p][i], NEW l, l = LinkAt(f[p], p, i), NEW nx, nx = s.node[c].next
  PROVE  /\ Shape(s) /\ Raw(s) /\ c \in Nodes(s) /\ c # Null /\ c \notin Packet
         /\ l \in Places(s) /\ Tgt(s, l) = c /\ l \in In(s, c) /\ l # c
         /\ nx \in Nodes(s) \cup {Null} /\ Tgt(s, c) = nx /\ c # nx
  <1>1. /\ Shape(s) /\ IsPath(s, p, f[p]) /\ OneEach(s, f[p])
        /\ f[p] \in Seq(Nodes(s)) /\ Len(f[p]) \in Nat
    BY ListIs
  <1>2. c \in Nodes(s) /\ l \in In(s, c)
    BY Listed
  <1>3. c # Null /\ c \notin Packet /\ nx \in Nodes(s) \cup {Null}
    BY <1>1, <1>2, NodeType
  <1>4. l \in Places(s) /\ Tgt(s, l) = c /\ Tgt(s, c) = nx
    BY <1>2, <1>3 DEF In, Tgt
  <1>5. nx = NodeAt(f[p], i + 1)
    BY <1>1, PathNext
  <1>6. c # nx
    <2> SUFFICES ASSUME c = nx PROVE FALSE
      OBVIOUS
    <2>1. NodeAt(f[p], i + 1) = c /\ NodeAt(f[p], i + 1) # Null
      BY <1>3, <1>5
    <2>2. i + 1 \in 1..Len(f[p]) /\ f[p][i + 1] = f[p][i]
      BY <1>1, <2>1 DEF NodeAt
    <2> QED
      <3>1. PICK j \in 1..Len(f[p]) : j = i + 1 /\ f[p][j] = f[p][i]
        BY <2>2
      <3>2. j = i
        BY <1>1, <3>1 DEF OneEach
      <3> QED
        BY <1>1, <3>1, <3>2
  <1>7. l # c
    BY <1>4, <1>6
  <1> QED
    BY <1>1, <1>2, <1>3, <1>4, <1>6, <1>7, ShapeIsRaw

LEMMA CountOf ==
  ASSUME NEW s, NEW f, Good(s, f), NEW b \in Nodes(s)
  PROVE  /\ IsFiniteSet(In(s, b)) /\ Cnt(s, b) = Cardinality(In(s, b))
         /\ Cnt(s, b) \in Nat
  <1>1. Shape(s) /\ s.node[b].count = Cardinality(In(s, b))
    BY DEF Good
  <1>2. IsFiniteSet(In(s, b))
    BY <1>1, PlacesFinite
  <1>3. Cnt(s, b) \in Nat
    BY <1>1, ShapeIsRaw
  <1> QED
    BY <1>1, <1>2, <1>3 DEF Cnt

LEMMA CountUp ==
  ASSUME NEW s, Raw(s), NEW b, b \in Nodes(s) \/ b = Null
  PROVE  Counted(s, Count(s, b, 1), b, 1)
  <1>1. PICK d \in Int : d = 1
    OBVIOUS
  <1>2. Counted(s, Count(s, b, d), b, d)
    BY CountIs
  <1> QED
    BY <1>1, <1>2

LEMMA CountDown ==
  ASSUME NEW s, Raw(s), NEW b, b \in Nodes(s) \/ b = Null
  PROVE  Counted(s, Count(s, b, -1), b, -1)
  <1>1. PICK d \in Int : d = -1
    OBVIOUS
  <1>2. Counted(s, Count(s, b, d), b, d)
    BY CountIs
  <1> QED
    BY <1>1, <1>2

(* In front of the first merge the node is freed. *)
LEMMA RemovedEarly ==
  ASSUME NEW s, NEW f, Good(s, f), NEW p \in Packet, NEW i \in 1..Len(f[p]),
         Alone(s, f[p], i),
         NEW c, c = f[p][i], NEW l, l = LinkAt(f[p], p, i), NEW nx, nx = s.node[c].next
  PROVE  Changed(s, f, p, Delete(SetLink(s, l, nx), {c}), RemoveAt(TagsIn(s, f[p]), i))
  <1>1. /\ Shape(s) /\ Raw(s) /\ c \in Nodes(s) /\ c # Null /\ c \notin Packet
        /\ l \in Places(s) /\ Tgt(s, l) = c /\ l \in In(s, c) /\ l # c
        /\ nx \in Nodes(s) \cup {Null} /\ Tgt(s, c) = nx /\ c # nx
    BY AtNode
  <1>2. PICK u, t : u = SetLink(s, l, nx) /\ t = Delete(u, {c})
    OBVIOUS
  <1>3. Relinked(s, u, l, nx)
    <2>1. nx \in Address \cup {Null}
      BY <1>1 DEF Shape
    <2> QED
      BY <1>1, <1>2, <2>1, SetLinkIs
  <1>4. Dropped(u, t, {c})
    <2>1. Raw(u)
      BY <1>3 DEF Relinked
    <2> QED
      BY <1>2, <2>1, DeleteIs
  <1>5. /\ Raw(t) /\ Nodes(t) = Nodes(s) \ {c} /\ Places(t) = Places(s) \ {c}
        /\ \A k \in Places(t) : Tgt(t, k) = IF k = l THEN nx ELSE Tgt(s, k)
        /\ \A b \in Nodes(t) : TagAt(t, b) = TagAt(s, b) /\ Cnt(t, b) = Cnt(s, b)
    BY <1>1, <1>3, <1>4 DEF Relinked, Dropped, Places
  <1>6. s.node[c].count = 1 /\ In(s, c) = {l}
    <2>1. s.node[f[p][i]].count = 1
      BY DEF Alone
    <2>2. OnlyLink(s, f[p], p, i)
      BY <2>1, AloneIn
    <2> QED
      BY <2>1, <2>2 DEF OnlyLink
  <1>7. \A k \in Places(t) : Tgt(t, k) \in Nodes(t) \cup {Null}
    <2> TAKE k \in Places(t)
    <2>1. CASE k = l
      BY <1>1, <1>5, <2>1
    <2>2. CASE k # l
      <3>1. Tgt(s, k) # c
        BY <1>5, <1>6, <2>2 DEF In
      <3>2. Tgt(s, k) \in Nodes(s) \cup {Null}
        BY <1>1, <1>5, Leads
      <3> QED
        BY <1>5, <2>2, <3>1, <3>2
    <2> QED
      BY <2>1, <2>2
  <1>8. \A h \in Packet \ {p} : \A k \in 1..Len(f[h]) : f[h][k] # c
    <2>1. i \in 0..Len(f[p]) /\ i \in 1..i
      OBVIOUS
    <2> QED
      BY <2>1, Private
  <1>9. ASSUME NEW b \in Nodes(t) PROVE Cnt(t, b) = Cardinality(In(t, b))
    <2>1. b \in Nodes(s) /\ b # c
      BY <1>5
    <2>2. IsFiniteSet(In(s, b)) /\ Cnt(s, b) = Cardinality(In(s, b))
      BY <2>1, CountOf
    <2>3. CASE b = nx
      <3>1. In(t, b) = (In(s, b) \ {c}) \cup {l}
        BY <1>1, <1>5, <2>1, <2>3 DEF In
      <3>2. c \in In(s, b) /\ l \notin In(s, b)
        BY <1>1, <2>1, <2>3 DEF In, Places
      <3>3. Cardinality(In(t, b)) = Cardinality(In(s, b))
        BY <2>2, <3>1, <3>2, OneSwapped
      <3> QED
        BY <1>5, <2>2, <3>3
    <2>4. CASE b # nx
      <3>1. In(t, b) = In(s, b)
        BY <1>1, <1>5, <2>1, <2>4 DEF In
      <3> QED
        BY <1>5, <2>2, <3>1
    <2> QED
      BY <2>3, <2>4
  <1>10. Alone(s, f[p], i - 1)
    BY DEF Alone
  <1>11. Changed(s, f, p, t, RemoveAt(TagsIn(s, f[p]), i))
    <2>1. Nodes(t) \subseteq Nodes(s) /\ (\A b \in Nodes(s) \ {c} : b \in Nodes(t))
          /\ c \notin Nodes(t)
      BY <1>5
    <2>2. c \in Nodes(t) <=>
             \E h \in Packet \ {p} : \E k \in 1..Len(f[h]) : f[h][k] = c
      BY <1>8, <2>1
    <2>3. \A b \in Nodes(t) : TagAt(t, b) = TagAt(s, b)
      BY <1>5
    <2> QED
      BY <1>5, <1>7, <1>9, <1>10, <2>1, <2>2, <2>3, LinkedAround
  <1> QED
    BY <1>2, <1>11

(* At the merge it is left to the others. *)
LEMMA RemovedAtMerge ==
  ASSUME NEW s, NEW f, Good(s, f), NEW p \in Packet, NEW i \in 1..Len(f[p]),
         Alone(s, f[p], i - 1), s.node[f[p][i]].count > 1,
         NEW c, c = f[p][i], NEW l, l = LinkAt(f[p], p, i), NEW nx, nx = s.node[c].next
  PROVE  Changed(s, f, p, Count(Count(SetLink(s, l, nx), c, -1), nx, 1),
                 RemoveAt(TagsIn(s, f[p]), i))
  <1>1. /\ Shape(s) /\ Raw(s) /\ c \in Nodes(s) /\ c # Null /\ c \notin Packet
        /\ l \in Places(s) /\ Tgt(s, l) = c /\ l \in In(s, c) /\ l # c
        /\ nx \in Nodes(s) \cup {Null} /\ Tgt(s, c) = nx /\ c # nx
    BY AtNode
  <1>2. PICK u, v, t : u = SetLink(s, l, nx) /\ v = Count(u, c, -1) /\ t = Count(v, nx, 1)
    OBVIOUS
  <1>3. Relinked(s, u, l, nx)
    <2>1. nx \in Address \cup {Null}
      BY <1>1 DEF Shape
    <2> QED
      BY <1>1, <1>2, <2>1, SetLinkIs
  <1>4. Counted(u, v, c, -1)
    <2>1. Raw(u) /\ c \in Nodes(u)
      BY <1>1, <1>3 DEF Relinked
    <2> QED
      BY <1>2, <2>1, CountDown
  <1>5. Counted(v, t, nx, 1)
    <2>1. Raw(v) /\ (nx \in Nodes(v) \/ nx = Null)
      BY <1>1, <1>3, <1>4 DEF Relinked, Counted
    <2> QED
      BY <1>2, <2>1, CountUp
  <1>6. /\ Raw(t) /\ Nodes(t) = Nodes(s) /\ Places(t) = Places(s)
        /\ \A k \in Places(t) : Tgt(t, k) = IF k = l THEN nx ELSE Tgt(s, k)
        /\ \A b \in Nodes(t) : TagAt(t, b) = TagAt(s, b)
    BY <1>3, <1>4, <1>5 DEF Relinked, Counted, Places
  <1>7. \A b \in Nodes(t) : Cnt(t, b) = IF b = c THEN Cnt(s, b) + -1
                                        ELSE IF b = nx THEN Cnt(s, b) + 1 ELSE Cnt(s, b)
    BY <1>1, <1>3, <1>4, <1>5 DEF Relinked, Counted
  <1>8. \A k \in Places(t) : Tgt(t, k) \in Nodes(t) \cup {Null}
    <2>1. \A k \in Places(s) : Tgt(s, k) \in Nodes(s) \cup {Null}
      BY <1>1, Leads
    <2> QED
      BY <1>1, <1>6, <2>1
  <1>9. \E h \in Packet \ {p} : \E k \in 1..Len(f[h]) : f[h][k] = c
    BY Shared
  <1>10. ASSUME NEW b \in Nodes(t) PROVE Cnt(t, b) = Cardinality(In(t, b))
    <2>1. b \in Nodes(s)
      BY <1>6
    <2>2. IsFiniteSet(In(s, b)) /\ Cnt(s, b) = Cardinality(In(s, b)) /\ Cnt(s, b) \in Nat
      BY <2>1, CountOf
    <2>3. CASE b = c
      <3>1. In(t, b) = In(s, b) \ {l}
        BY <1>1, <1>6, <2>3 DEF In
      <3>2. Cardinality(In(t, b)) = Cardinality(In(s, b)) - 1
        BY <1>1, <2>2, <2>3, <3>1, OneFewer
      <3> QED
        BY <1>7, <2>2, <2>3, <3>2
    <2>4. CASE b = nx
      <3>0. b # c
        BY <1>1, <2>4
      <3>1. In(t, b) = In(s, b) \cup {l} /\ l \notin In(s, b)
        BY <1>1, <1>6, <2>4, <3>0 DEF In
      <3>2. Cardinality(In(t, b)) = Cardinality(In(s, b)) + 1
        BY <2>2, <3>1, OneMore
      <3> QED
        BY <1>7, <2>2, <2>4, <3>0, <3>2
    <2>5. CASE b # c /\ b # nx
      <3>1. In(t, b) = In(s, b)
        BY <1>1, <1>6, <2>5 DEF In
      <3> QED
        BY <1>7, <2>2, <2>5, <3>1
    <2> QED
      BY <2>3, <2>4, <2>5
  <1>11. Changed(s, f, p, t, RemoveAt(TagsIn(s, f[p]), i))
    <2>1. Nodes(t) \subseteq Nodes(s) /\ (\A b \in Nodes(s) \ {c} : b \in Nodes(t))
          /\ c \in Nodes(t)
      BY <1>1, <1>6
    <2>2. c \in Nodes(t) <=>
             \E h \in Packet \ {p} : \E k \in 1..Len(f[h]) : f[h][k] = c
      BY <1>9, <2>1
    <2> QED
      BY <1>6, <1>8, <1>10, <2>1, <2>2, LinkedAround
  <1> QED
    BY <1>2, <1>11

-----------------------------------------------------------------------------
(* In front of the first merge the data is rewritten. *)
LEMMA RewrittenEarly ==
  ASSUME NEW s, NEW f, Good(s, f), NEW p \in Packet, NEW i \in 1..Len(f[p]),
         Alone(s, f[p], i), NEW x \in Value,
         NEW c, c = f[p][i]
  PROVE  Changed(s, f, p, [s EXCEPT !.node[c].data = x],
                 [TagsIn(s, f[p]) EXCEPT ![i] = [tid |-> s.node[c].tid, data |-> x]])
  <1>1. PICK q, t : q = f[p] /\ t = [s EXCEPT !.node[c].data = x]
    OBVIOUS
  <1>2. /\ Shape(s) /\ IsPath(s, p, q) /\ OneEach(s, q)
        /\ q \in Seq(Nodes(s)) /\ Len(q) \in Nat /\ i \in 1..Len(q)
    BY <1>1, ListIs
  <1>3. c \in Nodes(s) /\ Raw(s) /\ q[i] = c
    BY <1>1, <1>2, ShapeIsRaw
  <1>4. Rewritten(s, t, c, x)
    BY <1>1, <1>3, RewriteIs
  <1>5. /\ Raw(t) /\ Nodes(t) = Nodes(s) /\ Places(t) = Places(s)
        /\ \A k \in Places(t) : Tgt(t, k) = Tgt(s, k)
        /\ \A b \in Nodes(t) :
             /\ TagAt(t, b) = IF b = c THEN [tid |-> s.node[b].tid, data |-> x]
                              ELSE TagAt(s, b)
             /\ Cnt(t, b) = Cnt(s, b)
    BY <1>4 DEF Rewritten, Places
  <1>6. \A h \in Packet : \A j \in 1..(Len(f[h]) + 1) :
           LinkAt(f[h], h, j) \in Places(s)
    <2> TAKE h \in Packet
    <2> TAKE j \in 1..(Len(f[h]) + 1)
    <2>1. f[h] \in Seq(Nodes(s)) /\ Len(f[h]) \in Nat
      BY ListIs
    <2> QED
      BY <2>1 DEF LinkAt, Places
  <1>7. IsPath(t, p, q)
    <2>1. q \in Seq(Nodes(t))
      BY <1>2, <1>5
    <2>2. \A j \in 1..(Len(q) + 1) : Tgt(t, LinkAt(q, p, j)) = NodeAt(q, j)
      BY <1>1, <1>2, <1>5, <1>6 DEF IsPath
    <2> QED
      BY <2>1, <2>2 DEF IsPath
  <1>8. \A h \in Packet \ {p} : \A k \in 1..Len(f[h]) : f[h][k] # c /\ f[h][k] \in Nodes(t)
    <2>1. i \in 0..Len(f[p]) /\ i \in 1..i
      OBVIOUS
    <2>2. \A h \in Packet \ {p} : \A k \in 1..Len(f[h]) : f[h][k] # c
      BY <2>1, Private
    <2>3. \A h \in Packet : \A k \in 1..Len(f[h]) : f[h][k] \in Nodes(s)
      BY Listed
    <2> QED
      BY <1>5, <2>2, <2>3
  <1>9. Others(s, t, f, p)
    BY <1>5, <1>8 DEF Others
  <1>10. \A b \in Nodes(t) : t.node[b].tid = s.node[b].tid
    <2> TAKE b \in Nodes(t)
    <2>1. CASE b = c
      BY <1>5, <2>1 DEF TagAt
    <2>2. CASE b # c
      BY <1>5, <2>2 DEF TagAt
    <2> QED
      BY <2>1, <2>2
  <1>11. OneEach(t, q)
    <2>1. \A k \in 1..Len(q) : t.node[q[k]].tid = s.node[q[k]].tid
      <3>1. \A k \in 1..Len(q) : q[k] \in Nodes(t)
        BY <1>2, <1>5
      <3> QED
        BY <1>10, <3>1
    <2> QED
      BY <1>2, <2>1, SameTypes
  <1>12. \A k \in Places(t) : Tgt(t, k) \in Nodes(t) \cup {Null}
    BY <1>2, <1>5, Leads
  <1>13. \A b \in Nodes(t) : Cnt(t, b) = Cardinality(In(t, b))
    <2> TAKE b \in Nodes(t)
    <2>1. In(t, b) = In(s, b)
      BY <1>5 DEF In
    <2>2. Cnt(s, b) = Cardinality(In(s, b))
      BY <1>5, CountOf
    <2> QED
      BY <1>5, <2>1, <2>2
  <1>14. \A h \in Packet \ {p} : \A j \in 1..(Len(f[h]) + 1) :
            Tgt(t, LinkAt(f[h], h, j)) = Tgt(s, LinkAt(f[h], h, j))
    BY <1>5, <1>6
  <1>15. \A b \in Nodes(t) : \/ \E k \in 1..Len(q) : q[k] = b
                             \/ \E h \in Packet \ {p} : \E k \in 1..Len(f[h]) : f[h][k] = b
    <2> TAKE b \in Nodes(t)
    <2>1. PICK h \in Packet : \E k \in 1..Len(f[h]) : f[h][k] = b
      BY <1>5 DEF Good, On
    <2> QED
      BY <1>1, <2>1
  <1>16. Good(t, With(f, p, q))
    BY <1>5, <1>7, <1>9, <1>11, <1>12, <1>13, <1>14, <1>15, Done
  <1>17. TagsIn(t, q) = [TagsIn(s, q) EXCEPT ![i] = [tid |-> s.node[c].tid, data |-> x]]
    <2>1. PICK L, M, y : /\ L = TagsIn(s, q) /\ y = [tid |-> s.node[c].tid, data |-> x]
                         /\ M = [L EXCEPT ![i] = y]
      OBVIOUS
    <2>2. L \in Seq(Tags) /\ Len(L) = Len(q) /\ \A k \in 1..Len(q) : L[k] = TagAt(s, q[k])
      <3>1. L \in Seq(Tags) /\ Len(L) = Len(q)
        BY <1>2, <2>1, TagsInIs
      <3>2. \A k \in 1..Len(q) : L[k] = TagAt(s, q[k])
        BY <1>2, <2>1, TagsInIs
      <3> QED
        BY <3>1, <3>2
    <2>3. y \in Tags
      <3>1. s.node[c].tid \in Type
        BY <1>2, <1>3, NodeType
      <3> QED
        BY <2>1, <3>1 DEF Tags
    <2>4. /\ M \in Seq(Tags) /\ Len(M) = Len(q)
          /\ \A k \in 1..Len(q) : M[k] = IF k = i THEN y ELSE L[k]
      BY <1>2, <2>1, <2>2, <2>3
    <2>5. \A k \in 1..Len(M) : TagAt(t, q[k]) = M[k]
      <3> TAKE k \in 1..Len(M)
      <3>1. k \in 1..Len(q) /\ q[k] \in Nodes(t)
        BY <1>2, <1>5, <2>4
      <3>2. q[k] = c <=> k = i
        BY <1>2, <1>3, <3>1 DEF OneEach
      <3>3. CASE k = i
        BY <1>5, <2>1, <2>4, <3>1, <3>2, <3>3
      <3>4. CASE k # i
        BY <1>5, <2>2, <2>4, <3>1, <3>2, <3>4
      <3> QED
        BY <3>3, <3>4
    <2>6. Shape(t)
      BY <1>5, <1>12, <1>13, RawIsShape
    <2>7. TagsIn(t, q) = M
      <3>1. q \in Seq(Nodes(t)) /\ Len(q) = Len(M) /\ M \in Seq(Tags)
        BY <1>2, <1>5, <2>4
      <3> QED
        BY <2>5, <2>6, <3>1, TagsAre
    <2> QED
      BY <2>1, <2>7
  <1>18. q \in Seq(Address)
    BY <1>2 DEF Shape
  <1> QED
    BY <1>1, <1>9, <1>16, <1>17, <1>18 DEF Changed

(* At the merge a rewritten copy takes its place. *)
LEMMA CopiedChanges ==
  ASSUME NEW s, NEW f, Good(s, f), NEW p \in Packet, NEW i \in 1..Len(f[p]),
         NEW x \in Value, NEW t, NEW g, CopyDone(s, f, p, i, x, t, g),
         g = [f[p] EXCEPT ![i] = Fresh(s)]
  PROVE  Changed(s, f, p, t,
                 [TagsIn(s, f[p]) EXCEPT ![i] = [tid |-> s.node[f[p][i]].tid, data |-> x]])
  <1>1. PICK q : q = f[p]
    OBVIOUS
  <1>2. /\ Shape(s) /\ q \in Seq(Nodes(s)) /\ Len(q) \in Nat /\ i \in 1..Len(q)
    BY <1>1, ListIs
  <1>3. /\ Good(t, With(f, p, g)) /\ Others(s, t, f, p) /\ Len(g) = Len(q)
        /\ \A k \in 1..Len(g) :
             TagAt(t, g[k]) = IF k = i THEN [tid |-> s.node[q[k]].tid, data |-> x]
                              ELSE TagAt(s, q[k])
    BY <1>1 DEF CopyDone
  <1>4. g \in Seq(Address)
    <2>1. Fresh(s) \in Address /\ q \in Seq(Address)
      BY <1>2, RoomLeft DEF Shape
    <2> QED
      BY <1>1, <1>2, <2>1
  <1>5. Shape(t) /\ g \in Seq(Nodes(t))
    <2>1. f \in [Packet -> Seq(Address)]
      BY DEF Good
    <2>2. With(f, p, g)[p] = g
      BY <1>4, <2>1 DEF With
    <2>3. With(f, p, g)[p] \in Seq(Nodes(t)) /\ Shape(t)
      BY <1>3, ListIs
    <2> QED
      BY <2>2, <2>3
  <1>6. PICK L, M, y : /\ L = TagsIn(s, q) /\ y = [tid |-> s.node[q[i]].tid, data |-> x]
                       /\ M = [L EXCEPT ![i] = y]
    OBVIOUS
  <1>7. L \in Seq(Tags) /\ Len(L) = Len(q) /\ \A k \in 1..Len(q) : L[k] = TagAt(s, q[k])
    <2>1. L \in Seq(Tags) /\ Len(L) = Len(q)
      BY <1>2, <1>6, TagsInIs
    <2>2. \A k \in 1..Len(q) : L[k] = TagAt(s, q[k])
      BY <1>2, <1>6, TagsInIs
    <2> QED
      BY <2>1, <2>2
  <1>8. y \in Tags
    <2>1. q[i] \in Nodes(s)
      BY <1>2
    <2>2. s.node[q[i]].tid \in Type
      BY <1>2, <2>1, NodeType
    <2> QED
      BY <1>6, <2>2 DEF Tags
  <1>9. /\ M \in Seq(Tags) /\ Len(M) = Len(q)
        /\ \A k \in 1..Len(q) : M[k] = IF k = i THEN y ELSE L[k]
    BY <1>2, <1>6, <1>7, <1>8
  <1>10. \A k \in 1..Len(M) : TagAt(t, g[k]) = M[k]
    <2> TAKE k \in 1..Len(M)
    <2>1. k \in 1..Len(g) /\ k \in 1..Len(q) /\ M[k] = IF k = i THEN y ELSE L[k]
      BY <1>3, <1>9
    <2>2. L[k] = TagAt(s, q[k])
      BY <1>6, <1>7, <2>1
    <2>3. TagAt(t, g[k]) = IF k = i THEN [tid |-> s.node[q[k]].tid, data |-> x]
                           ELSE TagAt(s, q[k])
      BY <1>3, <2>1
    <2> QED
      BY <1>6, <2>1, <2>2, <2>3
  <1>11. TagsIn(t, g) = M
    <2>1. Len(g) = Len(M) /\ M \in Seq(Tags)
      BY <1>3, <1>9
    <2> QED
      BY <1>5, <1>10, <2>1, TagsAre
  <1> QED
    BY <1>1, <1>3, <1>4, <1>6, <1>11 DEF Changed

(* One call after the loop. *)
LEMMA ChangedAfter ==
  ASSUME NEW s, NEW f, Good(s, f), NEW p \in Packet, NEW w, NEW j, NEW g,
         Copying(s, f, p, w, j, g), NEW t, NEW L,
         Changed(w.store, With(f, p, g), p, t, L)
  PROVE  Changed(s, f, p, t, L) /\ TagsIn(w.store, g) = TagsIn(s, f[p])
  <1>1. PICK u, F : u = w.store /\ F = With(f, p, g)
    OBVIOUS
  <1>2. f \in [Packet -> Seq(Address)] /\ g \in Seq(Address)
    BY DEF Good, Copying
  <1>3. F[p] = g /\ \A q \in Packet \ {p} : F[q] = f[q]
    BY <1>1, <1>2, WithTwice
  <1>4. PICK h \in Seq(Address) :
          Good(t, With(F, p, h)) /\ Others(u, t, F, p) /\ TagsIn(t, h) = L
    BY <1>1 DEF Changed
  <1>5. With(F, p, h) = With(f, p, h)
    BY <1>1, <1>2, WithTwice
  <1>6. Others(s, t, f, p)
    <2>1. Others(s, u, f, p)
      BY <1>1 DEF Copying
    <2> QED
      BY <1>3, <1>4, <2>1 DEF Others
  <1>7. TagsIn(u, g) = TagsIn(s, f[p])
    <2>1. Good(u, F) /\ Len(g) = Len(f[p])
      BY <1>1 DEF Copying
    <2>2. /\ Shape(s) /\ f[p] \in Seq(Nodes(s)) /\ Shape(u) /\ g \in Seq(Nodes(u))
      <3>1. Shape(u) /\ F[p] \in Seq(Nodes(u))
        BY <2>1, ListIs
      <3> QED
        BY <1>3, <3>1, ListIs
    <2>3. PICK M : M = TagsIn(s, f[p])
      OBVIOUS
    <2>4. M \in Seq(Tags) /\ Len(M) = Len(f[p])
      BY <2>2, <2>3, TagsInIs
    <2>5. \A k \in 1..Len(f[p]) : M[k] = TagAt(s, f[p][k])
      BY <2>2, <2>3, TagsInIs
    <2>6. \A k \in 1..Len(M) : TagAt(u, g[k]) = M[k]
      BY <1>1, <2>1, <2>4, <2>5 DEF Copying
    <2>7. Len(g) = Len(M)
      BY <2>1, <2>4
    <2>8. TagsIn(u, g) = M
      BY <2>2, <2>4, <2>6, <2>7, TagsAre
    <2> QED
      BY <2>3, <2>8
  <1> QED
    BY <1>1, <1>4, <1>5, <1>6, <1>7 DEF Changed

-----------------------------------------------------------------------------
(* A new tag, in front. *)
LEMMA PushedIs ==
  ASSUME NEW s, NEW f, Good(s, f), NEW p \in Packet, NEW tag \in Tag,
         \A k \in 1..Len(f[p]) : s.node[f[p][k]].tid # tag.tid
  PROVE  Changed(s, f, p, Pushed(s, p, tag), <<tag>> \o TagsIn(s, f[p]))
  <1>1. PICK q, a, hd, n : /\ q = f[p] /\ a = Fresh(s) /\ hd = s.next[p]
                           /\ n = [tid |-> tag.tid, data |-> tag.data, count |-> 1,
                                   next |-> hd]
    OBVIOUS
  <1>2. /\ Shape(s) /\ IsPath(s, p, q) /\ OneEach(s, q)
        /\ q \in Seq(Nodes(s)) /\ Len(q) \in Nat /\ Raw(s)
    BY <1>1, ListIs, ShapeIsRaw
  <1>3. a \in Address /\ a \notin Nodes(s) /\ a # Null /\ a \notin Packet
    <2>1. a \in Address /\ a \notin Nodes(s)
      BY <1>1, RoomLeft
    <2> QED
      BY <2>1, Apart
  <1>4. /\ p \in Places(s) /\ Tgt(s, p) = hd /\ hd \in Nodes(s) \cup {Null} /\ hd # a
        /\ hd = NodeAt(q, 1)
    <2>1. p \in Places(s) /\ Tgt(s, p) = hd
      BY <1>1 DEF Places, Tgt
    <2>2. hd \in Nodes(s) \cup {Null}
      BY <1>2, <2>1, Leads
    <2>3. LinkAt(q, p, 1) = p /\ 1 \in 1..(Len(q) + 1)
      BY <1>2 DEF LinkAt
    <2>4. hd = NodeAt(q, 1)
      BY <1>2, <2>1, <2>3 DEF IsPath
    <2> QED
      BY <1>3, <2>1, <2>2, <2>4
  <1>5. tag.tid \in Type /\ tag.data \in Value /\ tag = [tid |-> tag.tid, data |-> tag.data]
    BY Apart
  <1>6. PICK u : u = New(s, a, n)
    OBVIOUS
  <1>7. Added(s, u, a, n)
    <2>1. n \in RawTag
      <3>1. hd \in Address \cup {Null}
        BY <1>2, <1>4 DEF Shape
      <3> QED
        BY <1>1, <1>5, <3>1 DEF RawTag
    <2> QED
      BY <1>2, <1>3, <1>6, <2>1, NewIs
  <1>8. PICK t : t = SetLink(u, p, a)
    OBVIOUS
  <1>9. Relinked(u, t, p, a)
    <2>1. Raw(u) /\ p \in Places(u) /\ a \in Address \cup {Null}
      BY <1>3, <1>7 DEF Added, Places
    <2> QED
      BY <1>8, <2>1, SetLinkIs
  <1>10. t = Pushed(s, p, tag)
    BY <1>1, <1>6, <1>8, Zenon DEF Pushed
  <1>11. /\ Raw(t) /\ Nodes(t) = Nodes(s) \cup {a} /\ Places(t) = Places(s) \cup {a}
         /\ \A k \in Places(s) : Tgt(t, k) = IF k = p THEN a ELSE Tgt(s, k)
         /\ \A b \in Nodes(s) : TagAt(t, b) = TagAt(s, b) /\ Cnt(t, b) = Cnt(s, b)
    BY <1>7, <1>9 DEF Added, Relinked, Places
  <1>12. Tgt(t, a) = hd /\ Cnt(t, a) = 1 /\ TagAt(t, a) = tag
    <2>1. a \in Places(u) /\ a \in Nodes(u) /\ a # p
      BY <1>3, <1>7 DEF Added, Places
    <2>2. Tgt(u, a) = hd /\ Cnt(u, a) = 1 /\ TagAt(u, a) = tag
      BY <1>1, <1>5, <1>7 DEF Added
    <2> QED
      BY <1>9, <2>1, <2>2 DEF Relinked
  <1>13. PICK g : g = <<a>> \o q
    OBVIOUS
  <1>14. /\ g \in Seq(Nodes(t)) /\ Len(g) = Len(q) + 1 /\ g[1] = a
         /\ \A k \in 1..Len(q) : g[k + 1] = q[k]
    <2>1. q \in Seq(Nodes(t)) /\ <<a>> \in Seq(Nodes(t)) /\ Len(<<a>>) = 1
      BY <1>2, <1>11
    <2> QED
      BY <1>2, <1>13, <2>1
  <1>15. \A k \in 2..Len(g) : k - 1 \in 1..Len(q) /\ g[k] = q[k - 1]
    <2> TAKE k \in 2..Len(g)
    <2>1. PICK j \in 1..Len(q) : k = j + 1 /\ k - 1 = j
      BY <1>2, <1>14
    <2> QED
      BY <1>14, <2>1
  <1>16. IsPath(t, p, g)
    <2> SUFFICES ASSUME NEW j \in 1..(Len(g) + 1)
                 PROVE  Tgt(t, LinkAt(g, p, j)) = NodeAt(g, j)
      BY <1>14 DEF IsPath
    <2>1. CASE j = 1
      <3>1. LinkAt(g, p, j) = p /\ NodeAt(g, j) = a
        BY <1>2, <1>14, <2>1 DEF LinkAt, NodeAt
      <3> QED
        BY <1>4, <1>11, <3>1
    <2>2. CASE j = 2
      <3>1. LinkAt(g, p, j) = a
        BY <1>14, <2>2 DEF LinkAt
      <3>2. NodeAt(g, j) = NodeAt(q, 1)
        BY <1>2, <1>14, <1>15, <2>2 DEF NodeAt
      <3> QED
        BY <1>4, <1>12, <3>1, <3>2
    <2>3. CASE j > 2
      <3>0. PICK k \in Int : k = j - 1
        BY <1>14
      <3>1. k \in 2..(Len(q) + 1) /\ j = k + 1 /\ k - 1 \in 1..Len(q)
        BY <1>2, <1>14, <2>3, <3>0
      <3>2. LinkAt(g, p, j) = q[k - 1] /\ LinkAt(q, p, k) = q[k - 1]
        BY <1>2, <1>14, <1>15, <3>1 DEF LinkAt
      <3>3. NodeAt(g, j) = NodeAt(q, k)
        BY <1>2, <1>14, <3>1 DEF NodeAt
      <3>4. q[k - 1] \in Nodes(s) /\ Tgt(s, q[k - 1]) = NodeAt(q, k)
        BY <1>2, <3>1, <3>2 DEF IsPath
      <3>5. q[k - 1] \in Places(s) /\ q[k - 1] # p
        BY <1>2, <3>4, NodeType DEF Places
      <3> QED
        BY <1>11, <3>2, <3>3, <3>4, <3>5
    <2> QED
      BY <1>14, <2>1, <2>2, <2>3
  <1>17. \A h \in Packet \ {p} : \A k \in 1..Len(f[h]) : f[h][k] \in Nodes(s)
    BY Listed
  <1>18. Others(s, t, f, p)
    BY <1>11, <1>17 DEF Others
  <1>19. \A h \in Packet \ {p} : \A j \in 1..(Len(f[h]) + 1) :
            Tgt(t, LinkAt(f[h], h, j)) = Tgt(s, LinkAt(f[h], h, j))
    <2> TAKE h \in Packet \ {p}
    <2> TAKE j \in 1..(Len(f[h]) + 1)
    <2>1. f[h] \in Seq(Nodes(s)) /\ Len(f[h]) \in Nat
      BY ListIs
    <2>2. \A b \in Nodes(s) : b # p
      BY <1>2, NodeType
    <2>3. LinkAt(f[h], h, j) \in Places(s) /\ LinkAt(f[h], h, j) # p
      BY <2>1, <2>2 DEF LinkAt, Places
    <2> QED
      BY <1>11, <2>3
  <1>20. \A b \in Nodes(s) : t.node[b].tid = s.node[b].tid
    BY <1>11 DEF TagAt
  <1>21. OneEach(t, g)
    <2> SUFFICES ASSUME NEW j \in 1..Len(g), NEW k \in 1..Len(g), j < k,
                        t.node[g[j]].tid = t.node[g[k]].tid
                 PROVE  FALSE
      <3>1. Len(g) \in Nat
        BY <1>2, <1>14
      <3> QED
        BY <3>1 DEF OneEach
    <2>1. k \in 2..Len(g)
      BY <1>2, <1>14
    <2>2. k - 1 \in 1..Len(q) /\ g[k] = q[k - 1] /\ q[k - 1] \in Nodes(s)
      BY <1>2, <1>15, <2>1
    <2>3. CASE j = 1
      <3>1. t.node[g[j]].tid = tag.tid
        BY <1>12, <1>14, <2>3 DEF TagAt
      <3>2. t.node[g[k]].tid = s.node[q[k - 1]].tid
        BY <1>20, <2>2
      <3> QED
        BY <1>1, <2>2, <3>1, <3>2
    <2>4. CASE j # 1
      <3>1. j \in 2..Len(g)
        BY <2>4
      <3>2. j - 1 \in 1..Len(q) /\ g[j] = q[j - 1] /\ q[j - 1] \in Nodes(s)
        BY <1>2, <1>15, <3>1
      <3>3. s.node[q[j - 1]].tid = s.node[q[k - 1]].tid
        BY <1>20, <2>2, <3>2
      <3>4. j - 1 = k - 1
        BY <1>2, <2>2, <3>2, <3>3 DEF OneEach
      <3> QED
        BY <1>2, <1>14, <3>4
    <2> QED
      BY <2>3, <2>4
  <1>22. \A b \in Nodes(t) : \/ \E k \in 1..Len(g) : g[k] = b
                             \/ \E h \in Packet \ {p} : \E k \in 1..Len(f[h]) : f[h][k] = b
    <2> TAKE b \in Nodes(t)
    <2>1. CASE b = a
      BY <1>2, <1>14, <2>1
    <2>2. CASE b # a
      <3>1. PICK h \in Packet : \E k \in 1..Len(f[h]) : f[h][k] = b
        BY <1>11, <2>2 DEF Good, On
      <3>2. CASE h = p
        <4>1. PICK k \in 1..Len(q) : q[k] = b
          BY <1>1, <3>1, <3>2
        <4>2. k + 1 \in 1..Len(g) /\ g[k + 1] = b
          BY <1>2, <1>14, <4>1
        <4> QED
          BY <4>2
      <3> QED
        BY <3>1, <3>2
    <2> QED
      BY <2>1, <2>2
  <1>23. \A k \in Places(t) : Tgt(t, k) \in Nodes(t) \cup {Null}
    <2>1. \A k \in Places(s) : Tgt(s, k) \in Nodes(s) \cup {Null}
      BY <1>2, Leads
    <2> QED
      BY <1>4, <1>11, <1>12, <2>1
  <1>24. ASSUME NEW b \in Nodes(t) PROVE Cnt(t, b) = Cardinality(In(t, b))
    <2>0. \A k \in Places(s) : Tgt(s, k) # a
      BY <1>2, <1>3, Leads
    <2>1. CASE b = a
      <3>1. In(t, b) = {p}
        BY <1>4, <1>11, <1>12, <2>0, <2>1 DEF In
      <3>2. Cardinality({p}) = 1
        BY FS_Singleton
      <3> QED
        BY <1>12, <2>1, <3>1, <3>2
    <2>2. CASE b # a
      <3>1. b \in Nodes(s)
        BY <1>11, <2>2
      <3>2. IsFiniteSet(In(s, b)) /\ Cnt(s, b) = Cardinality(In(s, b))
        BY <3>1, CountOf
      <3>3. CASE b = hd
        <4>1. In(t, b) = (In(s, b) \ {p}) \cup {a}
          BY <1>3, <1>4, <1>11, <1>12, <2>2, <3>3 DEF In
        <4>2. p \in In(s, b) /\ a \notin In(s, b)
          BY <1>3, <1>4, <3>3 DEF In, Places
        <4>3. Cardinality(In(t, b)) = Cardinality(In(s, b))
          BY <3>2, <4>1, <4>2, OneSwapped
        <4> QED
          BY <1>11, <3>1, <3>2, <4>3
      <3>4. CASE b # hd
        <4>1. In(t, b) = In(s, b)
          BY <1>3, <1>4, <1>11, <1>12, <2>2, <3>4 DEF In
        <4> QED
          BY <1>11, <3>1, <3>2, <4>1
      <3> QED
        BY <3>3, <3>4
    <2> QED
      BY <2>1, <2>2
  <1>25. Good(t, With(f, p, g))
    BY <1>11, <1>16, <1>18, <1>19, <1>21, <1>22, <1>23, <1>24, Done
  <1>26. g \in Seq(Address)
    BY <1>11, <1>14 DEF Raw
  <1>27. TagsIn(t, g) = <<tag>> \o TagsIn(s, q)
    <2>1. PICK L, M : L = TagsIn(s, q) /\ M = <<tag>> \o L
      OBVIOUS
    <2>2. L \in Seq(Tags) /\ Len(L) = Len(q)
      BY <1>2, <2>1, TagsInIs
    <2>3. \A k \in 1..Len(q) : L[k] = TagAt(s, q[k])
      BY <1>2, <2>1, TagsInIs
    <2>4. /\ M \in Seq(Tags) /\ Len(M) = Len(L) + 1 /\ M[1] = tag
          /\ \A k \in 1..Len(L) : M[k + 1] = L[k]
      <3>1. tag \in Tags
        BY <1>5 DEF Tags
      <3>2. <<tag>> \in Seq(Tags) /\ Len(<<tag>>) = 1
        BY <3>1
      <3> QED
        BY <2>1, <2>2, <3>2
    <2>5. \A k \in 1..Len(M) : TagAt(t, g[k]) = M[k]
      <3> TAKE k \in 1..Len(M)
      <3>1. CASE k = 1
        BY <1>12, <1>14, <2>4, <3>1
      <3>2. CASE k # 1
        <4>0. PICK j \in Int : j = k - 1
          BY <2>4
        <4>1. j \in 1..Len(q) /\ k = j + 1
          BY <1>2, <2>2, <2>4, <3>2, <4>0
        <4>2. g[k] = q[j] /\ M[k] = L[j] /\ q[j] \in Nodes(s)
          BY <1>2, <1>14, <2>2, <2>4, <4>1
        <4>3. TagAt(t, q[j]) = TagAt(s, q[j])
          BY <1>11, <4>2
        <4>4. TagAt(s, q[j]) = L[j]
          BY <2>3, <4>1
        <4> QED
          BY <4>2, <4>3, <4>4
      <3> QED
        BY <3>1, <3>2
    <2>6. Shape(t) /\ Len(g) = Len(M)
      BY <1>11, <1>14, <1>23, <1>24, <2>2, <2>4, RawIsShape
    <2>7. TagsIn(t, g) = M
      BY <1>14, <2>4, <2>5, <2>6, TagsAre
    <2> QED
      BY <2>1, <2>7
  <1> QED
    BY <1>1, <1>10, <1>18, <1>25, <1>26, <1>27 DEF Changed

-----------------------------------------------------------------------------
(* RemoveAll frees the nodes in front of the first merge. *)
LEMMA AliveBeforeMerge ==
  ASSUME NEW s, NEW f, Good(s, f), NEW p \in Packet, NEW n \in 0..Len(f[p]),
         \A k \in 1..n : ~(s.node[f[p][k]].count > 1)
  PROVE  Alone(s, f[p], n)
  <1> SUFFICES ASSUME NEW k \in 1..n PROVE s.node[f[p][k]].count = 1
    BY DEF Alone
  <1>1. k \in 1..Len(f[p])
    BY ListIs
  <1>2. f[p][k] \in Nodes(s) /\ s.node[f[p][k]].count >= 1 /\ Shape(s)
    BY <1>1, Listed, ListIs
  <1>3. s.node[f[p][k]].count \in Nat
    BY <1>2, NodeType
  <1> QED
    BY <1>2, <1>3

(* The nodes from the merge on, n + 1-th of the list, stay. *)
LEMMA LeftAlone ==
  ASSUME NEW s, NEW f, Good(s, f), NEW p \in Packet, NEW n \in 0..Len(f[p]),
         Alone(s, f[p], n),
         n < Len(f[p]) => s.node[f[p][n + 1]].count > 1,
         NEW freed, freed = {f[p][j] : j \in 1..n},
         NEW t, Raw(t), Nodes(t) = Nodes(s) \ freed,
         \A k \in Places(t) : Tgt(t, k) = IF k = p THEN Null ELSE Tgt(s, k),
         \A b \in Nodes(t) : /\ TagAt(t, b) = TagAt(s, b)
                             /\ Cnt(t, b) = IF n < Len(f[p]) /\ b = f[p][n + 1]
                                            THEN Cnt(s, b) + -1 ELSE Cnt(s, b)
  PROVE  Changed(s, f, p, t, << >>)
  <1>1. PICK q, l : q = f[p] /\ l = LinkAt(q, p, n + 1)
    OBVIOUS
  <1>2. /\ Shape(s) /\ IsPath(s, p, q) /\ OneEach(s, q)
        /\ q \in Seq(Nodes(s)) /\ Len(q) \in Nat /\ n \in Nat /\ n <= Len(q)
    BY <1>1, ListIs
  <1>3. \A b \in Nodes(s) : b \notin Packet
    BY <1>2, NodeType
  <1>4. Places(t) = Places(s) \ freed /\ p \in Places(t)
    <2>1. \A x \in freed : x \in Nodes(s)
      BY <1>1, <1>2
    <2> QED
      BY <1>3, <2>1 DEF Places
  <1>5. \A h \in Packet \ {p} : \A k \in 1..Len(f[h]) :
           f[h][k] \in Nodes(s) /\ f[h][k] \notin freed
    <2> TAKE h \in Packet \ {p}
    <2> TAKE k \in 1..Len(f[h])
    <2>1. f[h][k] \in Nodes(s)
      BY Listed
    <2>2. \A j \in 1..n : f[h][k] # f[p][j]
      BY Private
    <2> QED
      BY <2>1, <2>2
  <1>6. Others(s, t, f, p)
    BY <1>5 DEF Others
  <1>7. \A h \in Packet \ {p} : \A j \in 1..(Len(f[h]) + 1) :
           Tgt(t, LinkAt(f[h], h, j)) = Tgt(s, LinkAt(f[h], h, j))
    <2> TAKE h \in Packet \ {p}
    <2> TAKE j \in 1..(Len(f[h]) + 1)
    <2>1. Len(f[h]) \in Nat
      BY ListIs
    <2>2. j # 1 => j - 1 \in 1..Len(f[h])
      BY <2>1
    <2>3. LinkAt(f[h], h, j) \in Places(t) /\ LinkAt(f[h], h, j) # p
      <3>1. CASE j = 1
        <4>1. h \notin freed
          BY <1>1, <1>2, <1>3
        <4> QED
          BY <1>4, <3>1, <4>1 DEF LinkAt, Places
      <3>2. CASE j # 1
        <4>1. f[h][j - 1] \in Nodes(s) /\ f[h][j - 1] \notin freed /\ f[h][j - 1] \notin Packet
          BY <1>3, <1>5, <2>2, <3>2
        <4> QED
          BY <1>4, <3>2, <4>1 DEF LinkAt, Places
      <3> QED
        BY <3>1, <3>2
    <2> QED
      BY <2>3
  <1>8. IsPath(t, p, << >>)
    <2>1. Tgt(t, p) = Null
      BY <1>4
    <2> QED
      BY <2>1, NothingBehind
  <1>9. OneEach(t, << >>)
    BY DEF OneEach
  <1>10. \A b \in Nodes(t) : \/ \E k \in 1..Len(<< >>) : << >>[k] = b
                             \/ \E h \in Packet \ {p} : \E k \in 1..Len(f[h]) : f[h][k] = b
    <2> TAKE b \in Nodes(t)
    <2>1. PICK h \in Packet : \E k \in 1..Len(f[h]) : f[h][k] = b
      BY DEF Good, On
    <2>2. CASE h = p
      <3>1. PICK k \in 1..Len(q) : q[k] = b
        BY <1>1, <2>1, <2>2
      <3>2. k \notin 1..n
        BY <1>1, <3>1
      <3>3. PICK m \in 1..Len(q) : m = n + 1 /\ m <= k
        BY <1>2, <3>2
      <3>4. s.node[f[p][m]].count > 1 /\ m \in 1..Len(f[p])
        BY <1>1, <1>2, <3>3
      <3> DEFINE P == {x \in Nat : m + x <= Len(q) =>
                         \E g \in Packet \ {p} : \E y \in 1..Len(f[g]) : f[g][y] = q[m + x]}
      <3>5. 0 \in P
        <4>1. \E g \in Packet \ {p} : \E y \in 1..Len(f[g]) : f[g][y] = f[p][m]
          BY <3>4, Shared
        <4>2. m + 0 = m
          BY <1>2
        <4> QED
          BY <1>1, <4>1, <4>2
      <3>6. ASSUME NEW x \in P PROVE x + 1 \in P
        <4>1. x \in Nat
          OBVIOUS
        <4>2. ASSUME m + (x + 1) <= Len(q)
              PROVE  \E g \in Packet \ {p} : \E y \in 1..Len(f[g]) : f[g][y] = q[m + (x + 1)]
          <5>1. PICK z \in 1..Len(q) : z = m + x /\ z + 1 = m + (x + 1) /\ z + 1 \in 1..Len(q)
            BY <1>2, <4>1, <4>2
          <5>2. PICK g \in Packet \ {p} : \E y \in 1..Len(f[g]) : f[g][y] = q[z]
            BY <1>2, <4>2, <5>1
          <5>3. PICK y \in 1..Len(f[g]) : f[g][y] = q[z]
            BY <5>2
          <5>4. s.node[q[z]].next = q[z + 1] /\ q[z + 1] # Null
            <6>1. s.node[q[z]].next = NodeAt(q, z + 1)
              BY <1>2, PathNext
            <6>2. q[z + 1] \in Nodes(s)
              BY <1>2, <5>1
            <6>3. q[z + 1] # Null
              BY <1>2, <6>2, NodeType
            <6> QED
              BY <1>2, <5>1, <6>1, <6>3 DEF NodeAt
          <5>5. IsPath(s, g, f[g]) /\ Len(f[g]) \in Nat
            BY ListIs
          <5>6. s.node[f[g][y]].next = NodeAt(f[g], y + 1)
            BY <1>2, <5>5, PathNext
          <5>7. y + 1 \in 1..Len(f[g]) /\ f[g][y + 1] = q[z + 1]
            BY <5>3, <5>4, <5>5, <5>6 DEF NodeAt
          <5> QED
            BY <5>1, <5>7
        <4> QED
          BY <4>1, <4>2
      <3>7. P = Nat
        BY <3>5, <3>6, Induction
      <3>8. PICK x \in Nat : m + x = k
        <4>1. k - m \in Nat /\ m + (k - m) = k
          BY <1>2, <3>3
        <4> QED
          BY <4>1
      <3>9. m + x <= Len(q)
        BY <1>2, <3>8
      <3>10. x \in P
        BY <3>7
      <3> QED
        BY <3>1, <3>8, <3>9, <3>10
    <2> QED
      BY <2>1, <2>2
  <1>11. ASSUME NEW k \in Places(t), k # p
         PROVE  Tgt(s, k) \notin freed
    <2> SUFFICES ASSUME NEW j \in 1..n, Tgt(s, k) = q[j] PROVE FALSE
      BY <1>1
    <2>1. j \in 1..Len(f[p]) /\ s.node[f[p][j]].count = 1
      BY <1>1, <1>2 DEF Alone
    <2>2. In(s, q[j]) = {LinkAt(q, p, j)}
      <3>1. OnlyLink(s, f[p], p, j)
        BY <2>1, AloneIn
      <3> QED
        BY <1>1, <3>1 DEF OnlyLink
    <2>3. k = LinkAt(q, p, j)
      BY <1>4, <2>2 DEF In
    <2>4. j # 1 /\ k = q[j - 1] /\ j - 1 \in 1..n
      BY <1>2, <1>11, <2>3 DEF LinkAt
    <2>5. k \in freed
      BY <1>1, <2>4
    <2> QED
      BY <1>4, <2>5
  <1>12. \A k \in Places(t) : Tgt(t, k) \in Nodes(t) \cup {Null}
    <2>1. \A k \in Places(s) : Tgt(s, k) \in Nodes(s) \cup {Null}
      BY <1>2, Leads
    <2> QED
      BY <1>4, <1>11, <2>1
  <1>13. l \in Places(s) /\ Tgt(s, l) = NodeAt(q, n + 1)
    <2>1. n + 1 \in 1..(Len(q) + 1) /\ (n # 0 => q[n] \in Nodes(s))
      BY <1>2
    <2>2. l = IF n = 0 THEN p ELSE q[n]
      BY <1>1, <1>2 DEF LinkAt
    <2> QED
      BY <1>1, <1>2, <2>1, <2>2 DEF IsPath, Places
  <1>14. ASSUME NEW k \in Places(s), k = p \/ k \in freed
         PROVE  Tgt(s, k) \in freed \/ k = l
    <2>1. PICK j \in 0..n : k = LinkAt(q, p, j + 1)
      <3>1. CASE k = p
        BY <1>2, <3>1 DEF LinkAt
      <3>2. CASE k \in freed
        <4>1. PICK j \in 1..n : k = q[j]
          BY <1>1, <3>2
        <4>2. j \in 0..n /\ k = LinkAt(q, p, j + 1)
          BY <1>2, <4>1 DEF LinkAt
        <4> QED
          BY <4>2
      <3> QED
        BY <1>14, <3>1, <3>2
    <2>2. CASE j = n
      BY <1>1, <2>1, <2>2
    <2>3. CASE j # n
      <3>1. j + 1 \in 1..n /\ j + 1 \in 1..(Len(q) + 1) /\ j + 1 <= Len(q)
        BY <1>2, <2>3
      <3>2. Tgt(s, k) = q[j + 1]
        BY <1>2, <2>1, <3>1 DEF IsPath, NodeAt
      <3> QED
        BY <1>1, <3>1, <3>2
    <2> QED
      BY <2>2, <2>3
  <1>15. l = p \/ l \in freed
    <2>1. CASE n = 0
      BY <1>1, <2>1 DEF LinkAt
    <2>2. CASE n # 0
      <3>1. l = q[n] /\ n \in 1..n
        BY <1>1, <1>2, <2>2 DEF LinkAt
      <3> QED
        BY <1>1, <3>1
    <2> QED
      BY <2>1, <2>2
  <1>16. ASSUME NEW b \in Nodes(t) PROVE Cnt(t, b) = Cardinality(In(t, b))
    <2>1. b \in Nodes(s) /\ b \notin freed /\ b # Null
      BY <1>2, NodeType
    <2>2. IsFiniteSet(In(s, b)) /\ Cnt(s, b) = Cardinality(In(s, b)) /\ Cnt(s, b) \in Nat
      BY <2>1, CountOf
    <2>3. In(t, b) = In(s, b) \ {l}
      <3>1. ASSUME NEW k \in In(t, b) PROVE k \in In(s, b) \ {l}
        <4>1. k \in Places(t) /\ Tgt(t, k) = b
          BY DEF In
        <4>2. k # p /\ Tgt(s, k) = b
          BY <2>1, <4>1
        <4>3. k # l
          BY <1>4, <1>15, <4>1, <4>2
        <4> QED
          BY <1>4, <4>1, <4>2, <4>3 DEF In
      <3>2. ASSUME NEW k \in In(s, b), k # l PROVE k \in In(t, b)
        <4>1. k \in Places(s) /\ Tgt(s, k) = b
          BY DEF In
        <4>2. k # p /\ k \notin freed
          BY <1>14, <2>1, <3>2, <4>1
        <4>3. k \in Places(t) /\ Tgt(t, k) = b
          BY <1>4, <4>1, <4>2
        <4> QED
          BY <4>3 DEF In
      <3> QED
        BY <3>1, <3>2
    <2>4. CASE n < Len(q) /\ b = q[n + 1]
      <3>1. l \in In(s, b)
        BY <1>2, <1>13, <2>4 DEF In, NodeAt
      <3>2. Cardinality(In(t, b)) = Cardinality(In(s, b)) - 1
        BY <2>2, <2>3, <3>1, OneFewer
      <3>3. Cnt(t, b) = Cnt(s, b) + -1
        BY <1>1, <2>4
      <3> QED
        BY <2>2, <3>2, <3>3
    <2>5. CASE ~(n < Len(q) /\ b = q[n + 1])
      <3>1. NodeAt(q, n + 1) # b
        BY <1>2, <2>1, <2>5 DEF NodeAt
      <3>2. l \notin In(s, b)
        BY <1>13, <3>1 DEF In
      <3>3. In(t, b) = In(s, b) /\ Cnt(t, b) = Cnt(s, b)
        BY <1>1, <2>3, <2>5, <3>2
      <3> QED
        BY <2>2, <3>3
    <2> QED
      BY <2>4, <2>5
  <1>17. Good(t, With(f, p, << >>))
    BY <1>6, <1>7, <1>8, <1>9, <1>10, <1>12, <1>16, Done
  <1>18. TagsIn(t, << >>) = << >> /\ << >> \in Seq(Address)
    BY DEF TagsIn
  <1> QED
    BY <1>6, <1>17, <1>18 DEF Changed

LEMMA ReleasedIs ==
  ASSUME NEW s, NEW f, Good(s, f), NEW p \in Packet
  PROVE  Changed(s, f, p, Released(s, p), << >>)
  <1>1. PICK q, m : q = f[p] /\ m = Merge(s, p)
    OBVIOUS
  <1>2. /\ Shape(s) /\ IsPath(s, p, q) /\ OneEach(s, q) /\ Raw(s)
        /\ q \in Seq(Nodes(s)) /\ Len(q) \in Nat /\ q = Chain(s, p)
    BY <1>1, ListIs, ChainIs, ShapeIsRaw
  <1>3. /\ m \in 0..Len(q)
        /\ m = 0 => \A k \in 1..Len(q) : ~(s.node[q[k]].count > 1)
        /\ m # 0 => s.node[q[m]].count > 1
        /\ \A k \in 1..Len(q) : k < m => ~(s.node[q[k]].count > 1)
    BY <1>1, <1>2, MergeIs
  <1>4. PICK n \in Nat : n = IF m = 0 THEN Len(q) ELSE m - 1
    BY <1>2, <1>3
  <1>5. /\ n \in 0..Len(q) /\ (n < Len(q) <=> m # 0) /\ (m # 0 => n + 1 = m)
        /\ \A k \in 1..n : ~(s.node[q[k]].count > 1)
    BY <1>2, <1>3, <1>4
  <1>6. Alone(s, q, n)
    BY <1>1, <1>5, AliveBeforeMerge
  <1>7. PICK freed : freed = {q[j] : j \in 1..n}
    OBVIOUS
  <1>8. PICK kept : kept = IF m = 0 THEN s ELSE Count(s, q[m], -1)
    OBVIOUS
  <1>9. PICK u, t : u = Delete(kept, freed) /\ t = SetLink(u, p, Null)
    OBVIOUS
  <1>10. t = Released(s, p)
    <2>1. {q[j] : j \in {k \in DOMAIN q : m = 0 \/ k < m}} = freed
      <3>1. {k \in DOMAIN q : m = 0 \/ k < m} = 1..n
        BY <1>2, <1>3, <1>4
      <3> QED
        BY <1>7, <3>1
    <2>2. Released(s, p) = SetLink(Delete(kept, {q[j] : j \in {k \in DOMAIN q : m = 0 \/ k < m}}), p, Null)
      BY <1>1, <1>2, <1>8, Zenon DEF Released
    <2> QED
      BY <1>9, <2>1, <2>2
  <1>11. /\ Raw(kept) /\ Nodes(kept) = Nodes(s) /\ Places(kept) = Places(s)
         /\ \A k \in Places(s) : Tgt(kept, k) = Tgt(s, k)
         /\ \A b \in Nodes(s) : /\ TagAt(kept, b) = TagAt(s, b)
                                /\ Cnt(kept, b) = IF n < Len(q) /\ b = q[n + 1]
                                                  THEN Cnt(s, b) + -1 ELSE Cnt(s, b)
    <2>1. CASE m = 0
      BY <1>2, <1>5, <1>8, <2>1
    <2>2. CASE m # 0
      <3>1. q[m] \in Nodes(s) /\ kept = Count(s, q[m], -1)
        BY <1>2, <1>3, <1>8, <2>2
      <3>2. Counted(s, kept, q[m], -1)
        <4>1. PICK c \in Nodes(s) : c = q[m]
          BY <3>1
        <4>2. Counted(s, Count(s, c, -1), c, -1)
          BY <1>2, CountDown
        <4> QED
          BY <3>1, <4>1, <4>2
      <3> QED
        BY <1>5, <2>2, <3>2 DEF Counted, Places
    <2> QED
      BY <2>1, <2>2
  <1>12. Dropped(kept, u, freed)
    BY <1>9, <1>11, DeleteIs
  <1>13. \A b \in freed : b \in Nodes(s) /\ b \notin Packet
    <2>1. \A b \in freed : b \in Nodes(s)
      BY <1>2, <1>5, <1>7
    <2> QED
      BY <1>2, <2>1, NodeType
  <1>14. Raw(u) /\ Nodes(u) = Nodes(s) \ freed /\ Places(u) = Places(s) \ freed
    BY <1>11, <1>12, <1>13 DEF Dropped, Places
  <1>15. Relinked(u, t, p, Null)
    <2>1. p \in Places(u) /\ Null \in Address \cup {Null}
      BY DEF Places
    <2>2. PICK b \in Address \cup {Null} : b = Null
      BY <2>1
    <2>3. Relinked(u, SetLink(u, p, b), p, b)
      BY <1>14, <2>1, SetLinkIs
    <2> QED
      BY <1>9, <2>2, <2>3
  <1>16. /\ Raw(t) /\ Nodes(t) = Nodes(s) \ freed /\ Places(t) = Places(s) \ freed
         /\ \A k \in Places(t) : Tgt(t, k) = IF k = p THEN Null ELSE Tgt(s, k)
    <2>1. Raw(t) /\ Nodes(t) = Nodes(u)
      BY <1>15 DEF Relinked
    <2>2. Places(t) = Places(s) \ freed
      BY <1>14, <2>1 DEF Places
    <2>3. \A k \in Places(s) \ freed : Tgt(u, k) = Tgt(s, k)
      BY <1>11, <1>12 DEF Dropped
    <2>4. \A k \in Places(u) : Tgt(t, k) = IF k = p THEN Null ELSE Tgt(u, k)
      BY <1>15 DEF Relinked
    <2> QED
      BY <1>14, <2>1, <2>2, <2>3, <2>4
  <1>17. \A b \in Nodes(t) : /\ TagAt(t, b) = TagAt(s, b)
                             /\ Cnt(t, b) = IF n < Len(q) /\ b = q[n + 1]
                                            THEN Cnt(s, b) + -1 ELSE Cnt(s, b)
    <2>1. \A b \in Nodes(t) : TagAt(t, b) = TagAt(u, b) /\ Cnt(t, b) = Cnt(u, b)
      BY <1>14, <1>15, <1>16 DEF Relinked
    <2>2. \A b \in Nodes(t) : TagAt(u, b) = TagAt(kept, b) /\ Cnt(u, b) = Cnt(kept, b)
      BY <1>11, <1>12, <1>16 DEF Dropped
    <2> QED
      BY <1>11, <1>16, <2>1, <2>2
  <1>18. Changed(s, f, p, t, << >>)
    <2>1. n < Len(f[p]) => s.node[f[p][n + 1]].count > 1
      BY <1>1, <1>3, <1>5
    <2>2. n \in 0..Len(f[p]) /\ Alone(s, f[p], n) /\ freed = {f[p][j] : j \in 1..n}
      BY <1>1, <1>5, <1>6, <1>7
    <2>3. \A b \in Nodes(t) : /\ TagAt(t, b) = TagAt(s, b)
                              /\ Cnt(t, b) = IF n < Len(f[p]) /\ b = f[p][n + 1]
                                             THEN Cnt(s, b) + -1 ELSE Cnt(s, b)
      BY <1>1, <1>17
    <2> QED
      BY <1>16, <2>1, <2>2, <2>3, LeftAlone
  <1> QED
    BY <1>10, <1>18

(* A packet without tags joins the list of another. *)
LEMMA JoinedIs ==
  ASSUME NEW s, NEW f, Good(s, f), NEW p \in Packet, NEW q \in Packet, q # p,
         f[p] = << >>, NEW hd, hd = s.next[q]
  PROVE  Changed(s, f, p, Count(SetLink(s, p, hd), hd, 1), TagsIn(s, f[q]))
  <1>1. PICK g, u, t : g = f[q] /\ u = SetLink(s, p, hd) /\ t = Count(u, hd, 1)
    OBVIOUS
  <1>2. /\ Shape(s) /\ IsPath(s, q, g) /\ OneEach(s, g) /\ Raw(s)
        /\ g \in Seq(Nodes(s)) /\ Len(g) \in Nat
    BY <1>1, ListIs, ShapeIsRaw
  <1>3. /\ p \in Places(s) /\ q \in Places(s) /\ Tgt(s, q) = hd
        /\ hd \in Nodes(s) \cup {Null} /\ Tgt(s, p) = Null
    <2>1. p \in Places(s) /\ q \in Places(s) /\ Tgt(s, q) = hd
      BY DEF Places, Tgt
    <2>2. Tgt(s, p) = Null
      <3>1. IsPath(s, p, f[p])
        BY ListIs
      <3>2. LinkAt(f[p], p, Len(f[p]) + 1) = p
        BY DEF LinkAt
      <3> QED
        BY <3>1, <3>2, PathEnd
    <2> QED
      BY <1>2, <2>1, <2>2, Leads
  <1>4. Relinked(s, u, p, hd)
    <2>1. hd \in Address \cup {Null}
      BY <1>2, <1>3 DEF Shape
    <2> QED
      BY <1>1, <1>2, <1>3, <2>1, SetLinkIs
  <1>5. Counted(u, t, hd, 1)
    <2>1. Raw(u) /\ (hd \in Nodes(u) \/ hd = Null)
      BY <1>3, <1>4 DEF Relinked
    <2> QED
      BY <1>1, <2>1, CountUp
  <1>6. /\ Raw(t) /\ Nodes(t) = Nodes(s) /\ Places(t) = Places(s)
        /\ \A k \in Places(t) : Tgt(t, k) = IF k = p THEN hd ELSE Tgt(s, k)
        /\ \A b \in Nodes(t) : TagAt(t, b) = TagAt(s, b)
        /\ \A b \in Nodes(t) : Cnt(t, b) = IF b = hd THEN Cnt(s, b) + 1 ELSE Cnt(s, b)
    BY <1>4, <1>5 DEF Relinked, Counted, Places
  <1>7. \A h \in Packet : \A j \in 1..(Len(f[h]) + 1) :
           LinkAt(f[h], h, j) \in Places(s) /\ (LinkAt(f[h], h, j) = p => h = p /\ j = 1)
    <2> TAKE h \in Packet
    <2> TAKE j \in 1..(Len(f[h]) + 1)
    <2>1. f[h] \in Seq(Nodes(s)) /\ Len(f[h]) \in Nat
      BY ListIs
    <2>2. j # 1 => f[h][j - 1] \in Nodes(s)
      BY <2>1
    <2>3. j # 1 => f[h][j - 1] \notin Packet
      BY <1>2, <2>2, NodeType
    <2> QED
      BY <2>2, <2>3 DEF LinkAt, Places
  <1>8. IsPath(t, p, g)
    <2> SUFFICES ASSUME NEW j \in 1..(Len(g) + 1)
                 PROVE  Tgt(t, LinkAt(g, p, j)) = NodeAt(g, j)
      BY <1>2, <1>6 DEF IsPath
    <2>0. Tgt(s, LinkAt(g, q, j)) = NodeAt(g, j)
      BY <1>2 DEF IsPath
    <2>1. CASE j = 1
      <3>1. LinkAt(g, p, j) = p /\ LinkAt(g, q, j) = q
        BY <2>1 DEF LinkAt
      <3> QED
        BY <1>3, <1>6, <2>0, <3>1
    <2>2. CASE j # 1
      <3>1. LinkAt(g, p, j) = LinkAt(g, q, j)
        BY <2>2 DEF LinkAt
      <3>2. LinkAt(g, q, j) \in Places(t) /\ LinkAt(g, q, j) # p
        BY <1>1, <1>6, <1>7
      <3> QED
        BY <1>6, <2>0, <3>1, <3>2
    <2> QED
      BY <2>1, <2>2
  <1>9. Others(s, t, f, p)
    <2>1. \A h \in Packet \ {p} : \A k \in 1..Len(f[h]) : f[h][k] \in Nodes(s)
      BY Listed
    <2> QED
      BY <1>6, <2>1 DEF Others
  <1>10. \A h \in Packet \ {p} : \A j \in 1..(Len(f[h]) + 1) :
            Tgt(t, LinkAt(f[h], h, j)) = Tgt(s, LinkAt(f[h], h, j))
    BY <1>6, <1>7
  <1>11. \A k \in 1..Len(g) : g[k] \in Nodes(t) /\ TagAt(t, g[k]) = TagAt(s, g[k])
    BY <1>2, <1>6
  <1>12. OneEach(t, g)
    <2>1. \A k \in 1..Len(g) : t.node[g[k]].tid = s.node[g[k]].tid
      BY <1>11 DEF TagAt
    <2> QED
      BY <1>2, <2>1, SameTypes
  <1>13. \A b \in Nodes(t) : \/ \E k \in 1..Len(g) : g[k] = b
                             \/ \E h \in Packet \ {p} : \E k \in 1..Len(f[h]) : f[h][k] = b
    <2> TAKE b \in Nodes(t)
    <2>1. PICK h \in Packet : \E k \in 1..Len(f[h]) : f[h][k] = b
      BY <1>6 DEF Good, On
    <2>2. h # p
      BY <2>1
    <2> QED
      BY <2>1, <2>2
  <1>14. \A k \in Places(t) : Tgt(t, k) \in Nodes(t) \cup {Null}
    <2>1. \A k \in Places(s) : Tgt(s, k) \in Nodes(s) \cup {Null}
      BY <1>2, Leads
    <2> QED
      BY <1>3, <1>6, <2>1
  <1>15. ASSUME NEW b \in Nodes(t) PROVE Cnt(t, b) = Cardinality(In(t, b))
    <2>1. IsFiniteSet(In(s, b)) /\ Cnt(s, b) = Cardinality(In(s, b)) /\ b # Null
      <3>1. b \in Nodes(s)
        BY <1>6
      <3>2. b # Null
        BY <1>2, <3>1, NodeType
      <3> QED
        BY <3>1, <3>2, CountOf
    <2>2. CASE b = hd
      <3>1. In(t, b) = In(s, b) \cup {p} /\ p \notin In(s, b)
        BY <1>3, <1>6, <2>1, <2>2 DEF In
      <3>2. Cardinality(In(t, b)) = Cardinality(In(s, b)) + 1
        BY <2>1, <3>1, OneMore
      <3> QED
        BY <1>6, <2>1, <2>2, <3>2
    <2>3. CASE b # hd
      <3>1. In(t, b) = In(s, b)
        BY <1>3, <1>6, <2>1, <2>3 DEF In
      <3> QED
        BY <1>6, <2>1, <2>3, <3>1
    <2> QED
      BY <2>2, <2>3
  <1>16. Good(t, With(f, p, g))
    BY <1>6, <1>8, <1>9, <1>10, <1>12, <1>13, <1>14, <1>15, Done
  <1>17. TagsIn(t, g) = TagsIn(s, g)
    BY <1>2, <1>11 DEF TagsIn
  <1>18. g \in Seq(Address)
    BY <1>2 DEF Shape
  <1> QED
    BY <1>1, <1>9, <1>16, <1>17, <1>18 DEF Changed

(* What COWTraverse finds: the node, alone with all in front of it, or,    *)
(* after the copying, shared and with only nodes in front of it that are   *)
(* alone.                                                                  *)
LEMMA TraverseIs ==
  ASSUME NEW s, NEW f, Good(s, f), NEW p \in Packet, NEW t,
         NEW i, i = Find(s, p, t), i # 0
  PROVE  /\ i \in 1..Len(f[p]) /\ s.node[f[p][i]].tid = t
         /\ \/ /\ Alone(s, f[p], i)
               /\ COWTraverse(s, p, t) = [store |-> s, cur |-> f[p][i],
                                          link |-> LinkAt(f[p], p, i), preMerge |-> TRUE]
            \/ \E w, g : /\ Copying(s, f, p, w, i - 1, g)
                         /\ COWTraverse(s, p, t) = [store |-> w.store, cur |-> f[p][i],
                                                    link |-> w.link, preMerge |-> FALSE]
  <1>1. PICK q, m : q = f[p] /\ m = Merge(s, p)
    OBVIOUS
  <1>2. q \in Seq(Nodes(s)) /\ Len(q) \in Nat /\ q = Chain(s, p)
    BY <1>1, ListIs, ChainIs
  <1>3. /\ m \in 0..Len(q)
        /\ m = 0 => \A k \in 1..Len(q) : ~(s.node[q[k]].count > 1)
        /\ m # 0 => s.node[q[m]].count > 1
        /\ \A k \in 1..Len(q) : k < m => ~(s.node[q[k]].count > 1)
    BY <1>1, <1>2, MergeIs
  <1>4. i \in 1..Len(q) /\ s.node[q[i]].tid = t
    <2>1. Find(s, p, t) \in 0..Len(q) /\ (Find(s, p, t) # 0 => s.node[q[Find(s, p, t)]].tid = t)
      BY <1>2, FindIs
    <2> QED
      BY <1>2, <2>1
  <1>5. CASE m = 0 \/ i < m
    <2>1. \A k \in 1..i : ~(s.node[q[k]].count > 1)
      BY <1>2, <1>3, <1>4, <1>5
    <2>2. Alone(s, q, i)
      <3>1. i \in 0..Len(f[p])
        BY <1>1, <1>2, <1>4
      <3> QED
        BY <1>1, <2>1, <3>1, AliveBeforeMerge
    <2>3. LinkTo(s, p, i) = LinkAt(q, p, i)
      BY <1>2, Zenon DEF LinkTo, LinkAt
    <2>4. COWTraverse(s, p, t) = [store |-> s, cur |-> Chain(s, p)[i],
                                  link |-> LinkTo(s, p, i), preMerge |-> TRUE]
      BY <1>1, <1>5, Zenon DEF COWTraverse
    <2> QED
      BY <1>1, <1>2, <1>4, <2>2, <2>3, <2>4
  <1>6. CASE ~(m = 0 \/ i < m)
    <2>1. m \in 1..Len(q) /\ m <= i
      BY <1>2, <1>3, <1>4, <1>6
    <2>2. Alone(s, q, m - 1)
      <3>1. PICK n \in 0..Len(q) : n = m - 1
        BY <1>2, <2>1
      <3>2. \A k \in 1..n : ~(s.node[q[k]].count > 1)
        BY <1>2, <1>3, <3>1
      <3>3. Alone(s, f[p], n)
        BY <1>1, <3>1, <3>2, AliveBeforeMerge
      <3> QED
        BY <1>1, <3>1, <3>3
    <2>3. PICK w : w = Unmerged(s, p, m, i)
      OBVIOUS
    <2>4. \E g : Copying(s, f, p, w, i - 1, g)
      <3>1. s.node[f[p][m]].count > 1 /\ m \in 1..Len(f[p]) /\ i \in 1..Len(f[p])
            /\ Alone(s, f[p], m - 1)
        BY <1>1, <1>3, <1>4, <2>1, <2>2
      <3> QED
        BY <2>1, <2>3, <3>1, LoopIs
    <2>5. COWTraverse(s, p, t) = [store |-> w.store, cur |-> Chain(s, p)[i],
                                  link |-> w.link, preMerge |-> FALSE]
      BY <1>1, <1>6, <2>3, Zenon DEF COWTraverse
    <2> QED
      BY <1>1, <1>2, <1>4, <2>4, <2>5
  <1> QED
    BY <1>5, <1>6

(* After the copying, at the node itself. *)
AtCopy(s, f, p, i, w, g) ==
  /\ Good(w.store, With(f, p, g)) /\ With(f, p, g)[p] = g
  /\ i \in 1..Len(g) /\ g[i] = f[p][i] /\ w.link = LinkAt(g, p, i)
  /\ Alone(w.store, g, i - 1) /\ w.store.node[g[i]].count > 1
  /\ w.store.node[g[i]].tid = s.node[f[p][i]].tid

LEMMA CopyingIs ==
  ASSUME NEW s, NEW f, Good(s, f), NEW p \in Packet, NEW i \in 1..Len(f[p]),
         NEW w, NEW g, Copying(s, f, p, w, i - 1, g)
  PROVE  AtCopy(s, f, p, i, w, g)
  <1>1. Len(f[p]) \in Nat /\ f \in [Packet -> Seq(Address)]
    BY ListIs DEF Good
  <1>2. PICK j \in Nat : j = i - 1
    BY <1>1
  <1>3. j + 1 = i
    BY <1>1, <1>2
  <1>4. /\ Good(w.store, With(f, p, g)) /\ w.link = LinkAt(g, p, j + 1)
        /\ g \in Seq(Address) /\ Len(g) = Len(f[p])
        /\ \A k \in 1..Len(g) : k > j => g[k] = f[p][k]
        /\ \A k \in 1..Len(g) : TagAt(w.store, g[k]) = TagAt(s, f[p][k])
        /\ Alone(w.store, g, j)
        /\ (j < Len(g) => Cnt(w.store, g[j + 1]) > 1)
    BY <1>2 DEF Copying
  <1>5. i \in 1..Len(g) /\ g[i] = f[p][i]
    BY <1>1, <1>3, <1>4
  <1>6. Cnt(w.store, g[i]) > 1
    BY <1>1, <1>3, <1>4
  <1>7. TagAt(w.store, g[i]) = TagAt(s, f[p][i])
    BY <1>4, <1>5
  <1>8. w.store.node[g[i]].tid = s.node[f[p][i]].tid
    BY <1>7 DEF TagAt
  <1>9. With(f, p, g)[p] = g
    BY <1>1, <1>4 DEF With
  <1>10. w.link = LinkAt(g, p, i) /\ Alone(w.store, g, i - 1)
    BY <1>2, <1>3, <1>4
  <1> QED
    BY <1>4, <1>5, <1>6, <1>8, <1>9, <1>10 DEF Cnt, AtCopy

(* Remove takes out the tag that was found and nothing else. *)
LEMMA RemovedIs ==
  ASSUME NEW s, NEW f, Good(s, f), NEW p \in Packet, NEW t,
         NEW i, i = Find(s, p, t), i # 0
  PROVE  Changed(s, f, p, RemoveWriter(COWTraverse(s, p, t)), RemoveAt(TagsIn(s, f[p]), i))
  <1>1. PICK v : v = COWTraverse(s, p, t)
    OBVIOUS
  <1>2. i \in 1..Len(f[p])
    BY TraverseIs
  <1>3. CASE /\ Alone(s, f[p], i)
             /\ v = [store |-> s, cur |-> f[p][i],
                     link |-> LinkAt(f[p], p, i), preMerge |-> TRUE]
    <2>1. PICK c, l, nx : c = f[p][i] /\ l = LinkAt(f[p], p, i) /\ nx = s.node[c].next
      OBVIOUS
    <2>2. v.preMerge /\ v.store = s /\ v.cur = c /\ v.link = l
      BY <1>3, <2>1
    <2>3. RemoveWriter(v) = Delete(SetLink(s, l, nx), {c})
      <3>1. RemoveWriter(v) = Delete(SetLink(v.store, v.link, v.store.node[v.cur].next), {v.cur})
        BY <2>2, Zenon DEF RemoveWriter
      <3> QED
        BY <2>1, <2>2, <3>1
    <2>4. Changed(s, f, p, Delete(SetLink(s, l, nx), {c}), RemoveAt(TagsIn(s, f[p]), i))
      BY <1>2, <1>3, <2>1, RemovedEarly
    <2> QED
      BY <1>1, <2>3, <2>4
  <1>4. ASSUME NEW w, NEW g, Copying(s, f, p, w, i - 1, g),
               v = [store |-> w.store, cur |-> f[p][i], link |-> w.link, preMerge |-> FALSE]
        PROVE  Changed(s, f, p, RemoveWriter(v), RemoveAt(TagsIn(s, f[p]), i))
    <2>1. PICK u, h : u = w.store /\ h = With(f, p, g)
      OBVIOUS
    <2>2. /\ Good(u, h) /\ h[p] = g /\ i \in 1..Len(g) /\ g[i] = f[p][i]
          /\ w.link = LinkAt(g, p, i) /\ Alone(u, g, i - 1) /\ u.node[g[i]].count > 1
      <3>1. AtCopy(s, f, p, i, w, g)
        BY <1>2, <1>4, CopyingIs
      <3> QED
        BY <2>1, <3>1 DEF AtCopy
    <2>3. PICK c, l, nx : c = h[p][i] /\ l = LinkAt(h[p], p, i) /\ nx = u.node[c].next
      OBVIOUS
    <2>4. ~v.preMerge /\ v.store = u /\ v.cur = c /\ v.link = l
      BY <1>4, <2>1, <2>2, <2>3
    <2>5. RemoveWriter(v) = Count(Count(SetLink(u, l, nx), c, -1), nx, 1)
      <3>1. RemoveWriter(v) =
              Count(Count(SetLink(v.store, v.link, v.store.node[v.cur].next), v.cur, -1),
                    v.store.node[v.cur].next, 1)
        BY <2>4, Zenon DEF RemoveWriter
      <3> QED
        BY <2>3, <2>4, <3>1
    <2>6. Changed(u, h, p, Count(Count(SetLink(u, l, nx), c, -1), nx, 1),
                  RemoveAt(TagsIn(u, h[p]), i))
      <3>1. i \in 1..Len(h[p]) /\ Alone(u, h[p], i - 1) /\ u.node[h[p][i]].count > 1
        BY <2>2
      <3> QED
        BY <2>2, <2>3, <3>1, RemovedAtMerge
    <2>7. Changed(w.store, With(f, p, g), p, RemoveWriter(v), RemoveAt(TagsIn(u, g), i))
      BY <2>1, <2>2, <2>5, <2>6
    <2>8. /\ Changed(s, f, p, RemoveWriter(v), RemoveAt(TagsIn(u, g), i))
          /\ TagsIn(w.store, g) = TagsIn(s, f[p])
      BY <1>4, <2>7, ChangedAfter
    <2> QED
      BY <2>1, <2>8
  <1>5. \/ /\ Alone(s, f[p], i)
           /\ v = [store |-> s, cur |-> f[p][i],
                   link |-> LinkAt(f[p], p, i), preMerge |-> TRUE]
        \/ \E w, g : /\ Copying(s, f, p, w, i - 1, g)
                     /\ v = [store |-> w.store, cur |-> f[p][i],
                             link |-> w.link, preMerge |-> FALSE]
    BY <1>1, TraverseIs
  <1> QED
    BY <1>1, <1>3, <1>4, <1>5

(* Replace rewrites the tag that was found and nothing else. *)
LEMMA ReplacedIs ==
  ASSUME NEW s, NEW f, Good(s, f), NEW p \in Packet, NEW tag \in Tag,
         NEW i, i = Find(s, p, tag.tid), i # 0
  PROVE  Changed(s, f, p, ReplaceWriter(COWTraverse(s, p, tag.tid), tag.data),
                 [TagsIn(s, f[p]) EXCEPT ![i] = tag])
  <1>1. PICK v, x, t : v = COWTraverse(s, p, tag.tid) /\ x = tag.data /\ t = tag.tid
    OBVIOUS
  <1>2. x \in Value /\ tag = [tid |-> t, data |-> x]
    BY <1>1, Apart
  <1>3. i \in 1..Len(f[p]) /\ s.node[f[p][i]].tid = t
    BY <1>1, TraverseIs
  <1>4. CASE /\ Alone(s, f[p], i)
             /\ v = [store |-> s, cur |-> f[p][i],
                     link |-> LinkAt(f[p], p, i), preMerge |-> TRUE]
    <2>1. PICK c : c = f[p][i]
      OBVIOUS
    <2>2. v.preMerge /\ v.store = s /\ v.cur = c
      BY <1>4, <2>1
    <2>3. ReplaceWriter(v, x) = [s EXCEPT !.node[c].data = x]
      <3>1. ReplaceWriter(v, x) = [v.store EXCEPT !.node[v.cur].data = x]
        BY <2>2, Zenon DEF ReplaceWriter
      <3> QED
        BY <2>2, <3>1
    <2>4. Changed(s, f, p, [s EXCEPT !.node[c].data = x],
                  [TagsIn(s, f[p]) EXCEPT ![i] = [tid |-> s.node[c].tid, data |-> x]])
      BY <1>2, <1>3, <1>4, <2>1, RewrittenEarly
    <2>5. [tid |-> s.node[c].tid, data |-> x] = tag
      BY <1>2, <1>3, <2>1
    <2> QED
      BY <1>1, <2>3, <2>4, <2>5
  <1>5. ASSUME NEW w, NEW g, Copying(s, f, p, w, i - 1, g),
               v = [store |-> w.store, cur |-> f[p][i], link |-> w.link, preMerge |-> FALSE]
        PROVE  Changed(s, f, p, ReplaceWriter(v, x), [TagsIn(s, f[p]) EXCEPT ![i] = tag])
    <2>1. PICK u, h : u = w.store /\ h = With(f, p, g)
      OBVIOUS
    <2>2. /\ Good(u, h) /\ h[p] = g /\ i \in 1..Len(g) /\ g[i] = f[p][i]
          /\ w.link = LinkAt(g, p, i) /\ Alone(u, g, i - 1) /\ u.node[g[i]].count > 1
          /\ u.node[g[i]].tid = s.node[f[p][i]].tid
      <3>1. AtCopy(s, f, p, i, w, g)
        BY <1>3, <1>5, CopyingIs
      <3> QED
        BY <2>1, <3>1 DEF AtCopy
    <2>3. PICK y, r : y = Copied(u, LinkAt(h[p], p, i), h[p][i], x)
                      /\ r = [h[p] EXCEPT ![i] = Fresh(u)]
      OBVIOUS
    <2>4. ReplaceWriter(v, x) = y
      <3>1. ~v.preMerge /\ v.store = u /\ v.cur = h[p][i] /\ v.link = LinkAt(h[p], p, i)
        BY <1>5, <2>1, <2>2
      <3>2. ReplaceWriter(v, x) = Copied(v.store, v.link, v.cur, x)
        BY <3>1, Zenon DEF ReplaceWriter
      <3> QED
        BY <2>3, <3>1, <3>2
    <2>5. i \in 1..Len(h[p]) /\ Alone(u, h[p], i - 1) /\ u.node[h[p][i]].count > 1
      BY <2>2
    <2>6. CopyDone(u, h, p, i, x, y, r)
      BY <1>2, <2>2, <2>3, <2>5, CopiedIs
    <2>7. Changed(u, h, p, y, [TagsIn(u, h[p]) EXCEPT ![i] =
                                  [tid |-> u.node[h[p][i]].tid, data |-> x]])
      BY <1>2, <2>2, <2>3, <2>5, <2>6, CopiedChanges
    <2>8. [tid |-> u.node[h[p][i]].tid, data |-> x] = tag
      BY <1>2, <1>3, <2>2
    <2>9. Changed(w.store, With(f, p, g), p, ReplaceWriter(v, x),
                  [TagsIn(u, g) EXCEPT ![i] = tag])
      BY <2>1, <2>2, <2>4, <2>7, <2>8
    <2>10. /\ Changed(s, f, p, ReplaceWriter(v, x), [TagsIn(u, g) EXCEPT ![i] = tag])
           /\ TagsIn(w.store, g) = TagsIn(s, f[p])
      BY <1>5, <2>9, ChangedAfter
    <2> QED
      BY <2>1, <2>10
  <1>6. \/ /\ Alone(s, f[p], i)
           /\ v = [store |-> s, cur |-> f[p][i],
                   link |-> LinkAt(f[p], p, i), preMerge |-> TRUE]
        \/ \E w, g : /\ Copying(s, f, p, w, i - 1, g)
                     /\ v = [store |-> w.store, cur |-> f[p][i],
                             link |-> w.link, preMerge |-> FALSE]
    <2>1. i = Find(s, p, t) /\ v = COWTraverse(s, p, t)
      BY <1>1
    <2> QED
      BY <2>1, TraverseIs
  <1> QED
    BY <1>1, <1>4, <1>5, <1>6

(* Packets with the same first node have the same list. *)
LEMMA SameHead ==
  ASSUME NEW s, NEW f, Good(s, f), NEW p \in Packet, NEW q \in Packet,
         s.next[p] = s.next[q]
  PROVE  f[p] = f[q]
  <1>1. PICK g : g = f[q]
    OBVIOUS
  <1>2. Shape(s) /\ IsPath(s, p, f[p]) /\ IsPath(s, q, g)
    BY <1>1, ListIs
  <1>3. Tgt(s, p) = Tgt(s, q)
    BY DEF Tgt
  <1>4. IsPath(s, p, g)
    <2>1. g \in Seq(Nodes(s))
      BY <1>2 DEF IsPath
    <2>2. ASSUME NEW j \in 1..(Len(g) + 1)
          PROVE  Tgt(s, LinkAt(g, p, j)) = NodeAt(g, j)
      <3>1. Tgt(s, LinkAt(g, q, j)) = NodeAt(g, j)
        BY <1>2 DEF IsPath
      <3>2. j = 1 => LinkAt(g, p, j) = p /\ LinkAt(g, q, j) = q
        BY DEF LinkAt
      <3>3. j # 1 => LinkAt(g, p, j) = LinkAt(g, q, j)
        BY DEF LinkAt
      <3> QED
        BY <1>3, <3>1, <3>2, <3>3
    <2> QED
      BY <2>1, <2>2 DEF IsPath
  <1> QED
    BY <1>1, <1>2, <1>4, OneList

(* A call that leaves the store alone. *)
LEMMA UnchangedIs ==
  ASSUME NEW s, NEW f, Good(s, f), NEW p \in Packet
  PROVE  Changed(s, f, p, s, TagsIn(s, f[p]))
  <1>1. f[p] \in Seq(Address)
    BY DEF Good
  <1>2. With(f, p, f[p]) = f /\ Others(s, s, f, p)
    BY WithItself, NothingElse
  <1> QED
    BY <1>1, <1>2 DEF Changed

(* The assignment releases the old list, unless it is the new one already. *)
Assigned(s, p, q) ==
  IF s.next[p] = s.next[q] THEN s
  ELSE Count(SetLink(Released(s, p), p, s.next[q]), s.next[q], 1)

LEMMA AssignedIs ==
  ASSUME NEW s, NEW f, Good(s, f), NEW p \in Packet, NEW q \in Packet
  PROVE  Changed(s, f, p, Assigned(s, p, q), TagsIn(s, f[q]))
  <1>1. CASE s.next[p] = s.next[q]
    <2>1. f[p] = f[q]
      BY <1>1, SameHead
    <2>2. Assigned(s, p, q) = s
      BY <1>1 DEF Assigned
    <2> QED
      BY <2>1, <2>2, UnchangedIs
  <1>2. CASE s.next[p] # s.next[q]
    <2>1. PICK u, hd, t : /\ u = Released(s, p) /\ hd = s.next[q]
                          /\ t = Count(SetLink(u, p, hd), hd, 1)
      OBVIOUS
    <2>2. t = Assigned(s, p, q) /\ q # p
      BY <1>2, <2>1 DEF Assigned
    <2>3. Changed(s, f, p, u, << >>)
      BY <2>1, ReleasedIs
    <2>4. PICK g \in Seq(Address) :
             Good(u, With(f, p, g)) /\ Others(s, u, f, p) /\ TagsIn(u, g) = << >>
      BY <2>3 DEF Changed
    <2>5. PICK h : h = With(f, p, g)
      OBVIOUS
    <2>6. f \in [Packet -> Seq(Address)] /\ h[p] = g /\ h[q] = f[q]
          /\ (\A r \in Packet \ {p} : h[r] = f[r])
      <3>1. f \in [Packet -> Seq(Address)]
        BY DEF Good
      <3> QED
        BY <2>2, <2>5, <3>1, WithTwice
    <2>7. g = << >>
      <3>1. DOMAIN g = DOMAIN TagsIn(u, g)
        BY DEF TagsIn
      <3>2. Len(g) = 0
        BY <2>4, <3>1
      <3> QED
        BY <3>2
    <2>8. u.next[q] = hd
      <3>1. f[q] \in Seq(Nodes(s)) /\ Len(f[q]) \in Nat /\ IsPath(s, q, f[q])
        BY ListIs
      <3>2. IsPath(u, q, f[q])
        BY <2>4, <2>5, <2>6, ListIs
      <3>3. LinkAt(f[q], q, 1) = q /\ 1 \in 1..(Len(f[q]) + 1)
        BY <3>1 DEF LinkAt
      <3>4. Tgt(s, q) = NodeAt(f[q], 1) /\ Tgt(u, q) = NodeAt(f[q], 1)
        BY <3>1, <3>2, <3>3 DEF IsPath
      <3> QED
        BY <2>1, <3>4 DEF Tgt
    <2>9. Changed(u, h, p, t, TagsIn(u, h[q]))
      BY <2>1, <2>2, <2>4, <2>5, <2>6, <2>7, <2>8, JoinedIs
    <2>10. TagsIn(u, h[q]) = TagsIn(s, f[q])
      <3>1. \A k \in 1..Len(f[q]) : TagAt(u, f[q][k]) = TagAt(s, f[q][k])
        BY <2>2, <2>4 DEF Others
      <3>2. DOMAIN f[q] = 1..Len(f[q])
        BY <2>6
      <3> QED
        BY <2>6, <3>1, <3>2 DEF TagsIn
    <2>11. PICK k \in Seq(Address) :
              /\ Good(t, With(h, p, k)) /\ Others(u, t, h, p)
              /\ TagsIn(t, k) = TagsIn(u, h[q])
      BY <2>9 DEF Changed
    <2>12. With(h, p, k) = With(f, p, k)
      BY <2>5, <2>6, WithTwice
    <2>13. Others(s, t, f, p)
      <3> SUFFICES ASSUME NEW r \in Packet \ {p}, NEW j \in 1..Len(f[r])
                   PROVE  f[r][j] \in Nodes(t) /\ TagAt(t, f[r][j]) = TagAt(s, f[r][j])
        BY DEF Others
      <3>1. f[r][j] \in Nodes(u) /\ TagAt(u, f[r][j]) = TagAt(s, f[r][j])
        BY <2>4 DEF Others
      <3>2. h[r] = f[r]
        BY <2>6
      <3>3. f[r][j] \in Nodes(t) /\ TagAt(t, f[r][j]) = TagAt(u, f[r][j])
        BY <2>11, <3>2 DEF Others
      <3> QED
        BY <3>1, <3>3
    <2> QED
      BY <2>2, <2>10, <2>11, <2>12, <2>13 DEF Changed
  <1> QED
    BY <1>1, <1>2

(* The abstract lists answer a search as the tree does. *)
LEMMA SameIndex ==
  ASSUME NEW s, NEW p, NEW t, NEW q, q = Chain(s, p), NEW L,
         Len(q) \in Nat, Len(L) = Len(q),
         \A k \in 1..Len(q) : L[k].tid = s.node[q[k]].tid
  PROVE  OwnLists!Index(L, t) = Find(s, p, t)
  <1> DEFINE I == {i \in 1..Len(q) : s.node[q[i]].tid = t}
  <1> DEFINE J == {i \in 1..Len(L) : L[i].tid = t}
  <1>1. Find(s, p, t) = IF I # {} THEN Min(I) ELSE 0
    BY Zenon DEF Find, SelectInSeq
  <1>2. OwnLists!Index(L, t) = IF J # {} THEN Min(J) ELSE 0
    BY Zenon DEF OwnLists!Index, OwnLists!SelectInSeq, OwnLists!Min, Min
  <1>3. I = J
    OBVIOUS
  <1> QED
    BY <1>1, <1>2, <1>3

-----------------------------------------------------------------------------
(* The inductive invariant: the lists that the pointers make are good ones. *)
ListsOf(s) == [p \in Packet |-> Chain(s, p)]

Sound == Good(Store, ListsOf(Store)) /\ answer \in Value \cup {None}

LEMMA SoundIs ==
  ASSUME NEW s, Good(s, ListsOf(s)), NEW p \in Packet
  PROVE  /\ ListsOf(s)[p] = Chain(s, p) /\ Chain(s, p) \in Seq(Nodes(s))
         /\ Len(Chain(s, p)) \in Nat /\ Shape(s)
  <1>1. PICK f : f = ListsOf(s)
    OBVIOUS
  <1>2. Good(s, f) /\ f[p] = Chain(s, p)
    BY <1>1 DEF ListsOf
  <1> QED
    BY <1>1, <1>2, ListIs

LEMMA OnlyLists ==
  ASSUME NEW s, NEW f, Good(s, f)
  PROVE  Good(s, ListsOf(s)) /\ \A p \in Packet : Chain(s, p) = f[p]
  <1>1. \A p \in Packet : Chain(s, p) = f[p]
    BY ChainIs
  <1>2. f \in [Packet -> Seq(Address)]
    BY DEF Good
  <1>3. f = ListsOf(s)
    BY <1>1, <1>2 DEF ListsOf
  <1> QED
    BY <1>1, <1>3

LEMMA ChangedIs ==
  ASSUME NEW s, Good(s, ListsOf(s)), NEW p \in Packet, NEW t, NEW L,
         Changed(s, ListsOf(s), p, t, L)
  PROVE  /\ Good(t, ListsOf(t)) /\ t = [next |-> t.next, node |-> t.node]
         /\ TagsIn(t, Chain(t, p)) = L
         /\ \A q \in Packet \ {p} : TagsIn(t, Chain(t, q)) = TagsIn(s, Chain(s, q))
  <1>1. PICK f : f = ListsOf(s)
    OBVIOUS
  <1>2. PICK g \in Seq(Address) :
           Good(t, With(f, p, g)) /\ Others(s, t, f, p) /\ TagsIn(t, g) = L
    BY <1>1 DEF Changed
  <1>3. f \in [Packet -> Seq(Address)] /\ \A q \in Packet : f[q] = Chain(s, q)
    BY <1>1, SoundIs DEF Good
  <1>4. PICK h : h = With(f, p, g)
    OBVIOUS
  <1>5. h[p] = g /\ \A q \in Packet \ {p} : h[q] = f[q]
    BY <1>2, <1>3, <1>4, WithTwice
  <1>6. Good(t, ListsOf(t)) /\ \A q \in Packet : Chain(t, q) = h[q]
    BY <1>2, <1>4, OnlyLists
  <1>7. t = [next |-> t.next, node |-> t.node]
    BY <1>2 DEF Good, Shape
  <1>8. ASSUME NEW q \in Packet \ {p}
        PROVE  TagsIn(t, Chain(t, q)) = TagsIn(s, Chain(s, q))
    <2>1. Chain(t, q) = f[q] /\ Chain(s, q) = f[q]
      BY <1>3, <1>5, <1>6
    <2>2. \A k \in 1..Len(f[q]) : TagAt(t, f[q][k]) = TagAt(s, f[q][k])
      BY <1>2 DEF Others
    <2>3. DOMAIN f[q] = 1..Len(f[q])
      BY <1>3
    <2>4. TagsIn(t, f[q]) = TagsIn(s, f[q])
      BY <2>2, <2>3 DEF TagsIn
    <2> QED
      BY <2>1, <2>4
  <1>9. TagsIn(t, Chain(t, p)) = L
    BY <1>2, <1>5, <1>6
  <1> QED
    BY <1>6, <1>7, <1>8, <1>9

LEMMA TagsOfIs == \A p \in Packet : TagsOf(p) = TagsIn(Store, Chain(Store, p))
  BY DEF TagsOf, TagsIn, TagAt, Store

LEMMA BecomeIs ==
  ASSUME NEW p \in Packet, NEW t, NEW L, Sound,
         Changed(Store, ListsOf(Store), p, t, L), Become(t)
  PROVE  Changed(Store, ListsOf(Store), p, Store', L)
  <1>1. PICK s : s = Store
    OBVIOUS
  <1>2. t = [next |-> t.next, node |-> t.node]
    <2>1. Good(s, ListsOf(s)) /\ Changed(s, ListsOf(s), p, t, L)
      BY <1>1 DEF Sound
    <2> QED
      BY <2>1, ChangedIs
  <1>3. Store' = [next |-> t.next, node |-> t.node]
    BY DEF Become, Store
  <1> QED
    BY <1>2, <1>3

LEMMA AnswersAre ==
  ASSUME Sound, NEW p \in Packet, NEW t
  PROVE  /\ OwnLists!Index(TagsOf(p), t) = Find(Store, p, t)
         /\ OwnLists!Found(TagsOf(p), t) = Found(p, t)
         /\ Found(p, t) \in Value \cup {None}
  <1>1. PICK s, q, L : s = Store /\ q = Chain(s, p) /\ L = TagsIn(s, q)
    OBVIOUS
  <1>2. Good(s, ListsOf(s)) /\ L = TagsOf(p)
    BY <1>1, TagsOfIs DEF Sound
  <1>3. Shape(s) /\ q \in Seq(Nodes(s)) /\ Len(q) \in Nat
    BY <1>1, <1>2, SoundIs
  <1>4. Len(L) = Len(q) /\ \A k \in 1..Len(q) : L[k] = TagAt(s, q[k])
    BY <1>1, <1>3, TagsInIs
  <1>5. \A k \in 1..Len(q) : L[k].tid = s.node[q[k]].tid /\ L[k].data = s.node[q[k]].data
    <2> TAKE k \in 1..Len(q)
    <2>1. L[k] = [tid |-> s.node[q[k]].tid, data |-> s.node[q[k]].data]
      BY <1>4, Zenon DEF TagAt
    <2> QED
      BY <2>1
  <1>6. OwnLists!Index(L, t) = Find(s, p, t)
    BY <1>1, <1>3, <1>4, <1>5, SameIndex
  <1>7. Find(s, p, t) \in 0..Len(q)
    BY <1>1, <1>3, FindIs
  <1>8. PICK i : i = Find(s, p, t)
    OBVIOUS
  <1>9. OwnLists!Found(L, t) = IF i = 0 THEN None ELSE L[i].data
    BY <1>6, <1>8 DEF OwnLists!Found
  <1>10. Found(p, t) = IF i = 0 THEN None ELSE s.node[q[i]].data
    <2>1. Found(p, t) = IF Find(Store, p, t) = 0 THEN None
                        ELSE node[Chain(Store, p)[Find(Store, p, t)]].data
      BY Zenon DEF Found
    <2>2. s.node = node
      BY <1>1 DEF Store
    <2> QED
      BY <1>1, <1>8, <2>1, <2>2
  <1>11. i # 0 => L[i].data = s.node[q[i]].data /\ s.node[q[i]].data \in Value
    <2> SUFFICES ASSUME i # 0
                 PROVE  L[i].data = s.node[q[i]].data /\ s.node[q[i]].data \in Value
      OBVIOUS
    <2>1. i \in 1..Len(q)
      BY <1>3, <1>7, <1>8
    <2>2. q[i] \in Nodes(s)
      BY <1>3, <2>1
    <2> QED
      BY <1>3, <1>5, <2>1, <2>2, NodeType
  <1>12. OwnLists!Found(L, t) = Found(p, t) /\ Found(p, t) \in Value \cup {None}
    BY <1>9, <1>10, <1>11
  <1> QED
    BY <1>1, <1>2, <1>6, <1>12

(* A step of packet p to the list L: a list of its own for every packet.   *)
Steps(p, L) ==
  /\ Good(Store', ListsOf(Store')) /\ TagsIn(Store', Chain(Store', p)) = L
  /\ \A q \in Packet \ {p} :
       TagsIn(Store', Chain(Store', q)) = TagsIn(Store, Chain(Store, q))

LEMMA StepsIs ==
  ASSUME NEW p \in Packet, NEW t, NEW L, Sound,
         Changed(Store, ListsOf(Store), p, t, L), Become(t)
  PROVE  Steps(p, L)
  <1>1. PICK s, u : s = Store /\ u = Store'
    OBVIOUS
  <1>2. Good(s, ListsOf(s)) /\ Changed(s, ListsOf(s), p, u, L)
    BY <1>1, BecomeIs DEF Sound
  <1>3. /\ Good(u, ListsOf(u)) /\ TagsIn(u, Chain(u, p)) = L
        /\ \A q \in Packet \ {p} : TagsIn(u, Chain(u, q)) = TagsIn(s, Chain(s, q))
    BY <1>2, ChangedIs
  <1> QED
    BY <1>1, <1>3 DEF Steps

LEMMA ThisList ==
  ASSUME Sound, NEW p \in Packet
  PROVE  ListsOf(Store)[p] = Chain(Store, p) /\ Good(Store, ListsOf(Store))
         /\ TagsIn(Store, ListsOf(Store)[p]) = TagsOf(p)
  <1>1. PICK s : s = Store
    OBVIOUS
  <1>2. Good(s, ListsOf(s)) /\ ListsOf(s)[p] = Chain(s, p)
    BY <1>1, SoundIs DEF Sound
  <1>3. TagsOf(p) = TagsIn(Store, Chain(Store, p))
    BY TagsOfIs
  <1> QED
    BY <1>1, <1>2, <1>3

LEMMA PushSteps ==
  ASSUME Sound, NEW p \in Packet, NEW tag \in Tag, ~Has(p, tag.tid),
         Become(Pushed(Store, p, tag))
  PROVE  Steps(p, <<tag>> \o TagsOf(p))
  <1>1. PICK s, f : s = Store /\ f = ListsOf(s)
    OBVIOUS
  <1>2. Good(s, f) /\ f[p] = Chain(s, p) /\ TagsIn(s, f[p]) = TagsOf(p)
    BY <1>1, ThisList
  <1>3. Len(f[p]) \in Nat
    BY <1>2, ListIs
  <1>4. Find(s, p, tag.tid) = 0
    BY <1>1 DEF Has
  <1>5. \A k \in 1..Len(f[p]) : s.node[f[p][k]].tid # tag.tid
    <2>1. PICK q, t : q = f[p] /\ t = tag.tid
      OBVIOUS
    <2>2. Find(s, p, t) = 0 => \A k \in 1..Len(q) : s.node[q[k]].tid # t
      BY <1>2, <1>3, <2>1, FindIs
    <2> QED
      BY <1>4, <2>1, <2>2
  <1>6. Changed(s, f, p, Pushed(s, p, tag), <<tag>> \o TagsIn(s, f[p]))
    BY <1>2, <1>5, PushedIs
  <1>7. PICK t, L : t = Pushed(s, p, tag) /\ L = <<tag>> \o TagsOf(p)
    OBVIOUS
  <1>8. Changed(Store, ListsOf(Store), p, t, L) /\ Become(t)
    BY <1>1, <1>2, <1>6, <1>7
  <1>9. Steps(p, L)
    BY <1>8, StepsIs
  <1> QED
    BY <1>7, <1>9

LEMMA AddSteps ==
  ASSUME Sound, NEW p \in Packet, NEW tag \in Tag, AddPacketTag(p, tag)
  PROVE  \E L : Steps(p, L) /\ answer' = answer
                /\ OwnLists!AddPacketTag(TagsOf(p), L, tag)
  <1>1. ~Has(p, tag.tid) /\ Become(Pushed(Store, p, tag)) /\ answer' = answer
    BY DEF AddPacketTag
  <1>2. PICK L : L = <<tag>> \o TagsOf(p)
    OBVIOUS
  <1>3. Steps(p, L)
    BY <1>1, <1>2, PushSteps
  <1>4. OwnLists!Index(TagsOf(p), tag.tid) = 0
    BY <1>1, AnswersAre DEF Has
  <1> QED
    BY <1>1, <1>2, <1>3, <1>4 DEF OwnLists!AddPacketTag

LEMMA RemoveSteps ==
  ASSUME Sound, NEW p \in Packet, NEW t \in Type, RemovePacketTag(p, t)
  PROVE  \E L : Steps(p, L) /\ answer' \in Value \cup {None}
                /\ OwnLists!RemovePacketTag(TagsOf(p), L, t)
  <1>1. PICK s, f, i : s = Store /\ f = ListsOf(s) /\ i = Find(s, p, t)
    OBVIOUS
  <1>2. Good(s, f) /\ f[p] = Chain(s, p) /\ TagsIn(s, f[p]) = TagsOf(p)
    BY <1>1, ThisList
  <1>3. /\ OwnLists!Index(TagsOf(p), t) = i /\ OwnLists!Found(TagsOf(p), t) = Found(p, t)
        /\ Found(p, t) \in Value \cup {None}
    BY <1>1, AnswersAre
  <1>4. PICK u : u = IF i # 0 THEN RemoveWriter(COWTraverse(s, p, t)) ELSE s
    OBVIOUS
  <1>5. Become(u) /\ answer' = Found(p, t)
    <2>1. Become(IF Has(p, t) THEN RemoveWriter(COWTraverse(Store, p, t)) ELSE Store)
      BY DEF RemovePacketTag
    <2>2. u = IF Has(p, t) THEN RemoveWriter(COWTraverse(Store, p, t)) ELSE Store
      BY <1>1, <1>4, Zenon DEF Has
    <2>3. answer' = Found(p, t)
      BY DEF RemovePacketTag
    <2> QED
      BY <2>1, <2>2, <2>3
  <1>6. PICK L : L = IF i # 0 THEN RemoveAt(TagsOf(p), i) ELSE TagsOf(p)
    OBVIOUS
  <1>7. Changed(s, f, p, u, L)
    <2>1. CASE i = 0
      <3>1. u = s /\ L = TagsIn(s, f[p])
        BY <1>2, <1>4, <1>6, <2>1
      <3> QED
        BY <1>2, <3>1, UnchangedIs
    <2>2. CASE i # 0
      <3>1. Changed(s, f, p, RemoveWriter(COWTraverse(s, p, t)), RemoveAt(TagsIn(s, f[p]), i))
        BY <1>1, <1>2, <2>2, RemovedIs
      <3> QED
        BY <1>2, <1>4, <1>6, <2>2, <3>1
    <2> QED
      BY <2>1, <2>2
  <1>8. Steps(p, L)
    BY <1>1, <1>5, <1>7, StepsIs
  <1>9. OwnLists!RemovePacketTag(TagsOf(p), L, t)
    <2>1. L = IF i = 0 THEN TagsOf(p) ELSE OwnLists!RemoveAt(TagsOf(p), i)
      BY <1>6, Zenon DEF RemoveAt, OwnLists!RemoveAt
    <2> QED
      BY <1>3, <1>5, <2>1 DEF OwnLists!RemovePacketTag
  <1> QED
    BY <1>3, <1>5, <1>8, <1>9

LEMMA ReplaceSteps ==
  ASSUME Sound, NEW p \in Packet, NEW tag \in Tag, ReplacePacketTag(p, tag)
  PROVE  \E L : Steps(p, L) /\ answer' \in Value \cup {None}
                /\ OwnLists!ReplacePacketTag(TagsOf(p), L, tag)
  <1>1. PICK s, f, i, t : s = Store /\ f = ListsOf(s) /\ t = tag.tid /\ i = Find(s, p, t)
    OBVIOUS
  <1>2. Good(s, f) /\ f[p] = Chain(s, p) /\ TagsIn(s, f[p]) = TagsOf(p)
    BY <1>1, ThisList
  <1>3. OwnLists!Index(TagsOf(p), t) = i
    BY <1>1, AnswersAre
  <1>4. CASE i # 0
    <2>1. PICK u, L : /\ u = ReplaceWriter(COWTraverse(s, p, t), tag.data)
                      /\ L = [TagsOf(p) EXCEPT ![i] = tag]
      OBVIOUS
    <2>2. Become(u) /\ answer' = tag.data
      <3>1. Has(p, tag.tid)
        BY <1>1, <1>4 DEF Has
      <3>2. Become(ReplaceWriter(COWTraverse(Store, p, tag.tid), tag.data)) /\ answer' = tag.data
        BY <3>1, Zenon DEF ReplacePacketTag
      <3> QED
        BY <1>1, <2>1, <3>2
    <2>3. Changed(s, f, p, u, L)
      <3>1. Changed(s, f, p, ReplaceWriter(COWTraverse(s, p, tag.tid), tag.data),
                    [TagsIn(s, f[p]) EXCEPT ![i] = tag])
        BY <1>1, <1>2, <1>4, ReplacedIs
      <3> QED
        BY <1>1, <1>2, <2>1, <3>1
    <2>4. Steps(p, L)
      BY <1>1, <2>2, <2>3, StepsIs
    <2>5. OwnLists!ReplacePacketTag(TagsOf(p), L, tag)
      BY <1>1, <1>3, <1>4, <2>1, <2>2 DEF OwnLists!ReplacePacketTag
    <2>6. tag.data \in Value
      BY Apart
    <2> QED
      BY <2>2, <2>4, <2>5, <2>6
  <1>5. CASE i = 0
    <2>1. PICK L : L = <<tag>> \o TagsOf(p)
      OBVIOUS
    <2>2. ~Has(p, tag.tid)
      BY <1>1, <1>5 DEF Has
    <2>3. Become(Pushed(Store, p, tag)) /\ answer' = None
      BY <2>2, Zenon DEF ReplacePacketTag
    <2>4. Steps(p, L)
      BY <2>1, <2>2, <2>3, PushSteps
    <2>5. OwnLists!ReplacePacketTag(TagsOf(p), L, tag)
      BY <1>1, <1>3, <1>5, <2>1, <2>3 DEF OwnLists!ReplacePacketTag
    <2> QED
      BY <2>3, <2>4, <2>5
  <1> QED
    BY <1>4, <1>5

LEMMA PeekSteps ==
  ASSUME Sound, NEW p \in Packet, NEW t \in Type, PeekPacketTag(p, t)
  PROVE  \E L : Steps(p, L) /\ answer' \in Value \cup {None}
                /\ OwnLists!PeekPacketTag(TagsOf(p), L, t)
  <1>1. PICK s, f, L : s = Store /\ f = ListsOf(s) /\ L = TagsOf(p)
    OBVIOUS
  <1>2. Good(s, f) /\ TagsIn(s, f[p]) = TagsOf(p)
    BY <1>1, ThisList
  <1>3. /\ OwnLists!Found(TagsOf(p), t) = Found(p, t)
        /\ Found(p, t) \in Value \cup {None}
    BY AnswersAre
  <1>4. Become(s) /\ answer' = Found(p, t)
    BY <1>1 DEF PeekPacketTag, Become, Store
  <1>5. Changed(s, f, p, s, L)
    BY <1>1, <1>2, UnchangedIs
  <1>6. Steps(p, L)
    BY <1>1, <1>4, <1>5, StepsIs
  <1>7. OwnLists!PeekPacketTag(TagsOf(p), L, t)
    BY <1>1, <1>3, <1>4 DEF OwnLists!PeekPacketTag
  <1> QED
    BY <1>3, <1>4, <1>6, <1>7

LEMMA RemoveAllSteps ==
  ASSUME Sound, NEW p \in Packet, RemoveAllPacketTags(p)
  PROVE  \E L : Steps(p, L) /\ answer' = answer /\ OwnLists!RemoveAllPacketTags(L)
  <1>1. PICK s, f, u, L : s = Store /\ f = ListsOf(s) /\ u = Released(s, p) /\ L = << >>
    OBVIOUS
  <1>2. Good(s, f)
    BY <1>1, ThisList
  <1>3. Become(u) /\ answer' = answer
    BY <1>1 DEF RemoveAllPacketTags
  <1>4. Changed(s, f, p, u, L)
    BY <1>1, <1>2, ReleasedIs
  <1>5. Steps(p, L)
    BY <1>1, <1>3, <1>4, StepsIs
  <1> QED
    BY <1>1, <1>3, <1>5 DEF OwnLists!RemoveAllPacketTags

LEMMA AssignSteps ==
  ASSUME Sound, NEW p \in Packet, NEW q \in Packet, Assign(p, q)
  PROVE  \E L : Steps(p, L) /\ answer' = answer /\ OwnLists!Copy(TagsOf(q), L)
  <1>1. PICK s, f, u, L : s = Store /\ f = ListsOf(s) /\ u = Assigned(s, p, q) /\ L = TagsOf(q)
    OBVIOUS
  <1>2. Good(s, f) /\ TagsIn(s, f[q]) = TagsOf(q)
    BY <1>1, ThisList
  <1>3. Become(u) /\ answer' = answer
    <2>1. u = IF m_next[p] = m_next[q] THEN Store
              ELSE Count(SetLink(Released(Store, p), p, m_next[q]), m_next[q], 1)
      <3>1. s.next = m_next
        BY <1>1 DEF Store
      <3>2. u = IF s.next[p] = s.next[q] THEN s
                ELSE Count(SetLink(Released(s, p), p, s.next[q]), s.next[q], 1)
        BY <1>1, Zenon DEF Assigned
      <3> QED
        BY <1>1, <3>1, <3>2
    <2> QED
      BY <2>1, Zenon DEF Assign
  <1>4. Changed(s, f, p, u, L)
    BY <1>1, <1>2, AssignedIs
  <1>5. Steps(p, L)
    BY <1>1, <1>3, <1>4, StepsIs
  <1> QED
    BY <1>1, <1>3, <1>5 DEF OwnLists!Copy

-----------------------------------------------------------------------------
(* What a call does to the list of its packet, in the terms of the list. *)
Abstractly(p, L) ==
  \/ \E tag \in Tag : \/ OwnLists!AddPacketTag(TagsOf(p), L, tag)
                      \/ OwnLists!ReplacePacketTag(TagsOf(p), L, tag)
  \/ \E t \in Type : \/ OwnLists!RemovePacketTag(TagsOf(p), L, t)
                     \/ OwnLists!PeekPacketTag(TagsOf(p), L, t)
  \/ OwnLists!RemoveAllPacketTags(L)
  \/ \E q \in Packet : OwnLists!Copy(TagsOf(q), L)

LEMMA NextSteps ==
  ASSUME Sound, Next
  PROVE  \E p \in Packet : \E L :
            Steps(p, L) /\ answer' \in Value \cup {None} /\ Abstractly(p, L)
  <1>0. answer \in Value \cup {None}
    BY DEF Sound
  <1>1. PICK p \in Packet :
           \/ \E tag \in Tag : AddPacketTag(p, tag) \/ ReplacePacketTag(p, tag)
           \/ \E t \in Type : RemovePacketTag(p, t) \/ PeekPacketTag(p, t)
           \/ RemoveAllPacketTags(p)
           \/ \E q \in Packet : Assign(p, q)
    BY DEF Next
  <1>2. ASSUME NEW tag \in Tag, AddPacketTag(p, tag)
        PROVE  \E L : Steps(p, L) /\ answer' \in Value \cup {None} /\ Abstractly(p, L)
    <2>1. PICK L : Steps(p, L) /\ answer' = answer
                   /\ OwnLists!AddPacketTag(TagsOf(p), L, tag)
      BY <1>2, AddSteps
    <2>2. Abstractly(p, L)
      BY <2>1 DEF Abstractly
    <2> QED
      BY <1>0, <2>1, <2>2
  <1>3. ASSUME NEW tag \in Tag, ReplacePacketTag(p, tag)
        PROVE  \E L : Steps(p, L) /\ answer' \in Value \cup {None} /\ Abstractly(p, L)
    <2>1. PICK L : Steps(p, L) /\ answer' \in Value \cup {None}
                   /\ OwnLists!ReplacePacketTag(TagsOf(p), L, tag)
      BY <1>3, ReplaceSteps
    <2>2. Abstractly(p, L)
      BY <2>1 DEF Abstractly
    <2> QED
      BY <2>1, <2>2
  <1>4. ASSUME NEW t \in Type, RemovePacketTag(p, t)
        PROVE  \E L : Steps(p, L) /\ answer' \in Value \cup {None} /\ Abstractly(p, L)
    <2>1. PICK L : Steps(p, L) /\ answer' \in Value \cup {None}
                   /\ OwnLists!RemovePacketTag(TagsOf(p), L, t)
      BY <1>4, RemoveSteps
    <2>2. Abstractly(p, L)
      BY <2>1 DEF Abstractly
    <2> QED
      BY <2>1, <2>2
  <1>5. ASSUME NEW t \in Type, PeekPacketTag(p, t)
        PROVE  \E L : Steps(p, L) /\ answer' \in Value \cup {None} /\ Abstractly(p, L)
    <2>1. PICK L : Steps(p, L) /\ answer' \in Value \cup {None}
                   /\ OwnLists!PeekPacketTag(TagsOf(p), L, t)
      BY <1>5, PeekSteps
    <2>2. Abstractly(p, L)
      BY <2>1 DEF Abstractly
    <2> QED
      BY <2>1, <2>2
  <1>6. ASSUME RemoveAllPacketTags(p)
        PROVE  \E L : Steps(p, L) /\ answer' \in Value \cup {None} /\ Abstractly(p, L)
    <2>1. PICK L : Steps(p, L) /\ answer' = answer /\ OwnLists!RemoveAllPacketTags(L)
      BY <1>6, RemoveAllSteps
    <2>2. Abstractly(p, L)
      BY <2>1 DEF Abstractly
    <2> QED
      BY <1>0, <2>1, <2>2
  <1>7. ASSUME NEW q \in Packet, Assign(p, q)
        PROVE  \E L : Steps(p, L) /\ answer' \in Value \cup {None} /\ Abstractly(p, L)
    <2>1. PICK L : Steps(p, L) /\ answer' = answer /\ OwnLists!Copy(TagsOf(q), L)
      BY <1>7, AssignSteps
    <2>2. Abstractly(p, L)
      BY <2>1 DEF Abstractly
    <2> QED
      BY <1>0, <2>1, <2>2
  <1> QED
    BY <1>1, <1>2, <1>3, <1>4, <1>5, <1>6, <1>7

LEMMA NoTagsYet ==
  ASSUME Init
  PROVE  Sound /\ \A p \in Packet : TagsOf(p) = << >>
  <1>1. PICK s, f : s = Store /\ f = [p \in Packet |-> << >>]
    OBVIOUS
  <1>2. /\ s = [next |-> [p \in Packet |-> Null], node |-> << >>]
        /\ answer = None
    BY <1>1 DEF Store, Init
  <1>3. Nodes(s) = {} /\ s.next = [p \in Packet |-> Null]
    BY <1>2 DEF Nodes
  <1>4. Shape(s)
    <2>1. s = [next |-> s.next, node |-> s.node]
      BY <1>2
    <2>2. s.node \in [Nodes(s) -> TagData]
      <3>1. s.node = << >>
        BY <1>2
      <3>2. << >> \in [{} -> TagData]
        OBVIOUS
      <3> QED
        BY <1>3, <3>1, <3>2
    <2> QED
      BY <1>3, <2>1, <2>2 DEF Shape
  <1>5. \A p \in Packet : IsPath(s, p, << >>) /\ OneEach(s, << >>)
    <2> TAKE p \in Packet
    <2>1. Tgt(s, p) = Null
      BY <1>3 DEF Tgt
    <2> QED
      BY <2>1, NothingBehind DEF OneEach
  <1>6. Good(s, f)
    <2>1. f \in [Packet -> Seq(Address)]
      BY <1>1
    <2>2. \A p \in Packet : IsPath(s, p, f[p]) /\ OneEach(s, f[p])
      BY <1>1, <1>5
    <2> QED
      BY <1>3, <1>4, <2>1, <2>2 DEF Good
  <1>7. Good(s, ListsOf(s)) /\ \A p \in Packet : Chain(s, p) = << >>
    BY <1>1, <1>6, OnlyLists
  <1>8. ASSUME NEW p \in Packet PROVE TagsOf(p) = << >>
    <2>1. PICK L : L = TagsIn(s, << >>)
      OBVIOUS
    <2>2. << >> \in Seq(Nodes(s)) /\ Len(<< >>) = 0
      OBVIOUS
    <2>3. L \in Seq(Tags) /\ Len(L) = 0
      BY <1>4, <2>1, <2>2, TagsInIs
    <2>4. L = << >>
      BY <2>3
    <2> QED
      BY <1>1, <1>7, <2>1, <2>4, TagsOfIs
  <1> QED
    BY <1>1, <1>2, <1>7, <1>8 DEF Sound

LEMMA SoundStep ==
  ASSUME Sound, [Next]_vars
  PROVE  Sound'
  <1>1. CASE Next
    <2>1. PICK p \in Packet : \E L : Steps(p, L) /\ answer' \in Value \cup {None}
      BY <1>1, NextSteps
    <2>2. Good(Store', ListsOf(Store')) /\ answer' \in Value \cup {None}
      BY <2>1 DEF Steps
    <2> QED
      BY <2>2 DEF Sound
  <1>2. CASE UNCHANGED vars
    <2>1. m_next' = m_next /\ node' = node /\ answer' = answer
      BY <1>2 DEF vars
    <2>2. Store' = Store
      BY <2>1 DEF Store
    <2>3. Good(Store', ListsOf(Store')) /\ answer' \in Value \cup {None}
      BY <2>1, <2>2 DEF Sound
    <2> QED
      BY <2>3 DEF Sound
  <1> QED
    BY <1>1, <1>2

(* The inductive invariant: at all times the pointers make a good list of  *)
(* every packet, with one tag of each type, which are all the nodes there  *)
(* are, each counted once for every pointer (packet-tag-list.cc).          *)
THEOREM ListsAreSound == Spec => []Sound
  <1>1. Init => Sound
    BY NoTagsYet
  <1>2. Sound /\ [Next]_vars => Sound'
    BY SoundStep
  <1> QED
    BY <1>1, <1>2, PTL DEF Spec

LEMMA StoreIs ==
  /\ Store.next = m_next /\ Store.node = node /\ Nodes(Store) = DOMAIN node
  /\ Places(Store) = Links /\ \A l : Tgt(Store, l) = Target(l)
  BY DEF Store, Nodes, Places, Links, Tgt, Target

(* No pointer ever leads to a node that was freed. *)
THEOREM PointersAreLive == Spec => []TypeOK
  <1>1. Sound => TypeOK
    <2> SUFFICES ASSUME Sound PROVE TypeOK
      OBVIOUS
    <2>1. Shape(Store) /\ answer \in Value \cup {None}
      BY DEF Sound, Good
    <2> QED
      BY <2>1, StoreIs DEF Shape, TypeOK
  <1> QED
    BY <1>1, ListsAreSound, PTL

(* A node counts the pointers to it at all times, so it is freed when the  *)
(* last one is gone and rewritten only when there is no other.             *)
THEOREM CountsAreRight == Spec => []CountsPointers
  <1>1. Sound => CountsPointers
    <2> SUFFICES ASSUME Sound, NEW a \in DOMAIN node
                 PROVE  node[a].count = Cardinality({l \in Links : Target(l) = a})
      BY DEF CountsPointers
    <2>1. Store.node[a].count = Cardinality(In(Store, a))
      <3>1. a \in Nodes(Store)
        BY StoreIs
      <3> QED
        BY <3>1 DEF Sound, Good
    <2>2. In(Store, a) = {l \in Links : Target(l) = a}
      BY StoreIs DEF In
    <2> QED
      BY <2>1, <2>2, StoreIs
  <1> QED
    BY <1>1, ListsAreSound, PTL

(* Nothing leaks: every node is on the list of some packet. *)
THEOREM NothingLeaks == Spec => []AllReachable
  <1>1. Sound => AllReachable
    <2> SUFFICES ASSUME Sound, NEW a \in DOMAIN node
                 PROVE  \E p \in Packet : a \in ToSet(Chain(Store, p))
      BY DEF AllReachable
    <2>1. a \in Nodes(Store)
      BY StoreIs
    <2>2. PICK s : s = Store
      OBVIOUS
    <2>3. Good(s, ListsOf(s)) /\ a \in Nodes(s)
      BY <2>1, <2>2 DEF Sound
    <2>4. PICK p \in Packet : \E i \in 1..Len(ListsOf(s)[p]) : ListsOf(s)[p][i] = a
      BY <2>3 DEF Good, On
    <2>5. ListsOf(s)[p] = Chain(s, p) /\ Chain(s, p) \in Seq(Nodes(s))
      BY <2>3, SoundIs
    <2>6. a \in ToSet(Chain(s, p))
      BY <2>4, <2>5 DEF ToSet
    <2> QED
      BY <2>2, <2>6
  <1> QED
    BY <1>1, ListsAreSound, PTL

(* The shared tree implements a list per packet: no call on one packet is  *)
(* seen by another, and every call does to its packet's list, and answers, *)
(* what it would do to a list of its own (packet-tag-list.h, copy on       *)
(* write).                                                                 *)
THEOREM TreeImplementsLists == Spec => ImplementsOwnLists
  <1> DEFINE tags == [p \in Packet |-> TagsOf(p)]
  <1>1. Init => OwnLists!Init
    <2> SUFFICES ASSUME Init PROVE OwnLists!Init
      OBVIOUS
    <2>1. \A p \in Packet : TagsOf(p) = << >>
      BY NoTagsYet
    <2> QED
      BY <2>1 DEF OwnLists!Init, Init
  <1>2. Sound /\ [Next]_vars => [OwnLists!Next]_<<tags, answer>>
    <2> SUFFICES ASSUME Sound, [Next]_vars PROVE [OwnLists!Next]_<<tags, answer>>
      OBVIOUS
    <2>1. CASE UNCHANGED vars
      <3>1. m_next' = m_next /\ node' = node /\ answer' = answer
        BY <2>1 DEF vars
      <3>2. Store' = Store
        BY <3>1 DEF Store
      <3>3. tags' = tags
        BY <3>1, <3>2 DEF TagsOf
      <3> QED
        BY <3>1, <3>3
    <2>2. CASE Next
      <3>0. PICK p \in Packet : \E L : Steps(p, L) /\ Abstractly(p, L)
        BY <2>2, NextSteps
      <3>1. PICK L : Steps(p, L) /\ Abstractly(p, L)
        BY <3>0
      <3>2. \A q \in Packet : TagsOf(q)' = TagsIn(Store', Chain(Store', q))
        BY DEF TagsOf, TagsIn, TagAt, Store
      <3>3. \A q \in Packet : TagsOf(q) = TagsIn(Store, Chain(Store, q))
        BY TagsOfIs
      <3>4. TagsOf(p)' = L
        BY <3>1, <3>2 DEF Steps
      <3>5. \A q \in Packet \ {p} : TagsOf(q)' = TagsOf(q)
        BY <3>1, <3>2, <3>3 DEF Steps
      <3>6. OwnLists!Next
        BY <3>1, <3>4, <3>5 DEF OwnLists!Next, Abstractly
      <3> QED
        BY <3>6
    <2> QED
      BY <2>1, <2>2
  <1> QED
    BY <1>1, <1>2, ListsAreSound, PTL DEF Spec, ImplementsOwnLists, OwnLists!Spec

=============================================================================
