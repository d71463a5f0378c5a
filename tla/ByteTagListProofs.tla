-------------------------- MODULE ByteTagListProofs --------------------------
(***************************************************************************)
(* Byte tags stick to their bytes, for any number of packets, tags and     *)
(* blocks of memory and every sequence of calls: lists that share a block  *)
(* stay below its dirty mark, the bounds of a list take in its items, and  *)
(* what every byte shows is what PerByteTags allows.                       *)
(***************************************************************************)
EXTENDS ByteTagList, SumTheorems
LOCAL INSTANCE FiniteSetsExt

Names  == Packet \cup Temporary
Tagged == [tag : Tag, start : Int, end : Int]
Lists  == [m_minStart : Int, m_maxEnd : Int, m_adjustment : Int,
           m_used : Nat, m_data : Address \cup {Null}]
Blocks == [size : Nat, count : Nat, dirty : Nat, items : Seq(Tagged)]
Stores == [tags : [Names -> Lists \cup {Gone}],
           block : [Address -> Blocks \cup {Gone}]]

(* Gone is told from what exists. *)
GoneIsNothing ==
  Gone \notin Lists /\ Gone \notin Blocks /\ Gone \notin Int /\ Gone \notin Seq(SUBSET Tag)

(* List l uses the first items of block d. *)
Sane(l, d) ==
  /\ l.m_used <= d.size /\ l.m_used <= d.dirty /\ l.m_used <= Len(d.items)
  /\ \A i \in 1..l.m_used : /\ l.m_minStart <= d.items[i].start
                            /\ d.items[i].end <= l.m_maxEnd

(* Block e serves list l as d did. *)
Serves(d, e, l) ==
  /\ l.m_used <= e.size /\ l.m_used <= e.dirty /\ l.m_used <= Len(e.items)
  /\ \A i \in 1..l.m_used : e.items[i] = d.items[i]

Refs(s, a) == {n \in Names : s.tags[n] # Gone /\ s.tags[n].m_data = a}

(* A list without a block has no items. *)
Empty(l) == l.m_data = Null => l.m_used = 0

(* What holds between any two steps of a call, its local lists included. *)
Good(s) ==
  /\ s \in Stores
  /\ \A n \in Names : s.tags[n] # Gone =>
        /\ Empty(s.tags[n])
        /\ s.tags[n].m_data # Null =>
             /\ s.block[s.tags[n].m_data] # Gone
             /\ Sane(s.tags[n], s.block[s.tags[n].m_data])
  /\ \A a \in Address : s.block[a] # Gone =>
        /\ s.block[a].count = Cardinality(Refs(s, a))
        /\ s.block[a].count > 0

(* From s to t only the lists in P have changed, or their items. *)
Rest(s, t, P) ==
  \A n \in Names \ P : /\ t.tags[n] = s.tags[n]
                       /\ s.tags[n] # Gone => Items(t, n) = Items(s, n)

(* What a change of p's list must do to the block at a: count p when it    *)
(* comes and when it goes, and serve the other lists on the block.         *)
Follows(s, t, p, a) ==
  /\ p \in Refs(t, a) =>
       /\ t.block[a] # Gone
       /\ Sane(t.tags[p], t.block[a])
       /\ s.block[a] = Gone => t.block[a].count = 1
       /\ s.block[a] # Gone /\ p \in Refs(s, a) =>
            t.block[a].count = s.block[a].count
       /\ s.block[a] # Gone /\ p \notin Refs(s, a) =>
            t.block[a].count = s.block[a].count + 1
       /\ \A n \in Refs(s, a) \ {p} : Serves(s.block[a], t.block[a], s.tags[n])
  /\ p \in Refs(s, a) /\ p \notin Refs(t, a) =>
       IF s.block[a].count = 1 THEN t.block[a] = Gone
       ELSE t.block[a] = [s.block[a] EXCEPT !.count = @ - 1]
  /\ p \notin Refs(s, a) /\ p \notin Refs(t, a) => t.block[a] = s.block[a]

Only(s, t, p) == \A n \in Names \ {p} : t.tags[n] = s.tags[n]

-----------------------------------------------------------------------------
LEMMA NamesFinite ==
  /\ IsFiniteSet(Names) /\ Cardinality(Names) \in Nat
  /\ Cardinality(Address) \in Nat /\ Cardinality(Address) > Cardinality(Names)
  /\ IsFiniteSet(Address)
  <1>1. Temporary = {"list"} \cup {"copy"}
    BY DEF Temporary
  <1>2. IsFiniteSet(Temporary)
    BY <1>1, FS_Singleton, FS_Union
  <1> QED
    BY <1>2, MemoryAssumption, FS_Union, FS_CardinalityType DEF Names

(* A block with another count is a block, and otherwise the same. *)
LEMMA CountSet ==
  ASSUME NEW d \in Blocks, NEW k \in Nat, NEW e, e = [d EXCEPT !.count = k]
  PROVE  /\ e \in Blocks /\ e.count = k /\ e.size = d.size
         /\ e.dirty = d.dirty /\ e.items = d.items
  BY DEF Blocks

LEMMA RefsFinite ==
  ASSUME NEW s, NEW a
  PROVE  IsFiniteSet(Refs(s, a)) /\ Cardinality(Refs(s, a)) \in Nat
  <1>1. Refs(s, a) \in SUBSET Names
    BY DEF Refs
  <1> QED
    BY <1>1, NamesFinite, FS_Subset, FS_CardinalityType

(* Memory never runs out: each block in use has a name of its own. *)
LEMMA Free ==
  ASSUME NEW s, Good(s)
  PROVE  Fresh(s) \in Address /\ s.block[Fresh(s)] = Gone
  <1> DEFINE T == {a \in Address : s.block[a] # Gone}
             F == {a \in Address : s.block[a] = Gone}
             f == [a \in T |-> CHOOSE n \in Refs(s, a) : TRUE]
  <1>1. ASSUME NEW a \in T
        PROVE  f[a] \in Refs(s, a)
    <2>1. Cardinality(Refs(s, a)) # 0
      BY DEF Good
    <2>2. Refs(s, a) # {}
      BY <2>1, FS_EmptySet
    <2>3. f[a] = CHOOSE n \in Refs(s, a) : TRUE
      OBVIOUS
    <2> QED
      BY <2>2, <2>3
  <1> HIDE DEF f
  <1>2. f \in [T -> Names]
    BY <1>1 DEF f, Refs
  <1>3. \A a, c \in T : f[a] = f[c] => a = c
    BY <1>1 DEF Refs
  <1>4. IsFiniteSet(T) /\ Cardinality(T) \in Nat
    <2>1. T \in SUBSET Address
      OBVIOUS
    <2> QED
      BY <2>1, NamesFinite, FS_Subset, FS_CardinalityType
  <1> HIDE DEF T
  <1>5. ~(Cardinality(Names) < Cardinality(T))
    BY <1>2, <1>3, <1>4, NamesFinite, FS_PigeonHole
  <1> USE DEF T
  <1>6. F # {}
    <2> SUFFICES ASSUME F = {} PROVE FALSE
      OBVIOUS
    <2>1. T = Address
      OBVIOUS
    <2> QED
      BY <1>5, <2>1, NamesFinite
  <1>7. F \in SUBSET Nat
    BY ByteTagAssumption
  <1>8. \E a \in F : \A c \in F : a <= c
    BY <1>6, <1>7, Least
  <1>9. Fresh(s) = CHOOSE a \in F : \A c \in F : a <= c
    BY Zenon DEF Fresh, Min
  <1>10. Fresh(s) \in F
    BY <1>8, <1>9
  <1> QED
    BY <1>10

LEMMA Recount ==
  ASSUME NEW s, NEW t, NEW p \in Names, Only(s, t, p), NEW a
  PROVE  /\ (p \in Refs(s, a) <=> p \in Refs(t, a)) =>
              Cardinality(Refs(t, a)) = Cardinality(Refs(s, a))
         /\ p \in Refs(s, a) /\ p \notin Refs(t, a) =>
              Cardinality(Refs(t, a)) = Cardinality(Refs(s, a)) - 1
         /\ p \notin Refs(s, a) /\ p \in Refs(t, a) =>
              Cardinality(Refs(t, a)) = Cardinality(Refs(s, a)) + 1
  <1>1. Refs(t, a) \ {p} = Refs(s, a) \ {p}
    BY DEF Only, Refs
  <1>2. CASE p \in Refs(s, a) <=> p \in Refs(t, a)
    <2>1. Refs(t, a) = Refs(s, a)
      BY <1>1, <1>2
    <2> QED
      BY <1>2, <2>1
  <1>3. CASE p \in Refs(s, a) /\ p \notin Refs(t, a)
    <2>1. Refs(t, a) = Refs(s, a) \ {p}
      BY <1>1, <1>3
    <2> QED
      BY <1>3, <2>1, RefsFinite, FS_RemoveElement
  <1>4. CASE p \notin Refs(s, a) /\ p \in Refs(t, a)
    <2>1. Refs(t, a) = Refs(s, a) \cup {p}
      BY <1>1, <1>4
    <2> QED
      BY <1>4, <2>1, RefsFinite, FS_AddElement
  <1> QED
    BY <1>2, <1>3, <1>4

(* A block that is not there is referred to by nobody; a block with a      *)
(* count of one, by one list.                                              *)
LEMMA Nobody ==
  ASSUME NEW s, Good(s), NEW a \in Address
  PROVE  /\ s.block[a] = Gone => Refs(s, a) = {}
         /\ \A p \in Refs(s, a) : s.block[a] # Gone
         /\ \A p \in Refs(s, a) : s.block[a].count = 1 => Refs(s, a) = {p}
  <1>1. s.block[a] = Gone => Refs(s, a) = {}
    BY ByteTagAssumption DEF Good, Refs
  <1>2. ASSUME NEW p \in Refs(s, a), s.block[a].count = 1
        PROVE  Refs(s, a) = {p}
    <2>1. Cardinality(Refs(s, a)) = 1
      BY <1>1, <1>2 DEF Good
    <2>2. PICK q : Refs(s, a) = {q}
      BY <2>1, RefsFinite, FS_Singleton
    <2> QED
      BY <1>2, <2>2
  <1> QED
    BY <1>1, <1>2


(* What is known of a list, of its block and of its items. *)
LEMMA Held ==
  ASSUME GoneIsNothing, NEW s, Good(s), NEW p \in Names, s.tags[p] # Gone
  PROVE  /\ s.tags[p] \in Lists /\ s.tags[p].m_used \in Nat /\ Empty(s.tags[p])
         /\ s.tags[p].m_data \in Address \cup {Null}
         /\ s.tags[p].m_data # Null =>
              /\ s.tags[p].m_data \in Address
              /\ s.block[s.tags[p].m_data] \in Blocks
              /\ s.block[s.tags[p].m_data] # Gone
              /\ s.block[s.tags[p].m_data].count \in Nat
              /\ s.block[s.tags[p].m_data].count > 0
              /\ Sane(s.tags[p], s.block[s.tags[p].m_data])
              /\ p \in Refs(s, s.tags[p].m_data)
  <1> DEFINE l == s.tags[p]
  <1>1. l \in Lists
    BY DEF Good, Stores
  <1>2. l.m_used \in Nat /\ l.m_data \in Address \cup {Null} /\ Empty(l)
    BY <1>1 DEF Lists, Good
  <1>3. ASSUME l.m_data # Null
        PROVE  /\ l.m_data \in Address /\ s.block[l.m_data] # Gone
               /\ Sane(l, s.block[l.m_data]) /\ p \in Refs(s, l.m_data)
    BY <1>2, <1>3 DEF Good, Refs
  <1>4. ASSUME l.m_data # Null
        PROVE  /\ s.block[l.m_data] \in Blocks
               /\ s.block[l.m_data].count \in Nat /\ s.block[l.m_data].count > 0
    <2>1. s.block[l.m_data] \in Blocks
      BY <1>3, <1>4 DEF Good, Stores
    <2>2. s.block[l.m_data].count \in Nat
      BY <2>1 DEF Blocks
    <2> QED
      BY <1>3, <1>4, <2>1, <2>2 DEF Good
  <1> QED
    BY <1>1, <1>2, <1>3, <1>4

(* The items of a list are the first of its block. *)
LEMMA ItemsAre ==
  ASSUME GoneIsNothing, NEW s, Good(s), NEW p \in Names, s.tags[p] # Gone
  PROVE  /\ Items(s, p) \in Seq(Tagged) /\ Len(Items(s, p)) = s.tags[p].m_used
         /\ DOMAIN Items(s, p) = 1..s.tags[p].m_used
         /\ \A i \in 1..s.tags[p].m_used :
              /\ Items(s, p)[i] = s.block[s.tags[p].m_data].items[i]
              /\ Items(s, p)[i] \in Tagged
              /\ s.tags[p].m_minStart <= Items(s, p)[i].start
              /\ Items(s, p)[i].end <= s.tags[p].m_maxEnd
  <1> DEFINE l == s.tags[p]
             n == l.m_used
             q == s.block[l.m_data].items
  <1>1. l \in Lists /\ n \in Nat /\ Empty(l)
    BY Held
  <1>2. CASE l.m_data = Null
    <2>1. n = 0 /\ Items(s, p) = << >>
      BY <1>1, <1>2 DEF Empty, Items
    <2> HIDE DEF l, n
    <2>2. Items(s, p) \in Seq(Tagged) /\ Len(Items(s, p)) = n /\ n = 0
      BY <2>1, EmptySeq
    <2>3. DOMAIN Items(s, p) = 1..n /\ 1..n = {}
      BY <2>2
    <2> QED
      BY <2>2, <2>3 DEF l, n
  <1>3. CASE l.m_data # Null
    <2>1. s.block[l.m_data] \in Blocks /\ Sane(l, s.block[l.m_data])
      BY <1>3, Held
    <2>2. q \in Seq(Tagged) /\ n <= Len(q)
      BY <2>1 DEF Blocks, Sane
    <2>3. Items(s, p) = SubSeq(q, 1, n)
      BY <1>3 DEF Items
    <2>4. \A i \in 1..n : l.m_minStart <= q[i].start /\ q[i].end <= l.m_maxEnd
      BY <2>1 DEF Sane
    <2> HIDE DEF q, n
    <2>5. 1 \in 1..(Len(q) + 1) /\ n \in 0..Len(q)
      BY <1>1, <2>2
    <2>6. /\ SubSeq(q, 1, n) \in Seq(Tagged) /\ Len(SubSeq(q, 1, n)) = n
          /\ \A i \in 1..n : SubSeq(q, 1, n)[i] = q[i]
      <3>1. Len(SubSeq(q, 1, n)) = IF 1 <= n THEN n - 1 + 1 ELSE 0
        BY <2>2, <2>5, SubSeqProperties
      <3>2. Len(SubSeq(q, 1, n)) = n
        BY <1>1, <3>1
      <3>3. \A i \in 1..(n - 1 + 1) : SubSeq(q, 1, n)[i] = q[1 + i - 1]
        BY <2>2, <2>5, SubSeqProperties
      <3>4. SubSeq(q, 1, n) \in Seq(Tagged)
        BY <2>2, <2>5, SubSeqProperties
      <3>5. \A i \in 1..n : SubSeq(q, 1, n)[i] = q[i]
        <4> TAKE i \in 1..n
        <4>1. i \in 1..(n - 1 + 1) /\ 1 + i - 1 = i
          BY <1>1
        <4> QED
          BY <3>3, <4>1
      <3> QED
        BY <3>2, <3>4, <3>5
    <2>7. \A i \in 1..n : SubSeq(q, 1, n)[i] \in Tagged
      BY <2>2, <2>6, <1>1
    <2>8. DOMAIN SubSeq(q, 1, n) = 1..n
      BY <2>6
    <2> HIDE DEF l
    <2>9. /\ Items(s, p) \in Seq(Tagged) /\ Len(Items(s, p)) = n
          /\ DOMAIN Items(s, p) = 1..n
          /\ \A i \in 1..n : /\ Items(s, p)[i] = q[i] /\ Items(s, p)[i] \in Tagged
                             /\ l.m_minStart <= Items(s, p)[i].start
                             /\ Items(s, p)[i].end <= l.m_maxEnd
      BY <2>3, <2>4, <2>6, <2>7, <2>8
    <2> QED
      BY <2>9 DEF l, n, q
  <1> QED
    BY <1>2, <1>3

(* A list that stays, on a block that has the same items in its places,    *)
(* has the same items.                                                     *)
LEMMA SameItems ==
  ASSUME GoneIsNothing, NEW s, Good(s), NEW t, Good(t),
         NEW p \in Names, s.tags[p] # Gone, NEW q \in Names, t.tags[q] # Gone,
         t.tags[q].m_used = s.tags[p].m_used,
         \A i \in 1..s.tags[p].m_used : t.block[t.tags[q].m_data].items[i]
                                          = s.block[s.tags[p].m_data].items[i]
  PROVE  Items(t, q) = Items(s, p)
  <1> DEFINE n == s.tags[p].m_used
  <1>1. /\ Items(s, p) \in Seq(Tagged) /\ Len(Items(s, p)) = n
        /\ \A i \in 1..n : Items(s, p)[i] = s.block[s.tags[p].m_data].items[i]
    BY ItemsAre
  <1>2. /\ Items(t, q) \in Seq(Tagged) /\ Len(Items(t, q)) = n
        /\ \A i \in 1..n : Items(t, q)[i] = t.block[t.tags[q].m_data].items[i]
    BY ItemsAre
  <1> HIDE DEF n
  <1>3. \A i \in 1..n : Items(t, q)[i] = Items(s, p)[i]
    BY <1>1, <1>2 DEF n
  <1> QED
    BY <1>1, <1>2, <1>3

-----------------------------------------------------------------------------
(* A change of one list that each block follows keeps the store good, and  *)
(* the other lists as they are.                                            *)
LEMMA Rebound ==
  ASSUME GoneIsNothing, NEW s, Good(s), NEW t, t \in Stores, NEW p \in Names,
         Only(s, t, p), \A a \in Address : Follows(s, t, p, a),
         t.tags[p] # Gone => Empty(t.tags[p])
  PROVE  Good(t) /\ Rest(s, t, {p})
  <1>0. ASSUME NEW a \in Address, NEW n \in Refs(s, a) \ {p}
        PROVE  t.block[a] # Gone /\ Serves(s.block[a], t.block[a], s.tags[n])
    <2>1. /\ s.block[a] \in Blocks /\ Sane(s.tags[n], s.block[a])
          /\ n \in Names /\ s.tags[n] # Gone /\ s.tags[n].m_data = a
      BY Held, ByteTagAssumption DEF Refs
    <2>2. CASE p \in Refs(t, a)
      BY <2>2 DEF Follows
    <2>3. CASE p \notin Refs(t, a) /\ p \in Refs(s, a)
      <3>1. s.block[a].count # 1
        BY <1>0, <2>3, Nobody
      <3>2. t.block[a] = [s.block[a] EXCEPT !.count = @ - 1]
        BY <2>3, <3>1 DEF Follows
      <3>3. s.block[a].count \in Nat /\ s.block[a].count > 0
        BY <2>1, Held, ByteTagAssumption
      <3>4. s.block[a].count - 1 \in Nat
        BY <3>3
      <3>5. /\ t.block[a] \in Blocks /\ t.block[a].size = s.block[a].size
            /\ t.block[a].dirty = s.block[a].dirty
            /\ t.block[a].items = s.block[a].items
        BY <2>1, <3>2, <3>4, CountSet
      <3>6. t.block[a] # Gone
        BY <3>5 DEF GoneIsNothing
      <3> QED
        BY <2>1, <3>5, <3>6 DEF Sane, Serves
    <2>4. CASE p \notin Refs(t, a) /\ p \notin Refs(s, a)
      <3>1. t.block[a] = s.block[a]
        BY <2>4 DEF Follows
      <3>2. s.block[a] # Gone
        BY <2>1 DEF GoneIsNothing
      <3> QED
        BY <2>1, <3>1, <3>2 DEF Sane, Serves
    <2> QED
      BY <2>2, <2>3, <2>4
  <1>1. ASSUME NEW n \in Names, t.tags[n] # Gone, t.tags[n].m_data # Null
        PROVE  /\ t.block[t.tags[n].m_data] # Gone
               /\ Sane(t.tags[n], t.block[t.tags[n].m_data])
    <2> DEFINE a == t.tags[n].m_data
    <2>1. a \in Address
      BY <1>1 DEF Stores, Lists
    <2>2. CASE n = p
      <3>1. p \in Refs(t, a)
        BY <1>1, <2>2 DEF Refs
      <3> QED
        BY <2>1, <2>2, <3>1 DEF Follows
    <2>3. CASE n # p
      <3>1. t.tags[n] = s.tags[n] /\ n \in Refs(s, a) \ {p}
        BY <1>1, <2>3 DEF Only, Refs
      <3>2. Sane(s.tags[n], s.block[a])
        BY <1>1, <3>1 DEF Good
      <3> HIDE DEF a
      <3>3. t.block[a] # Gone /\ Serves(s.block[a], t.block[a], s.tags[n])
        BY <1>0, <2>1, <3>1
      <3>4. Sane(t.tags[n], t.block[a])
        BY <3>1, <3>2, <3>3 DEF Sane, Serves
      <3> QED
        BY <3>3, <3>4 DEF a
    <2> QED
      BY <2>2, <2>3
  <1>2. ASSUME NEW a \in Address, t.block[a] # Gone
        PROVE  t.block[a].count = Cardinality(Refs(t, a))
    <2> DEFINE c == Cardinality(Refs(s, a)) e == Cardinality(Refs(t, a))
    <2>1. /\ (p \in Refs(s, a) <=> p \in Refs(t, a)) => e = c
          /\ p \in Refs(s, a) /\ p \notin Refs(t, a) => e = c - 1
          /\ p \notin Refs(s, a) /\ p \in Refs(t, a) => e = c + 1
      BY Recount
    <2>2. c \in Nat /\ e \in Nat
      BY RefsFinite
    <2>3. s.block[a] = Gone => c = 0 /\ p \notin Refs(s, a)
      BY Nobody, FS_EmptySet
    <2>4. s.block[a] # Gone => s.block[a].count = c
      BY DEF Good
    <2>5. s.block[a] # Gone /\ s.block[a].count # 1 =>
            [s.block[a] EXCEPT !.count = @ - 1].count = s.block[a].count - 1
      <3> SUFFICES ASSUME s.block[a] # Gone PROVE s.block[a] \in Blocks
        BY DEF Blocks
      <3> QED
        BY DEF Good, Stores
    <2> SUFFICES t.block[a].count = e
      BY DEF e
    <2> HIDE DEF c, e
    <2>6. CASE p \in Refs(t, a)
      <3>1. /\ s.block[a] = Gone => t.block[a].count = 1
            /\ s.block[a] # Gone /\ p \in Refs(s, a) =>
                 t.block[a].count = s.block[a].count
            /\ s.block[a] # Gone /\ p \notin Refs(s, a) =>
                 t.block[a].count = s.block[a].count + 1
        BY <2>6, Zenon DEF Follows
      <3> QED
        BY <2>1, <2>2, <2>3, <2>4, <2>6, <3>1
    <2>7. CASE p \notin Refs(t, a) /\ p \in Refs(s, a)
      BY <1>2, <2>1, <2>2, <2>3, <2>4, <2>5, <2>7 DEF Follows
    <2>8. CASE p \notin Refs(t, a) /\ p \notin Refs(s, a)
      BY <1>2, <2>1, <2>2, <2>3, <2>4, <2>8 DEF Follows
    <2> QED
      BY <2>6, <2>7, <2>8
  <1>3. ASSUME NEW a \in Address, t.block[a] # Gone
        PROVE  t.block[a].count > 0
    <2>1. Refs(t, a) # {}
      <3>1. CASE p \in Refs(t, a)
        BY <3>1
      <3>2. CASE p \notin Refs(t, a) /\ p \in Refs(s, a)
        <4>1. s.block[a].count # 1
          BY <1>3, <3>2 DEF Follows
        <4>2. s.block[a].count = Cardinality(Refs(s, a))
          BY <3>2, Nobody DEF Good
        <4>3. Refs(s, a) # {p}
          BY <4>1, <4>2, FS_Singleton
        <4>4. PICK n \in Refs(s, a) : n # p
          BY <3>2, <4>3
        <4> QED
          BY <4>4 DEF Only, Refs
      <3>3. CASE p \notin Refs(t, a) /\ p \notin Refs(s, a)
        <4>1. t.block[a] = s.block[a]
          BY <3>3 DEF Follows
        <4>2. s.block[a].count = Cardinality(Refs(s, a)) /\ s.block[a].count > 0
          BY <1>3, <4>1 DEF Good
        <4>3. Refs(s, a) # {}
          BY <4>2, FS_EmptySet
        <4>4. PICK n \in Refs(s, a) : TRUE
          BY <4>3
        <4> QED
          BY <3>3, <4>4 DEF Only, Refs
      <3> QED
        BY <3>1, <3>2, <3>3
    <2>2. Cardinality(Refs(t, a)) # 0
      BY <2>1, RefsFinite, FS_EmptySet
    <2> QED
      BY <1>2, <1>3, <2>2, RefsFinite
  <1>4. ASSUME NEW n \in Names, t.tags[n] # Gone
        PROVE  Empty(t.tags[n])
    BY <1>4 DEF Only, Good
  <1>5. Good(t)
    BY <1>1, <1>2, <1>3, <1>4 DEF Good
  <1>6. ASSUME NEW n \in Names \ {p}, s.tags[n] # Gone
        PROVE  Items(t, n) = Items(s, n)
    <2>1. t.tags[n] = s.tags[n] /\ n \in Names
      BY DEF Only
    <2>2. s.tags[n].m_used \in Nat /\ Empty(s.tags[n])
      BY <1>6, Held
    <2>3. ASSUME NEW i \in 1..s.tags[n].m_used
          PROVE  t.block[t.tags[n].m_data].items[i] = s.block[s.tags[n].m_data].items[i]
      <3>1. s.tags[n].m_data # Null
        BY <2>2 DEF Empty
      <3>2. s.tags[n].m_data \in Address /\ n \in Refs(s, s.tags[n].m_data) \ {p}
        BY <1>6, <3>1, Held
      <3>3. Serves(s.block[s.tags[n].m_data], t.block[s.tags[n].m_data], s.tags[n])
        BY <1>0, <3>2
      <3> QED
        BY <2>1, <3>3 DEF Serves
    <2> QED
      BY <1>5, <1>6, <2>1, <2>3, SameItems
  <1>7. Rest(s, t, {p})
    BY <1>6 DEF Rest, Only
  <1> QED
    BY <1>5, <1>7

-----------------------------------------------------------------------------
(* One list and one block are set. *)
LEMMA PutIs ==
  ASSUME NEW s \in Stores, NEW p \in Names, NEW l \in Lists \cup {Gone},
         NEW a \in Address, NEW d \in Blocks \cup {Gone}, NEW t, t = Put(s, p, l, a, d)
  PROVE  /\ t \in Stores /\ t.tags[p] = l /\ Only(s, t, p) /\ t.block[a] = d
         /\ \A c \in Address \ {a} : t.block[c] = s.block[c]
  BY DEF Stores, Only, Put

(* One list is set; the block of a list, if it has one, is let go. *)
WithList(s, p, l) == [s EXCEPT !.tags[p] = l]
LetGo(s, p) == IF s.tags[p] = Gone THEN s ELSE Deallocate(s, s.tags[p].m_data)

LEMMA ListSet ==
  ASSUME NEW s \in Stores, NEW p \in Names, NEW l \in Lists \cup {Gone},
         NEW t, t = WithList(s, p, l)
  PROVE  /\ t \in Stores /\ t.tags[p] = l /\ Only(s, t, p) /\ t.block = s.block
  BY DEF Stores, Only, WithList

(* A block loses one of its lists, and goes with the last. *)
LEMMA DeallocateIs ==
  ASSUME NEW s \in Stores, NEW a \in Address \cup {Null},
         a # Null => s.block[a] \in Blocks /\ s.block[a].count > 0,
         NEW t, t = Deallocate(s, a)
  PROVE  /\ t \in Stores /\ t.tags = s.tags
         /\ \A c \in Address : c # a => t.block[c] = s.block[c]
         /\ a # Null => t.block[a] = IF s.block[a].count = 1 THEN Gone
                                     ELSE [s.block[a] EXCEPT !.count = @ - 1]
  <1>1. CASE a = Null
    BY <1>1 DEF Deallocate
  <1>2. CASE a # Null
    <2> DEFINE e == IF s.block[a].count = 1 THEN Gone
                    ELSE [s.block[a] EXCEPT !.count = @ - 1]
    <2>1. e \in Blocks \cup {Gone}
      <3> SUFFICES ASSUME s.block[a].count # 1
                   PROVE  [s.block[a] EXCEPT !.count = @ - 1] \in Blocks
        OBVIOUS
      <3>1. s.block[a].count \in Nat
        BY <1>2 DEF Blocks
      <3>2. s.block[a].count - 1 \in Nat
        BY <1>2, <3>1
      <3> QED
        BY <1>2, <3>2, CountSet
    <2>2. t = [s EXCEPT !.block[a] = e]
      BY <1>2 DEF Deallocate, Stores
    <2> HIDE DEF e
    <2>3. a \in Address
      BY <1>2
    <2>4. /\ t \in Stores /\ t.tags = s.tags /\ t.block[a] = e
          /\ \A c \in Address : c # a => t.block[c] = s.block[c]
      BY <2>1, <2>2, <2>3 DEF Stores
    <2> QED
      BY <1>2, <2>4 DEF e
  <1> QED
    BY <1>1, <1>2

(* p's list changes on the block it has. *)
LEMMA InPlace ==
  ASSUME GoneIsNothing, NEW s, Good(s), NEW p \in Names, s.tags[p] # Gone,
         NEW a \in Address, s.tags[p].m_data = a,
         NEW l \in Lists, l.m_data = a,
         NEW d \in Blocks, d.count = s.block[a].count, Sane(l, d),
         \A n \in Refs(s, a) \ {p} : Serves(s.block[a], d, s.tags[n]),
         NEW t, t = Put(s, p, l, a, d)
  PROVE  /\ Good(t) /\ Rest(s, t, {p}) /\ t.tags[p] = l /\ t.block[a] = d
  <1>1. l # Gone /\ d # Gone /\ a # Null /\ s \in Stores
    BY ByteTagAssumption DEF GoneIsNothing, Good
  <1>2. /\ t \in Stores /\ t.tags[p] = l /\ Only(s, t, p) /\ t.block[a] = d
        /\ \A c \in Address \ {a} : t.block[c] = s.block[c]
    BY <1>1, PutIs
  <1>3. /\ p \in Refs(s, a) /\ p \in Refs(t, a)
        /\ \A c \in Address \ {a} : p \notin Refs(s, c) /\ p \notin Refs(t, c)
    BY <1>1, <1>2 DEF Refs
  <1>4. s.block[a] # Gone
    BY <1>1, Held
  <1>5. ASSUME NEW c \in Address
        PROVE  Follows(s, t, p, c)
    <2>1. CASE c = a
      BY <1>1, <1>2, <1>3, <1>4, <2>1 DEF Follows
    <2>2. CASE c # a
      BY <1>2, <1>3, <2>2 DEF Follows
    <2> QED
      BY <2>1, <2>2
  <1>6. Empty(l)
    BY <1>1 DEF Empty
  <1> QED
    BY <1>2, <1>5, <1>6, Rebound

(* p's list moves to a new block; the one it had, if any, is let go. *)
LEMMA Rehoused ==
  ASSUME GoneIsNothing, NEW s, Good(s), NEW p \in Names, s.tags[p] # Gone,
         NEW a \in Address, s.block[a] = Gone,
         NEW l \in Lists, l.m_data = a, NEW d \in Blocks, d.count = 1, Sane(l, d),
         NEW t, t = Deallocate(Put(s, p, l, a, d), s.tags[p].m_data)
  PROVE  /\ Good(t) /\ Rest(s, t, {p}) /\ t.tags[p] = l /\ t.block[a] = d
  <1> DEFINE o == s.tags[p].m_data
             u == Put(s, p, l, a, d)
  <1>1. l # Gone /\ d # Gone /\ a # Null /\ s \in Stores
    BY ByteTagAssumption DEF GoneIsNothing, Good
  <1>2. /\ u \in Stores /\ u.tags[p] = l /\ Only(s, u, p) /\ u.block[a] = d
        /\ \A c \in Address \ {a} : u.block[c] = s.block[c]
    BY <1>1, PutIs
  <1>3. /\ o \in Address \cup {Null} /\ o # a
        /\ o # Null => /\ s.block[o] \in Blocks /\ s.block[o].count > 0
                       /\ u.block[o] = s.block[o]
    <2>1. /\ o \in Address \cup {Null}
          /\ o # Null => /\ o \in Address /\ s.block[o] \in Blocks
                         /\ s.block[o] # Gone /\ s.block[o].count > 0
      BY Held
    <2> QED
      BY <1>1, <1>2, <2>1
  <1> HIDE DEF u
  <1>4. /\ t \in Stores /\ t.tags = u.tags
        /\ \A c \in Address : c # o => t.block[c] = u.block[c]
        /\ o # Null => t.block[o] = IF s.block[o].count = 1 THEN Gone
                                    ELSE [s.block[o] EXCEPT !.count = @ - 1]
    <2>1. t = Deallocate(u, o)
      BY DEF u
    <2>2. /\ t \in Stores /\ t.tags = u.tags
          /\ \A c \in Address : c # o => t.block[c] = u.block[c]
          /\ o # Null => t.block[o] = IF u.block[o].count = 1 THEN Gone
                                      ELSE [u.block[o] EXCEPT !.count = @ - 1]
      <3> HIDE DEF o
      <3> QED
        BY <1>2, <1>3, <2>1, DeallocateIs
    <2> QED
      BY <1>3, <2>2
  <1>5. t.tags[p] = l /\ Only(s, t, p) /\ t.block[a] = d
    BY <1>2, <1>3, <1>4 DEF Only
  <1>6. /\ p \in Refs(t, a) /\ p \notin Refs(s, a) /\ Refs(s, a) = {}
        /\ \A c \in Address \ {a} : p \notin Refs(t, c)
        /\ \A c \in Address : p \in Refs(s, c) <=> c = o
    <2>1. Refs(s, a) = {}
      BY Nobody
    <2> QED
      BY <1>1, <1>5, <2>1 DEF Refs
  <1>7. ASSUME NEW c \in Address
        PROVE  Follows(s, t, p, c)
    <2>1. CASE c = a
      BY <1>1, <1>5, <1>6, <2>1 DEF Follows
    <2>2. CASE c # a /\ p \in Refs(s, c)
      <3>1. c = o /\ o # Null
        BY <1>6, <2>2, ByteTagAssumption
      <3> QED
        BY <1>4, <1>6, <2>2, <3>1 DEF Follows
    <2>3. CASE c # a /\ p \notin Refs(s, c)
      BY <1>2, <1>4, <1>6, <2>3 DEF Follows
    <2> QED
      BY <2>1, <2>2, <2>3
  <1>8. Empty(l)
    BY <1>1 DEF Empty
  <1> QED
    BY <1>4, <1>5, <1>7, <1>8, Rebound

(* p's list lets its block go, if it has one, and is none or one without a *)
(* block.                                                                  *)
LEMMA Unhooked ==
  ASSUME GoneIsNothing, NEW s, Good(s), NEW p \in Names,
         NEW v \in Lists \cup {Gone}, v # Gone => v.m_data = Null /\ v.m_used = 0,
         NEW t, t = WithList(LetGo(s, p), p, v)
  PROVE  /\ Good(t) /\ Rest(s, t, {p}) /\ t.tags[p] = v
  <1> DEFINE o == IF s.tags[p] = Gone THEN Null ELSE s.tags[p].m_data
             u == LetGo(s, p)
  <1>1. /\ o \in Address \cup {Null} /\ s \in Stores
        /\ o # Null => s.block[o] \in Blocks /\ s.block[o].count > 0
    BY Held DEF Good
  <1>2. u = Deallocate(s, o) /\ t = WithList(u, p, v)
    BY DEF Deallocate, LetGo
  <1>3. \A c \in Address : p \in Refs(s, c) <=> c = o
    BY ByteTagAssumption DEF Refs
  <1> HIDE DEF o, u
  <1>4. /\ u \in Stores /\ u.tags = s.tags
        /\ \A c \in Address : c # o => u.block[c] = s.block[c]
        /\ o # Null => u.block[o] = IF s.block[o].count = 1 THEN Gone
                                    ELSE [s.block[o] EXCEPT !.count = @ - 1]
    BY <1>1, <1>2, DeallocateIs
  <1>5. /\ t \in Stores /\ t.tags[p] = v /\ Only(u, t, p) /\ t.block = u.block
    BY <1>2, <1>4, ListSet
  <1>6. Only(s, t, p)
    BY <1>4, <1>5 DEF Only
  <1>7. \A c \in Address : p \notin Refs(t, c)
    BY <1>5, ByteTagAssumption DEF Refs
  <1>8. ASSUME NEW c \in Address
        PROVE  Follows(s, t, p, c)
    <2>1. CASE c = o
      <3>1. o # Null
        BY <2>1, ByteTagAssumption
      <3> QED
        BY <1>3, <1>4, <1>5, <1>7, <2>1, <3>1 DEF Follows
    <2>2. CASE c # o
      BY <1>3, <1>4, <1>5, <1>7, <2>2 DEF Follows
    <2> QED
      BY <2>1, <2>2
  <1>9. t.tags[p] # Gone => Empty(t.tags[p])
    BY <1>5 DEF Empty
  <1> QED
    BY <1>5, <1>6, <1>8, <1>9, Rebound

LEMMA EmptyListIs ==
  ASSUME GoneIsNothing
  PROVE  /\ EmptyList \in Lists /\ EmptyList # Gone /\ EmptyList.m_data = Null
         /\ EmptyList.m_used = 0 /\ EmptyList.m_adjustment = 0
  <1>1. EmptyList \in Lists
    BY ByteTagAssumption DEF EmptyList, ListOf, Lists
  <1> QED
    BY <1>1 DEF GoneIsNothing, EmptyList, ListOf

(* The destructor, and RemoveAll *)
LEMMA DestroyedIsGood ==
  ASSUME GoneIsNothing, NEW s, Good(s), NEW p \in Names, s.tags[p] # Gone,
         NEW t, t = Destroyed(s, p)
  PROVE  /\ Good(t) /\ Rest(s, t, {p}) /\ t.tags[p] = Gone
  <1>1. t = WithList(LetGo(s, p), p, Gone)
    BY DEF Destroyed, LetGo, WithList
  <1> QED
    BY <1>1, Unhooked

LEMMA RemoveAllIsGood ==
  ASSUME GoneIsNothing, NEW s, Good(s), NEW p \in Names, s.tags[p] # Gone,
         NEW t, t = RemoveAll(s, p)
  PROVE  /\ Good(t) /\ Rest(s, t, {p}) /\ t.tags[p] = EmptyList
  <1>1. t = WithList(LetGo(s, p), p, EmptyList)
    BY DEF RemoveAll, LetGo, WithList
  <1> QED
    BY <1>1, EmptyListIs, Unhooked

(* A copy shares the block, and has the same items. *)
LEMMA AssignedIsGood ==
  ASSUME GoneIsNothing, NEW s, Good(s), NEW p \in Names,
         NEW q \in Names, s.tags[q] # Gone, NEW t, t = Assigned(s, p, q)
  PROVE  /\ Good(t) /\ Rest(s, t, {p})
         /\ t.tags[p] = s.tags[q] /\ Items(t, p) = Items(s, q)
  <1> DEFINE l == s.tags[q]
             a == l.m_data
             u == LetGo(s, p)
  <1>1. /\ l \in Lists /\ Empty(l) /\ a \in Address \cup {Null}
    BY Held
  <1>2. CASE p = q
    BY <1>2 DEF Assigned, Rest
  <1>3. CASE p # q /\ a = Null
    <2>1. t = WithList(LetGo(s, p), p, l)
      BY <1>3 DEF Assigned, LetGo, WithList
    <2>2. Good(t) /\ Rest(s, t, {p}) /\ t.tags[p] = l
      <3>1. l # Gone => l.m_data = Null /\ l.m_used = 0
        BY <1>1, <1>3 DEF Empty
      <3> HIDE DEF l
      <3> QED
        BY <1>1, <2>1, <3>1, Unhooked
    <2>3. Items(t, p) = << >> /\ Items(s, q) = << >>
      BY <1>3, <2>2 DEF Items
    <2> QED
      BY <2>2, <2>3
  <1>4. CASE p # q /\ a # Null
    <2> DEFINE o == IF s.tags[p] = Gone THEN Null ELSE s.tags[p].m_data
               e == s.block[a]
               d == [u.block[a] EXCEPT !.count = @ + 1]
    <2>1. /\ a \in Address /\ e \in Blocks /\ e # Gone /\ e.count \in Nat
          /\ e.count > 0 /\ Sane(l, e) /\ q \in Refs(s, a) /\ s \in Stores
      BY <1>4, Held DEF Good
    <2>2. /\ o \in Address \cup {Null}
          /\ o # Null => /\ s.block[o] \in Blocks /\ s.block[o].count > 0
                         /\ p \in Refs(s, o)
      BY Held DEF Good
    <2>3. u = Deallocate(s, o)
      BY DEF Deallocate, LetGo
    <2>4. \A c \in Address : p \in Refs(s, c) <=> c = o
      BY ByteTagAssumption DEF Refs
    <2> HIDE DEF o, u
    <2>5. /\ u \in Stores /\ u.tags = s.tags
          /\ \A c \in Address : c # o => u.block[c] = s.block[c]
          /\ o # Null => u.block[o] = IF s.block[o].count = 1 THEN Gone
                                      ELSE [s.block[o] EXCEPT !.count = @ - 1]
      BY <2>1, <2>2, <2>3, DeallocateIs
    <2>6. /\ d \in Blocks /\ d.size = e.size /\ d.dirty = e.dirty /\ d.items = e.items
          /\ d.count = IF o = a THEN e.count ELSE e.count + 1
      <3>1. CASE o = a
        <4>1. e.count # 1
          BY <1>4, <2>1, <2>4, <3>1, Nobody
        <4>2. u.block[a] = [e EXCEPT !.count = @ - 1] /\ e.count - 1 \in Nat
          BY <1>4, <2>1, <2>5, <3>1, <4>1
        <4> HIDE DEF e
        <4>3. /\ u.block[a] \in Blocks /\ u.block[a].count = e.count - 1
              /\ u.block[a].size = e.size /\ u.block[a].dirty = e.dirty
              /\ u.block[a].items = e.items
          BY <2>1, <4>2, CountSet
        <4>4. u.block[a].count + 1 \in Nat /\ u.block[a].count + 1 = e.count
          BY <2>1, <4>3
        <4>5. /\ d \in Blocks /\ d.count = u.block[a].count + 1
              /\ d.size = u.block[a].size /\ d.dirty = u.block[a].dirty
              /\ d.items = u.block[a].items
          BY <4>3, <4>4, CountSet
        <4> QED
          BY <3>1, <4>3, <4>4, <4>5
      <3>2. CASE o # a
        <4>1. u.block[a] = e
          BY <2>1, <2>5, <3>2
        <4>2. e.count + 1 \in Nat
          BY <2>1
        <4> HIDE DEF e
        <4>3. d = [e EXCEPT !.count = @ + 1]
          BY <4>1
        <4> HIDE DEF d
        <4> QED
          BY <2>1, <3>2, <4>2, <4>3, CountSet
      <3> QED
        BY <3>1, <3>2
    <2>7. t = Put(u, p, l, a, d)
      BY <1>4, Zenon DEF Assigned, LetGo, u
    <2>8. l # Gone /\ d # Gone
      BY <1>1, <2>6 DEF GoneIsNothing
    <2> HIDE DEF d
    <2>9. /\ t \in Stores /\ t.tags[p] = l /\ Only(u, t, p) /\ t.block[a] = d
          /\ \A c \in Address \ {a} : t.block[c] = u.block[c]
      <3> HIDE DEF l
      <3> QED
        BY <1>1, <2>1, <2>5, <2>6, <2>7, PutIs
    <2>10. Only(s, t, p)
      BY <2>5, <2>9 DEF Only
    <2>11. p \in Refs(t, a) /\ \A c \in Address \ {a} : p \notin Refs(t, c)
      BY <2>8, <2>9 DEF Refs
    <2>12. \A n \in Refs(s, a) \ {p} : Serves(s.block[a], d, s.tags[n])
      <3> SUFFICES ASSUME NEW n \in Refs(s, a) \ {p}
                   PROVE  Serves(s.block[a], d, s.tags[n])
        OBVIOUS
      <3>1. Sane(s.tags[n], e)
        BY <1>4 DEF Good, Refs
      <3> QED
        BY <2>6, <3>1 DEF Sane, Serves
    <2>13. Sane(l, d)
      BY <2>1, <2>6 DEF Sane
    <2>14. ASSUME NEW c \in Address
           PROVE  Follows(s, t, p, c)
      <3>1. CASE c = a
        BY <2>1, <2>4, <2>6, <2>8, <2>9, <2>11, <2>12, <2>13, <3>1 DEF Follows
      <3>2. CASE c # a /\ c = o
        <4>1. o # Null
          BY <3>2, ByteTagAssumption
        <4> QED
          BY <2>4, <2>5, <2>9, <2>11, <3>2, <4>1 DEF Follows
      <3>3. CASE c # a /\ c # o
        BY <2>4, <2>5, <2>9, <2>11, <3>3 DEF Follows
      <3> QED
        BY <3>1, <3>2, <3>3
    <2>15. Good(t) /\ Rest(s, t, {p})
      BY <1>1, <2>9, <2>10, <2>14, Rebound
    <2>16. Items(t, p) = Items(s, q)
      <3>1. t.tags[p] # Gone /\ t.tags[p].m_used = s.tags[q].m_used
        BY <2>8, <2>9
      <3>2. \A i \in 1..s.tags[q].m_used : t.block[t.tags[p].m_data].items[i]
                                             = s.block[s.tags[q].m_data].items[i]
        BY <2>6, <2>9
      <3> QED
        BY <2>15, <3>1, <3>2, SameItems
    <2> QED
      BY <2>9, <2>15, <2>16
  <1> QED
    BY <1>1, <1>2, <1>3, <1>4

(* Adjust moves all items of a list at once, on the block it has. *)
LEMMA AdjustIsGood ==
  ASSUME GoneIsNothing, NEW s, Good(s), NEW p \in Names, s.tags[p] # Gone,
         NEW d \in Int, NEW t, t = Adjust(s, p, d)
  PROVE  /\ Good(t) /\ Rest(s, t, {p})
         /\ t.tags[p] # Gone /\ Items(t, p) = Items(s, p)
         /\ t.tags[p].m_adjustment = s.tags[p].m_adjustment + d
  <1> DEFINE l == s.tags[p]
             v == ListOf(l.m_minStart, l.m_maxEnd, l.m_adjustment + d, l.m_used, l.m_data)
  <1>1. l \in Lists /\ Empty(l) /\ s \in Stores
    BY Held DEF Good
  <1>2. t = WithList(s, p, v)
    BY Zenon DEF Adjust, WithList
  <1>3. /\ v \in Lists /\ v.m_minStart = l.m_minStart /\ v.m_maxEnd = l.m_maxEnd
        /\ v.m_used = l.m_used /\ v.m_data = l.m_data
        /\ v.m_adjustment = l.m_adjustment + d
    BY <1>1 DEF ListOf, Lists
  <1>4. v # Gone
    BY <1>3 DEF GoneIsNothing
  <1> HIDE DEF v
  <1>5. t \in Stores /\ t.tags[p] = v /\ Only(s, t, p) /\ t.block = s.block
    BY <1>1, <1>2, <1>3, ListSet
  <1>6. \A a \in Address : p \in Refs(t, a) <=> p \in Refs(s, a)
    BY <1>3, <1>4, <1>5 DEF Refs
  <1>7. ASSUME NEW a \in Address
        PROVE  Follows(s, t, p, a)
    <2>1. CASE p \in Refs(s, a)
      <3>1. s.block[a] # Gone /\ Sane(l, s.block[a])
        BY <2>1, Held, ByteTagAssumption DEF Refs
      <3>2. Sane(v, s.block[a])
        BY <1>3, <3>1 DEF Sane
      <3>3. \A n \in Refs(s, a) : Serves(s.block[a], s.block[a], s.tags[n])
        <4> SUFFICES ASSUME NEW n \in Refs(s, a)
                     PROVE  Serves(s.block[a], s.block[a], s.tags[n])
          OBVIOUS
        <4>1. Sane(s.tags[n], s.block[a])
          BY ByteTagAssumption DEF Good, Refs
        <4> QED
          BY <4>1 DEF Sane, Serves
      <3> QED
        BY <1>5, <1>6, <2>1, <3>1, <3>2, <3>3 DEF Follows
    <2>2. CASE p \notin Refs(s, a)
      BY <1>5, <1>6, <2>2 DEF Follows
    <2> QED
      BY <2>1, <2>2
  <1>8. Empty(v)
    BY <1>1, <1>3 DEF Empty
  <1>9. Good(t) /\ Rest(s, t, {p})
    BY <1>5, <1>7, <1>8, Rebound
  <1>10. Items(t, p) = Items(s, p)
    BY <1>3, <1>5 DEF Items
  <1> QED
    BY <1>3, <1>4, <1>5, <1>9, <1>10

-----------------------------------------------------------------------------
LEMMA Larger ==
  ASSUME NEW m \in Int, NEW n \in Int
  PROVE  Max({m, n}) = IF m >= n THEN m ELSE n
  BY DEF Max

LEMMA Smaller ==
  ASSUME NEW m \in Int, NEW n \in Int
  PROVE  Min({m, n}) = IF m <= n THEN m ELSE n
  BY DEF Min

LEMMA ShiftIs ==
  ASSUME NEW i \in Tagged, NEW d \in Int
  PROVE  /\ Shift(i, d) \in Tagged /\ Shift(i, d).tag = i.tag
         /\ Shift(i, d).start = i.start + d /\ Shift(i, d).end = i.end + d
  BY DEF Shift, Tagged

(* A list that takes an item in *)
LEMMA WidenedIs ==
  ASSUME NEW l \in Lists, NEW i \in Tagged, NEW a \in Address,
         NEW w, w = Widened(l, i, a)
  PROVE  /\ w \in Lists /\ w.m_data = a /\ w.m_used = l.m_used + 1
         /\ w.m_adjustment = l.m_adjustment
         /\ w.m_minStart <= l.m_minStart /\ w.m_minStart <= i.start
         /\ w.m_maxEnd >= l.m_maxEnd /\ w.m_maxEnd >= i.end
  <1>1. /\ l.m_minStart \in Int /\ l.m_maxEnd \in Int /\ l.m_adjustment \in Int
        /\ l.m_used \in Nat /\ i.start \in Int /\ i.end \in Int
    BY DEF Lists, Tagged
  <1>2. PICK lo \in Int : /\ lo = Min({l.m_minStart, i.start})
                          /\ lo <= l.m_minStart /\ lo <= i.start
    BY <1>1, Smaller
  <1>3. PICK hi \in Int : /\ hi = Max({l.m_maxEnd, i.end})
                          /\ hi >= l.m_maxEnd /\ hi >= i.end
    BY <1>1, Larger
  <1>4. w = ListOf(lo, hi, l.m_adjustment, l.m_used + 1, a)
    BY <1>2, <1>3, Zenon DEF Widened
  <1> QED
    BY <1>1, <1>2, <1>3, <1>4 DEF ListOf, Lists

LEMMA OverwrittenIs ==
  ASSUME NEW q \in Seq(Tagged), NEW n \in Nat, n >= 1, n <= Len(q) + 1,
         NEW i \in Tagged
  PROVE  /\ Overwritten(q, n, i) \in Seq(Tagged) /\ Len(Overwritten(q, n, i)) >= n
         /\ Overwritten(q, n, i)[n] = i
  <1> DEFINE r == Overwritten(q, n, i)
  <1>1. Len(q) \in Nat /\ \A k \in 1..Len(q) : q[k] \in Tagged
    OBVIOUS
  <1>2. PICK m \in Nat : /\ m = Max({n, Len(q)})
                         /\ (m >= n) /\ (m = n \/ m = Len(q))
    BY <1>1, Larger
  <1>3. r = [k \in 1..m |-> IF k = n THEN i ELSE q[k]]
    BY <1>2, Zenon DEF Overwritten
  <1> HIDE DEF r
  <1>4. \A k \in 1..m : (IF k = n THEN i ELSE q[k]) \in Tagged
    BY <1>1, <1>2
  <1>5. r \in [1..m -> Tagged]
    BY <1>3, <1>4
  <1>6. r \in Seq(Tagged) /\ Len(r) = m
    <2>1. m \in Nat
      BY <1>2
    <2> QED
      BY <1>5, <2>1
  <1>7. r[n] = i
    BY <1>2, <1>3
  <1> QED
    BY <1>2, <1>6, <1>7 DEF r

LEMMA OverwrittenKeeps ==
  ASSUME NEW q \in Seq(Tagged), NEW n \in Nat, NEW i, NEW k \in 1..Len(q), k < n
  PROVE  Overwritten(q, n, i)[k] = q[k]
  <1>1. Len(q) \in Nat
    OBVIOUS
  <1>2. PICK m \in Nat : m = Max({n, Len(q)}) /\ m >= n
    BY <1>1, Larger
  <1>3. Overwritten(q, n, i) = [j \in 1..m |-> IF j = n THEN i ELSE q[j]]
    BY <1>2, Zenon DEF Overwritten
  <1>4. k \in 1..m /\ k # n
    BY <1>2
  <1> QED
    BY <1>3, <1>4

(* Add: an item more behind those that are there, in whatever block. *)
LEMMA AddedIsGood ==
  ASSUME GoneIsNothing, NEW s, Good(s), NEW p \in Names, s.tags[p] # Gone,
         NEW item \in Tagged, NEW slack \in Nat, NEW t, t = Added(s, p, item, slack)
  PROVE  /\ Good(t) /\ Rest(s, t, {p})
         /\ t.tags[p] # Gone /\ t.tags[p].m_adjustment = s.tags[p].m_adjustment
         /\ Items(t, p) = Append(Items(s, p), Shift(item, -s.tags[p].m_adjustment))
  <1> DEFINE l == s.tags[p]
             n == l.m_used + 1
             a == Fresh(s)
             stored == Shift(item, -l.m_adjustment)
             old == Items(s, p)
             new == BlockOf(n + slack, 1, 0, Append(old, stored))
             d == s.block[l.m_data]
             more == BlockOf(d.size, d.count, d.dirty, Overwritten(d.items, n, stored))
  <1>1. l \in Lists /\ l.m_used \in Nat /\ l.m_adjustment \in Int /\ n \in Nat \ {0}
    BY Held DEF Lists
  <1>2. stored \in Tagged
    <2>1. -l.m_adjustment \in Int
      BY <1>1
    <2> QED
      BY <2>1, ShiftIs
  <1>3. a \in Address /\ s.block[a] = Gone
    BY Free
  <1>4. /\ old \in Seq(Tagged) /\ Len(old) = l.m_used
        /\ \A i \in 1..l.m_used : /\ old[i] = d.items[i] /\ old[i] \in Tagged
                                  /\ l.m_minStart <= old[i].start
                                  /\ old[i].end <= l.m_maxEnd
    BY ItemsAre
  <1>5. t = IF l.m_data = Null \/ CannotAppend(s, p)
            THEN Deallocate(Put(s, p, Widened(l, stored, a), a, Marked(new, n)), l.m_data)
            ELSE Put(s, p, Widened(l, stored, l.m_data), l.m_data, Marked(more, n))
    BY Zenon DEF Added
  <1>6. ASSUME l.m_data # Null
        PROVE  /\ l.m_data \in Address /\ d \in Blocks /\ Sane(l, d)
               /\ p \in Refs(s, l.m_data)
    BY <1>6, Held
  <1>7. ~CannotAppend(s, p) <=> ~(d.size < n \/ (d.count # 1 /\ d.dirty # l.m_used))
    BY Zenon DEF CannotAppend
  <1> HIDE DEF stored, old, a, n
  <1>8. /\ Append(old, stored) \in Seq(Tagged) /\ Len(Append(old, stored)) = n
        /\ \A i \in 1..l.m_used : Append(old, stored)[i] = old[i]
        /\ Append(old, stored)[n] = stored
    BY <1>1, <1>2, <1>4, AppendProperties DEF n
  <1>9. \A i \in 1..n : i = n \/ i \in 1..l.m_used
    BY <1>1 DEF n
  <1>10. /\ n - 1 = l.m_used /\ n = l.m_used + 1 /\ l = s.tags[p]
    BY <1>1 DEF n
  <1> DEFINE Done(u, w, e) ==
        /\ Good(u) /\ Rest(s, u, {p}) /\ u.tags[p] = w /\ u.block[w.m_data] = e
        /\ e \in Blocks /\ \A i \in 1..n : e.items[i] = Append(old, stored)[i]
        /\ w \in Lists /\ w.m_adjustment = l.m_adjustment /\ w.m_used = n
  <1> HIDE DEF l
  (* The bounds take in the items that are copied and the new one. *)
  <1>11. ASSUME NEW c \in Address, NEW w, w = Widened(l, stored, c), NEW q,
                \A i \in 1..n : q[i] = Append(old, stored)[i]
         PROVE  /\ w \in Lists /\ w.m_data = c /\ w.m_used = n
                /\ w.m_adjustment = l.m_adjustment
                /\ \A i \in 1..n : w.m_minStart <= q[i].start /\ q[i].end <= w.m_maxEnd
    <2>1. /\ w \in Lists /\ w.m_data = c /\ w.m_used = n
          /\ w.m_adjustment = l.m_adjustment
          /\ w.m_minStart <= l.m_minStart /\ w.m_minStart <= stored.start
          /\ w.m_maxEnd >= l.m_maxEnd /\ w.m_maxEnd >= stored.end
      BY <1>1, <1>2, <1>10, <1>11, WidenedIs
    <2>2. ASSUME NEW i \in 1..n
          PROVE  w.m_minStart <= q[i].start /\ q[i].end <= w.m_maxEnd
      <3>1. CASE i = n
        BY <1>8, <1>11, <2>1, <3>1
      <3>2. CASE i # n
        <4>1. i \in 1..l.m_used
          BY <1>9, <3>2
        <4>2. q[i] = old[i] /\ old[i] \in Tagged
          BY <1>4, <1>8, <1>11, <4>1
        <4>3. /\ old[i].start \in Int /\ old[i].end \in Int /\ l.m_minStart \in Int
              /\ l.m_maxEnd \in Int /\ w.m_minStart \in Int /\ w.m_maxEnd \in Int
          BY <1>1, <2>1, <4>2 DEF Tagged, Lists
        <4>4. l.m_minStart <= old[i].start /\ old[i].end <= l.m_maxEnd
          BY <1>4, <4>1 DEF l
        <4> QED
          BY <2>1, <4>2, <4>3, <4>4
      <3> QED
        BY <3>1, <3>2
    <2> QED
      BY <2>1, <2>2
  <1>12. ASSUME l.m_data = Null \/ CannotAppend(s, p)
         PROVE  \E w, e : Done(t, w, e)
    <2> DEFINE w == Widened(l, stored, a)
               e == Marked(new, n)
    <2>1. /\ e \in Blocks /\ e.size = n + slack /\ e.count = 1 /\ e.dirty = n
          /\ e.items = Append(old, stored)
      <3>1. PICK q \in Seq(Tagged) : q = Append(old, stored)
        BY <1>8
      <3>2. PICK k \in Nat : k = n + slack
        BY <1>1
      <3>3. e = Marked(BlockOf(k, 1, 0, q), n) /\ n \in Nat
        BY <1>1, <3>1, <3>2
      <3> HIDE DEF e
      <3>4. /\ e \in Blocks /\ e.size = k /\ e.count = 1 /\ e.dirty = n /\ e.items = q
        BY <3>3 DEF Blocks, BlockOf, Marked
      <3> QED
        BY <3>1, <3>2, <3>4
    <2>2. t = Deallocate(Put(s, p, w, a, e), s.tags[p].m_data)
      BY <1>5, <1>12 DEF l
    <2> HIDE DEF e
    <2>3. \A i \in 1..n : e.items[i] = Append(old, stored)[i]
      BY <2>1
    <2>4. /\ w \in Lists /\ w.m_data = a /\ w.m_used = n
          /\ w.m_adjustment = l.m_adjustment
          /\ \A i \in 1..n : /\ w.m_minStart <= e.items[i].start
                             /\ e.items[i].end <= w.m_maxEnd
      BY <1>3, <1>11, <2>3
    <2> HIDE DEF w
    <2>5. Sane(w, e)
      BY <1>1, <1>8, <2>1, <2>4 DEF Sane
    <2>6. w \in Lists /\ w.m_data = a /\ e \in Blocks /\ e.count = 1
      BY <2>1, <2>4
    <2>7. Good(t) /\ Rest(s, t, {p}) /\ t.tags[p] = w /\ t.block[a] = e
      BY <1>3, <2>2, <2>5, <2>6, Rehoused
    <2>8. Done(t, w, e)
      BY <2>1, <2>3, <2>4, <2>7
    <2> QED
      BY <2>8
  <1>13. ASSUME ~(l.m_data = Null \/ CannotAppend(s, p))
         PROVE  \E w, e : Done(t, w, e)
    <2> DEFINE o == l.m_data
               w == Widened(l, stored, o)
               e == Marked(more, n)
    <2>1. o \in Address /\ d \in Blocks /\ Sane(l, d) /\ p \in Refs(s, o)
      BY <1>6, <1>13
    <2>2. t = Put(s, p, w, o, e)
      BY <1>5, <1>13
    <2>3. s.block[o] = d /\ s.tags[p].m_data = o
      BY DEF l
    <2> HIDE DEF o, w, d
    <2>4. d.size \in Nat /\ d.count \in Nat /\ d.dirty \in Nat /\ d.items \in Seq(Tagged)
      BY <2>1 DEF Blocks
    <2>5. Len(d.items) \in Nat /\ l.m_used <= Len(d.items)
      BY <2>1, <2>4 DEF Sane
    <2>6. n <= d.size /\ (d.count = 1 \/ d.dirty = l.m_used)
      BY <1>1, <1>7, <1>13, <2>4
    <2>7. PICK r : r = Overwritten(d.items, n, stored)
      OBVIOUS
    <2>8. /\ r \in Seq(Tagged) /\ Len(r) >= n /\ r[n] = stored
          /\ \A k \in 1..l.m_used : r[k] = d.items[k]
      <3>1. n <= Len(d.items) + 1
        BY <1>1, <1>10, <2>5
      <3>2. d.items \in Seq(Tagged) /\ n \in Nat /\ n >= 1 /\ stored \in Tagged
        BY <1>1, <1>2, <2>4
      <3>3. r \in Seq(Tagged) /\ Len(r) >= n /\ r[n] = stored
        <4>1. /\ Overwritten(d.items, n, stored) \in Seq(Tagged)
              /\ Len(Overwritten(d.items, n, stored)) >= n
              /\ Overwritten(d.items, n, stored)[n] = stored
          BY <3>1, <3>2, OverwrittenIs
        <4> QED
          BY <2>7, <4>1
      <3>4. ASSUME NEW k \in 1..l.m_used
            PROVE  r[k] = d.items[k]
        <4>1. k \in 1..Len(d.items) /\ k < n
          BY <1>1, <1>10, <2>5
        <4> QED
          BY <2>7, <3>2, <4>1, OverwrittenKeeps
      <3> QED
        BY <3>3, <3>4
    <2>9. Len(r) \in Nat
      BY <2>8
    <2>10. /\ e \in Blocks /\ e.size = d.size /\ e.count = d.count /\ e.dirty = n
           /\ e.items = r
      <3>1. e = Marked(BlockOf(d.size, d.count, d.dirty, r), n)
        BY <2>7
      <3> HIDE DEF e
      <3> QED
        BY <1>1, <2>4, <2>8, <3>1 DEF Blocks, BlockOf, Marked
    <2> HIDE DEF e
    <2>11. \A i \in 1..n : e.items[i] = Append(old, stored)[i]
      <3> SUFFICES ASSUME NEW i \in 1..n
                   PROVE  e.items[i] = Append(old, stored)[i]
        OBVIOUS
      <3>1. CASE i = n
        BY <1>8, <2>8, <2>10, <3>1
      <3>2. CASE i # n
        <4>1. i \in 1..l.m_used
          BY <1>9, <3>2
        <4> QED
          BY <1>4, <1>8, <2>8, <2>10, <4>1 DEF d
      <3> QED
        BY <3>1, <3>2
    <2>12. /\ w \in Lists /\ w.m_data = o /\ w.m_used = n
           /\ w.m_adjustment = l.m_adjustment
           /\ \A i \in 1..n : /\ w.m_minStart <= e.items[i].start
                              /\ e.items[i].end <= w.m_maxEnd
      BY <1>11, <2>1, <2>11 DEF w
    <2>13. Sane(w, e)
      <3>1. w.m_used <= e.size /\ w.m_used <= e.dirty /\ w.m_used <= Len(e.items)
        BY <1>1, <2>6, <2>8, <2>10, <2>12
      <3> QED
        BY <2>12, <3>1 DEF Sane
    <2>14. \A m \in Refs(s, o) \ {p} : Serves(s.block[o], e, s.tags[m])
      <3> SUFFICES ASSUME NEW m \in Refs(s, o) \ {p}
                   PROVE  Serves(s.block[o], e, s.tags[m])
        OBVIOUS
      <3>1. /\ m \in Names /\ s.tags[m] # Gone /\ s.tags[m].m_data = o /\ o # Null
        BY <1>13 DEF Refs, o
      <3>2. Sane(s.tags[m], d) /\ s.tags[m].m_used \in Nat
        BY <2>3, <3>1, Held
      <3>3. d.count # 1
        BY <2>1, <2>3, Nobody
      <3>4. s.tags[m].m_used <= n - 1 /\ s.tags[m].m_used <= d.size
        <4>1. s.tags[m].m_used <= d.dirty /\ s.tags[m].m_used <= d.size
          BY <3>2 DEF Sane
        <4> QED
          BY <1>10, <2>6, <3>3, <4>1
      <3>5. \A i \in 1..s.tags[m].m_used : i \in 1..l.m_used
        BY <1>1, <1>10, <3>2, <3>4
      <3>6. s.tags[m].m_used <= n /\ s.tags[m].m_used <= Len(r)
        BY <1>1, <2>8, <2>9, <3>2, <3>4
      <3>7. \A i \in 1..s.tags[m].m_used : e.items[i] = s.block[o].items[i]
        BY <2>3, <2>8, <2>10, <3>5
      <3>8. /\ s.tags[m].m_used <= e.size /\ s.tags[m].m_used <= e.dirty
            /\ s.tags[m].m_used <= Len(e.items)
        BY <2>10, <3>4, <3>6
      <3> QED
        BY <3>7, <3>8 DEF Serves
    <2>15. Good(t) /\ Rest(s, t, {p}) /\ t.tags[p] = w /\ t.block[o] = e
      <3>1. /\ e.count = s.block[o].count /\ s.tags[p].m_data = o
            /\ w \in Lists /\ w.m_data = o /\ e \in Blocks /\ o \in Address
        BY <2>1, <2>3, <2>10, <2>12
      <3> QED
        BY <2>2, <2>13, <2>14, <3>1, InPlace
    <2>16. Done(t, w, e)
      BY <2>10, <2>11, <2>12, <2>15
    <2> QED
      BY <2>16
  <1>14. PICK w, e : Done(t, w, e)
    BY <1>12, <1>13
  <1>15. Good(t) /\ t.tags[p] = w /\ w # Gone /\ w.m_used = n
    BY <1>14 DEF GoneIsNothing
  <1>16. /\ Items(t, p) \in Seq(Tagged) /\ Len(Items(t, p)) = n
         /\ \A i \in 1..n : Items(t, p)[i] = e.items[i]
    BY <1>14, <1>15, ItemsAre
  <1>17. \A i \in 1..n : Items(t, p)[i] = Append(old, stored)[i]
    BY <1>14, <1>16
  <1>18. Items(t, p) = Append(old, stored)
    BY <1>8, <1>16, <1>17
  <1> QED
    BY <1>14, <1>15, <1>18 DEF stored, old, l

-----------------------------------------------------------------------------
(* The tags that items, moved by d, put on byte b; what a list shows there. *)
TagsAt(items, d, b) ==
  {x \in Tag : \E i \in DOMAIN items : /\ items[i].tag = x
                                       /\ items[i].start + d < b
                                       /\ b <= items[i].end + d}
Shows(s, p, b) == TagsAt(Items(s, p), s.tags[p].m_adjustment, b)

(* An item more shows its tag on its bytes. *)
LEMMA AddedShows ==
  ASSUME GoneIsNothing, NEW s, Good(s), NEW p \in Names, s.tags[p] # Gone,
         NEW item \in Tagged, NEW slack \in Nat, NEW t, t = Added(s, p, item, slack),
         NEW b \in Int
  PROVE  Shows(t, p, b) = Shows(s, p, b) \cup
           {x \in Tag : x = item.tag /\ item.start < b /\ b <= item.end}
  <1> DEFINE old == Items(s, p)
             d == s.tags[p].m_adjustment
             k == s.tags[p].m_used
             new == Shift(item, -d)
             q == Append(old, new)
  <1>1. Items(t, p) = q /\ t.tags[p].m_adjustment = d
    BY AddedIsGood
  <1>2. d \in Int /\ k \in Nat
    BY Held DEF Lists
  <1>3. /\ old \in Seq(Tagged) /\ DOMAIN old = 1..k /\ Len(old) = k
        /\ \A i \in 1..k : old[i] \in Tagged
    BY ItemsAre
  <1> HIDE DEF d, k, old
  <1>4. /\ new \in Tagged /\ new.tag = item.tag
        /\ new.start + d = item.start /\ new.end + d = item.end
    <2>1. -d \in Int /\ item.start \in Int /\ item.end \in Int
      BY <1>2 DEF Tagged
    <2>2. /\ new \in Tagged /\ new.tag = item.tag
          /\ new.start = item.start + (-d) /\ new.end = item.end + (-d)
      BY <2>1, ShiftIs
    <2> QED
      BY <1>2, <2>1, <2>2
  <1> HIDE DEF new
  <1>5. /\ q \in Seq(Tagged) /\ Len(q) = k + 1 /\ q[k + 1] = new
        /\ \A i \in 1..k : q[i] = old[i]
    BY <1>2, <1>3, <1>4, AppendProperties
  <1>6. DOMAIN q = 1..(k + 1)
    BY <1>5
  <1> HIDE DEF q
  <1>7. \A i : i \in 1..(k + 1) <=> i \in 1..k \/ i = k + 1
    BY <1>2
  <1>8. Shows(t, p, b) = TagsAt(q, d, b) /\ Shows(s, p, b) = TagsAt(old, d, b)
    BY <1>1 DEF Shows, old, d
  <1>9. ASSUME NEW x \in Tag
        PROVE  x \in TagsAt(q, d, b) <=>
                 \/ x \in TagsAt(old, d, b)
                 \/ x = item.tag /\ item.start < b /\ b <= item.end
    <2>1. x \in TagsAt(q, d, b) <=>
            \E i \in 1..(k + 1) : q[i].tag = x /\ q[i].start + d < b /\ b <= q[i].end + d
      BY <1>6 DEF TagsAt
    <2>2. x \in TagsAt(old, d, b) <=>
            \E i \in 1..k : old[i].tag = x /\ old[i].start + d < b /\ b <= old[i].end + d
      BY <1>3 DEF TagsAt
    <2>3. ASSUME x \in TagsAt(q, d, b)
          PROVE  \/ x \in TagsAt(old, d, b)
                 \/ x = item.tag /\ item.start < b /\ b <= item.end
      <3>1. PICK i \in 1..(k + 1) :
              q[i].tag = x /\ q[i].start + d < b /\ b <= q[i].end + d
        BY <2>1, <2>3
      <3>2. CASE i \in 1..k
        BY <1>5, <2>2, <3>1, <3>2
      <3>3. CASE i = k + 1
        BY <1>4, <1>5, <3>1, <3>3
      <3> QED
        BY <1>7, <3>2, <3>3
    <2>4. ASSUME x \in TagsAt(old, d, b)
          PROVE  x \in TagsAt(q, d, b)
      <3>1. PICK i \in 1..k :
              old[i].tag = x /\ old[i].start + d < b /\ b <= old[i].end + d
        BY <2>2, <2>4
      <3>2. i \in 1..(k + 1) /\ q[i] = old[i]
        BY <1>5, <1>7
      <3> QED
        BY <2>1, <3>1, <3>2
    <2>5. ASSUME x = item.tag /\ item.start < b /\ b <= item.end
          PROVE  x \in TagsAt(q, d, b)
      <3>1. k + 1 \in 1..(k + 1)
        BY <1>7
      <3>2. q[k + 1].tag = x /\ q[k + 1].start + d < b /\ b <= q[k + 1].end + d
        BY <1>4, <1>5, <2>5
      <3> QED
        BY <2>1, <3>1, <3>2
    <2> QED
      BY <2>3, <2>4, <2>5
  <1>10. TagsAt(q, d, b) \subseteq Tag /\ TagsAt(old, d, b) \subseteq Tag
    BY DEF TagsAt
  <1> QED
    BY <1>8, <1>9, <1>10

LEMMA AddedKeeps ==
  ASSUME GoneIsNothing, NEW s, Good(s), NEW p \in Names, s.tags[p] # Gone,
         NEW item \in Tagged, NEW slack \in Nat
  PROVE  /\ Good(Added(s, p, item, slack)) /\ Rest(s, Added(s, p, item, slack), {p})
         /\ Added(s, p, item, slack).tags[p] # Gone
         /\ Added(s, p, item, slack).tags[p].m_adjustment = s.tags[p].m_adjustment
  <1>1. PICK t : t = Added(s, p, item, slack)
    OBVIOUS
  <1>2. /\ Good(t) /\ Rest(s, t, {p}) /\ t.tags[p] # Gone
        /\ t.tags[p].m_adjustment = s.tags[p].m_adjustment
    BY <1>1, AddedIsGood
  <1> QED
    BY <1>1, <1>2

-----------------------------------------------------------------------------
(* A set of numbers up to k has a largest. *)
LEMMA Largest ==
  ASSUME NEW k \in Nat, NEW S \in SUBSET (0..k), S # {}
  PROVE  Max(S) \in S /\ \A n \in S : n <= Max(S)
  <1> DEFINE T == {j \in Nat : k - j \in S}
  <1>1. PICK x \in S : TRUE
    OBVIOUS
  <1>2. k - x \in Nat /\ k - (k - x) = x
    OBVIOUS
  <1>3. T # {}
    BY <1>2
  <1>4. PICK j \in T : \A i \in T : j <= i
    BY <1>3, Least
  <1>5. k - j \in S /\ j \in Nat
    BY <1>4
  <1>6. ASSUME NEW n \in S PROVE k - j >= n
    <2>1. k - n \in Nat /\ k - (k - n) = n /\ n \in Nat
      OBVIOUS
    <2>2. k - n \in T
      BY <2>1
    <2>3. j <= k - n /\ j \in Nat
      BY <1>4, <2>2
    <2> QED
      BY <1>5, <2>1, <2>3
  <1>7. \E m \in S : \A n \in S : m >= n
    BY <1>5, <1>6
  <1>8. Max(S) \in S /\ \A n \in S : Max(S) >= n
    BY <1>7 DEF Max
  <1>9. \A n \in S : n \in Int
    OBVIOUS
  <1> QED
    BY <1>8, <1>9

(* From s to t only p's list has changed, and it is still there. *)
Kept(s, t, p) == Good(t) /\ Rest(s, t, {p}) /\ t.tags[p] # Gone

(* One call after the other: the store after n of them. *)
OneMore(s, p, items, slack, n) ==
  IF n \in DOMAIN items THEN Added(s, p, items[n], slack) ELSE s
IsRun(f, s, p, items, slack) ==
  f = [n \in Nat |-> IF n = 0 THEN s
                     ELSE IF n \in DOMAIN items
                     THEN Added(f[n - 1], p, items[n], slack)
                     ELSE f[n - 1]]

LEMMA OneMoreIsGood ==
  ASSUME GoneIsNothing, NEW u, Good(u), NEW p \in Names, u.tags[p] # Gone,
         NEW items, NEW n \in DOMAIN items, items[n] \in Tagged, NEW slack \in Nat
  PROVE  /\ Good(OneMore(u, p, items, slack, n))
         /\ Rest(u, OneMore(u, p, items, slack, n), {p})
         /\ OneMore(u, p, items, slack, n).tags[p] # Gone
         /\ OneMore(u, p, items, slack, n).tags[p].m_adjustment = u.tags[p].m_adjustment
  <1>1. PICK i \in Tagged : i = items[n]
    OBVIOUS
  <1>2. OneMore(u, p, items, slack, n) = Added(u, p, i, slack)
    BY <1>1 DEF OneMore
  <1>3. /\ Good(Added(u, p, i, slack)) /\ Rest(u, Added(u, p, i, slack), {p})
    BY AddedKeeps
  <1>4. Added(u, p, i, slack).tags[p] # Gone
    BY AddedKeeps
  <1>5. Added(u, p, i, slack).tags[p].m_adjustment = u.tags[p].m_adjustment
    BY AddedKeeps
  <1> QED
    BY <1>2, <1>3, <1>4, <1>5

LEMMA AddedAllIs ==
  ASSUME NEW s, NEW p, NEW items, NEW slack
  PROVE  AddedAll(s, p, items, slack) =
           (CHOOSE f : IsRun(f, s, p, items, slack))[Max(DOMAIN items \cup {0})]
  <1>1. AddedAll(s, p, items, slack) =
          (CHOOSE f : f = [n \in Nat |-> IF n = 0 THEN s
                                         ELSE IF n \in DOMAIN items
                                         THEN Added(f[n - 1], p, items[n], slack)
                                         ELSE f[n - 1]])[Max(DOMAIN items \cup {0})]
    BY Zenon DEF AddedAll
  <1> QED
    BY <1>1, Zenon DEF IsRun

LEMMA RunExists ==
  ASSUME NEW s, NEW p, NEW items, NEW slack
  PROVE  \E f : IsRun(f, s, p, items, slack)
  <1> DEFINE More(t, n) == OneMore(t, p, items, slack, n)
             Part(f, k) == /\ f[0] = s
                           /\ \A n \in 0..k : n # 0 => f[n] = More(f[n - 1], n)
             P == {k \in Nat : \E f : Part(f, k)}
  <1> HIDE DEF More
  <1>1. 0 \in P
    <2>1. PICK f : f = [n \in 0..0 |-> s]
      OBVIOUS
    <2>2. Part(f, 0)
      BY <2>1
    <2> QED
      BY <2>2
  <1>2. ASSUME NEW k \in P PROVE k + 1 \in P
    <2>1. PICK f : Part(f, k)
      OBVIOUS
    <2>2. PICK g : g = [n \in 0..(k + 1) |-> IF n = k + 1 THEN More(f[k], k + 1) ELSE f[n]]
      OBVIOUS
    <2>3. g[0] = s
      BY <2>1, <2>2
    <2>4. ASSUME NEW n \in 0..(k + 1), n # 0
          PROVE  g[n] = More(g[n - 1], n)
      <3>1. n - 1 \in 0..(k + 1) /\ n - 1 # k + 1 /\ k \in Nat
        BY <2>4
      <3>2. g[n - 1] = f[n - 1]
        BY <2>2, <3>1
      <3>3. CASE n = k + 1
        <4>1. n - 1 = k /\ g[n] = More(f[k], k + 1)
          BY <2>2, <3>1, <3>3
        <4> QED
          BY <3>2, <3>3, <4>1
      <3>4. CASE n # k + 1
        <4>1. n \in 0..k /\ g[n] = f[n]
          BY <2>2, <3>1, <3>4
        <4> QED
          BY <2>1, <2>4, <3>2, <4>1
      <3> QED
        BY <3>3, <3>4
    <2>5. Part(g, k + 1)
      BY <2>3, <2>4
    <2> HIDE DEF Part
    <2> QED
      BY <2>5
  <1>3. P = Nat
    <2> HIDE DEF P
    <2>1. P \in SUBSET Nat
      BY DEF P
    <2> QED
      BY <1>1, <1>2, <2>1, Induction
  <1>4. ASSUME NEW k \in Nat, NEW m \in Nat, NEW f, NEW g, Part(f, k), Part(g, m), NEW n \in Nat
        PROVE  n <= k /\ n <= m => f[n] = g[n]
    <2> DEFINE Q == {i \in Nat : i <= k /\ i <= m => f[i] = g[i]}
    <2>1. 0 \in Q
      BY <1>4
    <2>2. ASSUME NEW i \in Q PROVE i + 1 \in Q
      <3> SUFFICES ASSUME i + 1 <= k, i + 1 <= m PROVE f[i + 1] = g[i + 1]
        OBVIOUS
      <3>1. PICK j \in Nat : j = i + 1
        OBVIOUS
      <3>2. j \in 0..k /\ j \in 0..m /\ j # 0 /\ j - 1 = i /\ i <= k /\ i <= m
        BY <3>1
      <3>3. f[i] = g[i]
        BY <3>2
      <3>4. f[j] = More(f[j - 1], j) /\ g[j] = More(g[j - 1], j)
        BY <1>4, <3>2
      <3> QED
        BY <3>1, <3>2, <3>3, <3>4
    <2>3. Q \in SUBSET Nat
      OBVIOUS
    <2>4. Q = Nat
      <3> HIDE DEF Q
      <3> QED
        BY <2>1, <2>2, <2>3, Induction
    <2> QED
      BY <2>4
  <1> DEFINE H(k) == CHOOSE f : Part(f, k)
  <1>5. ASSUME NEW k \in Nat PROVE Part(H(k), k)
    <2>1. \E f : Part(f, k)
      BY <1>3
    <2> HIDE DEF Part
    <2> QED
      BY <2>1
  <1>6. PICK F : F = [n \in Nat |-> H(n)[n]]
    OBVIOUS
  <1> HIDE DEF H
  <1>7. F[0] = s
    BY <1>5, <1>6
  <1>8. ASSUME NEW n \in Nat, n # 0
        PROVE  F[n] = More(F[n - 1], n)
    <2>1. n - 1 \in Nat /\ n \in 0..n /\ n - 1 <= n /\ n - 1 <= n - 1
      BY <1>8
    <2>2. F[n] = H(n)[n] /\ F[n - 1] = H(n - 1)[n - 1]
      BY <1>6, <2>1
    <2>3. H(n)[n] = More(H(n)[n - 1], n)
      BY <1>5, <1>8, <2>1
    <2>4. H(n)[n - 1] = H(n - 1)[n - 1]
      <3>1. Part(H(n), n) /\ Part(H(n - 1), n - 1)
        BY <1>5, <2>1
      <3> HIDE DEF Part
      <3> QED
        BY <1>4, <2>1, <3>1
    <2> QED
      BY <2>2, <2>3, <2>4
  <1>9. \A n \in Nat : F[n] = IF n = 0 THEN s
                              ELSE IF n \in DOMAIN items
                              THEN Added(F[n - 1], p, items[n], slack)
                              ELSE F[n - 1]
    BY <1>7, <1>8 DEF More, OneMore
  <1>10. F = [n \in Nat |-> IF n = 0 THEN s
                            ELSE IF n \in DOMAIN items
                            THEN Added(F[n - 1], p, items[n], slack)
                            ELSE F[n - 1]]
    BY <1>6, <1>9
  <1> QED
    BY <1>10 DEF IsRun

(* Items in their places, of which some may be empty *)
Placed(items) ==
  \E k \in Nat : /\ DOMAIN items \subseteq 1..k
                 /\ \A n \in DOMAIN items : items[n] \in Tagged

(* Adding items shows their tags as well. *)
LEMMA AddedAllIsGood ==
  ASSUME GoneIsNothing, NEW s, Good(s), NEW p \in Names, s.tags[p] # Gone,
         NEW items, Placed(items), NEW slack \in Nat, NEW t, t = AddedAll(s, p, items, slack)
  PROVE  /\ Good(t) /\ Rest(s, t, {p}) /\ t.tags[p] # Gone
         /\ t.tags[p].m_adjustment = s.tags[p].m_adjustment
         /\ \A b \in Int : Shows(t, p, b) = Shows(s, p, b) \cup TagsAt(items, 0, b)
  <1> DEFINE m == Max(DOMAIN items \cup {0})
             Upto(n, b) == {x \in Tag : \E i \in DOMAIN items :
                              /\ i <= n /\ items[i].tag = x
                              /\ items[i].start < b /\ b <= items[i].end}
             Fine(u, n) ==
               /\ Good(u) /\ Rest(s, u, {p}) /\ u.tags[p] # Gone
               /\ u.tags[p].m_adjustment = s.tags[p].m_adjustment
               /\ \A b \in Int : Shows(u, p, b) = Shows(s, p, b) \cup Upto(n, b)
  <1>0. PICK k \in Nat : /\ DOMAIN items \subseteq 1..k
                         /\ \A n \in DOMAIN items : items[n] \in Tagged
    BY DEF Placed
  <1>1. PICK f : IsRun(f, s, p, items, slack) /\ t = f[m]
    <2> DEFINE g == CHOOSE f : IsRun(f, s, p, items, slack)
    <2>1. IsRun(g, s, p, items, slack)
      BY RunExists, Zenon
    <2>2. t = g[m]
      BY AddedAllIs, Zenon
    <2> HIDE DEF g
    <2> QED
      BY <2>1, <2>2
  <1>2. /\ f[0] = s
        /\ \A n \in Nat : n # 0 => f[n] = OneMore(f[n - 1], p, items, slack, n)
    BY <1>1 DEF IsRun, OneMore
  <1>3. m \in Nat /\ \A i \in DOMAIN items : i <= m
    <2>1. DOMAIN items \cup {0} \in SUBSET (0..k) /\ DOMAIN items \cup {0} # {}
      BY <1>0
    <2>2. m \in DOMAIN items \cup {0} /\ \A i \in DOMAIN items \cup {0} : i <= m
      BY <2>1, Largest
    <2> QED
      BY <2>1, <2>2
  <1> HIDE DEF m
  <1> DEFINE P == {n \in Nat : Fine(f[n], n)}
  <1>4. 0 \in P
    <2>1. \A b \in Int : Upto(0, b) = {}
      BY <1>0
    <2> HIDE DEF Upto
    <2>2. Fine(s, 0)
      BY <2>1 DEF Rest
    <2> QED
      BY <1>2, <2>2
  <1>5. ASSUME NEW n \in P PROVE n + 1 \in P
    <2>1. PICK j \in Nat : j = n + 1 /\ j # 0 /\ j - 1 = n
      OBVIOUS
    <2>2. PICK u : u = f[n]
      OBVIOUS
    <2>3. Fine(u, n)
      BY <2>2
    <2>4. PICK v : v = f[j] /\ v = OneMore(u, p, items, slack, j)
      BY <1>2, <2>1, <2>2
    <2>5. CASE j \notin DOMAIN items
      <3>1. v = u
        BY <2>4, <2>5 DEF OneMore
      <3>2. \A b \in Int : Upto(j, b) = Upto(n, b)
        <4>1. \A i \in DOMAIN items : i <= j <=> i <= n
          BY <1>0, <2>1, <2>5
        <4> QED
          BY <4>1
      <3> HIDE DEF Upto
      <3>3. Fine(v, j)
        BY <2>3, <3>1, <3>2
      <3> QED
        BY <2>1, <2>4, <3>3
    <2>6. CASE j \in DOMAIN items
      <3>1. PICK item \in Tagged : item = items[j]
        BY <1>0, <2>6
      <3>2. v = Added(u, p, item, slack)
        BY <2>4, <2>6, <3>1 DEF OneMore
      <3>3. /\ Good(v) /\ Rest(u, v, {p}) /\ v.tags[p] # Gone
            /\ v.tags[p].m_adjustment = u.tags[p].m_adjustment
        <4>1. Good(u) /\ u.tags[p] # Gone
          BY <2>3
        <4>2. j \in DOMAIN items /\ items[j] \in Tagged
          BY <1>0, <2>6
        <4> QED
          BY <2>4, <4>1, <4>2, OneMoreIsGood
      <3>4. \A b \in Int : Shows(v, p, b) = Shows(u, p, b) \cup
                {x \in Tag : x = item.tag /\ item.start < b /\ b <= item.end}
        BY <2>3, <3>2, AddedShows
      <3>5. \A b \in Int : Upto(j, b) = Upto(n, b) \cup
                {x \in Tag : x = item.tag /\ item.start < b /\ b <= item.end}
        <4>1. \A i \in DOMAIN items : i <= j <=> i <= n \/ i = j
          BY <1>0, <2>1
        <4> QED
          BY <2>6, <3>1, <4>1
      <3> HIDE DEF Upto
      <3>6. \A b \in Int : Shows(v, p, b) = Shows(s, p, b) \cup Upto(j, b)
        BY <2>3, <3>4, <3>5
      <3>7. Rest(s, v, {p})
        BY <2>3, <3>3 DEF Rest
      <3>8. Fine(v, j)
        BY <2>3, <3>3, <3>6, <3>7
      <3> QED
        BY <2>1, <2>4, <3>8
    <2> QED
      BY <2>5, <2>6
  <1>6. P = Nat
    <2> HIDE DEF P
    <2>1. P \in SUBSET Nat
      BY DEF P
    <2> QED
      BY <1>4, <1>5, <2>1, Induction
  <1>7. Fine(t, m)
    BY <1>1, <1>3, <1>6
  <1>8. \A b \in Int : Upto(m, b) = TagsAt(items, 0, b)
    <2>1. \A i \in DOMAIN items : items[i].start \in Int /\ items[i].end \in Int
      BY <1>0 DEF Tagged
    <2>2. ASSUME NEW b \in Int, NEW x \in Tag
          PROVE  x \in Upto(m, b) <=> x \in TagsAt(items, 0, b)
      <3>1. \A i \in DOMAIN items :
              i <= m /\ items[i].start + 0 = items[i].start /\ items[i].end + 0 = items[i].end
        BY <1>3, <2>1
      <3> QED
        BY <3>1 DEF TagsAt
    <2>3. \A b \in Int : Upto(m, b) \subseteq Tag /\ TagsAt(items, 0, b) \subseteq Tag
      BY DEF TagsAt
    <2> HIDE DEF Upto
    <2> QED
      BY <2>2, <2>3
  <1> HIDE DEF Upto
  <1> QED
    BY <1>7, <1>8

LEMMA AddedAllKeeps ==
  ASSUME GoneIsNothing, NEW s, Good(s), NEW p \in Names, s.tags[p] # Gone,
         NEW items, Placed(items), NEW slack \in Nat
  PROVE  /\ Kept(s, AddedAll(s, p, items, slack), p)
         /\ \A b \in Int : Shows(AddedAll(s, p, items, slack), p, b)
                            = Shows(s, p, b) \cup TagsAt(items, 0, b)
  <1>1. PICK t : t = AddedAll(s, p, items, slack)
    OBVIOUS
  <1>2. /\ Good(t) /\ Rest(s, t, {p}) /\ t.tags[p] # Gone
        /\ \A b \in Int : Shows(t, p, b) = Shows(s, p, b) \cup TagsAt(items, 0, b)
    BY <1>1, AddedAllIsGood
  <1>3. Kept(s, t, p)
    BY <1>2 DEF Kept
  <1> QED
    BY <1>1, <1>2, <1>3

-----------------------------------------------------------------------------
LEMMA RestShows ==
  ASSUME NEW s, NEW t, NEW P, Rest(s, t, P), NEW p \in Names \ P, s.tags[p] # Gone, NEW b
  PROVE  Shows(t, p, b) = Shows(s, p, b)
  BY DEF Rest, Shows

(* What an iterator stops at shows what the list shows between its two     *)
(* offsets, and nothing elsewhere.                                         *)
LEMMA BeginIs ==
  ASSUME GoneIsNothing, NEW s, Good(s), NEW p \in Names, s.tags[p] # Gone,
         NEW from \in Int, NEW to \in Int, NEW f, f = Begin(s, p, from, to)
  PROVE  /\ Placed(f)
         /\ \A b \in Int : TagsAt(f, 0, b) = IF from < b /\ b <= to THEN Shows(s, p, b) ELSE {}
  <1> DEFINE all == Items(s, p)
             d == s.tags[p].m_adjustment
             k == s.tags[p].m_used
             D == {m \in DOMAIN all : all[m].start + d < to /\ all[m].end + d > from}
  <1>1. d \in Int /\ k \in Nat
    BY Held DEF Lists
  <1>2. DOMAIN all = 1..k /\ \A i \in 1..k : all[i] \in Tagged
    BY ItemsAre
  <1>3. f = [n \in D |-> Cut(Shift(all[n], d), from, to)]
    BY Zenon DEF Begin
  <1>4. \A b : Shows(s, p, b) = TagsAt(all, d, b)
    BY DEF Shows
  <1> HIDE DEF all, d, k
  <1>5. ASSUME NEW n \in D
        PROVE  /\ f[n] \in Tagged /\ f[n].tag = all[n].tag
               /\ \A b \in Int : f[n].start + 0 < b <=> all[n].start + d < b /\ from < b
               /\ \A b \in Int : b <= f[n].end + 0 <=> b <= all[n].end + d /\ b <= to
    <2>1. all[n] \in Tagged
      BY <1>2
    <2>2. PICK i \in Tagged : i = Shift(all[n], d) /\ i.tag = all[n].tag
                              /\ i.start = all[n].start + d /\ i.end = all[n].end + d
      BY <1>1, <2>1, ShiftIs
    <2>3. i.start \in Int /\ i.end \in Int /\ i.tag \in Tag
      BY DEF Tagged
    <2>4. PICK lo \in Int : lo = Max({i.start, from})
                            /\ (\A b \in Int : lo < b <=> i.start < b /\ from < b)
      <3>1. Max({i.start, from}) = IF i.start >= from THEN i.start ELSE from
        BY <2>3, Larger
      <3> QED
        BY <2>3, <3>1
    <2>5. PICK hi \in Int : hi = Min({i.end, to})
                            /\ (\A b \in Int : b <= hi <=> b <= i.end /\ b <= to)
      <3>1. Min({i.end, to}) = IF i.end <= to THEN i.end ELSE to
        BY <2>3, Smaller
      <3> QED
        BY <2>3, <3>1
    <2>6. f[n] = Cut(i, from, to)
      BY <1>3, <2>2
    <2>7. f[n] = [tag |-> i.tag, start |-> lo, end |-> hi]
      BY <2>4, <2>5, <2>6, Zenon DEF Cut
    <2>8. /\ f[n] \in Tagged /\ f[n].tag = i.tag /\ f[n].start = lo /\ f[n].end = hi
      BY <2>3, <2>7 DEF Tagged
    <2>9. lo + 0 = lo /\ hi + 0 = hi
      OBVIOUS
    <2> QED
      BY <2>2, <2>4, <2>5, <2>8, <2>9
  <1>6. DOMAIN f = D
    BY <1>3
  <1>7. ASSUME NEW b \in Int
        PROVE  TagsAt(f, 0, b) = IF from < b /\ b <= to THEN Shows(s, p, b) ELSE {}
    <2>1. ASSUME NEW x \in Tag
          PROVE  x \in TagsAt(f, 0, b) <=> from < b /\ b <= to /\ x \in TagsAt(all, d, b)
      <3>1. ASSUME x \in TagsAt(f, 0, b)
            PROVE  from < b /\ b <= to /\ x \in TagsAt(all, d, b)
        <4>1. PICK n \in D : f[n].tag = x /\ f[n].start + 0 < b /\ b <= f[n].end + 0
          BY <1>6, <3>1, Zenon DEF TagsAt
        <4>2. /\ from < b /\ b <= to
              /\ all[n].tag = x /\ all[n].start + d < b /\ b <= all[n].end + d
          BY <1>5, <4>1
        <4> QED
          BY <4>2 DEF TagsAt
      <3>2. ASSUME from < b, b <= to, x \in TagsAt(all, d, b)
            PROVE  x \in TagsAt(f, 0, b)
        <4>1. PICK n \in 1..k : all[n].tag = x /\ all[n].start + d < b /\ b <= all[n].end + d
          BY <1>2, <3>2 DEF TagsAt
        <4>2. /\ all[n].start + d \in Int /\ all[n].end + d \in Int
          BY <1>1, <1>2 DEF Tagged
        <4>3. n \in D
          BY <1>2, <3>2, <4>1, <4>2
        <4>4. f[n].tag = x /\ f[n].start + 0 < b /\ b <= f[n].end + 0
          BY <1>5, <3>2, <4>1, <4>3
        <4> QED
          BY <1>6, <4>3, <4>4, Zenon DEF TagsAt
      <3> QED
        BY <3>1, <3>2
    <2>2. TagsAt(f, 0, b) \subseteq Tag /\ TagsAt(all, d, b) \subseteq Tag
      BY DEF TagsAt
    <2> QED
      BY <1>4, <2>1, <2>2
  <1>8. Placed(f)
    BY <1>1, <1>2, <1>5, <1>6 DEF Placed
  <1> QED
    BY <1>7, <1>8

(* Rebuilt: p shows the tags of the items, and nothing else. *)
LEMMA RebuiltIsGood ==
  ASSUME GoneIsNothing, NEW s, Good(s), NEW p \in Names, s.tags[p] # Gone,
         p # "list", s.tags["list"] = Gone,
         NEW items, Placed(items), NEW slack \in Nat, NEW v, v = Rebuilt(s, p, items, slack)
  PROVE  Kept(s, v, p) /\ \A b \in Int : Shows(v, p, b) = TagsAt(items, 0, b)
  <1> DEFINE s1 == WithList(LetGo(s, "list"), "list", EmptyList)
             t == AddedAll(s1, "list", items, slack)
             u == Assigned(t, p, "list")
  <1>1. "list" \in Names
    BY DEF Names, Temporary
  <1>2. v = Destroyed(u, "list")
    <2>1. s1 = [s EXCEPT !.tags["list"] = EmptyList]
      BY DEF LetGo, WithList
    <2> HIDE DEF s1
    <2> QED
      BY <2>1, Zenon DEF Rebuilt
  <1>3. /\ Good(s1) /\ Rest(s, s1, {"list"}) /\ s1.tags["list"] = EmptyList
    BY <1>1, EmptyListIs, Unhooked
  <1> HIDE DEF s1
  <1>4. s1.tags["list"] # Gone
    BY <1>3, EmptyListIs
  <1>5. /\ Good(t) /\ Rest(s1, t, {"list"}) /\ t.tags["list"] # Gone
        /\ \A b \in Int : Shows(t, "list", b) = Shows(s1, "list", b) \cup TagsAt(items, 0, b)
    <2>1. Kept(s1, t, "list")
      BY <1>1, <1>3, <1>4, AddedAllKeeps
    <2>2. \A b \in Int : Shows(t, "list", b) = Shows(s1, "list", b) \cup TagsAt(items, 0, b)
      BY <1>1, <1>3, <1>4, AddedAllKeeps
    <2> QED
      BY <2>1, <2>2 DEF Kept
  <1>6. \A b \in Int : Shows(s1, "list", b) = {}
    <2>1. Items(s1, "list") = << >>
      BY <1>3, EmptyListIs DEF Items
    <2>2. DOMAIN << >> = {}
      OBVIOUS
    <2> QED
      BY <2>1, <2>2 DEF Shows, TagsAt
  <1> HIDE DEF t
  <1>7. /\ Good(u) /\ Rest(t, u, {p})
        /\ u.tags[p] = t.tags["list"] /\ Items(u, p) = Items(t, "list")
    BY <1>1, <1>5, AssignedIsGood
  <1>8. u.tags["list"] = t.tags["list"] /\ u.tags["list"] # Gone /\ u.tags[p] # Gone
    BY <1>1, <1>5, <1>7 DEF Rest
  <1>9. \A b \in Int : Shows(u, p, b) = TagsAt(items, 0, b)
    BY <1>5, <1>6, <1>7 DEF Shows
  <1> HIDE DEF u
  <1>10. /\ Good(v) /\ Rest(u, v, {"list"}) /\ v.tags["list"] = Gone
    BY <1>1, <1>2, <1>7, <1>8, DestroyedIsGood
  <1>11. v.tags[p] # Gone /\ \A b \in Int : Shows(v, p, b) = TagsAt(items, 0, b)
    <2>1. p \in Names \ {"list"}
      OBVIOUS
    <2>2. v.tags[p] = u.tags[p]
      BY <1>10, <2>1 DEF Rest
    <2>3. \A b : Shows(v, p, b) = Shows(u, p, b)
      BY <1>8, <1>10, <2>1, RestShows
    <2> QED
      BY <1>8, <1>9, <2>2, <2>3
  <1>12. Rest(s, v, {p})
    <2> SUFFICES ASSUME NEW n \in Names \ {p}
                 PROVE  /\ v.tags[n] = s.tags[n]
                        /\ s.tags[n] # Gone => Items(v, n) = Items(s, n)
      BY DEF Rest
    <2>1. CASE n = "list"
      BY <1>10, <2>1
    <2>2. CASE n # "list"
      BY <1>3, <1>5, <1>7, <1>10, <2>2 DEF Rest
    <2> QED
      BY <2>1, <2>2
  <1> QED
    BY <1>10, <1>11, <1>12 DEF Kept

(* AddAtEnd: nothing shows beyond the offset, and what is before it stays. *)
LEMMA AddAtEndIsGood ==
  ASSUME GoneIsNothing, NEW s, Good(s), NEW p \in Names, s.tags[p] # Gone,
         p # "list", s.tags["list"] = Gone,
         NEW offset \in Int, NEW slack \in Nat, NEW t, t = AddAtEnd(s, p, offset, slack)
  PROVE  /\ Kept(s, t, p)
         /\ \A b \in 1..offset : Shows(t, p, b) = Shows(s, p, b)
         /\ \A b \in Int : b > offset => Shows(t, p, b) = {}
  <1> DEFINE l == s.tags[p]
             k == l.m_used
             d == l.m_adjustment
  <1>1. d \in Int /\ k \in Nat /\ l.m_maxEnd \in Int
    BY Held DEF Lists
  <1>2. CASE l.m_maxEnd <= offset - d
    <2>1. t = s
      BY <1>2, Zenon DEF AddAtEnd
    <2>2. /\ DOMAIN Items(s, p) = 1..k
          /\ \A i \in 1..k : Items(s, p)[i] \in Tagged /\ Items(s, p)[i].end <= l.m_maxEnd
      BY ItemsAre
    <2> HIDE DEF l, d, k
    <2>3. \A i \in 1..k : Items(s, p)[i].end + d <= offset /\ Items(s, p)[i].end + d \in Int
      BY <1>1, <1>2, <2>2 DEF Tagged
    <2>4. \A b \in Int : b > offset => TagsAt(Items(s, p), d, b) = {}
      BY <2>2, <2>3 DEF TagsAt
    <2>5. \A b \in Int : b > offset => Shows(s, p, b) = {}
      BY <2>4 DEF Shows, l, d
    <2> QED
      BY <2>1, <2>5 DEF Kept, Rest
  <1>3. CASE ~(l.m_maxEnd <= offset - d)
    <2>1. PICK f : f = IF offset = 0 THEN << >> ELSE Begin(s, p, 0, offset)
      OBVIOUS
    <2>2. t = Rebuilt(s, p, f, slack)
      BY <1>3, <2>1, Zenon DEF AddAtEnd
    <2>3. /\ Placed(f)
          /\ \A b \in Int : TagsAt(f, 0, b) = IF 0 < b /\ b <= offset THEN Shows(s, p, b) ELSE {}
      <3>1. CASE offset = 0
        <4>1. f = << >> /\ DOMAIN f = {} /\ IsFiniteSet({})
          BY <2>1, <3>1, FS_EmptySet
        <4>2. Placed(f) /\ \A b \in Int : TagsAt(f, 0, b) = {}
          BY <4>1 DEF Placed, TagsAt
        <4> QED
          BY <3>1, <4>2
      <3>2. CASE offset # 0
        BY <2>1, <3>2, BeginIs
      <3> QED
        BY <3>1, <3>2
    <2> HIDE DEF k, l, d
    <2>4. Kept(s, t, p) /\ \A b \in Int : Shows(t, p, b) = TagsAt(f, 0, b)
      BY <1>1, <2>2, <2>3, RebuiltIsGood
    <2>5. \A b \in 1..offset : b \in Int /\ 0 < b /\ b <= offset
      OBVIOUS
    <2> QED
      BY <2>3, <2>4, <2>5
  <1> QED
    BY <1>2, <1>3

(* AddAtStart: nothing shows before the offset, and what is after it stays *)
(* as far as offsets go.                                                   *)
LEMMA AddAtStartIsGood ==
  ASSUME GoneIsNothing, NEW s, Good(s), NEW p \in Names, s.tags[p] # Gone,
         p # "list", s.tags["list"] = Gone,
         NEW offset \in Int, NEW slack \in Nat, NEW t, t = AddAtStart(s, p, offset, slack)
  PROVE  /\ Kept(s, t, p)
         /\ \A b \in Int : offset < b /\ b <= Infinity => Shows(t, p, b) = Shows(s, p, b)
         /\ \A b \in Int : b <= offset => Shows(t, p, b) = {}
  <1> DEFINE l == s.tags[p]
             k == l.m_used
             d == l.m_adjustment
  <1>1. d \in Int /\ k \in Nat /\ l.m_minStart \in Int /\ Infinity \in Int
    BY Held, ByteTagAssumption DEF Lists
  <1>2. CASE l.m_minStart >= offset - d
    <2>1. t = s
      BY <1>2, Zenon DEF AddAtStart
    <2>2. /\ DOMAIN Items(s, p) = 1..k
          /\ \A i \in 1..k : Items(s, p)[i] \in Tagged /\ l.m_minStart <= Items(s, p)[i].start
      BY ItemsAre
    <2> HIDE DEF l, d, k
    <2>3. \A i \in 1..k : Items(s, p)[i].start + d >= offset /\ Items(s, p)[i].start + d \in Int
      BY <1>1, <1>2, <2>2 DEF Tagged
    <2>4. \A b \in Int : b <= offset => TagsAt(Items(s, p), d, b) = {}
      BY <2>2, <2>3 DEF TagsAt
    <2>5. \A b \in Int : b <= offset => Shows(s, p, b) = {}
      BY <2>4 DEF Shows, l, d
    <2> QED
      BY <2>1, <2>5 DEF Kept, Rest
  <1>3. CASE ~(l.m_minStart >= offset - d)
    <2>1. PICK f : f = Begin(s, p, offset, Infinity)
      OBVIOUS
    <2>2. t = Rebuilt(s, p, f, slack)
      BY <1>3, <2>1, Zenon DEF AddAtStart
    <2>3. /\ Placed(f)
          /\ \A b \in Int : TagsAt(f, 0, b) = IF offset < b /\ b <= Infinity
                                              THEN Shows(s, p, b) ELSE {}
      BY <1>1, <2>1, BeginIs
    <2> HIDE DEF k, l, d
    <2>4. Kept(s, t, p) /\ \A b \in Int : Shows(t, p, b) = TagsAt(f, 0, b)
      BY <1>1, <2>2, <2>3, RebuiltIsGood
    <2>5. \A b \in Int : b <= offset => ~(offset < b)
      OBVIOUS
    <2> QED
      BY <2>3, <2>4, <2>5
  <1> QED
    BY <1>2, <1>3

(* Adjust moves what a list shows. *)
LEMMA AdjustShows ==
  ASSUME GoneIsNothing, NEW s, Good(s), NEW p \in Names, s.tags[p] # Gone,
         NEW d \in Int, NEW t, t = Adjust(s, p, d)
  PROVE  Kept(s, t, p) /\ \A b \in Int : Shows(t, p, b) = Shows(s, p, b - d)
  <1> DEFINE a == s.tags[p].m_adjustment
             k == s.tags[p].m_used
             all == Items(s, p)
  <1>1. /\ Good(t) /\ Rest(s, t, {p}) /\ t.tags[p] # Gone
        /\ Items(t, p) = Items(s, p) /\ t.tags[p].m_adjustment = a + d
    BY AdjustIsGood
  <1>2. a \in Int /\ DOMAIN all = 1..k /\ \A i \in 1..k : all[i] \in Tagged
    BY Held, ItemsAre DEF Lists
  <1>3. /\ \A b : Shows(t, p, b) = TagsAt(all, a + d, b)
        /\ \A b : Shows(s, p, b - d) = TagsAt(all, a, b - d)
    BY <1>1 DEF Shows
  <1> HIDE DEF a, k, all
  <1>4. ASSUME NEW b \in Int
        PROVE  TagsAt(all, a + d, b) = TagsAt(all, a, b - d)
    <2>1. \A i \in 1..k : /\ all[i].start + (a + d) < b <=> all[i].start + a < b - d
                          /\ b <= all[i].end + (a + d) <=> b - d <= all[i].end + a
      BY <1>2 DEF Tagged
    <2> QED
      BY <1>2, <2>1 DEF TagsAt
  <1> QED
    BY <1>1, <1>3, <1>4 DEF Kept

-----------------------------------------------------------------------------
(* Between two calls there are no local lists, and a packet that exists    *)
(* has a list.                                                             *)
IInv ==
  /\ Good(Store)
  /\ size \in [Packet -> (0..MaxLength) \cup {Gone}]
  /\ tags \in [Packet -> Lists \cup {Gone}]
  /\ \A p \in Packet : size[p] = Gone <=> tags[p] = Gone

(* What packet p of length n shows when the store is s. *)
Mark(n, s, p) == IF n = Gone THEN Gone ELSE [b \in 1..n |-> Shows(s, p, b)]

LEMMA ShownIs ==
  ASSUME GoneIsNothing, NEW s, Good(s), NEW p \in Names, s.tags[p] # Gone,
         NEW b, NEW items, items = Items(s, p), NEW d, d = s.tags[p].m_adjustment
  PROVE  {items[n].tag : n \in {m \in DOMAIN items :
             items[m].start + d < b /\ b <= items[m].end + d}} = Shows(s, p, b)
  <1>1. \A i \in DOMAIN items : items[i].tag \in Tag
    BY ItemsAre DEF Tagged
  <1> QED
    BY <1>1 DEF Shows, TagsAt

LEMMA StoreIs ==
  ASSUME NEW p \in Packet
  PROVE  /\ p \in Names /\ Store.tags[p] = tags[p] /\ (Store.tags[p])' = tags'[p]
         /\ Store.block = block /\ Store'.tags[p] = tags'[p]
  BY DEF Store, Names

LEMMA MarksAre ==
  ASSUME GoneIsNothing, IInv, NEW p \in Packet
  PROVE  Marks[p] = Mark(size[p], Store, p)
  <1>1. Good(Store) /\ p \in Names /\ Store.tags[p] = tags[p]
        /\ (size[p] = Gone <=> tags[p] = Gone)
    BY StoreIs DEF IInv
  <1>2. CASE size[p] = Gone
    BY <1>2 DEF Marks, Mark, Exists
  <1>3. CASE size[p] # Gone
    <2> DEFINE items == Items(Store, p)
               d     == tags[p].m_adjustment
               At(b) == {items[n].tag : n \in {m \in DOMAIN items :
                          items[m].start + d < b /\ b <= items[m].end + d}}
    <2>1. Marks[p] = [b \in 1..size[p] |-> At(b)]
      BY <1>3, Zenon DEF Marks, Exists
    <2>2. \A b : At(b) = Shows(Store, p, b)
      BY <1>1, <1>3, ShownIs
    <2> HIDE DEF At
    <2> QED
      BY <1>3, <2>1, <2>2 DEF Mark
  <1> QED
    BY <1>2, <1>3

LEMMA MarksBecome ==
  ASSUME GoneIsNothing, IInv', NEW p \in Packet
  PROVE  Marks'[p] = Mark(size'[p], Store', p)
  <1>1. Good(Store') /\ p \in Names /\ Store'.tags[p] = tags'[p]
        /\ (size'[p] = Gone <=> tags'[p] = Gone)
    BY StoreIs DEF IInv
  <1>2. CASE size'[p] = Gone
    BY <1>2 DEF Marks, Mark, Exists
  <1>3. CASE size'[p] # Gone
    <2> DEFINE items == Items(Store', p)
               d     == tags'[p].m_adjustment
               At(b) == {items[n].tag : n \in {m \in DOMAIN items :
                          items[m].start + d < b /\ b <= items[m].end + d}}
    <2>1. Marks'[p] = [b \in 1..size'[p] |-> At(b)]
      BY <1>3, Zenon DEF Marks, Exists
    <2>2. \A b : At(b) = Shows(Store', p, b)
      BY <1>1, <1>3, ShownIs
    <2> HIDE DEF At
    <2> QED
      BY <1>3, <2>1, <2>2 DEF Mark
  <1> QED
    BY <1>2, <1>3

LEMMA MarkIs ==
  ASSUME NEW n \in Nat, n # Gone, NEW s, NEW p
  PROVE  /\ Mark(n, s, p) \in Seq(SUBSET Tag) /\ Len(Mark(n, s, p)) = n
         /\ \A b \in 1..n : Mark(n, s, p)[b] = Shows(s, p, b)
  <1>1. \A b : Shows(s, p, b) \in SUBSET Tag
    BY DEF Shows, TagsAt
  <1> QED
    BY <1>1 DEF Mark

-----------------------------------------------------------------------------
(* A block that keeps the items up to the largest of some places *)
Trims(d, e, S) ==
  /\ e \in Blocks /\ e.count = d.count /\ e.size = d.size /\ e.dirty = d.dirty
  /\ \A n \in S : /\ n <= Len(e.items)
                  /\ \A i \in 1..n : e.items[i] = d.items[i]

LEMMA FirstItems ==
  ASSUME NEW d \in Blocks, NEW S \in SUBSET (0..Len(d.items)), 0 \in S
  PROVE  Trims(d, [d EXCEPT !.items = SubSeq(@, 1, Max(S))], S)
  <1>0. PICK e : e = [d EXCEPT !.items = SubSeq(@, 1, Max(S))]
    OBVIOUS
  <1>1. d.items \in Seq(Tagged) /\ Len(d.items) \in Nat
    BY DEF Blocks
  <1>2. Max(S) \in S /\ \A n \in S : n <= Max(S)
    BY <1>1, Largest
  <1>3. PICK m \in 0..Len(d.items) : m = Max(S)
    BY <1>2
  <1>4. PICK q : q = SubSeq(d.items, 1, m)
    OBVIOUS
  <1>5. /\ q \in Seq(Tagged) /\ Len(q) = m
        /\ \A i \in 1..m : q[i] = d.items[i]
    BY <1>1, <1>4
  <1>6. e = [d EXCEPT !.items = q]
    BY <1>0, <1>3, <1>4
  <1>7. /\ e \in Blocks /\ e.count = d.count /\ e.size = d.size /\ e.dirty = d.dirty
        /\ e.items = q
    BY <1>5, <1>6 DEF Blocks
  <1>8. ASSUME NEW n \in S
        PROVE  n <= Len(e.items) /\ \A i \in 1..n : e.items[i] = d.items[i]
    <2>1. n \in Nat /\ n <= m
      BY <1>1, <1>2, <1>3
    <2> QED
      BY <1>3, <1>5, <1>7, <2>1
  <1> QED
    BY <1>0, <1>7, <1>8 DEF Trims

(* The items no list uses do not matter. *)
LEMMA TrimmedIsGood ==
  ASSUME GoneIsNothing, NEW t, Good(t), NEW u, u \in Stores, u.tags = t.tags,
         \A a \in Address :
           IF t.block[a] = Gone THEN u.block[a] = Gone
           ELSE /\ u.block[a] # Gone /\ u.block[a].count = t.block[a].count
                /\ \A n \in Refs(t, a) : Serves(t.block[a], u.block[a], t.tags[n])
  PROVE  /\ Good(u)
         /\ \A n \in Names : t.tags[n] # Gone => Items(u, n) = Items(t, n)
  <1>1. \A a : Refs(u, a) = Refs(t, a)
    BY DEF Refs
  <1>2. ASSUME NEW n \in Names, t.tags[n] # Gone
        PROVE  /\ Empty(u.tags[n])
               /\ u.tags[n].m_data # Null =>
                    /\ u.block[u.tags[n].m_data] # Gone
                    /\ Sane(u.tags[n], u.block[u.tags[n].m_data])
               /\ \A i \in 1..t.tags[n].m_used :
                    u.block[u.tags[n].m_data].items[i] = t.block[t.tags[n].m_data].items[i]
    <2>1. Empty(t.tags[n]) /\ t.tags[n].m_used \in Nat
      BY <1>2, Held
    <2>2. CASE t.tags[n].m_data = Null
      BY <2>1, <2>2 DEF Empty
    <2>3. CASE t.tags[n].m_data # Null
      <3>1. PICK a \in Address : a = t.tags[n].m_data
        BY <1>2, <2>3, Held
      <3>2. /\ t.block[a] # Gone /\ Sane(t.tags[n], t.block[a]) /\ n \in Refs(t, a)
        BY <1>2, <2>3, <3>1, Held
      <3>3. u.block[a] # Gone /\ Serves(t.block[a], u.block[a], t.tags[n])
        BY <3>2
      <3>4. Sane(u.tags[n], u.block[a])
        BY <3>2, <3>3 DEF Sane, Serves
      <3> QED
        BY <2>1, <2>3, <3>1, <3>3, <3>4 DEF Serves
    <2> QED
      BY <2>2, <2>3
  <1>3. \A a \in Address : u.block[a] # Gone =>
           t.block[a] # Gone /\ u.block[a].count = t.block[a].count
    OBVIOUS
  <1>4. Good(u)
    BY <1>1, <1>2, <1>3 DEF Good
  <1>5. ASSUME NEW n \in Names, t.tags[n] # Gone
        PROVE  Items(u, n) = Items(t, n)
    BY <1>2, <1>4, <1>5, SameItems
  <1> QED
    BY <1>4, <1>5

(* Where a call ends up, and what it shows there *)
Reached(t) ==
  /\ Good(Store') /\ tags' \in [Packet -> Lists \cup {Gone}]
  /\ \A q \in Packet : /\ Store'.tags[q] = t.tags[q]
                       /\ t.tags[q] # Gone => Items(Store', q) = Items(t, q)
NoLocals(t) == \A n \in Temporary : t.tags[n] = Gone

LEMMA BecomeIsGood ==
  ASSUME GoneIsNothing, NEW t, Good(t), NoLocals(t), Become(t)
  PROVE  Reached(t)
  <1> DEFINE u == Store'
             Uses(a) == {q \in Packet : t.tags[q] # Gone /\ t.tags[q].m_data = a}
             Ends(a) == {0} \cup {t.tags[p].m_used : p \in Uses(a)}
  <1>1. t \in Stores
    BY DEF Good
  <1>2. u.tags = t.tags
    <2>1. u.tags = [n \in Names |-> IF n \in Packet THEN t.tags[n] ELSE Gone]
      BY DEF Store, Become, Names
    <2>2. \A n \in Names : n \notin Packet => t.tags[n] = Gone
      BY DEF NoLocals, Names
    <2>3. t.tags = [n \in Names |-> t.tags[n]]
      BY <1>1 DEF Stores
    <2>4. \A n \in Names : u.tags[n] = t.tags[n]
      BY <2>1, <2>2
    <2> HIDE DEF u
    <2> QED
      BY <2>1, <2>3, <2>4
  <1>3. \A a \in Address :
          u.block[a] = IF t.block[a] = Gone THEN Gone
                       ELSE [t.block[a] EXCEPT !.items = SubSeq(@, 1, Max(Ends(a)))]
    BY DEF Store, Become
  <1>4. u = [tags |-> u.tags, block |-> u.block] /\ DOMAIN u.block = Address
        /\ u.block = [a \in Address |-> u.block[a]]
    BY DEF Store, Become
  <1> HIDE DEF u
  <1>5. ASSUME NEW a \in Address, t.block[a] # Gone
        PROVE  /\ u.block[a] \in Blocks /\ u.block[a] # Gone
               /\ u.block[a].count = t.block[a].count
               /\ \A n \in Refs(t, a) : Serves(t.block[a], u.block[a], t.tags[n])
    <2>1. PICK d \in Blocks : d = t.block[a]
      BY <1>1, <1>5 DEF Stores
    <2>2. Len(d.items) \in Nat
      BY DEF Blocks
    <2>3. Refs(t, a) = Uses(a)
      BY <1>5, MemoryAssumption DEF Refs, NoLocals, Names
    <2>4. \A n \in Refs(t, a) : t.tags[n].m_used \in Nat /\ Sane(t.tags[n], d)
      <3> SUFFICES ASSUME NEW n \in Refs(t, a)
                   PROVE  t.tags[n].m_used \in Nat /\ Sane(t.tags[n], d)
        OBVIOUS
      <3>1. n \in Names /\ t.tags[n] # Gone /\ t.tags[n].m_data = a /\ a # Null
        BY ByteTagAssumption DEF Refs
      <3> QED
        BY <2>1, <3>1, Held
    <2>5. Ends(a) \in SUBSET (0..Len(d.items)) /\ 0 \in Ends(a)
      BY <2>2, <2>3, <2>4 DEF Sane
    <2>6. PICK e : e = u.block[a]
      OBVIOUS
    <2>7. e = [d EXCEPT !.items = SubSeq(@, 1, Max(Ends(a)))]
      BY <1>3, <1>5, <2>1, <2>6
    <2>8. \A n \in Refs(t, a) : t.tags[n].m_used \in Ends(a)
      BY <2>3
    <2> HIDE DEF Ends
    <2>9. Trims(d, e, Ends(a))
      BY <2>5, <2>7, FirstItems
    <2>10. \A n \in Refs(t, a) : Serves(d, e, t.tags[n])
      BY <2>4, <2>8, <2>9 DEF Serves, Sane, Trims
    <2> QED
      BY <2>1, <2>6, <2>9, <2>10 DEF GoneIsNothing, Trims
  <1>6. \A a \in Address : t.block[a] = Gone => u.block[a] = Gone
    BY <1>3
  <1>7. u \in Stores
    <2>1. \A a \in Address : u.block[a] \in Blocks \cup {Gone}
      BY <1>5, <1>6
    <2>2. u.block \in [Address -> Blocks \cup {Gone}]
      BY <1>4, <2>1
    <2>3. u.tags \in [Names -> Lists \cup {Gone}]
      BY <1>1, <1>2 DEF Stores
    <2> QED
      BY <1>4, <2>2, <2>3 DEF Stores
  <1>8. /\ Good(u)
        /\ \A n \in Names : t.tags[n] # Gone => Items(u, n) = Items(t, n)
    BY <1>2, <1>5, <1>6, <1>7, TrimmedIsGood
  <1>9. tags' \in [Packet -> Lists \cup {Gone}]
    <2>1. tags' = [p \in Packet |-> t.tags[p]]
      BY DEF Become
    <2>2. \A p \in Packet : t.tags[p] \in Lists \cup {Gone}
      BY <1>1 DEF Stores, Names
    <2> QED
      BY <2>1, <2>2
  <1>10. \A q \in Packet : q \in Names
    BY DEF Names
  <1>11. /\ Good(u)
         /\ \A q \in Packet : /\ u.tags[q] = t.tags[q]
                              /\ t.tags[q] # Gone => Items(u, q) = Items(t, q)
    BY <1>2, <1>8, <1>10
  <1> QED
    BY <1>9, <1>11, Zenon DEF Reached, u

-----------------------------------------------------------------------------
(* The state after a call that has changed the list of p only: the other   *)
(* packets show what they showed.                                          *)
LEMMA Outcome ==
  ASSUME GoneIsNothing, IInv, NEW p \in Packet, NEW n \in (0..MaxLength) \cup {Gone},
         NEW t, Good(t), Rest(Store, t, {p}), t.tags[p] = Gone <=> n = Gone,
         Reached(t), size' = [size EXCEPT ![p] = n]
  PROVE  /\ IInv'
         /\ \A q \in Packet \ {p} : Marks'[q] = Marks[q]
         /\ Marks'[p] = Mark(n, t, p)
  <1>1. /\ size \in [Packet -> (0..MaxLength) \cup {Gone}]
        /\ \A q \in Packet : size[q] = Gone <=> tags[q] = Gone
    BY DEF IInv
  <1>2. /\ size' \in [Packet -> (0..MaxLength) \cup {Gone}] /\ size'[p] = n
        /\ \A q \in Packet \ {p} : size'[q] = size[q]
    BY <1>1
  <1>3. ASSUME NEW q \in Packet
        PROVE  /\ q \in Names /\ Store.tags[q] = tags[q] /\ tags'[q] = t.tags[q]
               /\ Store'.tags[q] = t.tags[q]
               /\ t.tags[q] # Gone => Items(Store', q) = Items(t, q)
    BY StoreIs DEF Reached
  <1>4. ASSUME NEW q \in Packet \ {p}
        PROVE  /\ t.tags[q] = tags[q]
               /\ tags[q] # Gone => Items(t, q) = Items(Store, q)
    BY <1>3 DEF Rest
  <1>5. \A q \in Packet : size'[q] = Gone <=> tags'[q] = Gone
    BY <1>1, <1>2, <1>3, <1>4
  <1>6. IInv'
    BY <1>2, <1>5 DEF IInv, Reached, Good, Stores, Refs
  <1>7. ASSUME NEW q \in Packet \ {p}
        PROVE  Marks'[q] = Marks[q]
    <2>1. Marks[q] = Mark(size[q], Store, q) /\ Marks'[q] = Mark(size[q], Store', q)
      BY <1>2, <1>6, MarksAre, MarksBecome
    <2>2. CASE size[q] = Gone
      BY <2>1, <2>2 DEF Mark
    <2>3. CASE size[q] # Gone
      <3>1. tags[q] # Gone
        BY <1>1, <2>3
      <3>2. /\ Store'.tags[q] = Store.tags[q]
            /\ Items(Store', q) = Items(Store, q)
        BY <1>3, <1>4, <3>1
      <3>3. \A b : Shows(Store', q, b) = Shows(Store, q, b)
        BY <3>2 DEF Shows
      <3> QED
        BY <2>1, <3>3 DEF Mark
    <2> QED
      BY <2>2, <2>3
  <1>8. Marks'[p] = Mark(n, t, p)
    <2>1. Marks'[p] = Mark(n, Store', p)
      BY <1>2, <1>6, MarksBecome
    <2>2. CASE n = Gone
      BY <2>1, <2>2 DEF Mark
    <2>3. CASE n # Gone
      <3>1. t.tags[p] # Gone
        BY <2>3
      <3>2. Store'.tags[p] = t.tags[p] /\ Items(Store', p) = Items(t, p)
        BY <1>3, <3>1
      <3>3. \A b : Shows(Store', p, b) = Shows(t, p, b)
        BY <3>2 DEF Shows
      <3> QED
        BY <2>1, <3>3 DEF Mark
    <2> QED
      BY <2>2, <2>3
  <1> QED
    BY <1>6, <1>7, <1>8

-----------------------------------------------------------------------------
(* The rows that PerByteTags gives, byte by byte. *)
Rows == Seq(SUBSET Tag)

LEMMA EqualRows ==
  ASSUME NEW x \in Rows, NEW y \in Rows, Len(x) = Len(y),
         \A b \in 1..Len(x) : x[b] = y[b]
  PROVE  x = y
  BY SeqEqual DEF Rows

(* The bytes behind the first i *)
LEMMA TakesPart ==
  ASSUME NEW old \in Rows, NEW new \in Rows, NEW i \in Nat, NEW j \in Nat,
         j = i + Len(new), j <= Len(old),
         \A b \in 1..Len(new) : new[b] = old[b + i]
  PROVE  new = SubSeq(old, i + 1, j)
  <1>1. PICK n \in Nat : n = Len(new)
    BY DEF Rows
  <1>2. SubSeq(old, i + 1, j) \in Rows /\ Len(SubSeq(old, i + 1, j)) = n
    BY <1>1 DEF Rows
  <1>3. \A b \in 1..n : SubSeq(old, i + 1, j)[b] = old[b + i]
    BY <1>1 DEF Rows
  <1>4. PICK r \in Rows : r = SubSeq(old, i + 1, j)
    BY <1>2
  <1>5. Len(r) = Len(new) /\ \A b \in 1..Len(new) : r[b] = new[b]
    BY <1>1, <1>2, <1>3, <1>4
  <1> QED
    BY <1>4, <1>5, EqualRows

(* No byte is left. *)
LEMMA TakesNone ==
  ASSUME NEW old \in Rows, NEW new \in Rows, Len(new) = 0, NEW i \in Int, NEW j \in Int, j < i
  PROVE  new = SubSeq(old, i, j)
  <1>1. SubSeq(old, i, j) = << >>
    BY DEF Rows
  <1>2. new = << >>
    BY DEF Rows
  <1> QED
    BY <1>1, <1>2

(* Bytes without tags *)
LEMMA UnmarkedIs ==
  ASSUME NEW n \in Nat
  PROVE  /\ PerByte!Unmarked(n) \in Rows /\ Len(PerByte!Unmarked(n)) = n
         /\ \A b \in 1..n : PerByte!Unmarked(n)[b] = {}
  BY DEF PerByte!Unmarked, Rows

LEMMA NoTags ==
  ASSUME NEW new \in Rows, NEW n, n = Len(new), \A b \in 1..n : new[b] = {}
  PROVE  new = PerByte!Unmarked(n)
  BY DEF Rows, PerByte!Unmarked

LEMMA SameRows ==
  ASSUME NEW x \in Rows, NEW y \in Rows, NEW z \in Rows, Len(z) = Len(x) + Len(y),
         \A b \in 1..Len(x) : z[b] = x[b],
         \A b \in 1..Len(y) : z[b + Len(x)] = y[b]
  PROVE  z = x \o y
  <1>1. PICK m \in Nat, n \in Nat : m = Len(x) /\ n = Len(y)
    BY DEF Rows
  <1>2. PICK c : c = x \o y
    OBVIOUS
  <1>3. /\ c \in Rows /\ Len(c) = m + n
        /\ \A b \in 1..(m + n) : c[b] = IF b <= m THEN x[b] ELSE y[b - m]
    BY <1>1, <1>2 DEF Rows
  <1>4. ASSUME NEW b \in 1..(m + n) PROVE z[b] = c[b]
    <2>1. CASE b <= m
      BY <1>1, <1>3, <2>1
    <2>2. CASE b > m
      <3>1. PICK k \in 1..n : k = b - m /\ b = k + m
        BY <1>1, <2>2
      <3> QED
        BY <1>1, <1>3, <2>2, <3>1
    <2> QED
      BY <2>1, <2>2
  <1> QED
    BY <1>1, <1>2, <1>3, <1>4 DEF Rows

LEMMA GrowsInFront ==
  ASSUME NEW old \in Rows, NEW new \in Rows, NEW n \in Nat, Len(new) = n + Len(old),
         \A b \in 1..n : new[b] = {},
         \A b \in 1..Len(old) : new[b + n] = old[b]
  PROVE  new = PerByte!Unmarked(n) \o old
  <1>1. PICK u \in Rows : u = PerByte!Unmarked(n)
    BY UnmarkedIs
  <1>2. Len(u) = n /\ \A b \in 1..n : u[b] = {}
    BY <1>1, UnmarkedIs
  <1>3. /\ Len(new) = Len(u) + Len(old)
        /\ \A b \in 1..Len(u) : new[b] = u[b]
    BY <1>2
  <1>4. \A b \in 1..Len(old) : new[b + Len(u)] = old[b]
    BY <1>2
  <1>5. new = u \o old
    BY <1>3, <1>4, SameRows
  <1> QED
    BY <1>1, <1>5

LEMMA GrowsBehind ==
  ASSUME NEW old \in Rows, NEW new \in Rows, NEW n \in Nat, Len(new) = Len(old) + n,
         \A b \in 1..Len(old) : new[b] = old[b],
         \A b \in 1..n : new[b + Len(old)] = {}
  PROVE  new = old \o PerByte!Unmarked(n)
  <1>1. PICK u \in Rows : u = PerByte!Unmarked(n)
    BY UnmarkedIs
  <1>2. Len(u) = n /\ \A b \in 1..n : u[b] = {}
    BY <1>1, UnmarkedIs
  <1>3. /\ Len(new) = Len(old) + Len(u)
        /\ \A b \in 1..Len(old) : new[b] = old[b]
    BY <1>2
  <1>4. \A b \in 1..Len(u) : new[b + Len(old)] = u[b]
    BY <1>2
  <1>5. new = old \o u
    BY <1>3, <1>4, SameRows
  <1> QED
    BY <1>1, <1>5

LEMMA Marks1 ==
  ASSUME NEW old \in Rows, NEW x \in Tag, NEW new \in Rows, Len(new) = Len(old),
         \A b \in 1..Len(old) : new[b] = old[b] \cup {x}
  PROVE  new = [b \in 1..Len(old) |-> old[b] \cup {x}]
  BY DEF Rows

-----------------------------------------------------------------------------
(* A call on p leaves what the other packets show. *)
Others(p) == \A q \in Packet \ {p} : Marks'[q] = Marks[q]

LEMMA Done ==
  ASSUME NEW p \in Packet, Others(p), NEW new, Marks'[p] = new, NEW c, call' = c
  PROVE  PerByte!Does(c, p, new)
  <1>1. /\ Marks = [q \in Packet |-> Marks[q]]
        /\ Marks' = [q \in Packet |-> Marks'[q]]
    BY DEF Marks
  <1>2. PICK m : m = Marks
    OBVIOUS
  <1>3. PICK n : n = Marks'
    OBVIOUS
  <1>4. /\ m = [q \in Packet |-> m[q]] /\ n = [q \in Packet |-> n[q]] /\ n[p] = new
        /\ \A q \in Packet \ {p} : n[q] = m[q]
    BY <1>1, <1>2, <1>3 DEF Others
  <1>5. n = [m EXCEPT ![p] = new]
    BY <1>4
  <1> QED
    BY <1>2, <1>3, <1>5, Zenon DEF PerByte!Does

LEMMA Before ==
  ASSUME GoneIsNothing, IInv, NEW p \in Packet
  PROVE  /\ Good(Store) /\ NoLocals(Store) /\ p \in Names /\ p # "list" /\ p # "copy"
         /\ Store.tags["list"] = Gone /\ Store.tags["copy"] = Gone
         /\ "list" \in Names /\ "copy" \in Names
         /\ Exists(p) <=> Store.tags[p] # Gone
         /\ size \in [Packet -> (0..MaxLength) \cup {Gone}]
  <1>1. \A n \in Temporary : n \in Names /\ n \notin Packet /\ Store.tags[n] = Gone
    BY MemoryAssumption DEF Store, Names
  <1>2. "list" \in Temporary /\ "copy" \in Temporary
    BY DEF Temporary
  <1> QED
    BY <1>1, <1>2, StoreIs DEF IInv, NoLocals, Exists

(* A packet with its bytes *)
Whole(p) ==
  /\ size[p] \in 0..MaxLength /\ size[p] \in Nat
  /\ Marks[p] \in Rows /\ Marks[p] # Gone /\ Len(Marks[p]) = size[p]
  /\ \A b \in 1..size[p] : Marks[p][b] = Shows(Store, p, b)

LEMMA ExistsWhole ==
  ASSUME GoneIsNothing, IInv, NEW p \in Packet, Exists(p)
  PROVE  Whole(p)
  <1>1. size[p] \in 0..MaxLength /\ size[p] \in Nat /\ size[p] # Gone
    BY ByteTagAssumption DEF IInv, Exists
  <1>2. Marks[p] = Mark(size[p], Store, p)
    BY MarksAre
  <1>3. Marks[p] \in Rows
    BY <1>1, <1>2, MarkIs DEF Rows
  <1>4. Len(Marks[p]) = size[p] /\ \A b \in 1..size[p] : Marks[p][b] = Shows(Store, p, b)
    BY <1>1, <1>2, MarkIs
  <1> QED
    BY <1>1, <1>3, <1>4 DEF Whole, Rows, GoneIsNothing

LEMMA NotThere ==
  ASSUME GoneIsNothing, IInv, NEW p \in Packet, ~Exists(p)
  PROVE  Marks[p] = Gone
  BY MarksAre DEF Mark, Exists

(* p has n bytes afterwards, which show what they show in t. *)
Ends(p, n, t) ==
  /\ IInv' /\ Others(p) /\ Marks'[p] \in Rows /\ Len(Marks'[p]) = n
  /\ \A b \in 1..n : Marks'[p][b] = Shows(t, p, b)

LEMMA After ==
  ASSUME GoneIsNothing, IInv, NEW p \in Packet, NEW n \in 0..MaxLength,
         NEW t, Good(t), Rest(Store, t, {p}), t.tags[p] # Gone,
         Reached(t), size' = [size EXCEPT ![p] = n]
  PROVE  Ends(p, n, t)
  <1>1. n \in Nat /\ n # Gone /\ n \in (0..MaxLength) \cup {Gone}
    BY ByteTagAssumption DEF GoneIsNothing
  <1>2. IInv' /\ Others(p) /\ Marks'[p] = Mark(n, t, p)
    BY <1>1, Outcome DEF Others
  <1>3. Marks'[p] \in Rows
    BY <1>1, <1>2, MarkIs DEF Rows
  <1>4. Len(Marks'[p]) = n /\ \A b \in 1..n : Marks'[p][b] = Shows(t, p, b)
    BY <1>1, <1>2, MarkIs
  <1> QED
    BY <1>2, <1>3, <1>4 DEF Ends

LEMMA StillNoLocals ==
  ASSUME GoneIsNothing, IInv, NEW p \in Packet, NEW t, Rest(Store, t, {p})
  PROVE  NoLocals(t)
  BY Before, MemoryAssumption DEF Rest, NoLocals, Names

(* A call that keeps p and ends with Become *)
LEMMA AfterCall ==
  ASSUME GoneIsNothing, IInv, NEW p \in Packet, NEW n \in 0..MaxLength,
         NEW t, Kept(Store, t, p), Become(t), size' = [size EXCEPT ![p] = n]
  PROVE  Ends(p, n, t)
  <1>1. Good(t) /\ Rest(Store, t, {p}) /\ t.tags[p] # Gone
    BY DEF Kept
  <1>2. NoLocals(t)
    BY <1>1, StillNoLocals
  <1>3. Reached(t)
    BY <1>1, <1>2, BecomeIsGood
  <1> QED
    BY <1>1, <1>3, After

LEMMA Unchanged ==
  ASSUME GoneIsNothing, IInv, UNCHANGED <<tags, block>>
  PROVE  Reached(Store)
  <1>1. tags' = tags /\ block' = block
    OBVIOUS
  <1>2. Store' = Store
    BY <1>1 DEF Store
  <1>3. Good(Store')
    BY <1>2 DEF IInv, Good, Stores, Refs
  <1> QED
    BY <1>1, <1>2, <1>3 DEF Reached, IInv

LEMMA CreateTells ==
  ASSUME GoneIsNothing, IInv, NEW p \in Packet, NEW n \in 1..MaxLength, Create(p, n)
  PROVE  IInv' /\ PerByte!Create(p, n)
  <1> DEFINE t == WithList(LetGo(Store, p), p, EmptyList)
  <1>1. Good(Store) /\ p \in Names /\ Store.tags[p] = Gone /\ Marks[p] = Gone
    BY Before, NotThere DEF Create
  <1>2. EmptyList \in Lists \cup {Gone} /\ EmptyList.m_data = Null /\ EmptyList.m_used = 0
        /\ EmptyList \in Lists /\ EmptyList # Gone
    BY EmptyListIs
  <1>3. Good(t) /\ Rest(Store, t, {p}) /\ t.tags[p] = EmptyList
    BY <1>1, <1>2, Unhooked
  <1>4. t = WithList(Store, p, EmptyList)
    BY <1>1 DEF LetGo
  <1>5. NoLocals(t)
    BY <1>3, StillNoLocals
  <1> HIDE DEF t
  <1>6. /\ tags \in [Packet -> Lists \cup {Gone}]
        /\ tags' = [tags EXCEPT ![p] = EmptyList] /\ block' = block
    BY DEF IInv, Create
  <1>7. tags' \in [Packet -> Lists \cup {Gone}]
    BY <1>2, <1>6
  <1>8. Store' = t
    <2>1. Store \in Stores /\ t \in Stores
      BY <1>1, <1>3 DEF Good
    <2>2. t.block = block /\ t.tags = [Store.tags EXCEPT ![p] = EmptyList]
      BY <1>4, <2>1 DEF WithList, Stores, Store
    <2>3. \A n_1 \in Names : Store'.tags[n_1] = t.tags[n_1]
      BY <1>1, <1>6, <2>1, <2>2 DEF Store, Stores, Names
    <2>4. Store' = [tags |-> Store'.tags, block |-> Store'.block]
          /\ Store'.tags = [n_1 \in Names |-> Store'.tags[n_1]] /\ Store'.block = block
      BY <1>6 DEF Store, Names
    <2>5. t = [tags |-> t.tags, block |-> t.block]
          /\ t.tags = [n_1 \in Names |-> t.tags[n_1]]
      BY <2>1 DEF Stores
    <2> QED
      BY <2>2, <2>3, <2>4, <2>5
  <1>9. Reached(t)
    BY <1>3, <1>7, <1>8 DEF Reached, Good, Stores, Refs
  <1>10. Ends(p, n, t)
    <2>1. n \in 0..MaxLength /\ size' = [size EXCEPT ![p] = n]
      BY DEF Create
    <2> QED
      BY <1>2, <1>3, <1>9, <2>1, After
  <1>11. \A b : Shows(t, p, b) = {}
    <2>1. Len(Items(t, p)) = 0 /\ DOMAIN Items(t, p) = 1..0
      BY <1>1, <1>2, <1>3, ItemsAre
    <2> QED
      BY <2>1 DEF Shows, TagsAt
  <1>12. PICK new \in Rows : new = Marks'[p]
    BY <1>10 DEF Ends
  <1>13. \A b \in 1..Len(new) : new[b] = {}
    BY <1>10, <1>11, <1>12 DEF Ends
  <1>14. new = PerByte!Unmarked(n)
    BY <1>10, <1>12, <1>13, NoTags DEF Ends
  <1>15. call' = <<"Create", p, n>>
    BY DEF Create
  <1>16. PerByte!Does(<<"Create", p, n>>, p, PerByte!Unmarked(n))
    BY <1>10, <1>12, <1>14, <1>15, Done DEF Ends
  <1> QED
    BY <1>10, <1>16, <1>1 DEF PerByte!Create, PerByte!Exists, Ends

LEMMA DestroyTells ==
  ASSUME GoneIsNothing, IInv, NEW p \in Packet, Destroy(p)
  PROVE  IInv' /\ PerByte!Destroy(p)
  <1> DEFINE t == Destroyed(Store, p)
  <1>1. Good(Store) /\ p \in Names /\ Store.tags[p] # Gone
    BY Before DEF Destroy
  <1>2. Good(t) /\ Rest(Store, t, {p}) /\ t.tags[p] = Gone
    BY <1>1, DestroyedIsGood
  <1>3. Become(t) /\ size' = [size EXCEPT ![p] = Gone]
    BY DEF Destroy
  <1> HIDE DEF t
  <1>4. Reached(t)
    BY <1>2, <1>3, StillNoLocals, BecomeIsGood
  <1>5. IInv' /\ Others(p) /\ Marks'[p] = Mark(Gone, t, p)
    BY <1>2, <1>3, <1>4, Outcome DEF Others
  <1>6. Marks'[p] = Gone
    BY <1>5 DEF Mark
  <1>7. call' = <<"Destroy", p>>
    BY DEF Destroy
  <1>8. PerByte!Does(<<"Destroy", p>>, p, Gone)
    BY <1>5, <1>6, <1>7, Done
  <1>9. Marks[p] # Gone
    BY ExistsWhole DEF Destroy, Whole
  <1> QED
    BY <1>5, <1>8, <1>9 DEF PerByte!Destroy, PerByte!Exists

LEMMA CopyTells ==
  ASSUME GoneIsNothing, IInv, NEW p \in Packet, NEW q \in Packet, Copy(p, q)
  PROVE  IInv' /\ PerByte!Copy(p, q)
  <1> DEFINE t == Assigned(Store, p, q)
  <1>1. Good(Store) /\ p \in Names /\ q \in Names /\ Store.tags[q] # Gone /\ Whole(q)
    BY Before, ExistsWhole DEF Copy
  <1>2. /\ Good(t) /\ Rest(Store, t, {p}) /\ t.tags[p] = Store.tags[q]
        /\ Items(t, p) = Items(Store, q)
    BY <1>1, AssignedIsGood
  <1>3. Become(t) /\ size' = [size EXCEPT ![p] = size[q]]
    BY DEF Copy
  <1> HIDE DEF t
  <1>4. \A b : Shows(t, p, b) = Shows(Store, q, b)
    BY <1>2 DEF Shows
  <1>5. PICK n \in 0..MaxLength : n = size[q]
    BY <1>1 DEF Whole
  <1>6. Kept(Store, t, p)
    BY <1>1, <1>2 DEF Kept
  <1>7. Ends(p, n, t)
    BY <1>3, <1>5, <1>6, AfterCall
  <1>9. PICK new \in Rows : new = Marks'[p]
    BY <1>7 DEF Ends
  <1>10. Len(new) = Len(Marks[q])
    BY <1>1, <1>5, <1>7, <1>9 DEF Whole, Ends
  <1>11. \A b \in 1..Len(new) : new[b] = Marks[q][b]
    BY <1>1, <1>4, <1>5, <1>7, <1>9 DEF Whole, Ends
  <1>12. new = Marks[q]
    BY <1>1, <1>10, <1>11, EqualRows DEF Whole
  <1>13. call' = <<"Copy", p, q>>
    BY DEF Copy
  <1>14. PerByte!Does(<<"Copy", p, q>>, p, Marks[q])
    BY <1>7, <1>9, <1>12, <1>13, Done DEF Ends, Whole
  <1> QED
    BY <1>7, <1>14, <1>1 DEF PerByte!Copy, PerByte!Exists, Ends, Whole

LEMMA CreateFragmentTells ==
  ASSUME GoneIsNothing, IInv, NEW p \in Packet, NEW q \in Packet,
         NEW start \in 0..MaxLength, NEW length \in 0..MaxLength,
         CreateFragment(p, q, start, length)
  PROVE  IInv' /\ PerByte!CreateFragment(p, q, start, length)
  <1> DEFINE u == Assigned(Store, p, q)
             t == Adjust(u, p, -start)
  <1>0. start \in Nat /\ length \in Nat
    BY ByteTagAssumption
  <1>1. /\ Good(Store) /\ p \in Names /\ q \in Names /\ Store.tags[q] # Gone
        /\ Whole(q)
    BY Before, ExistsWhole DEF CreateFragment
  <1>2. /\ Good(u) /\ Rest(Store, u, {p}) /\ u.tags[p] = Store.tags[q]
        /\ Items(u, p) = Items(Store, q)
    BY <1>1, AssignedIsGood
  <1>3. Become(t) /\ size' = [size EXCEPT ![p] = length] /\ start + length <= size[q]
    BY DEF CreateFragment
  <1> HIDE DEF u
  <1>4. \A b : Shows(u, p, b) = Shows(Store, q, b)
    BY <1>2 DEF Shows
  <1>5. PICK d \in Int : d = -start
    BY <1>0
  <1>6. Kept(u, t, p) /\ \A b \in Int : Shows(t, p, b) = Shows(u, p, b - d)
    <2>1. t = Adjust(u, p, d)
      BY <1>5
    <2>2. Good(u) /\ p \in Names /\ u.tags[p] # Gone
      BY <1>1, <1>2
    <2> HIDE DEF t
    <2>3. Kept(u, t, p)
      BY <2>1, <2>2, AdjustShows
    <2>4. \A b \in Int : Shows(t, p, b) = Shows(u, p, b - d)
      BY <2>1, <2>2, AdjustShows
    <2> QED
      BY <2>3, <2>4
  <1> HIDE DEF t
  <1>7. Kept(Store, t, p)
    BY <1>2, <1>6 DEF Kept, Rest
  <1>8. Ends(p, length, t)
    BY <1>3, <1>7, AfterCall
  <1>9. PICK new \in Rows : new = Marks'[p]
    BY <1>8 DEF Ends
  <1>10. start + Len(new) <= Len(Marks[q]) /\ Len(new) = length
    BY <1>1, <1>3, <1>8, <1>9 DEF Whole, Ends
  <1>11. ASSUME NEW b \in 1..Len(new) PROVE new[b] = Marks[q][b + start]
    <2>1. b \in Int /\ b \in 1..length /\ b + start \in 1..size[q] /\ b - d = b + start
      BY <1>0, <1>1, <1>3, <1>5, <1>10 DEF Whole
    <2>2. new[b] = Shows(t, p, b)
      BY <1>8, <1>9, <2>1 DEF Ends
    <2>3. Shows(t, p, b) = Shows(Store, q, b + start)
      BY <1>4, <1>6, <2>1
    <2> QED
      BY <1>1, <2>1, <2>2, <2>3 DEF Whole
  <1>12. new = SubSeq(Marks[q], start + 1, start + length)
    <2>1. start + length \in Nat /\ start + length = start + Len(new)
      BY <1>0, <1>10
    <2> QED
      BY <1>0, <1>1, <1>10, <1>11, <2>1, TakesPart DEF Whole
  <1>b. Marks[p] = Gone /\ Marks[q] # Gone /\ start + length <= Len(Marks[q])
    BY <1>1, <1>3, NotThere DEF CreateFragment, Whole
  <1>13. call' = <<"CreateFragment", p, q, start, length>>
    BY DEF CreateFragment
  <1>14. PerByte!Does(<<"CreateFragment", p, q, start, length>>, p, SubSeq(Marks[q], start + 1, start + length))
    BY <1>8, <1>9, <1>12, <1>13, Done DEF Ends
  <1> QED
    BY <1>8, <1>14, <1>b DEF PerByte!CreateFragment, PerByte!Exists, Ends

LEMMA RemoveAtStartTells ==
  ASSUME GoneIsNothing, IInv, NEW p \in Packet, NEW n \in 1..MaxLength, RemoveAtStart(p, n)
  PROVE  IInv' /\ PerByte!RemoveAtStart(p, n)
  <1> DEFINE t == Adjust(Store, p, -n)
  <1>0. n \in Nat
    BY ByteTagAssumption
  <1>a. PICK d \in Int : d = -n
    BY <1>0
  <1>1. Good(Store) /\ p \in Names /\ Store.tags[p] # Gone /\ Whole(p)
    BY Before, ExistsWhole DEF RemoveAtStart
  <1>2. Kept(Store, t, p) /\ \A b \in Int : Shows(t, p, b) = Shows(Store, p, b - d)
    BY <1>1, <1>a, AdjustShows
  <1>3. Become(t) /\ size' = [size EXCEPT ![p] = Max({size[p] - n, 0})]
    BY DEF RemoveAtStart
  <1> HIDE DEF t
  <1>4. PICK k \in 0..MaxLength : /\ k = Max({size[p] - n, 0})
                                  /\ k = IF size[p] >= n THEN size[p] - n ELSE 0
    <2>1. size[p] - n \in Int /\ 0 \in Int
      BY <1>0, <1>1 DEF Whole
    <2>2. Max({size[p] - n, 0}) = IF size[p] - n >= 0 THEN size[p] - n ELSE 0
      BY <2>1, Larger
    <2> QED
      BY <1>0, <1>1, <2>2, ByteTagAssumption DEF Whole
  <1>5. Ends(p, k, t)
    BY <1>2, <1>3, <1>4, AfterCall
  <1>6. PICK new \in Rows : new = Marks'[p]
    BY <1>5 DEF Ends
  <1>7. Len(Marks[p]) = size[p] /\ Len(new) = k
    BY <1>1, <1>5, <1>6 DEF Whole, Ends
  <1>8. ASSUME NEW b \in 1..Len(new) PROVE new[b] = Marks[p][b + n]
    <2>1. b \in Int /\ b \in 1..k /\ b + n \in 1..size[p] /\ b - d = b + n
      <3>1. k \in Nat /\ b \in 1..k
        BY <1>7, <1>4, ByteTagAssumption
      <3>2. size[p] \in Nat /\ k # 0
        BY <1>1, <3>1 DEF Whole
      <3>3. size[p] >= n /\ k = size[p] - n
        BY <1>0, <1>4, <3>2
      <3> QED
        BY <1>0, <1>1, <1>a, <3>1, <3>2, <3>3 DEF Whole
    <2>2. new[b] = Shows(t, p, b)
      BY <1>5, <1>6, <2>1 DEF Ends
    <2>3. Shows(t, p, b) = Shows(Store, p, b + n)
      BY <1>2, <2>1
    <2> QED
      BY <1>1, <2>1, <2>2, <2>3 DEF Whole
  <1>9. new = SubSeq(Marks[p], n + 1, Len(Marks[p]))
    <2>1. PICK m \in Nat : m = Len(Marks[p]) /\ m = size[p]
      BY <1>1, <1>7 DEF Whole
    <2>2. CASE m >= n
      <3>1. m = n + Len(new) /\ m <= Len(Marks[p])
        BY <1>0, <1>4, <1>7, <2>1, <2>2
      <3>2. new = SubSeq(Marks[p], n + 1, m)
        BY <1>0, <1>1, <1>8, <3>1, TakesPart DEF Whole
      <3> QED
        BY <2>1, <3>2
    <2>3. CASE m < n
      <3>1. Len(new) = 0 /\ n + 1 \in Int /\ m < n + 1
        BY <1>0, <1>4, <1>7, <2>1, <2>3
      <3>2. new = SubSeq(Marks[p], n + 1, m)
        BY <1>1, <3>1, TakesNone DEF Whole
      <3> QED
        BY <2>1, <3>2
    <2> QED
      BY <1>0, <2>2, <2>3
  <1>10. call' = <<"RemoveAtStart", p, n>>
    BY DEF RemoveAtStart
  <1>11. PerByte!Does(<<"RemoveAtStart", p, n>>, p, SubSeq(Marks[p], n + 1, Len(Marks[p])))
    BY <1>5, <1>6, <1>9, <1>10, Done DEF Ends
  <1> QED
    BY <1>5, <1>11, <1>1 DEF PerByte!RemoveAtStart, PerByte!Exists, Ends, Whole

LEMMA RemoveAtEndTells ==
  ASSUME GoneIsNothing, IInv, NEW p \in Packet, NEW n \in 1..MaxLength, RemoveAtEnd(p, n)
  PROVE  IInv' /\ PerByte!RemoveAtEnd(p, n)
  <1>0. n \in Nat
    BY ByteTagAssumption
  <1>1. Good(Store) /\ p \in Names /\ Store.tags[p] # Gone /\ Whole(p)
    BY Before, ExistsWhole DEF RemoveAtEnd
  <1>2. PICK k : k = Max({size[p] - n, 0})
    OBVIOUS
  <1>3. /\ k \in 0..MaxLength /\ k <= size[p]
        /\ k = IF size[p] >= n THEN size[p] - n ELSE 0
    <2>1. size[p] - n \in Int /\ 0 \in Int
      BY <1>0, <1>1 DEF Whole
    <2>2. k = IF size[p] - n >= 0 THEN size[p] - n ELSE 0
      BY <1>2, <2>1, Larger
    <2> QED
      BY <1>0, <1>1, <2>2, ByteTagAssumption DEF Whole
  <1>4. size' = [size EXCEPT ![p] = k] /\ Reached(Store)
    BY <1>2, Unchanged DEF RemoveAtEnd
  <1>5. Rest(Store, Store, {p})
    BY DEF Rest
  <1>6. Ends(p, k, Store)
    BY <1>1, <1>3, <1>4, <1>5, After
  <1>7. PICK new \in Rows : new = Marks'[p]
    BY <1>6 DEF Ends
  <1>8. PICK i \in Nat : i = 0
    OBVIOUS
  <1>9. Len(Marks[p]) = size[p] /\ Len(new) = k
    BY <1>1, <1>6, <1>7 DEF Whole, Ends
  <1>10. ASSUME NEW b \in 1..Len(new) PROVE new[b] = Marks[p][b + i]
    <2>1. b \in 1..k /\ b \in 1..size[p] /\ b + i = b
      BY <1>1, <1>3, <1>8, <1>9 DEF Whole
    <2>2. new[b] = Shows(Store, p, b)
      BY <1>6, <1>7, <2>1 DEF Ends
    <2> QED
      BY <1>1, <2>1, <2>2 DEF Whole
  <1>11. new = SubSeq(Marks[p], 1, Len(Marks[p]) - n)
    <2>1. PICK m \in Nat : m = Len(Marks[p]) /\ m = size[p]
      BY <1>1, <1>9 DEF Whole
    <2>2. CASE m >= n
      <3>1. PICK j \in Nat : j = m - n /\ j = k
        BY <1>0, <1>3, <2>1, <2>2
      <3>2. j = i + Len(new) /\ j <= Len(Marks[p]) /\ i + 1 = 1
        BY <1>0, <1>8, <1>9, <2>1, <3>1
      <3>3. new = SubSeq(Marks[p], i + 1, j)
        BY <1>1, <1>10, <3>2, TakesPart DEF Whole
      <3> QED
        BY <2>1, <3>1, <3>2, <3>3
    <2>3. CASE m < n
      <3>1. PICK j \in Int : j = m - n /\ j < 1
        BY <1>0, <2>3
      <3>2. Len(new) = 0 /\ 1 \in Int
        BY <1>3, <1>9, <2>1, <2>3
      <3>3. new = SubSeq(Marks[p], 1, j)
        BY <1>1, <3>1, <3>2, TakesNone DEF Whole
      <3> QED
        BY <2>1, <3>1, <3>3
    <2> QED
      BY <1>0, <2>2, <2>3
  <1>12. call' = <<"RemoveAtEnd", p, n>>
    BY DEF RemoveAtEnd
  <1>13. PerByte!Does(<<"RemoveAtEnd", p, n>>, p, SubSeq(Marks[p], 1, Len(Marks[p]) - n))
    BY <1>6, <1>7, <1>11, <1>12, Done DEF Ends
  <1> QED
    BY <1>6, <1>13, <1>1 DEF PerByte!RemoveAtEnd, PerByte!Exists, Ends, Whole

LEMMA AddHeaderTells ==
  ASSUME GoneIsNothing, IInv, NEW p \in Packet, NEW n \in 1..MaxLength, AddHeader(p, n)
  PROVE  IInv' /\ PerByte!AddHeader(p, n)
  <1>0. n \in Nat /\ n \in Int
    BY ByteTagAssumption
  <1>1. /\ Good(Store) /\ p \in Names /\ Store.tags[p] # Gone /\ Whole(p)
        /\ p # "list" /\ Store.tags["list"] = Gone /\ "list" \in Names
    BY Before, ExistsWhole DEF AddHeader
  <1>2. PICK slack \in Slack : Become(AddAtStart(Adjust(Store, p, n), p, n, slack))
    BY DEF AddHeader
  <1>3. slack \in Nat
    BY ByteTagAssumption
  <1>4. PICK u : u = Adjust(Store, p, n)
    OBVIOUS
  <1>5. PICK t : t = AddAtStart(u, p, n, slack)
    OBVIOUS
  <1>6. Kept(Store, u, p)
    BY <1>0, <1>1, <1>4, AdjustShows
  <1>7. \A b \in Int : Shows(u, p, b) = Shows(Store, p, b - n)
    BY <1>0, <1>1, <1>4, AdjustShows
  <1>8. Good(u) /\ u.tags[p] # Gone /\ u.tags["list"] = Gone
    BY <1>1, <1>6 DEF Kept, Rest
  <1>9. Kept(u, t, p)
    BY <1>0, <1>1, <1>3, <1>5, <1>8, AddAtStartIsGood
  <1>10. \A b \in Int : n < b /\ b <= Infinity => Shows(t, p, b) = Shows(u, p, b)
    BY <1>0, <1>1, <1>3, <1>5, <1>8, AddAtStartIsGood
  <1>11. \A b \in Int : b <= n => Shows(t, p, b) = {}
    BY <1>0, <1>1, <1>3, <1>5, <1>8, AddAtStartIsGood
  <1>12. Kept(Store, t, p)
    BY <1>6, <1>9 DEF Kept, Rest
  <1>13. PICK k \in 0..MaxLength : k = size[p] + n
    BY <1>0, <1>1, ByteTagAssumption DEF Whole, AddHeader, Fits
  <1>14. Ends(p, k, t)
    <2>1. Become(t)
      BY <1>2, <1>4, <1>5
    <2>2. size' = [size EXCEPT ![p] = k]
      BY <1>13 DEF AddHeader
    <2> QED
      BY <1>12, <2>1, <2>2, AfterCall
  <1>15. PICK new \in Rows : new = Marks'[p]
    BY <1>14 DEF Ends
  <1>16. Len(new) = n + Len(Marks[p])
    BY <1>0, <1>1, <1>13, <1>14, <1>15 DEF Whole, Ends
  <1>17. ASSUME NEW b \in 1..n PROVE new[b] = {}
    <2>1. b \in Int /\ b <= n /\ b \in 1..k
      BY <1>0, <1>1, <1>13 DEF Whole
    <2> QED
      BY <1>11, <1>14, <1>15, <2>1 DEF Ends
  <1>18. ASSUME NEW b \in 1..Len(Marks[p]) PROVE new[b + n] = Marks[p][b]
    <2>1. b \in 1..size[p] /\ b + n \in Int /\ n < b + n /\ b + n \in 1..k
          /\ b + n - n = b
      BY <1>0, <1>1, <1>13 DEF Whole
    <2>2. b + n <= Infinity
      BY <1>13, <2>1, ByteTagAssumption
    <2>3. new[b + n] = Shows(t, p, b + n)
      BY <1>14, <1>15, <2>1 DEF Ends
    <2>4. Shows(t, p, b + n) = Shows(Store, p, b)
      BY <1>7, <1>10, <2>1, <2>2
    <2> QED
      BY <1>1, <2>1, <2>3, <2>4 DEF Whole
  <1>19. new = PerByte!Unmarked(n) \o Marks[p]
    BY <1>0, <1>1, <1>16, <1>17, <1>18, GrowsInFront DEF Whole
  <1>20. call' = <<"AddHeader", p, n>>
    BY DEF AddHeader
  <1>21. PerByte!Does(<<"AddHeader", p, n>>, p, PerByte!Unmarked(n) \o Marks[p])
    BY <1>14, <1>15, <1>19, <1>20, Done DEF Ends
  <1> QED
    BY <1>14, <1>21, <1>1 DEF PerByte!AddHeader, PerByte!Exists, Ends, Whole

LEMMA AddTrailerTells ==
  ASSUME GoneIsNothing, IInv, NEW p \in Packet, NEW n \in 1..MaxLength, AddTrailer(p, n)
  PROVE  IInv' /\ PerByte!AddTrailer(p, n)
  <1>0. n \in Nat /\ n \in Int
    BY ByteTagAssumption
  <1>1. /\ Good(Store) /\ p \in Names /\ Store.tags[p] # Gone /\ Whole(p)
        /\ p # "list" /\ Store.tags["list"] = Gone /\ "list" \in Names
    BY Before, ExistsWhole DEF AddTrailer
  <1>2. PICK slack \in Slack : Become(AddAtEnd(Store, p, size[p], slack))
    BY DEF AddTrailer
  <1>3. slack \in Nat
    BY ByteTagAssumption
  <1>4. PICK m \in Nat : m = size[p] /\ m \in Int
    BY <1>1 DEF Whole
  <1>5. PICK t : t = AddAtEnd(Store, p, m, slack)
    OBVIOUS
  <1>6. Kept(Store, t, p)
    BY <1>1, <1>3, <1>4, <1>5, AddAtEndIsGood
  <1>7. \A b \in 1..m : Shows(t, p, b) = Shows(Store, p, b)
    BY <1>1, <1>3, <1>4, <1>5, AddAtEndIsGood
  <1>8. \A b \in Int : b > m => Shows(t, p, b) = {}
    BY <1>1, <1>3, <1>4, <1>5, AddAtEndIsGood
  <1>9. PICK k \in 0..MaxLength : k = m + n
    BY <1>0, <1>4, ByteTagAssumption DEF AddTrailer, Fits
  <1>10. Ends(p, k, t)
    <2>1. Become(t) /\ size' = [size EXCEPT ![p] = k]
      BY <1>2, <1>4, <1>5, <1>9 DEF AddTrailer
    <2> QED
      BY <1>6, <2>1, AfterCall
  <1>11. PICK new \in Rows : new = Marks'[p]
    BY <1>10 DEF Ends
  <1>12. Len(new) = Len(Marks[p]) + n /\ Len(Marks[p]) = m
    BY <1>0, <1>1, <1>4, <1>9, <1>10, <1>11 DEF Whole, Ends
  <1>13. ASSUME NEW b \in 1..Len(Marks[p]) PROVE new[b] = Marks[p][b]
    <2>1. b \in 1..m /\ b \in 1..k
      BY <1>0, <1>4, <1>9, <1>12
    <2> QED
      BY <1>1, <1>4, <1>7, <1>10, <1>11, <2>1 DEF Whole, Ends
  <1>14. ASSUME NEW b \in 1..n PROVE new[b + Len(Marks[p])] = {}
    <2>1. b + m \in Int /\ b + m > m /\ b + m \in 1..k
      BY <1>0, <1>4, <1>9
    <2> QED
      BY <1>8, <1>10, <1>11, <1>12, <2>1 DEF Ends
  <1>15. new = Marks[p] \o PerByte!Unmarked(n)
    BY <1>0, <1>1, <1>12, <1>13, <1>14, GrowsBehind DEF Whole
  <1>16. call' = <<"AddTrailer", p, n>>
    BY DEF AddTrailer
  <1>17. PerByte!Does(<<"AddTrailer", p, n>>, p, Marks[p] \o PerByte!Unmarked(n))
    BY <1>10, <1>11, <1>15, <1>16, Done DEF Ends
  <1> QED
    BY <1>10, <1>17, <1>1 DEF PerByte!AddTrailer, PerByte!Exists, Ends, Whole

LEMMA AddByteTagTells ==
  ASSUME GoneIsNothing, IInv, NEW p \in Packet, NEW x \in Tag, AddByteTag(p, x)
  PROVE  IInv' /\ PerByte!AddByteTag(p, x)
  <1>1. Good(Store) /\ p \in Names /\ Store.tags[p] # Gone /\ Whole(p)
        /\ size \in [Packet -> (0..MaxLength) \cup {Gone}]
    BY Before, ExistsWhole DEF AddByteTag
  <1>2. PICK m \in 0..MaxLength : m = size[p] /\ m \in Int
    BY <1>1 DEF Whole
  <1>3. PICK item : item = [tag |-> x, start |-> 0, end |-> m]
    OBVIOUS
  <1>4. item \in Tagged /\ item.tag = x /\ item.start = 0 /\ item.end = m
    BY <1>2, <1>3 DEF Tagged
  <1>5. PICK slack \in Slack : Become(Added(Store, p, item, slack))
    BY <1>2, <1>3 DEF AddByteTag
  <1>6. slack \in Nat
    BY ByteTagAssumption
  <1>7. PICK t : t = Added(Store, p, item, slack)
    OBVIOUS
  <1>8. Good(t) /\ Rest(Store, t, {p}) /\ t.tags[p] # Gone
    BY <1>1, <1>4, <1>6, <1>7, AddedIsGood
  <1>9. \A b \in Int : Shows(t, p, b) = Shows(Store, p, b) \cup
            {y \in Tag : y = item.tag /\ item.start < b /\ b <= item.end}
    BY <1>1, <1>4, <1>6, <1>7, AddedShows
  <1>10. Ends(p, m, t)
    <2>1. Become(t) /\ size' = [size EXCEPT ![p] = m] /\ Kept(Store, t, p)
      BY <1>1, <1>2, <1>5, <1>7, <1>8 DEF AddByteTag, Kept
    <2> QED
      BY <2>1, AfterCall
  <1>11. PICK new \in Rows : new = Marks'[p]
    BY <1>10 DEF Ends
  <1>12. Len(new) = Len(Marks[p]) /\ Len(Marks[p]) = m
    BY <1>1, <1>2, <1>10, <1>11 DEF Whole, Ends
  <1>13. ASSUME NEW b \in 1..Len(Marks[p]) PROVE new[b] = Marks[p][b] \cup {x}
    <2>1. b \in 1..m /\ b \in Int /\ 0 < b /\ b <= m
      BY <1>2, <1>12
    <2>2. Shows(t, p, b) = Shows(Store, p, b) \cup {x}
      BY <1>4, <1>9, <2>1
    <2> QED
      BY <1>1, <1>2, <1>10, <1>11, <2>1, <2>2 DEF Whole, Ends
  <1>14. new = [b \in 1..Len(Marks[p]) |-> Marks[p][b] \cup {x}]
    BY <1>1, <1>12, <1>13, Marks1 DEF Whole
  <1>15. call' = <<"AddByteTag", p, x>>
    BY DEF AddByteTag
  <1>16. PerByte!Does(<<"AddByteTag", p, x>>, p, [b \in 1..Len(Marks[p]) |-> Marks[p][b] \cup {x}])
    BY <1>10, <1>11, <1>14, <1>15, Done DEF Ends
  <1> QED
    BY <1>10, <1>16, <1>1 DEF PerByte!AddByteTag, PerByte!Exists, Ends, Whole

LEMMA RemoveAllByteTagsTells ==
  ASSUME GoneIsNothing, IInv, NEW p \in Packet, RemoveAllByteTags(p)
  PROVE  IInv' /\ PerByte!RemoveAllByteTags(p)
  <1>1. Good(Store) /\ p \in Names /\ Store.tags[p] # Gone /\ Whole(p)
        /\ size \in [Packet -> (0..MaxLength) \cup {Gone}]
    BY Before, ExistsWhole DEF RemoveAllByteTags
  <1>2. PICK m \in 0..MaxLength : m = size[p]
    BY <1>1 DEF Whole
  <1>3. PICK t : t = RemoveAll(Store, p)
    OBVIOUS
  <1>4. Good(t) /\ Rest(Store, t, {p}) /\ t.tags[p] = EmptyList
    BY <1>1, <1>3, RemoveAllIsGood
  <1>5. t.tags[p] # Gone /\ t.tags[p].m_used = 0
    BY <1>4, EmptyListIs
  <1>6. \A b : Shows(t, p, b) = {}
    <2>1. DOMAIN Items(t, p) = 1..0
      BY <1>1, <1>4, <1>5, ItemsAre
    <2> QED
      BY <2>1 DEF Shows, TagsAt
  <1>7. Ends(p, m, t)
    <2>1. Become(t) /\ size' = [size EXCEPT ![p] = m] /\ Kept(Store, t, p)
      BY <1>1, <1>2, <1>3, <1>4, <1>5 DEF RemoveAllByteTags, Kept
    <2> QED
      BY <2>1, AfterCall
  <1>8. PICK new \in Rows : new = Marks'[p]
    BY <1>7 DEF Ends
  <1>9. Len(new) = Len(Marks[p]) /\ \A b \in 1..Len(new) : new[b] = {}
    BY <1>1, <1>2, <1>6, <1>7, <1>8 DEF Whole, Ends
  <1>10. new = PerByte!Unmarked(Len(Marks[p]))
    BY <1>9, NoTags
  <1>11. call' = <<"RemoveAllByteTags", p>>
    BY DEF RemoveAllByteTags
  <1>12. PerByte!Does(<<"RemoveAllByteTags", p>>, p, PerByte!Unmarked(Len(Marks[p])))
    BY <1>7, <1>8, <1>10, <1>11, Done DEF Ends
  <1> QED
    BY <1>7, <1>12, <1>1 DEF PerByte!RemoveAllByteTags, PerByte!Exists, Ends, Whole

(* A list that is not in P is there and shows what it showed. *)
LEMMA Passed ==
  ASSUME NEW s, NEW t, NEW n \in Names, Kept(s, t, n), NEW p \in Names, p # n
  PROVE  /\ Good(t) /\ t.tags[p] = s.tags[p]
         /\ s.tags[p] # Gone => \A b : Shows(t, p, b) = Shows(s, p, b)
  <1>1. Rest(s, t, {n}) /\ p \in Names \ {n}
    BY DEF Kept
  <1>2. /\ t.tags[p] = s.tags[p]
        /\ s.tags[p] # Gone => Items(t, p) = Items(s, p)
    BY <1>1 DEF Rest
  <1> QED
    BY <1>2 DEF Kept, Shows

LEMMA AdjustKeeps ==
  ASSUME GoneIsNothing, NEW s, Good(s), NEW p \in Names, s.tags[p] # Gone, NEW d \in Int
  PROVE  /\ Kept(s, Adjust(s, p, d), p)
         /\ \A b \in Int : Shows(Adjust(s, p, d), p, b) = Shows(s, p, b - d)
  BY AdjustShows

LEMMA ConcatenateTells ==
  ASSUME GoneIsNothing, IInv, NEW p \in Packet, NEW q \in Packet, Concatenate(p, q)
  PROVE  IInv' /\ PerByte!Concatenate(p, q)
  <1>1. /\ Good(Store) /\ p \in Names /\ Store.tags[p] # Gone /\ Whole(p)
        /\ p # "list" /\ p # "copy"
    BY Before, ExistsWhole DEF Concatenate
  <1>2. /\ q \in Names /\ Store.tags[q] # Gone /\ Whole(q)
        /\ q # "list" /\ q # "copy"
    BY Before, ExistsWhole DEF Concatenate
  <1>3. /\ "list" \in Names /\ "copy" \in Names /\ "copy" # "list"
        /\ Store.tags["list"] = Gone /\ Store.tags["copy"] = Gone
    BY Before
  <1>4. PICK m \in 0..MaxLength : m = size[p] /\ m \in Int
    BY <1>1 DEF Whole
  <1>5. PICK k \in 0..MaxLength : k = size[q]
    BY <1>2 DEF Whole
  <1>6. PICK r \in 0..MaxLength : r = m + k
    BY <1>4, <1>5, ByteTagAssumption DEF Concatenate, Fits
  <1>7. PICK slack \in Slack :
          LET trimmed == AddAtEnd(Store, p, m, slack)
              copy    == AddAtStart(Assigned(trimmed, "copy", q), "copy", 0, slack)
              moved   == Adjust(copy, "copy", m)
              joined  == AddedAll(moved, p, BeginAll(moved, "copy"), slack)
          IN  Become(Destroyed(joined, "copy"))
    BY <1>4, Zenon DEF Concatenate
  <1>8. slack \in Nat
    BY ByteTagAssumption
  <1>9. PICK trimmed : trimmed = AddAtEnd(Store, p, m, slack)
    OBVIOUS
  <1>10. PICK shared : shared = Assigned(trimmed, "copy", q)
    OBVIOUS
  <1>11. PICK copy : copy = AddAtStart(shared, "copy", 0, slack)
    OBVIOUS
  <1>12. PICK moved : moved = Adjust(copy, "copy", m)
    OBVIOUS
  <1>13. PICK items : items = Begin(moved, "copy", 0, Infinity)
    OBVIOUS
  <1>14. PICK joined : joined = AddedAll(moved, p, items, slack)
    OBVIOUS
  <1>15. PICK t : t = Destroyed(joined, "copy")
    OBVIOUS
  <1>16. Become(t)
    BY <1>7, <1>9, <1>10, <1>11, <1>12, <1>13, <1>14, <1>15 DEF BeginAll
  \* what each step does to its list
  <1>17. /\ Kept(Store, trimmed, p)
         /\ \A b \in 1..m : Shows(trimmed, p, b) = Shows(Store, p, b)
         /\ \A b \in Int : b > m => Shows(trimmed, p, b) = {}
    <2>1. Kept(Store, trimmed, p)
      BY <1>1, <1>3, <1>4, <1>8, <1>9, AddAtEndIsGood
    <2>2. \A b \in 1..m : Shows(trimmed, p, b) = Shows(Store, p, b)
      BY <1>1, <1>3, <1>4, <1>8, <1>9, AddAtEndIsGood
    <2>3. \A b \in Int : b > m => Shows(trimmed, p, b) = {}
      BY <1>1, <1>3, <1>4, <1>8, <1>9, AddAtEndIsGood
    <2> QED
      BY <2>1, <2>2, <2>3
  <1>18. /\ Good(trimmed) /\ trimmed.tags[p] # Gone /\ trimmed.tags[q] # Gone
         /\ trimmed.tags["list"] = Gone
    <2>1. Kept(Store, trimmed, p)
      BY <1>17
    <2>2. trimmed.tags["list"] = Store.tags["list"]
      BY <1>1, <1>3, <2>1, Passed
    <2>3. q # p => trimmed.tags[q] = Store.tags[q]
      BY <1>1, <1>2, <2>1, Passed
    <2> QED
      BY <1>2, <1>3, <2>1, <2>2, <2>3 DEF Kept
  <1>19. /\ Kept(trimmed, shared, "copy")
         /\ \A b : Shows(shared, "copy", b) = Shows(trimmed, q, b)
    <2>1. /\ Good(shared) /\ Rest(trimmed, shared, {"copy"})
          /\ shared.tags["copy"] = trimmed.tags[q]
          /\ Items(shared, "copy") = Items(trimmed, q)
      BY <1>2, <1>3, <1>10, <1>18, AssignedIsGood
    <2> QED
      BY <1>18, <2>1 DEF Kept, Shows
  <1>20. Good(shared) /\ shared.tags["copy"] # Gone /\ shared.tags["list"] = Gone
    <2>1. Kept(trimmed, shared, "copy")
      BY <1>19
    <2>2. shared.tags["list"] = trimmed.tags["list"]
      BY <1>3, <2>1, Passed
    <2> QED
      BY <1>18, <2>1, <2>2 DEF Kept
  <1>21. /\ Kept(shared, copy, "copy")
         /\ \A b \in Int : 0 < b /\ b <= Infinity =>
              Shows(copy, "copy", b) = Shows(shared, "copy", b)
         /\ \A b \in Int : b <= 0 => Shows(copy, "copy", b) = {}
    <2>0. 0 \in Int
      OBVIOUS
    <2>1. Kept(shared, copy, "copy")
      BY <1>3, <1>8, <1>11, <1>20, <2>0, AddAtStartIsGood
    <2>2. \A b \in Int : 0 < b /\ b <= Infinity =>
            Shows(copy, "copy", b) = Shows(shared, "copy", b)
      BY <1>3, <1>8, <1>11, <1>20, <2>0, AddAtStartIsGood
    <2>3. \A b \in Int : b <= 0 => Shows(copy, "copy", b) = {}
      BY <1>3, <1>8, <1>11, <1>20, <2>0, AddAtStartIsGood
    <2> QED
      BY <2>1, <2>2, <2>3
  <1>22. Good(copy) /\ copy.tags["copy"] # Gone
    BY <1>21 DEF Kept
  <1>23. /\ Kept(copy, moved, "copy")
         /\ \A b \in Int : Shows(moved, "copy", b) = Shows(copy, "copy", b - m)
    <2>1. Kept(copy, moved, "copy")
      BY <1>3, <1>4, <1>12, <1>22, AdjustKeeps
    <2>2. \A b \in Int : Shows(moved, "copy", b) = Shows(copy, "copy", b - m)
      BY <1>3, <1>4, <1>12, <1>22, AdjustKeeps
    <2> QED
      BY <2>1, <2>2
  <1>24. Good(moved) /\ moved.tags["copy"] # Gone
    BY <1>23 DEF Kept
  <1>25. /\ Placed(items)
         /\ \A b \in Int : TagsAt(items, 0, b)
                             = IF 0 < b /\ b <= Infinity THEN Shows(moved, "copy", b) ELSE {}
    <2>0. 0 \in Int /\ Infinity \in Int
      BY ByteTagAssumption
    <2>1. Placed(items)
      BY <1>3, <1>13, <1>24, <2>0, BeginIs
    <2>2. \A b \in Int : TagsAt(items, 0, b)
                           = IF 0 < b /\ b <= Infinity THEN Shows(moved, "copy", b) ELSE {}
      BY <1>3, <1>13, <1>24, <2>0, BeginIs
    <2> QED
      BY <2>1, <2>2
  \* p's list, which the steps on the copy leave alone
  <1>26. /\ moved.tags[p] # Gone
         /\ \A b : Shows(moved, p, b) = Shows(trimmed, p, b)
    <2>1. shared.tags[p] # Gone /\ \A b : Shows(shared, p, b) = Shows(trimmed, p, b)
      BY <1>1, <1>3, <1>18, <1>19, Passed
    <2>2. copy.tags[p] # Gone /\ \A b : Shows(copy, p, b) = Shows(shared, p, b)
      BY <1>1, <1>3, <1>21, <2>1, Passed
    <2>3. moved.tags[p] # Gone /\ \A b : Shows(moved, p, b) = Shows(copy, p, b)
      BY <1>1, <1>3, <1>23, <2>2, Passed
    <2> QED
      BY <2>1, <2>2, <2>3
  <1>27. /\ Kept(moved, joined, p)
         /\ \A b \in Int : Shows(joined, p, b) = Shows(moved, p, b) \cup TagsAt(items, 0, b)
    <2>1. Placed(items)
      BY <1>25
    <2>2. Kept(moved, joined, p)
      BY <1>1, <1>8, <1>14, <1>24, <1>26, <2>1, AddedAllKeeps
    <2>3. \A b \in Int : Shows(joined, p, b) = Shows(moved, p, b) \cup TagsAt(items, 0, b)
      BY <1>1, <1>8, <1>14, <1>24, <1>26, <2>1, AddedAllKeeps
    <2> QED
      BY <2>2, <2>3
  <1>28. Good(joined) /\ joined.tags["copy"] # Gone /\ joined.tags[p] # Gone
    <2>1. Kept(moved, joined, p)
      BY <1>27
    <2>2. joined.tags["copy"] = moved.tags["copy"]
      BY <1>1, <1>3, <2>1, Passed
    <2> QED
      BY <1>24, <2>1, <2>2 DEF Kept
  <1>29. Good(t) /\ Rest(joined, t, {"copy"}) /\ t.tags["copy"] = Gone
    BY <1>3, <1>15, <1>28, DestroyedIsGood
  <1>30. t.tags[p] # Gone /\ \A b : Shows(t, p, b) = Shows(joined, p, b)
    <2>1. p \in Names \ {"copy"}
      BY <1>1
    <2>2. t.tags[p] = joined.tags[p] /\ Items(t, p) = Items(joined, p)
      BY <1>28, <1>29, <2>1 DEF Rest
    <2> QED
      BY <1>28, <2>2 DEF Shows
  \* and the other lists
  <1>31. Kept(Store, t, p)
    <2>1. ASSUME NEW n \in Names, n # p
          PROVE  /\ t.tags[n] = Store.tags[n]
                 /\ Store.tags[n] # Gone => Items(t, n) = Items(Store, n)
      <3>1. CASE n = "copy"
        BY <1>3, <1>29, <3>1
      <3>2. CASE n # "copy"
        <4>1. n \in Names \ {p} /\ n \in Names \ {"copy"}
          BY <2>1, <3>2
        <4>2. /\ Rest(Store, trimmed, {p}) /\ Rest(trimmed, shared, {"copy"})
              /\ Rest(shared, copy, {"copy"}) /\ Rest(copy, moved, {"copy"})
              /\ Rest(moved, joined, {p}) /\ Rest(joined, t, {"copy"})
          BY <1>17, <1>19, <1>21, <1>23, <1>27, <1>29 DEF Kept
        <4>3. /\ shared.tags[n] = Store.tags[n]
              /\ Store.tags[n] # Gone => Items(shared, n) = Items(Store, n)
          BY <4>1, <4>2 DEF Rest
        <4>4. /\ moved.tags[n] = shared.tags[n]
              /\ shared.tags[n] # Gone => Items(moved, n) = Items(shared, n)
          BY <4>1, <4>2 DEF Rest
        <4>5. /\ t.tags[n] = moved.tags[n]
              /\ moved.tags[n] # Gone => Items(t, n) = Items(moved, n)
          BY <4>1, <4>2 DEF Rest
        <4> QED
          BY <4>3, <4>4, <4>5
      <3> QED
        BY <3>1, <3>2
    <2>2. Rest(Store, t, {p})
      BY <2>1 DEF Rest
    <2> QED
      BY <1>29, <1>30, <2>2 DEF Kept
  \* what p shows in the end
  <1>32. ASSUME NEW b \in 1..m
         PROVE  Shows(t, p, b) = Shows(Store, p, b)
    <2>1. b \in Int /\ b - m \in Int /\ b - m <= 0
      BY <1>4
    <2>2. Shows(copy, "copy", b - m) = {}
      BY <1>21, <2>1
    <2>3. TagsAt(items, 0, b) = {}
      BY <1>23, <1>25, <2>1, <2>2
    <2> QED
      BY <1>17, <1>26, <1>27, <1>30, <2>1, <2>3
  <1>33. ASSUME NEW b \in 1..k
         PROVE  Shows(trimmed, q, b) = Shows(Store, q, b)
    <2>1. CASE q = p
      BY <1>4, <1>5, <1>17, <2>1
    <2>2. CASE q # p
      BY <1>1, <1>2, <1>17, <2>2, Passed
    <2> QED
      BY <2>1, <2>2
  <1>34. ASSUME NEW b \in 1..k
         PROVE  Shows(t, p, b + m) = Shows(Store, q, b)
    <2>1. PICK c \in Int : c = b + m
      BY <1>4, <1>5
    <2>2. b \in Int /\ 0 < b /\ b <= Infinity /\ c > m /\ 0 < c /\ c <= Infinity /\ c - m = b
      BY <1>4, <1>5, <1>6, <2>1, ByteTagAssumption
    <2>3. TagsAt(items, 0, c) = Shows(moved, "copy", c)
      BY <1>25, <2>1, <2>2
    <2>4. Shows(moved, "copy", c) = Shows(copy, "copy", b)
      BY <1>23, <2>1, <2>2
    <2>5. Shows(copy, "copy", b) = Shows(Store, q, b)
      BY <1>19, <1>21, <1>33, <2>2
    <2>6. Shows(moved, p, c) = {}
      BY <1>17, <1>26, <2>1, <2>2
    <2>7. Shows(t, p, c) = Shows(Store, q, b)
      BY <1>27, <1>30, <2>1, <2>3, <2>4, <2>5, <2>6
    <2> QED
      BY <2>1, <2>7
  <1>35. Ends(p, r, t)
    <2>1. size' = [size EXCEPT ![p] = r]
      BY <1>4, <1>5, <1>6 DEF Concatenate
    <2> QED
      BY <1>16, <1>31, <2>1, AfterCall
  <1>36. PICK new \in Rows : new = Marks'[p]
    BY <1>35 DEF Ends
  <1>37. Len(new) = r /\ Len(Marks[p]) = m /\ Len(Marks[q]) = k
         /\ Len(new) = Len(Marks[p]) + Len(Marks[q])
    BY <1>1, <1>2, <1>4, <1>5, <1>6, <1>35, <1>36 DEF Whole, Ends
  <1>38. ASSUME NEW b \in 1..Len(Marks[p]) PROVE new[b] = Marks[p][b]
    <2>1. b \in 1..m /\ b \in 1..r
      BY <1>4, <1>5, <1>6, <1>37
    <2> QED
      BY <1>1, <1>4, <1>32, <1>35, <1>36, <2>1 DEF Whole, Ends
  <1>39. ASSUME NEW b \in 1..Len(Marks[q]) PROVE new[b + Len(Marks[p])] = Marks[q][b]
    <2>0. m \in Nat /\ k \in Nat /\ r \in Nat /\ r = m + k
      BY <1>4, <1>5, <1>6, ByteTagAssumption
    <2>1. b \in 1..k /\ b + m \in 1..r
      BY <1>37, <2>0
    <2>2. new[b + m] = Shows(Store, q, b)
      BY <1>34, <1>35, <1>36, <2>1 DEF Ends
    <2> QED
      BY <1>2, <1>5, <1>37, <2>1, <2>2 DEF Whole
  <1>40. new = Marks[p] \o Marks[q]
    BY <1>1, <1>2, <1>37, <1>38, <1>39, SameRows DEF Whole
  <1>41. call' = <<"Concatenate", p, q>>
    BY DEF Concatenate
  <1>42. PerByte!Does(<<"Concatenate", p, q>>, p, Marks[p] \o Marks[q])
    BY <1>35, <1>36, <1>40, <1>41, Done DEF Ends
  <1> QED
    BY <1>35, <1>42, <1>1, <1>2 DEF PerByte!Concatenate, PerByte!Exists, Ends, Whole

-----------------------------------------------------------------------------
LEMMA InitIsGood ==
  ASSUME GoneIsNothing, Init
  PROVE  IInv /\ PerByte!Init
  <1>1. /\ Store = [tags |-> [n \in Names |-> Gone], block |-> [a \in Address |-> Gone]]
        /\ size = [p \in Packet |-> Gone] /\ tags = [p \in Packet |-> Gone]
    BY DEF Init, Store, Names
  <1>2. IInv
    BY <1>1 DEF IInv, Good, Stores
  <1>3. Marks = [p \in Packet |-> Gone]
    BY <1>1, Zenon DEF Marks, Exists
  <1>4. call = << >>
    BY DEF Init
  <1> QED
    BY <1>2, <1>3, <1>4 DEF PerByte!Init

LEMMA CallTells ==
  ASSUME GoneIsNothing, IInv, Next
  PROVE  IInv' /\ PerByte!Next
  <1>1. PICK p \in Packet :
          \/ Destroy(p) \/ RemoveAllByteTags(p)
          \/ \E x \in Tag : AddByteTag(p, x)
          \/ \E n \in 1..MaxLength : \/ Create(p, n) \/ AddHeader(p, n) \/ AddTrailer(p, n)
                                     \/ RemoveAtStart(p, n) \/ RemoveAtEnd(p, n)
          \/ \E q \in Packet :
               \/ Copy(p, q) \/ Concatenate(p, q)
               \/ \E i, n \in 0..MaxLength : CreateFragment(p, q, i, n)
    BY DEF Next
  <1>2. CASE Destroy(p)
    BY <1>2, DestroyTells DEF PerByte!Next
  <1>3. CASE RemoveAllByteTags(p)
    BY <1>3, RemoveAllByteTagsTells DEF PerByte!Next
  <1>4. CASE \E x \in Tag : AddByteTag(p, x)
    BY <1>4, AddByteTagTells DEF PerByte!Next
  <1>5. ASSUME NEW n \in 1..MaxLength,
               \/ Create(p, n) \/ AddHeader(p, n) \/ AddTrailer(p, n)
               \/ RemoveAtStart(p, n) \/ RemoveAtEnd(p, n)
        PROVE  IInv' /\ PerByte!Next
    <2>1. IInv' /\ \/ PerByte!Create(p, n) \/ PerByte!AddHeader(p, n)
                   \/ PerByte!AddTrailer(p, n) \/ PerByte!RemoveAtStart(p, n)
                   \/ PerByte!RemoveAtEnd(p, n)
      BY <1>5, CreateTells, AddHeaderTells, AddTrailerTells, RemoveAtStartTells,
         RemoveAtEndTells
    <2> QED
      BY <2>1, Zenon DEF PerByte!Next
  <1>6. ASSUME NEW q \in Packet,
               \/ Copy(p, q) \/ Concatenate(p, q)
               \/ \E i, n \in 0..MaxLength : CreateFragment(p, q, i, n)
        PROVE  IInv' /\ PerByte!Next
    <2>1. IInv' /\ \/ PerByte!Copy(p, q) \/ PerByte!Concatenate(p, q)
                   \/ \E i, n \in 0..MaxLength : PerByte!CreateFragment(p, q, i, n)
      BY <1>6, CopyTells, ConcatenateTells, CreateFragmentTells
    <2> QED
      BY <2>1, Zenon DEF PerByte!Next
  <1> QED
    BY <1>1, <1>2, <1>3, <1>4, <1>5, <1>6

(* A step leaves the store good, and changes what the bytes show as        *)
(* PerByteTags does.                                                       *)
LEMMA StepIsGood ==
  ASSUME GoneIsNothing
  PROVE  IInv /\ [Next]_vars => IInv' /\ [PerByte!Next]_<<Marks, call>>
  <1> SUFFICES ASSUME IInv, [Next]_vars
               PROVE  IInv' /\ [PerByte!Next]_<<Marks, call>>
    OBVIOUS
  <1>1. CASE Next
    BY <1>1, CallTells
  <1>2. CASE UNCHANGED vars
    <2>1. size' = size /\ tags' = tags /\ block' = block /\ call' = call
      BY <1>2 DEF vars
    <2>2. Store' = Store
      BY <2>1 DEF Store
    <2>3. IInv'
      BY <2>1, <2>2 DEF IInv, Good, Stores, Refs
    <2>4. Marks' = Marks
      BY <2>1, <2>2 DEF Marks, Exists
    <2> QED
      BY <2>1, <2>3, <2>4
  <1> QED
    BY <1>1, <1>2

LEMMA Inductive ==
  ASSUME GoneIsNothing
  PROVE  Spec => []IInv
  <1>1. Init => IInv
    BY InitIsGood
  <1>2. IInv /\ [Next]_vars => IInv'
    BY StepIsGood
  <1> QED
    BY <1>1, <1>2, PTL DEF Spec

(* Lists that share a block stay below its dirty mark, so that the place   *)
(* behind it is free for whoever comes first (byte-tag-list.cc:201), and a *)
(* block counts exactly the lists that use it: none is recycled under a    *)
(* list, and none is kept for nobody.                                      *)
THEOREM ListsStayBelowDirty ==
  ASSUME GoneIsNothing
  PROVE  Spec => []SharedBelowDirty
  <1>1. ASSUME IInv
        PROVE  SharedBelowDirty
    <2>1. Good(Store) /\ Store.block = block
      BY <1>1 DEF IInv, Store
    <2>2. ASSUME NEW p \in Packet
          PROVE  /\ p \in Names /\ Store.tags[p] = tags[p]
                 /\ p \in Living <=> tags[p] # Gone
      BY <1>1, StoreIs DEF IInv, Living, Exists
    <2>3. ASSUME NEW p \in Living, tags[p].m_data # Null
          PROVE  /\ block[tags[p].m_data] # Gone
                 /\ Sane(tags[p], block[tags[p].m_data])
    <3>1. p \in Names /\ Store.tags[p] = tags[p] /\ Store.tags[p] # Gone
      BY <2>2 DEF Living
    <3> QED
      BY <2>1, <2>3, <3>1 DEF Good
    <2>4. ASSUME NEW a \in Address, block[a] # Gone
          PROVE  block[a].count = Cardinality({p \in Living : tags[p].m_data = a})
      <3>1. \A n \in Temporary : Store.tags[n] = Gone
        BY <1>1, MemoryAssumption DEF Store
      <3>2. {p \in Living : tags[p].m_data = a} = Refs(Store, a)
        BY <2>2, <3>1 DEF Refs, Names, Living
      <3>3. block[a].count = Cardinality(Refs(Store, a))
        BY <2>1, <2>4 DEF Good
      <3> QED
        BY <3>2, <3>3
    <2> QED
      BY <2>3, <2>4 DEF SharedBelowDirty, Sane
  <1> QED
    BY <1>1, Inductive, PTL

(* The bounds of a list take in all its items, so that AddAtStart and      *)
(* AddAtEnd skip no item they should cut (byte-tag-list.cc:280, 312).      *)
THEOREM BoundsAreSound ==
  ASSUME GoneIsNothing
  PROVE  Spec => []BoundsCoverItems
  <1>1. ASSUME IInv
        PROVE  BoundsCoverItems
    <2>1. ASSUME NEW p \in Living
          PROVE  /\ p \in Names /\ Store.tags[p] = tags[p] /\ Store.tags[p] # Gone
      BY <1>1, StoreIs DEF IInv, Living, Exists
    <2>2. Good(Store)
      BY <1>1 DEF IInv
    <2>3. ASSUME NEW p \in Living, NEW i \in DOMAIN Items(Store, p)
          PROVE  /\ tags[p].m_minStart <= Items(Store, p)[i].start
                 /\ Items(Store, p)[i].end <= tags[p].m_maxEnd
      BY <2>1, <2>2, ItemsAre
    <2> QED
      BY <2>3 DEF BoundsCoverItems
  <1> QED
    BY <1>1, Inductive, PTL

(* Tags stick to their bytes: whatever the blocks share, however late      *)
(* offsets are cut and whichever shortcuts AddAtStart and AddAtEnd take,   *)
(* each call leaves its packet with exactly the marks that PerByteTags     *)
(* gives for this call and these arguments (the bytes that a header, cut,  *)
(* fragment or join moves take their tags along, by the same count and at  *)
(* the same end), and leaves what the other packets show.                  *)
THEOREM TagsStickToBytes ==
  ASSUME GoneIsNothing
  PROVE  Spec => ImplementsPerByteTags
  <1>1. Init => PerByte!Init
    BY InitIsGood
  <1>2. IInv /\ [Next]_vars => [PerByte!Next]_<<Marks, call>>
    BY StepIsGood
  <1> QED
    BY <1>1, <1>2, Inductive, PTL DEF Spec, ImplementsPerByteTags, PerByte!Spec
=============================================================================
