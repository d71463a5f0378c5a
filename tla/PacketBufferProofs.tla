------------------------- MODULE PacketBufferProofs -------------------------
(***************************************************************************)
(* A block of memory counts the buffers that refer to it, and every buffer *)
(* passes the check that buffer.cc has switched off, for any number of     *)
(* packets, any bytes, sizes and slack, and every sequence of calls.       *)
(***************************************************************************)
EXTENDS PacketBuffer, SumTheorems
LOCAL INSTANCE FiniteSetsExt

Names   == Packet \cup Temporary
Values  == Byte \cup {Old}
Buffers == [m_data : Address, m_start : Nat, m_zeroAreaStart : Nat,
            m_zeroAreaEnd : Nat, m_end : Nat]
Sized(n) == [m_count : Nat, m_size : {n}, m_dirtyStart : Int, m_dirtyEnd : Int,
             bytes : [0..(n - 1) -> Values]]
Blocks  == UNION {Sized(n) : n \in Nat}
Stores  == [buffer : [Names -> Buffers \cup {Gone}],
            block : [Address -> Blocks \cup {Gone}]]

(* Gone is told from what exists. *)
GoneIsNothing == Gone \notin Buffers /\ Gone \notin Blocks

(* Buffer b passes its check on block d. *)
Sane(b, d) ==
  /\ b.m_start <= b.m_zeroAreaStart
  /\ b.m_zeroAreaStart <= b.m_zeroAreaEnd /\ b.m_zeroAreaEnd <= b.m_end
  /\ b.m_start >= d.m_dirtyStart /\ b.m_end <= d.m_dirtyEnd
  /\ InternalEnd(b) <= d.m_size /\ b.m_zeroAreaStart <= d.m_size

Refs(s, a) == {n \in Names : s.buffer[n] # Gone /\ s.buffer[n].m_data = a}

(* What holds between any two steps of a call, its local buffers included. *)
Good(s) ==
  /\ s \in Stores
  /\ \A n \in Names : s.buffer[n] # Gone =>
        /\ s.block[s.buffer[n].m_data] # Gone
        /\ Sane(s.buffer[n], s.block[s.buffer[n].m_data])
  /\ \A a \in Address : s.block[a] # Gone =>
        /\ s.block[a].m_count = Cardinality(Refs(s, a))
        /\ s.block[a].m_count > 0

(* p alone has changed its buffer from s to t. *)
Only(s, t, p) == \A n \in Names \ {p} : t.buffer[n] = s.buffer[n]

(* What a change of p's buffer must do to the block at a: count p when it  *)
(* comes and when it goes, and keep the other buffers on the block sane.   *)
Follows(s, t, p, a) ==
  /\ p \in Refs(t, a) =>
       /\ t.block[a] # Gone
       /\ Sane(t.buffer[p], t.block[a])
       /\ s.block[a] = Gone => t.block[a].m_count = 1
       /\ s.block[a] # Gone /\ p \in Refs(s, a) =>
            t.block[a].m_count = s.block[a].m_count
       /\ s.block[a] # Gone /\ p \notin Refs(s, a) =>
            t.block[a].m_count = s.block[a].m_count + 1
       /\ \A n \in Refs(s, a) \ {p} : Sane(s.buffer[n], t.block[a])
  /\ p \in Refs(s, a) /\ p \notin Refs(t, a) =>
       IF s.block[a].m_count = 1 THEN t.block[a] = Gone
       ELSE t.block[a] = [s.block[a] EXCEPT !.m_count = @ - 1]
  /\ p \notin Refs(s, a) /\ p \notin Refs(t, a) => t.block[a] = s.block[a]

-----------------------------------------------------------------------------
LEMMA NamesFinite ==
  /\ IsFiniteSet(Names) /\ Cardinality(Names) \in Nat
  /\ Cardinality(Address) \in Nat /\ Cardinality(Address) > Cardinality(Names)
  /\ IsFiniteSet(Address)
  <1>1. Temporary = ({"tmp"} \cup {"dst"}) \cup {"src"}
    BY DEF Temporary
  <1>2. IsFiniteSet(Temporary)
    BY <1>1, FS_Singleton, FS_Union
  <1> QED
    BY <1>2, MemoryAssumption, FS_Union, FS_CardinalityType DEF Names

LEMMA RefsFinite ==
  ASSUME NEW s, NEW a
  PROVE  IsFiniteSet(Refs(s, a)) /\ Cardinality(Refs(s, a)) \in Nat
  <1>1. Refs(s, a) \in SUBSET Names
    BY DEF Refs
  <1> QED
    BY <1>1, NamesFinite, FS_Subset, FS_CardinalityType

(* A block has its own size. *)
LEMMA BlockIs ==
  ASSUME NEW d \in Blocks
  PROVE  d \in Sized(d.m_size) /\ d.m_size \in Nat
  BY DEF Blocks, Sized

LEMMA IsBlock ==
  ASSUME NEW n \in Nat, NEW d \in Sized(n)
  PROVE  d \in Blocks /\ d.m_size = n
  BY DEF Blocks, Sized

(* A block with another count is a block, and otherwise the same. *)
LEMMA CountSet ==
  ASSUME NEW d \in Blocks, NEW k \in Nat, NEW e, e = [d EXCEPT !.m_count = k]
  PROVE  /\ e \in Blocks /\ e.m_count = k /\ e.m_size = d.m_size
         /\ e.m_dirtyStart = d.m_dirtyStart /\ e.m_dirtyEnd = d.m_dirtyEnd
  <1>1. d \in Sized(d.m_size) /\ d.m_size \in Nat
    BY BlockIs
  <1>2. e \in Sized(d.m_size)
    BY <1>1 DEF Sized
  <1> QED
    BY <1>1, <1>2, IsBlock DEF Sized

(* Memory never runs out: each block in use has a name of its own. *)
LEMMA Free ==
  ASSUME NEW s, Good(s)
  PROVE  Fresh(s) \in Address /\ s.block[Fresh(s)] = Gone
  <1> DEFINE T == {a \in Address : s.block[a] # Gone}
             F == {a \in Address : s.block[a] = Gone}
             f == [a \in T |-> CHOOSE n \in Refs(s, a) : TRUE]
  <1>1. ASSUME NEW a \in T
        PROVE  f[a] \in Refs(s, a)
    <2>1. Cardinality(Refs(s, a)) # 0
      BY DEF Good
    <2>2. Refs(s, a) # {}
      BY <2>1, FS_EmptySet
    <2>3. f[a] = CHOOSE n \in Refs(s, a) : TRUE
      OBVIOUS
    <2> QED
      BY <2>2, <2>3
  <1> HIDE DEF f
  <1>2. f \in [T -> Names]
    BY <1>1 DEF f, Refs
  <1>3. \A a, c \in T : f[a] = f[c] => a = c
    BY <1>1 DEF Refs
  <1>4. IsFiniteSet(T) /\ Cardinality(T) \in Nat
    <2>1. T \in SUBSET Address
      OBVIOUS
    <2> QED
      BY <2>1, NamesFinite, FS_Subset, FS_CardinalityType
  <1> HIDE DEF T
  <1>5. ~(Cardinality(Names) < Cardinality(T))
    BY <1>2, <1>3, <1>4, NamesFinite, FS_PigeonHole
  <1> USE DEF T
  <1>6. F # {}
    <2> SUFFICES ASSUME F = {} PROVE FALSE
      OBVIOUS
    <2>1. T = Address
      OBVIOUS
    <2> QED
      BY <1>5, <2>1, NamesFinite
  <1>7. F \in SUBSET Nat
    BY BufferAssumption
  <1>8. \E a \in F : \A c \in F : a <= c
    BY <1>6, <1>7, Least
  <1>9. Fresh(s) = CHOOSE a \in F : \A c \in F : a <= c
    BY Zenon DEF Fresh, Min
  <1>10. Fresh(s) \in F
    BY <1>8, <1>9
  <1> QED
    BY <1>10

LEMMA Recount ==
  ASSUME NEW s, NEW t, NEW p \in Names, Only(s, t, p), NEW a
  PROVE  /\ (p \in Refs(s, a) <=> p \in Refs(t, a)) =>
              Cardinality(Refs(t, a)) = Cardinality(Refs(s, a))
         /\ p \in Refs(s, a) /\ p \notin Refs(t, a) =>
              Cardinality(Refs(t, a)) = Cardinality(Refs(s, a)) - 1
         /\ p \notin Refs(s, a) /\ p \in Refs(t, a) =>
              Cardinality(Refs(t, a)) = Cardinality(Refs(s, a)) + 1
  <1>1. Refs(t, a) \ {p} = Refs(s, a) \ {p}
    BY DEF Only, Refs
  <1>2. CASE p \in Refs(s, a) <=> p \in Refs(t, a)
    <2>1. Refs(t, a) = Refs(s, a)
      BY <1>1, <1>2
    <2> QED
      BY <1>2, <2>1
  <1>3. CASE p \in Refs(s, a) /\ p \notin Refs(t, a)
    <2>1. Refs(t, a) = Refs(s, a) \ {p}
      BY <1>1, <1>3
    <2> QED
      BY <1>3, <2>1, RefsFinite, FS_RemoveElement
  <1>4. CASE p \notin Refs(s, a) /\ p \in Refs(t, a)
    <2>1. Refs(t, a) = Refs(s, a) \cup {p}
      BY <1>1, <1>4
    <2> QED
      BY <1>4, <2>1, RefsFinite, FS_AddElement
  <1> QED
    BY <1>2, <1>3, <1>4

(* A block that is not there is referred to by nobody; a block with a      *)
(* count of one, by one buffer.                                            *)
LEMMA Nobody ==
  ASSUME NEW s, Good(s), NEW a \in Address
  PROVE  /\ s.block[a] = Gone => Refs(s, a) = {}
         /\ \A p \in Refs(s, a) : s.block[a] # Gone
         /\ \A p \in Refs(s, a) : s.block[a].m_count = 1 => Refs(s, a) = {p}
  <1>1. s.block[a] = Gone => Refs(s, a) = {}
    BY DEF Good, Refs
  <1>2. ASSUME NEW p \in Refs(s, a), s.block[a].m_count = 1
        PROVE  Refs(s, a) = {p}
    <2>1. Cardinality(Refs(s, a)) = 1
      BY <1>1, <1>2 DEF Good
    <2>2. PICK q : Refs(s, a) = {q}
      BY <2>1, RefsFinite, FS_Singleton
    <2> QED
      BY <1>2, <2>2
  <1> QED
    BY <1>1, <1>2

LEMMA Rebound ==
  ASSUME GoneIsNothing,
         NEW s, Good(s), NEW t \in Stores, NEW p \in Names, Only(s, t, p),
         \A a \in Address : Follows(s, t, p, a)
  PROVE  Good(t)
  <1>1. ASSUME NEW a \in Address, NEW n \in Refs(t, a)
        PROVE  t.block[a] # Gone /\ Sane(t.buffer[n], t.block[a])
    <2>1. CASE n = p
      BY <1>1, <2>1 DEF Follows
    <2>2. CASE n # p
      <3>1. n \in Refs(s, a) /\ t.buffer[n] = s.buffer[n] /\ n \in Names
        BY <1>1, <2>2 DEF Only, Refs
      <3>2. s.block[a] # Gone /\ Sane(s.buffer[n], s.block[a])
        BY <3>1 DEF Good, Refs
      <3>3. CASE p \in Refs(t, a)
        BY <1>1, <2>2, <3>1, <3>3 DEF Follows
      <3>4. CASE p \notin Refs(t, a) /\ p \in Refs(s, a)
        <4>1. s.block[a].m_count # 1
          BY <2>2, <3>1, <3>4, Nobody
        <4>2. t.block[a] = [s.block[a] EXCEPT !.m_count = @ - 1]
          BY <3>4, <4>1 DEF Follows
        <4>3. t.block[a] \in Blocks \cup {Gone} /\ s.block[a] \in Blocks
          BY <3>2 DEF Good, Stores
        <4>5. Cardinality(Refs(s, a)) \in Nat
          BY RefsFinite
        <4>6. s.block[a].m_count \in Nat /\ s.block[a].m_count > 0
          BY <3>2, <4>5 DEF Good
        <4>7. s.block[a].m_count - 1 \in Nat
          BY <4>6
        <4>8. /\ t.block[a] \in Blocks /\ t.block[a].m_size = s.block[a].m_size
              /\ t.block[a].m_dirtyStart = s.block[a].m_dirtyStart
              /\ t.block[a].m_dirtyEnd = s.block[a].m_dirtyEnd
          BY <4>2, <4>3, <4>7, CountSet
        <4>9. t.block[a] # Gone
          BY <4>8 DEF GoneIsNothing
        <4> QED
          BY <3>1, <3>2, <4>8, <4>9 DEF Sane
      <3>5. CASE p \notin Refs(t, a) /\ p \notin Refs(s, a)
        BY <3>1, <3>2, <3>5 DEF Follows
      <3> QED
        BY <3>3, <3>4, <3>5
    <2> QED
      BY <2>1, <2>2
  <1>2. ASSUME NEW a \in Address, t.block[a] # Gone
        PROVE  t.block[a].m_count = Cardinality(Refs(t, a))
    <2> DEFINE c == Cardinality(Refs(s, a)) e == Cardinality(Refs(t, a))
    <2>1. /\ (p \in Refs(s, a) <=> p \in Refs(t, a)) => e = c
          /\ p \in Refs(s, a) /\ p \notin Refs(t, a) => e = c - 1
          /\ p \notin Refs(s, a) /\ p \in Refs(t, a) => e = c + 1
      BY Recount
    <2>2. c \in Nat /\ e \in Nat
      BY RefsFinite
    <2>3. s.block[a] = Gone => c = 0 /\ p \notin Refs(s, a)
      BY Nobody, FS_EmptySet
    <2>4. s.block[a] # Gone => s.block[a].m_count = c
      BY DEF Good
    <2>5. s.block[a] # Gone /\ s.block[a].m_count # 1 =>
            [s.block[a] EXCEPT !.m_count = @ - 1].m_count = s.block[a].m_count - 1
      <3> SUFFICES ASSUME s.block[a] # Gone PROVE s.block[a] \in Blocks
        BY DEF Blocks, Sized
      <3> QED
        BY DEF Good, Stores
    <2> SUFFICES t.block[a].m_count = e
      BY DEF e
    <2> HIDE DEF c, e
    <2>6. CASE p \in Refs(t, a)
      <3>1. /\ s.block[a] = Gone => t.block[a].m_count = 1
            /\ s.block[a] # Gone /\ p \in Refs(s, a) =>
                 t.block[a].m_count = s.block[a].m_count
            /\ s.block[a] # Gone /\ p \notin Refs(s, a) =>
                 t.block[a].m_count = s.block[a].m_count + 1
        BY <2>6, Zenon DEF Follows
      <3> QED
        BY <2>1, <2>2, <2>3, <2>4, <2>6, <3>1
    <2>7. CASE p \notin Refs(t, a) /\ p \in Refs(s, a)
      BY <1>2, <2>1, <2>2, <2>3, <2>4, <2>5, <2>7 DEF Follows
    <2>8. CASE p \notin Refs(t, a) /\ p \notin Refs(s, a)
      BY <1>2, <2>1, <2>2, <2>3, <2>4, <2>8 DEF Follows
    <2> QED
      BY <2>6, <2>7, <2>8
  <1>3. ASSUME NEW a \in Address, t.block[a] # Gone
        PROVE  t.block[a].m_count > 0
    <2>1. Refs(t, a) # {}
      <3>1. CASE p \in Refs(t, a)
        BY <3>1
      <3>2. CASE p \notin Refs(t, a) /\ p \in Refs(s, a)
        <4>1. s.block[a].m_count # 1
          BY <1>3, <3>2 DEF Follows
        <4>2. s.block[a].m_count = Cardinality(Refs(s, a))
          BY <3>2, Nobody DEF Good
        <4>3. Refs(s, a) # {p}
          BY <4>1, <4>2, FS_Singleton
        <4>4. PICK n \in Refs(s, a) : n # p
          BY <3>2, <4>3
        <4> QED
          BY <4>4 DEF Only, Refs
      <3>3. CASE p \notin Refs(t, a) /\ p \notin Refs(s, a)
        <4>1. t.block[a] = s.block[a]
          BY <3>3 DEF Follows
        <4>2. s.block[a].m_count = Cardinality(Refs(s, a)) /\ s.block[a].m_count > 0
          BY <1>3, <4>1 DEF Good
        <4>3. Refs(s, a) # {}
          BY <4>2, FS_EmptySet
        <4>4. PICK n \in Refs(s, a) : TRUE
          BY <4>3
        <4> QED
          BY <3>3, <4>4 DEF Only, Refs
      <3> QED
        BY <3>1, <3>2, <3>3
    <2>2. Cardinality(Refs(t, a)) # 0
      BY <2>1, RefsFinite, FS_EmptySet
    <2> QED
      BY <1>2, <1>3, <2>2, RefsFinite
  <1>4. ASSUME NEW n \in Names, t.buffer[n] # Gone
        PROVE  t.buffer[n].m_data \in Address /\ n \in Refs(t, t.buffer[n].m_data)
    BY <1>4 DEF Stores, Buffers, Refs
  <1> QED
    BY <1>1, <1>2, <1>3, <1>4 DEF Good

-----------------------------------------------------------------------------
(* What is known of a buffer and of its block. *)
LEMMA Held ==
  ASSUME GoneIsNothing, NEW s, Good(s), NEW p \in Names, s.buffer[p] # Gone
  PROVE  /\ s.buffer[p] \in Buffers /\ s.buffer[p].m_data \in Address
         /\ Data(s, p) \in Blocks /\ Data(s, p) # Gone
         /\ Data(s, p) \in Sized(Data(s, p).m_size) /\ Data(s, p).m_size \in Nat
         /\ Data(s, p).m_count \in Nat /\ Data(s, p).m_count > 0
         /\ Sane(s.buffer[p], Data(s, p))
         /\ p \in Refs(s, s.buffer[p].m_data)
         /\ Data(s, p).m_count = 1 => Refs(s, s.buffer[p].m_data) = {p}
  <1> DEFINE b == s.buffer[p]
  <1>1. b \in Buffers
    BY DEF Good, Stores
  <1>2. b.m_data \in Address
    BY <1>1 DEF Buffers
  <1>3. Data(s, p) # Gone /\ Sane(b, Data(s, p))
    BY DEF Good, Data
  <1>4. Data(s, p) \in Blocks
    BY <1>2, <1>3 DEF Good, Stores, Data
  <1>5. p \in Refs(s, b.m_data)
    BY DEF Refs
  <1>6. Data(s, p).m_count = 1 => Refs(s, b.m_data) = {p}
    BY <1>2, <1>5, Nobody DEF Data
  <1>7. Data(s, p).m_count = Cardinality(Refs(s, b.m_data)) /\ Data(s, p).m_count > 0
    BY <1>2, <1>3 DEF Good, Data
  <1> QED
    BY <1>1, <1>2, <1>3, <1>4, <1>5, <1>6, <1>7, BlockIs, RefsFinite

LEMMA Bounds ==
  ASSUME NEW b \in Buffers, NEW d, Sane(b, d), d.m_size \in Nat
  PROVE  /\ ZeroSize(b) \in Nat /\ Size(b) \in Nat /\ InternalSize(b) \in Nat
         /\ InternalEnd(b) \in Nat /\ InternalEnd(b) = b.m_start + InternalSize(b)
         /\ InternalEnd(b) <= d.m_size /\ b.m_zeroAreaStart <= d.m_size
         /\ ZeroSize(b) <= Size(b)
  BY DEF Buffers, Sane, ZeroSize, Size, InternalSize, InternalEnd

(* A store is its two maps. *)
LEMMA StoreIs ==
  ASSUME NEW s \in Stores
  PROVE  s = [buffer |-> s.buffer, block |-> s.block]
  BY DEF Stores

(* p's buffer changes on the block it has. *)
LEMMA InPlace ==
  ASSUME GoneIsNothing, NEW s, Good(s), NEW p \in Names, s.buffer[p] # Gone,
         NEW b \in Buffers, b.m_data = s.buffer[p].m_data,
         NEW d \in Blocks, d.m_count = Data(s, p).m_count, Sane(b, d),
         Data(s, p).m_count > 1 =>
            /\ d.m_dirtyStart <= Data(s, p).m_dirtyStart
            /\ d.m_dirtyEnd >= Data(s, p).m_dirtyEnd
            /\ d.m_size = Data(s, p).m_size,
         NEW t, t = Put(s, p, b, b.m_data, d)
  PROVE  /\ Good(t) /\ Only(s, t, p)
         /\ t.buffer[p] = b /\ t.buffer[p] # Gone /\ Data(t, p) = d
  <1>1. b.m_data \in Address /\ b # Gone /\ d # Gone
    BY DEF Buffers, GoneIsNothing
  <1>2. t \in Stores
    BY <1>1 DEF Good, Stores, Put
  <1>3. /\ t.buffer[p] = b /\ Only(s, t, p) /\ t.block[b.m_data] = d
        /\ \A a \in Address \ {b.m_data} : t.block[a] = s.block[a]
    BY <1>1 DEF Good, Stores, Only, Put
  <1>4. /\ p \in Refs(s, b.m_data) /\ p \in Refs(t, b.m_data)
        /\ \A a \in Address \ {b.m_data} : p \notin Refs(s, a) /\ p \notin Refs(t, a)
    BY <1>1, <1>3 DEF Refs
  <1>5. ASSUME NEW n \in Refs(s, b.m_data) \ {p}
        PROVE  Sane(s.buffer[n], d)
    <2>1. n \in Names /\ s.buffer[n] # Gone /\ s.buffer[n].m_data = b.m_data
      BY DEF Refs
    <2>2. Sane(s.buffer[n], Data(s, p)) /\ s.buffer[n] \in Buffers
      BY <2>1 DEF Good, Stores, Data
    <2>3. Data(s, p).m_count > 1
      BY <1>5, Held
    <2>4. /\ Data(s, p).m_dirtyStart \in Int /\ Data(s, p).m_dirtyEnd \in Int
          /\ d.m_dirtyStart \in Int /\ d.m_dirtyEnd \in Int
      BY Held, BlockIs DEF Sized
    <2> QED
      BY <2>2, <2>3, <2>4 DEF Sane, Buffers
  <1>6. ASSUME NEW a \in Address
        PROVE  Follows(s, t, p, a)
    <2>1. CASE a = b.m_data
      <3>1. s.block[a] = Data(s, p) /\ s.block[a] # Gone
        BY <2>1, Held DEF Data
      <3> QED
        BY <1>1, <1>3, <1>4, <1>5, <2>1, <3>1 DEF Follows
    <2>2. CASE a # b.m_data
      BY <1>3, <1>4, <2>2 DEF Follows
    <2> QED
      BY <2>1, <2>2
  <1>7. Good(t)
    BY <1>2, <1>3, <1>6, Rebound
  <1> QED
    BY <1>1, <1>3, <1>7 DEF Data

LEMMA Released ==
  ASSUME NEW u \in Stores, NEW o \in Address, u.block[o] \in Blocks,
         u.block[o].m_count \in Nat, u.block[o].m_count > 0,
         NEW r, r = Release(u, o)
  PROVE  /\ r \in Stores /\ r.buffer = u.buffer
         /\ \A a \in Address : a # o => r.block[a] = u.block[a]
         /\ r.block[o] = IF u.block[o].m_count = 1 THEN Gone
                         ELSE [u.block[o] EXCEPT !.m_count = @ - 1]
  <1> DEFINE e == IF u.block[o].m_count = 1 THEN Gone
                  ELSE [u.block[o] EXCEPT !.m_count = @ - 1]
  <1>1. e \in Blocks \cup {Gone}
    <2> SUFFICES ASSUME u.block[o].m_count # 1
                 PROVE  [u.block[o] EXCEPT !.m_count = @ - 1] \in Blocks
      OBVIOUS
    <2>1. u.block[o].m_count - 1 \in Nat
      OBVIOUS
    <2> QED
      BY <2>1, CountSet
  <1>2. r = [u EXCEPT !.block[o] = e]
    BY DEF Release, Stores
  <1> HIDE DEF e
  <1>3. r \in Stores /\ r.buffer = u.buffer /\ r.block[o] = e
        /\ \A a \in Address : a # o => r.block[a] = u.block[a]
    BY <1>1, <1>2 DEF Stores
  <1> QED
    BY <1>3 DEF e

(* A new block for p; the one it had, if any, is let go. *)
LEMMA Rehoused ==
  ASSUME GoneIsNothing, NEW s, Good(s), NEW p \in Names,
         NEW b \in Buffers, b.m_data \in Address, s.block[b.m_data] = Gone,
         NEW d \in Blocks, d.m_count = 1, Sane(b, d),
         NEW u, u = Put(s, p, b, b.m_data, d),
         NEW t, t = IF s.buffer[p] = Gone THEN u ELSE Release(u, s.buffer[p].m_data)
  PROVE  /\ Good(t) /\ Only(s, t, p)
         /\ t.buffer[p] = b /\ t.buffer[p] # Gone /\ Data(t, p) = d
  <1> DEFINE o == s.buffer[p].m_data
  <1>1. b # Gone /\ d # Gone
    BY DEF GoneIsNothing
  <1>2. u \in Stores
    BY DEF Good, Stores, Put
  <1>3. /\ u.buffer[p] = b /\ Only(s, u, p) /\ u.block[b.m_data] = d
        /\ \A a \in Address \ {b.m_data} : u.block[a] = s.block[a]
    BY DEF Good, Stores, Only, Put
  <1>4. s.buffer[p] # Gone =>
          /\ o \in Address /\ o # b.m_data /\ s.block[o] \in Blocks
          /\ s.block[o].m_count \in Nat /\ s.block[o].m_count > 0
    BY Held DEF Data
  <1>5. /\ t \in Stores /\ t.buffer = u.buffer
        /\ \A a \in Address : (s.buffer[p] # Gone => a # o) => t.block[a] = u.block[a]
        /\ s.buffer[p] # Gone =>
             t.block[o] = IF s.block[o].m_count = 1 THEN Gone
                          ELSE [s.block[o] EXCEPT !.m_count = @ - 1]
    <2>1. CASE s.buffer[p] = Gone
      BY <1>2, <2>1
    <2>2. CASE s.buffer[p] # Gone
      <3>1. u.block[o] = s.block[o]
        BY <1>3, <1>4, <2>2
      <3>2. t = Release(u, o)
        BY <2>2
      <3> HIDE DEF o
      <3> QED
        BY <1>2, <1>4, <2>2, <3>1, <3>2, Released
    <2> QED
      BY <2>1, <2>2
  <1>6. t.buffer[p] = b /\ Only(s, t, p) /\ t.block[b.m_data] = d
    BY <1>3, <1>4, <1>5 DEF Only
  <1>7. /\ p \in Refs(t, b.m_data) /\ p \notin Refs(s, b.m_data)
        /\ \A a \in Address \ {b.m_data} : p \notin Refs(t, a)
        /\ \A a \in Address : p \in Refs(s, a) <=> (s.buffer[p] # Gone /\ a = o)
    <2>1. p \notin Refs(s, b.m_data)
      BY Nobody
    <2> QED
      BY <1>1, <1>6, <2>1 DEF Refs
  <1>8. ASSUME NEW a \in Address
        PROVE  Follows(s, t, p, a)
    <2>1. CASE a = b.m_data
      <3>1. Refs(s, a) = {}
        BY <2>1, Nobody
      <3> QED
        BY <1>1, <1>6, <1>7, <2>1, <3>1 DEF Follows
    <2>2. CASE a # b.m_data /\ p \in Refs(s, a)
      BY <1>5, <1>7, <2>2 DEF Follows
    <2>3. CASE a # b.m_data /\ p \notin Refs(s, a)
      BY <1>3, <1>5, <1>7, <2>3 DEF Follows
    <2> QED
      BY <2>1, <2>2, <2>3
  <1>9. Good(t)
    BY <1>5, <1>6, <1>8, Rebound
  <1> QED
    BY <1>1, <1>6, <1>9 DEF Data

-----------------------------------------------------------------------------
LEMMA Larger ==
  ASSUME NEW m \in Int, NEW n \in Int
  PROVE  Max({m, n}) = IF m >= n THEN m ELSE n
  BY DEF Max

LEMMA Smaller ==
  ASSUME NEW m \in Int, NEW n \in Int
  PROVE  Min({m, n}) = IF m <= n THEN m ELSE n
  BY DEF Min

(* A block as Create hands it out *)
LEMMA NewBlock ==
  ASSUME NEW n \in Nat, NEW lo \in Int, NEW hi \in Int, NEW f \in [0..(n - 1) -> Values]
  PROVE  /\ Allocated(n, lo, hi, f) \in Blocks
         /\ Allocated(n, lo, hi, f).m_count = 1
         /\ Allocated(n, lo, hi, f).m_size = n
         /\ Allocated(n, lo, hi, f).m_dirtyStart = lo
         /\ Allocated(n, lo, hi, f).m_dirtyEnd = hi
  <1>1. Allocated(n, lo, hi, f) \in Sized(n)
    BY DEF Allocated, Sized
  <1>2. Allocated(n, lo, hi, f) \in Blocks
    BY <1>1, IsBlock
  <1> QED
    BY <1>2 DEF Allocated

LEMMA SpanIs ==
  ASSUME NEW a, NEW i, NEW j, NEW k, NEW l
  PROVE  /\ Span(a, i, j, k, l).m_data = a /\ Span(a, i, j, k, l).m_start = i
         /\ Span(a, i, j, k, l).m_zeroAreaStart = j
         /\ Span(a, i, j, k, l).m_zeroAreaEnd = k /\ Span(a, i, j, k, l).m_end = l
         /\ (a \in Address /\ i \in Nat /\ j \in Nat /\ k \in Nat /\ l \in Nat =>
              Span(a, i, j, k, l) \in Buffers)
  BY DEF Span, Buffers

LEMMA InitializedIsGood ==
  ASSUME GoneIsNothing, NEW s, Good(s), NEW p \in Names, s.buffer[p] = Gone,
         NEW z \in Nat, NEW slack \in Nat, NEW start \in Starts(slack),
         NEW t, t = Initialized(s, p, z, slack, start)
  PROVE  Good(t) /\ Only(s, t, p) /\ t.buffer[p] # Gone
  <1> DEFINE a == Fresh(s)
             n == 1 + slack
             end == start + z
             f == [i \in 0..(n - 1) |-> Old]
             b == Span(a, start, start, end, end)
             d == Allocated(n, start, end, f)
  <1>1. a \in Address /\ s.block[a] = Gone
    BY Free
  <1>2. Room(0, slack) = n
    BY Larger DEF Room
  <1>3. start \in Nat /\ n \in Nat /\ start <= n /\ end \in Nat /\ start <= end
    BY DEF Starts
  <1>4. f \in [0..(n - 1) -> Values]
    BY DEF Values
  <1>5. t = Put(s, p, b, a, d)
    BY <1>2 DEF Initialized
  <1> HIDE DEF a, n, f, end
  <1>6. b \in Buffers /\ b.m_data = a
    BY <1>1, <1>3, SpanIs
  <1>7. d \in Blocks /\ d.m_count = 1
    BY <1>3, <1>4, NewBlock
  <1>8. Sane(b, d)
    BY <1>3, <1>4, NewBlock, SpanIs DEF Sane, InternalEnd, ZeroSize
  <1>9. t = IF s.buffer[p] = Gone THEN t ELSE Release(t, s.buffer[p].m_data)
    OBVIOUS
  <1> HIDE DEF b, d
  <1> QED
    BY <1>1, <1>5, <1>6, <1>7, <1>8, <1>9, Rehoused

LEMMA MovedIsGood ==
  ASSUME GoneIsNothing, NEW s, Good(s), NEW p \in Names, s.buffer[p] # Gone,
         NEW n \in Nat, NEW where, NEW slack \in Nat,
         NEW t, t = Moved(s, p, n, where, slack)
  PROVE  Good(t) /\ Only(s, t, p) /\ t.buffer[p] # Gone
  <1> DEFINE b == s.buffer[p]
             a == Fresh(s)
             front == IF where = "front" THEN n ELSE 0
             m == Room(InternalSize(b) + n, slack)
             end == Size(b) + n
             f == [i \in 0..(m - 1) |->
                     IF i \in front..(front + InternalSize(b) - 1)
                     THEN Data(s, p).bytes[b.m_start + i - front] ELSE Old]
             delta == front - b.m_start
             c == Span(a, 0, b.m_zeroAreaStart + delta, b.m_zeroAreaEnd + delta, end)
             d == Allocated(m, 0, end, f)
             u == Put(s, p, c, a, d)
  <1>1. a \in Address /\ s.block[a] = Gone
    BY Free
  <1>2. /\ b \in Buffers /\ Data(s, p) \in Sized(Data(s, p).m_size)
        /\ Data(s, p).m_size \in Nat /\ Sane(b, Data(s, p))
    BY Held
  <1>3. /\ ZeroSize(b) \in Nat /\ Size(b) \in Nat /\ InternalSize(b) \in Nat
        /\ InternalEnd(b) = b.m_start + InternalSize(b)
        /\ InternalEnd(b) <= Data(s, p).m_size
    BY <1>2, Bounds
  <1>4. front \in 0..n
    OBVIOUS
  <1>5. m \in Nat /\ m >= InternalSize(b) + n
    BY <1>3, Larger DEF Room
  <1>6. f \in [0..(m - 1) -> Values]
    <2> SUFFICES ASSUME NEW i \in front..(front + InternalSize(b) - 1)
                 PROVE  Data(s, p).bytes[b.m_start + i - front] \in Values
      BY DEF Values
    <2>1. b.m_start + i - front \in 0..(Data(s, p).m_size - 1)
      BY <1>2, <1>3, <1>4 DEF Buffers
    <2> QED
      BY <1>2, <2>1 DEF Sized
  <1>7. t = Release(u, b.m_data)
    BY Zenon DEF Moved
  <1> HIDE DEF a, front, m, f
  <1>8. c \in Buffers /\ c.m_data = a
    <2>1. /\ b.m_zeroAreaStart + delta \in Nat
          /\ b.m_zeroAreaEnd + delta \in Nat /\ end \in Nat
      BY <1>2, <1>3, <1>4 DEF Buffers, Sane
    <2> HIDE DEF delta, end
    <2> QED
      BY <1>1, <2>1, SpanIs
  <1>9. d \in Blocks /\ d.m_count = 1
    <2>1. end \in Int
      BY <1>3
    <2> HIDE DEF end
    <2> QED
      BY <1>5, <1>6, <2>1, NewBlock
  <1>10. Sane(c, d)
    <2>1. /\ c.m_start = 0 /\ c.m_zeroAreaStart = b.m_zeroAreaStart + delta
          /\ c.m_zeroAreaEnd = b.m_zeroAreaEnd + delta /\ c.m_end = end
      BY SpanIs
    <2>2. d.m_size = m /\ d.m_dirtyStart = 0 /\ d.m_dirtyEnd = end
      BY DEF Allocated
    <2> HIDE DEF c, d
    <2> QED
      BY <1>2, <1>3, <1>4, <1>5, <2>1, <2>2
      DEF Buffers, Sane, InternalEnd, InternalSize, ZeroSize, Size
  <1>11. t = IF s.buffer[p] = Gone THEN u ELSE Release(u, s.buffer[p].m_data)
    BY <1>7
  <1> HIDE DEF b, c, d
  <1> QED
    BY <1>1, <1>8, <1>9, <1>10, <1>11, Rehoused

-----------------------------------------------------------------------------
(* What each step of a call leaves behind, p being the buffer it works on *)
Kept(s, t, p) == Good(t) /\ Only(s, t, p) /\ t.buffer[p] # Gone

LEMMA DirtySet ==
  ASSUME NEW d \in Blocks, NEW x \in Int
  PROVE  /\ [d EXCEPT !.m_dirtyStart = x] \in Blocks
         /\ [d EXCEPT !.m_dirtyStart = x].m_count = d.m_count
         /\ [d EXCEPT !.m_dirtyStart = x].m_size = d.m_size
         /\ [d EXCEPT !.m_dirtyStart = x].m_dirtyStart = x
         /\ [d EXCEPT !.m_dirtyStart = x].m_dirtyEnd = d.m_dirtyEnd
         /\ [d EXCEPT !.m_dirtyEnd = x] \in Blocks
         /\ [d EXCEPT !.m_dirtyEnd = x].m_count = d.m_count
         /\ [d EXCEPT !.m_dirtyEnd = x].m_size = d.m_size
         /\ [d EXCEPT !.m_dirtyEnd = x].m_dirtyStart = d.m_dirtyStart
         /\ [d EXCEPT !.m_dirtyEnd = x].m_dirtyEnd = x
  <1>1. d \in Sized(d.m_size) /\ d.m_size \in Nat
    BY BlockIs
  <1>2. [d EXCEPT !.m_dirtyStart = x] \in Sized(d.m_size)
    BY <1>1 DEF Sized
  <1>3. [d EXCEPT !.m_dirtyEnd = x] \in Sized(d.m_size)
    BY <1>1 DEF Sized
  <1>4. /\ [d EXCEPT !.m_dirtyStart = x] \in Blocks
        /\ [d EXCEPT !.m_dirtyEnd = x] \in Blocks
    BY <1>1, <1>2, <1>3, IsBlock
  <1> QED
    BY <1>1, <1>4 DEF Sized

LEMMA BytesSet ==
  ASSUME NEW d \in Blocks, NEW f \in [0..(d.m_size - 1) -> Values],
         NEW e, e = [d EXCEPT !.bytes = f]
  PROVE  /\ e \in Blocks /\ e.m_count = d.m_count /\ e.m_size = d.m_size
         /\ e.m_dirtyStart = d.m_dirtyStart /\ e.m_dirtyEnd = d.m_dirtyEnd
  <1>1. d \in Sized(d.m_size) /\ d.m_size \in Nat
    BY BlockIs
  <1>2. e \in Sized(d.m_size)
    BY <1>1 DEF Sized
  <1> QED
    BY <1>1, <1>2, IsBlock DEF Sized

LEMMA GrownAtStartIsGood ==
  ASSUME GoneIsNothing, NEW s, Good(s), NEW p \in Names, s.buffer[p] # Gone,
         NEW n \in Nat, NEW slack \in Nat,
         NEW t, t = GrownAtStart(s, p, n, slack)
  PROVE  Kept(s, t, p)
  <1> DEFINE b == s.buffer[p]
             o == Data(s, p)
             c == [b EXCEPT !.m_start = @ - n]
             d == [o EXCEPT !.m_dirtyStart = b.m_start - n]
  <1>1. /\ b \in Buffers /\ o \in Blocks /\ o.m_size \in Nat /\ Sane(b, o)
        /\ o \in Sized(o.m_size) /\ o.m_count \in Nat
    BY Held
  <1>2. CASE b.m_start >= n /\ ~StartDirty(s, p)
    <2>1. t = Put(s, p, c, b.m_data, d)
      BY <1>2, Zenon DEF GrownAtStart
    <2>2. /\ c \in Buffers /\ c.m_data = b.m_data /\ c.m_start = b.m_start - n
          /\ c.m_zeroAreaStart = b.m_zeroAreaStart
          /\ c.m_zeroAreaEnd = b.m_zeroAreaEnd /\ c.m_end = b.m_end
      BY <1>1, <1>2 DEF Buffers
    <2>3. b.m_start - n \in Int
      BY <1>1 DEF Buffers
    <2>4. /\ d \in Blocks /\ d.m_count = o.m_count /\ d.m_size = o.m_size
          /\ d.m_dirtyStart = b.m_start - n /\ d.m_dirtyEnd = o.m_dirtyEnd
      BY <1>1, <2>3, DirtySet
    <2>5. o.m_dirtyStart \in Int /\ o.m_dirtyEnd \in Int
      BY <1>1 DEF Sized
    <2> HIDE DEF c, d
    <2>6. Sane(c, d)
      BY <1>1, <2>2, <2>4, <2>5 DEF Sane, InternalEnd, ZeroSize, Buffers
    <2>7. o.m_count > 1 =>
            /\ d.m_dirtyStart <= o.m_dirtyStart /\ d.m_dirtyEnd >= o.m_dirtyEnd
            /\ d.m_size = o.m_size
      BY <1>1, <1>2, <2>4, <2>5 DEF StartDirty, Buffers
    <2> QED
      BY <2>1, <2>2, <2>4, <2>6, <2>7, InPlace DEF Kept
  <1>3. CASE ~(b.m_start >= n /\ ~StartDirty(s, p))
    <2>1. t = Moved(s, p, n, "front", slack)
      BY <1>3, Zenon DEF GrownAtStart
    <2> QED
      BY <2>1, MovedIsGood DEF Kept
  <1> QED
    BY <1>2, <1>3

LEMMA GrownAtEndIsGood ==
  ASSUME GoneIsNothing, NEW s, Good(s), NEW p \in Names, s.buffer[p] # Gone,
         NEW n \in Nat, NEW slack \in Nat,
         NEW t, t = GrownAtEnd(s, p, n, slack)
  PROVE  Kept(s, t, p)
  <1> DEFINE b == s.buffer[p]
             o == Data(s, p)
             c == [b EXCEPT !.m_end = @ + n]
             d == [o EXCEPT !.m_dirtyEnd = b.m_end + n]
  <1>1. /\ b \in Buffers /\ o \in Blocks /\ o.m_size \in Nat /\ Sane(b, o)
        /\ o \in Sized(o.m_size) /\ o.m_count \in Nat
    BY Held
  <1>2. CASE InternalEnd(b) + n <= o.m_size /\ ~EndDirty(s, p)
    <2>1. t = Put(s, p, c, b.m_data, d)
      BY <1>2, Zenon DEF GrownAtEnd
    <2>2. /\ c \in Buffers /\ c.m_data = b.m_data /\ c.m_start = b.m_start
          /\ c.m_zeroAreaStart = b.m_zeroAreaStart
          /\ c.m_zeroAreaEnd = b.m_zeroAreaEnd /\ c.m_end = b.m_end + n
      BY <1>1, <1>2 DEF Buffers
    <2>3. b.m_end + n \in Int
      BY <1>1 DEF Buffers
    <2>4. /\ d \in Blocks /\ d.m_count = o.m_count /\ d.m_size = o.m_size
          /\ d.m_dirtyStart = o.m_dirtyStart /\ d.m_dirtyEnd = b.m_end + n
      BY <1>1, <2>3, DirtySet
    <2>5. o.m_dirtyStart \in Int /\ o.m_dirtyEnd \in Int
      BY <1>1 DEF Sized
    <2> HIDE DEF c, d
    <2>6. Sane(c, d)
      BY <1>1, <1>2, <2>2, <2>4, <2>5 DEF Sane, InternalEnd, ZeroSize, Buffers
    <2>7. o.m_count > 1 =>
            /\ d.m_dirtyStart <= o.m_dirtyStart /\ d.m_dirtyEnd >= o.m_dirtyEnd
            /\ d.m_size = o.m_size
      BY <1>1, <1>2, <2>4, <2>5 DEF EndDirty, Buffers
    <2> QED
      BY <2>1, <2>2, <2>4, <2>6, <2>7, InPlace DEF Kept
  <1>3. CASE ~(InternalEnd(b) + n <= o.m_size /\ ~EndDirty(s, p))
    <2>1. t = Moved(s, p, n, "end", slack)
      BY <1>3, Zenon DEF GrownAtEnd
    <2> QED
      BY <2>1, MovedIsGood DEF Kept
  <1> QED
    BY <1>2, <1>3

(* Other bytes in the block *)
LEMMA RewrittenIsGood ==
  ASSUME GoneIsNothing, NEW s, Good(s), NEW p \in Names, s.buffer[p] # Gone,
         NEW f \in [0..(Data(s, p).m_size - 1) -> Values],
         NEW t, t = [s EXCEPT !.block[s.buffer[p].m_data] =
                                [Data(s, p) EXCEPT !.bytes = f]]
  PROVE  Kept(s, t, p) /\ t.buffer = s.buffer
  <1> DEFINE b == s.buffer[p]
             o == Data(s, p)
             d == [o EXCEPT !.bytes = f]
  <1>1. /\ b \in Buffers /\ o \in Blocks /\ Sane(b, o) /\ o.m_size \in Nat
        /\ o \in Sized(o.m_size)
    BY Held
  <1>2. /\ d \in Blocks /\ d.m_count = o.m_count /\ d.m_size = o.m_size
        /\ d.m_dirtyStart = o.m_dirtyStart /\ d.m_dirtyEnd = o.m_dirtyEnd
    BY <1>1, BytesSet
  <1>3. o.m_dirtyStart \in Int /\ o.m_dirtyEnd \in Int
    BY <1>1 DEF Sized
  <1> HIDE DEF d
  <1>4. t = [buffer |-> s.buffer, block |-> [s.block EXCEPT ![b.m_data] = d]]
    <2> s = [buffer |-> s.buffer, block |-> s.block]
      BY StoreIs DEF Good
    <2>1. t = [s EXCEPT !.block[b.m_data] = d]
      BY Zenon DEF d
    <2> QED
      BY <2>1
  <1>5. [s.buffer EXCEPT ![p] = b] = s.buffer
    BY DEF Good, Stores
  <1>6. t = Put(s, p, b, b.m_data, d)
    BY <1>4, <1>5 DEF Put
  <1>7. Sane(b, d)
    BY <1>1, <1>2 DEF Sane
  <1>8. o.m_count > 1 =>
          /\ d.m_dirtyStart <= o.m_dirtyStart /\ d.m_dirtyEnd >= o.m_dirtyEnd
          /\ d.m_size = o.m_size
    BY <1>2, <1>3
  <1>9. Kept(s, t, p)
    BY <1>1, <1>2, <1>6, <1>7, <1>8, InPlace DEF Kept
  <1> QED
    BY <1>4, <1>9

LEMMA OverwrittenType ==
  ASSUME NEW n \in Nat, NEW f \in [0..(n - 1) -> Values], NEW at \in Int,
         NEW q \in Seq(Values)
  PROVE  Overwritten(f, at, q) \in [0..(n - 1) -> Values]
  <1>1. \A i \in at..(at + Len(q) - 1) : q[i - at + 1] \in Values
    OBVIOUS
  <1> QED
    BY <1>1 DEF Overwritten

LEMMA WrittenRawIsGood ==
  ASSUME GoneIsNothing, NEW s, Good(s), NEW p \in Names, s.buffer[p] # Gone,
         NEW at \in Int, NEW q \in Seq(Values),
         NEW t, t = WrittenRaw(s, p, at, q)
  PROVE  Kept(s, t, p) /\ t.buffer = s.buffer
  <1> DEFINE f == Overwritten(Data(s, p).bytes, at, q)
  <1>1. f \in [0..(Data(s, p).m_size - 1) -> Values]
    <2>1. Data(s, p) \in Sized(Data(s, p).m_size) /\ Data(s, p).m_size \in Nat
      BY Held
    <2> QED
      BY <2>1, OverwrittenType DEF Sized
  <1>2. t = [s EXCEPT !.block[s.buffer[p].m_data] = [Data(s, p) EXCEPT !.bytes = f]]
    BY DEF WrittenRaw, Data
  <1> HIDE DEF f
  <1> QED
    BY <1>1, <1>2, RewrittenIsGood

LEMMA WrittenIsGood ==
  ASSUME GoneIsNothing, NEW s, Good(s), NEW p \in Names, s.buffer[p] # Gone,
         NEW at \in Int, NEW q \in Seq(Values),
         NEW t, t = Written(s, p, at, q)
  PROVE  Kept(s, t, p) /\ t.buffer = s.buffer
  <1> DEFINE b == s.buffer[p]
             from == IF at < b.m_zeroAreaStart THEN at ELSE at - ZeroSize(b)
  <1>1. ZeroSize(b) \in Nat
    BY Held, Bounds
  <1>2. t = WrittenRaw(s, p, from, q)
    BY DEF Written, WrittenRaw
  <1>3. from \in Int
    BY <1>1
  <1> QED
    BY <1>2, <1>3, WrittenRawIsGood

(* Other bounds in the block *)
LEMMA ResizedIsGood ==
  ASSUME GoneIsNothing, NEW s, Good(s), NEW p \in Names, s.buffer[p] # Gone,
         NEW c \in Buffers, c.m_data = s.buffer[p].m_data, Sane(c, Data(s, p)),
         NEW t, t = [s EXCEPT !.buffer[p] = c]
  PROVE  Kept(s, t, p) /\ t.buffer[p] = c /\ t.block = s.block
  <1>1. /\ Data(s, p) \in Blocks /\ Data(s, p) \in Sized(Data(s, p).m_size)
        /\ c.m_data \in Address
    BY Held
  <1>2. t = [buffer |-> [s.buffer EXCEPT ![p] = c], block |-> s.block]
    <2> s = [buffer |-> s.buffer, block |-> s.block]
      BY StoreIs DEF Good
    <2> QED
      OBVIOUS
  <1>3. [s.block EXCEPT ![c.m_data] = Data(s, p)] = s.block
    BY <1>1 DEF Good, Stores, Data
  <1>4. t = Put(s, p, c, c.m_data, Data(s, p))
    BY <1>2, <1>3 DEF Put
  <1>5. Data(s, p).m_dirtyStart \in Int /\ Data(s, p).m_dirtyEnd \in Int
    BY <1>1 DEF Sized
  <1>6. /\ Data(s, p).m_dirtyStart <= Data(s, p).m_dirtyStart
        /\ Data(s, p).m_dirtyEnd >= Data(s, p).m_dirtyEnd
    BY <1>5
  <1>7. Good(t) /\ Only(s, t, p) /\ t.buffer[p] = c /\ t.buffer[p] # Gone
    <2>1. ASSUME NEW d \in Blocks, d.m_count = Data(s, p).m_count, Sane(c, d),
                 Data(s, p).m_count > 1 =>
                   /\ d.m_dirtyStart <= Data(s, p).m_dirtyStart
                   /\ d.m_dirtyEnd >= Data(s, p).m_dirtyEnd
                   /\ d.m_size = Data(s, p).m_size,
                 NEW u, u = Put(s, p, c, c.m_data, d)
          PROVE  Good(u) /\ Only(s, u, p) /\ u.buffer[p] = c /\ u.buffer[p] # Gone
      BY <2>1, InPlace
    <2> QED
      BY <1>1, <1>4, <1>6, <2>1
  <1> QED
    BY <1>2, <1>7 DEF Kept

LEMMA SpanIsSane ==
  ASSUME NEW o, o.m_size \in Nat, o.m_dirtyStart \in Int, o.m_dirtyEnd \in Int,
         NEW a \in Address, NEW i \in Nat, NEW j \in Nat, NEW k \in Nat, NEW l \in Nat,
         i <= j, j <= k, k <= l, i >= o.m_dirtyStart, l <= o.m_dirtyEnd,
         l - (k - j) <= o.m_size, j <= o.m_size
  PROVE  /\ Span(a, i, j, k, l) \in Buffers /\ Span(a, i, j, k, l).m_data = a
         /\ Sane(Span(a, i, j, k, l), o)
  BY SpanIs DEF Sane, InternalEnd, ZeroSize

LEMMA CutAtStartIsGood ==
  ASSUME GoneIsNothing, NEW s, Good(s), NEW p \in Names, s.buffer[p] # Gone,
         NEW n \in Nat, NEW t, t = CutAtStart(s, p, n)
  PROVE  Kept(s, t, p)
  <1> DEFINE b == s.buffer[p]
             o == Data(s, p)
             z == ZeroSize(b)
             from == b.m_start + n
             delta == from - b.m_zeroAreaStart
  <1>1. /\ b \in Buffers /\ b.m_data \in Address /\ o \in Sized(o.m_size)
        /\ o.m_size \in Nat /\ Sane(b, o)
    BY Held
  <1>2. /\ b.m_start \in Nat /\ b.m_zeroAreaStart \in Nat
        /\ b.m_zeroAreaEnd \in Nat /\ b.m_end \in Nat
        /\ o.m_dirtyStart \in Int /\ o.m_dirtyEnd \in Int
    BY <1>1 DEF Buffers, Sized
  <1>3. /\ b.m_start <= b.m_zeroAreaStart
        /\ b.m_zeroAreaStart <= b.m_zeroAreaEnd /\ b.m_zeroAreaEnd <= b.m_end
        /\ b.m_start >= o.m_dirtyStart /\ b.m_end <= o.m_dirtyEnd
        /\ b.m_end - z <= o.m_size /\ b.m_zeroAreaStart <= o.m_size
        /\ z = b.m_zeroAreaEnd - b.m_zeroAreaStart
    BY <1>1, Zenon DEF Sane, InternalEnd, ZeroSize
  <1>4. /\ from \in Nat /\ from >= b.m_start
        /\ delta \in Int /\ delta = from - b.m_zeroAreaStart /\ z \in Nat
    BY <1>2, <1>3
  <1> HIDE DEF o, z, from, delta
  <1>5. ASSUME NEW i \in Nat, NEW j \in Nat, NEW k \in Nat, NEW l \in Nat,
               i <= j, j <= k, k <= l, i >= o.m_dirtyStart, l <= o.m_dirtyEnd,
               l - (k - j) <= o.m_size, j <= o.m_size,
               t = [s EXCEPT !.buffer[p] = Span(b.m_data, i, j, k, l)]
        PROVE  Kept(s, t, p)
    <2> DEFINE c == Span(b.m_data, i, j, k, l)
    <2>1. c \in Buffers /\ c.m_data = b.m_data /\ Sane(c, o)
      BY <1>1, <1>2, <1>5, SpanIsSane
    <2>2. t = [s EXCEPT !.buffer[p] = c]
      BY <1>5
    <2> HIDE DEF c
    <2> QED
      BY <2>1, <2>2, ResizedIsGood DEF o
  <1>6. CASE from <= b.m_zeroAreaStart
    <2>1. t = [s EXCEPT !.buffer[p] =
                 Span(b.m_data, from, b.m_zeroAreaStart, b.m_zeroAreaEnd, b.m_end)]
      BY <1>6, Zenon DEF CutAtStart, from
    <2>2. from >= o.m_dirtyStart
      BY <1>2, <1>3, <1>4
    <2>3. b.m_end - (b.m_zeroAreaEnd - b.m_zeroAreaStart) <= o.m_size
      BY <1>3
    <2> HIDE DEF b
    <2> QED
      BY <1>2, <1>3, <1>4, <1>5, <1>6, <2>1, <2>2, <2>3
  <1>7. CASE ~(from <= b.m_zeroAreaStart) /\ from <= b.m_zeroAreaEnd
    <2>1. PICK k, l : k = b.m_zeroAreaEnd - delta /\ l = b.m_end - delta
      OBVIOUS
    <2>2. t = [s EXCEPT !.buffer[p] =
                 Span(b.m_data, b.m_zeroAreaStart, b.m_zeroAreaStart, k, l)]
      BY <1>7, <2>1, Zenon DEF CutAtStart, from, delta
    <2> HIDE DEF b
    <2>3. /\ k \in Nat /\ l \in Nat /\ b.m_zeroAreaStart <= k /\ k <= l
          /\ b.m_zeroAreaStart >= o.m_dirtyStart /\ l <= o.m_dirtyEnd
      BY <1>2, <1>3, <1>4, <1>7, <2>1
    <2>4. l - (k - b.m_zeroAreaStart) <= o.m_size
      BY <1>1, <1>2, <1>3, <1>4, <2>1
    <2> HIDE <2>1
    <2> QED
      BY <1>2, <1>3, <1>5, <2>2, <2>3, <2>4
  <1>8. CASE ~(from <= b.m_zeroAreaStart) /\ ~(from <= b.m_zeroAreaEnd) /\ from <= b.m_end
    <2>1. PICK i, l : i = from - z /\ l = b.m_end - z
      OBVIOUS
    <2>2. t = [s EXCEPT !.buffer[p] = Span(b.m_data, i, i, i, l)]
      BY <1>8, <2>1, Zenon DEF CutAtStart, from, z
    <2> HIDE DEF b
    <2>3. i \in Nat /\ l \in Nat /\ i <= l /\ i >= b.m_zeroAreaStart
      BY <1>2, <1>3, <1>4, <1>8, <2>1
    <2>4. i >= o.m_dirtyStart /\ l <= o.m_dirtyEnd /\ l <= o.m_size
      BY <1>1, <1>2, <1>3, <1>4, <2>1, <2>3
    <2>5. i <= o.m_size /\ l - (i - i) <= o.m_size
      BY <1>1, <2>3, <2>4
    <2> HIDE <2>1
    <2> QED
      BY <1>5, <2>2, <2>3, <2>4, <2>5
  <1>9. CASE ~(from <= b.m_zeroAreaStart) /\ ~(from <= b.m_zeroAreaEnd) /\ ~(from <= b.m_end)
    <2>1. PICK l : l = b.m_end - z
      OBVIOUS
    <2>2. t = [s EXCEPT !.buffer[p] = Span(b.m_data, l, l, l, l)]
      BY <1>9, <2>1, Zenon DEF CutAtStart, from, z
    <2> HIDE DEF b
    <2>3. l \in Nat /\ l >= b.m_zeroAreaStart /\ l <= b.m_end
      BY <1>2, <1>3, <1>4, <2>1
    <2>4. l >= o.m_dirtyStart /\ l <= o.m_dirtyEnd /\ l <= o.m_size
      BY <1>1, <1>2, <1>3, <1>4, <2>1, <2>3
    <2>5. l - (l - l) <= o.m_size
      BY <1>1, <2>3, <2>4
    <2> HIDE <2>1
    <2> QED
      BY <1>5, <2>2, <2>3, <2>4, <2>5
  <1> QED
    BY <1>6, <1>7, <1>8, <1>9

LEMMA CutAtEndIsGood ==
  ASSUME GoneIsNothing, NEW s, Good(s), NEW p \in Names, s.buffer[p] # Gone,
         NEW n \in Nat, NEW t, t = CutAtEnd(s, p, n)
  PROVE  Kept(s, t, p)
  <1> DEFINE b == s.buffer[p]
             o == Data(s, p)
             end == b.m_end - Min({n, Size(b)})
             j == Min({b.m_zeroAreaStart, end})
             k == Min({b.m_zeroAreaEnd, end})
             c == Span(b.m_data, b.m_start, j, k, end)
  <1>1. /\ b \in Buffers /\ b.m_data \in Address /\ o \in Sized(o.m_size)
        /\ o.m_size \in Nat /\ Sane(b, o)
    BY Held
  <1>2. /\ b.m_start \in Nat /\ b.m_zeroAreaStart \in Nat
        /\ b.m_zeroAreaEnd \in Nat /\ b.m_end \in Nat
        /\ o.m_dirtyStart \in Int /\ o.m_dirtyEnd \in Int
    BY <1>1 DEF Buffers, Sized
  <1>3. Size(b) \in Nat /\ Size(b) = b.m_end - b.m_start
    BY <1>1, Bounds DEF Size
  <1>4. Min({n, Size(b)}) \in 0..Size(b)
    BY <1>3, Smaller
  <1>5. end \in Nat /\ b.m_start <= end /\ end <= b.m_end
    BY <1>2, <1>3, <1>4
  <1>6. t = [s EXCEPT !.buffer[p] = c]
    BY Zenon DEF CutAtEnd
  <1> HIDE DEF end
  <1>7. /\ j = IF b.m_zeroAreaStart <= end THEN b.m_zeroAreaStart ELSE end
        /\ k = IF b.m_zeroAreaEnd <= end THEN b.m_zeroAreaEnd ELSE end
    BY <1>2, <1>5, Smaller
  <1> HIDE DEF j, k
  <1>8. j \in Nat /\ k \in Nat
    BY <1>2, <1>5, <1>7
  <1>9. c \in Buffers /\ c.m_data = b.m_data /\ c.m_start = b.m_start
        /\ c.m_zeroAreaStart = j /\ c.m_zeroAreaEnd = k /\ c.m_end = end
    BY <1>1, <1>2, <1>5, <1>8, SpanIs
  <1> HIDE DEF c
  <1>10. Sane(c, o)
    BY <1>1, <1>2, <1>5, <1>7, <1>9 DEF Sane, InternalEnd, ZeroSize
  <1> QED
    BY <1>6, <1>9, <1>10, ResizedIsGood

LEMMA DestroyedIsGood ==
  ASSUME GoneIsNothing, NEW s, Good(s), NEW p \in Names, s.buffer[p] # Gone,
         NEW t, t = Destroyed(s, p)
  PROVE  Good(t) /\ Only(s, t, p) /\ t.buffer[p] = Gone
  <1> DEFINE o == s.buffer[p].m_data
             u == Release(s, o)
  <1>1. /\ o \in Address /\ s.block[o] \in Blocks
        /\ s.block[o].m_count \in Nat /\ s.block[o].m_count > 0
    BY Held DEF Data
  <1>2. t = [u EXCEPT !.buffer[p] = Gone]
    BY DEF Destroyed
  <1> HIDE DEF o
  <1>3. /\ u \in Stores /\ u.buffer = s.buffer
        /\ \A a \in Address : a # o => u.block[a] = s.block[a]
        /\ u.block[o] = IF s.block[o].m_count = 1 THEN Gone
                        ELSE [s.block[o] EXCEPT !.m_count = @ - 1]
    BY <1>1, Released DEF Good
  <1> HIDE DEF u
  <1>4. /\ t \in Stores /\ t.block = u.block /\ Only(s, t, p) /\ t.buffer[p] = Gone
    BY <1>2, <1>3 DEF Stores, Only
  <1>5. \A a \in Address : p \notin Refs(t, a) /\ (p \in Refs(s, a) <=> a = o)
    BY <1>4 DEF Refs, o
  <1>6. ASSUME NEW a \in Address
        PROVE  Follows(s, t, p, a)
    <2>1. CASE a = o
      BY <1>3, <1>4, <1>5, <2>1 DEF Follows
    <2>2. CASE a # o
      BY <1>3, <1>4, <1>5, <2>2 DEF Follows
    <2> QED
      BY <2>1, <2>2
  <1> QED
    BY <1>4, <1>6, Rebound

LEMMA AssignedIsGood ==
  ASSUME GoneIsNothing, NEW s, Good(s), NEW p \in Names,
         NEW q \in Names, s.buffer[q] # Gone,
         NEW t, t = Assigned(s, p, q)
  PROVE  Kept(s, t, p)
  <1> DEFINE b == s.buffer[q]
             n == b.m_data
             o == s.buffer[p].m_data
             u == IF s.buffer[p] = Gone THEN s ELSE Release(s, o)
  <1>1. /\ b \in Buffers /\ n \in Address /\ s.block[n] \in Blocks
        /\ s.block[n].m_count \in Nat /\ s.block[n].m_count > 0 /\ Sane(b, s.block[n])
    BY Held DEF Data
  <1>2. CASE s.buffer[p] # Gone /\ o = n
    <2>1. t = [s EXCEPT !.buffer[p] = b]
      BY <1>2 DEF Assigned
    <2>2. Data(s, p) = s.block[n]
      BY <1>2 DEF Data
    <2> HIDE DEF b
    <2> QED
      BY <1>1, <1>2, <2>1, <2>2, ResizedIsGood
  <1>3. CASE ~(s.buffer[p] # Gone /\ o = n)
    <2> DEFINE d == [s.block[n] EXCEPT !.m_count = @ + 1]
    <2>1. /\ u \in Stores /\ u.buffer = s.buffer /\ u.block[n] = s.block[n]
          /\ \A a \in Address : (s.buffer[p] # Gone => a # o) => u.block[a] = s.block[a]
          /\ s.buffer[p] # Gone =>
               u.block[o] = IF s.block[o].m_count = 1 THEN Gone
                            ELSE [s.block[o] EXCEPT !.m_count = @ - 1]
      <3>1. CASE s.buffer[p] = Gone
        BY <3>1 DEF Good
      <3>2. CASE s.buffer[p] # Gone
        <4>1. u = Release(s, o)
          BY <3>2
        <4>2. /\ o \in Address /\ s.block[o] \in Blocks
              /\ s.block[o].m_count \in Nat /\ s.block[o].m_count > 0
          BY <3>2, Held DEF Data
        <4>3. o # n
          BY <1>3, <3>2
        <4> HIDE DEF u, o, n
        <4> QED
          BY <1>1, <3>2, <4>1, <4>2, <4>3, Released DEF Good
      <3> QED
        BY <3>1, <3>2
    <2>2. t = Put(u, p, b, n, d)
      <3>1. t = Put(u, p, b, n, [u.block[n] EXCEPT !.m_count = @ + 1])
        BY <1>3, Zenon DEF Assigned
      <3> QED
        BY <2>1, <3>1
    <2>3. /\ d \in Blocks /\ d.m_count = s.block[n].m_count + 1
          /\ d.m_size = s.block[n].m_size
          /\ d.m_dirtyStart = s.block[n].m_dirtyStart
          /\ d.m_dirtyEnd = s.block[n].m_dirtyEnd
      <3>1. s.block[n].m_count + 1 \in Nat
        BY <1>1
      <3> QED
        BY <1>1, <3>1, CountSet
    <2>4. b # Gone /\ d # Gone
      BY <1>1, <2>3 DEF GoneIsNothing
    <2> HIDE DEF u, d
    <2>5. /\ t \in Stores /\ t.buffer[p] = b /\ Only(s, t, p) /\ t.block[n] = d
          /\ \A a \in Address \ {n} : t.block[a] = u.block[a]
      BY <1>1, <2>1, <2>2, <2>3 DEF Stores, Only, Put
    <2>6. /\ p \in Refs(t, n) /\ p \notin Refs(s, n)
          /\ \A a \in Address \ {n} : p \notin Refs(t, a)
          /\ \A a \in Address : p \in Refs(s, a) <=> (s.buffer[p] # Gone /\ a = o)
      BY <1>3, <2>4, <2>5 DEF Refs
    <2>7. \A m \in Refs(s, n) : Sane(s.buffer[m], d)
      <3> SUFFICES ASSUME NEW m \in Refs(s, n) PROVE Sane(s.buffer[m], d)
        OBVIOUS
      <3>1. Sane(s.buffer[m], s.block[n])
        BY DEF Good, Refs
      <3> QED
        BY <2>3, <3>1 DEF Sane
    <2>8. Sane(b, d)
      BY <1>1, <2>3 DEF Sane
    <2> HIDE DEF b, n, o
    <2>9. ASSUME NEW a \in Address
          PROVE  Follows(s, t, p, a)
      <3>1. CASE a = n
        <4>1. s.block[n] # Gone
          BY <1>1 DEF GoneIsNothing
        <4> QED
          BY <2>3, <2>4, <2>5, <2>6, <2>7, <2>8, <3>1, <4>1 DEF Follows
      <3>2. CASE a # n /\ p \in Refs(s, a)
        BY <2>1, <2>5, <2>6, <3>2 DEF Follows
      <3>3. CASE a # n /\ p \notin Refs(s, a)
        BY <2>1, <2>5, <2>6, <3>3 DEF Follows
      <3> QED
        BY <3>1, <3>2, <3>3
    <2>10. Good(t)
      BY <2>5, <2>9, Rebound
    <2> QED
      BY <2>4, <2>5, <2>10 DEF Kept
  <1> QED
    BY <1>2, <1>3

-----------------------------------------------------------------------------
LEMMA ContentsType ==
  ASSUME GoneIsNothing, NEW s, Good(s), NEW p \in Names, s.buffer[p] # Gone
  PROVE  /\ Contents(s, p) \in Seq(Values)
         /\ Len(Contents(s, p)) = Size(s.buffer[p]) /\ Size(s.buffer[p]) \in Nat
  <1> DEFINE b == s.buffer[p]
             d == Data(s, p)
             f == [i \in 1..Size(b) |->
                     LET at == b.m_start + i - 1
                     IN  IF at < b.m_zeroAreaStart THEN d.bytes[at]
                         ELSE IF at < b.m_zeroAreaEnd THEN Zero
                         ELSE d.bytes[at - ZeroSize(b)]]
  <1>1. /\ b \in Buffers /\ d \in Sized(d.m_size) /\ d.m_size \in Nat /\ Sane(b, d)
    BY Held
  <1>2. Size(b) \in Nat /\ ZeroSize(b) \in Nat /\ InternalEnd(b) <= d.m_size
    BY <1>1, Bounds
  <1>3. Contents(s, p) = f
    BY Zenon DEF Contents, BytesOf
  <1>4. ASSUME NEW i \in 1..Size(b)
        PROVE  f[i] \in Values
    <2>1. PICK at : at = b.m_start + i - 1
      OBVIOUS
    <2>2. f[i] = IF at < b.m_zeroAreaStart THEN d.bytes[at]
                 ELSE IF at < b.m_zeroAreaEnd THEN Zero
                 ELSE d.bytes[at - ZeroSize(b)]
      BY <2>1
    <2>3. /\ at \in Nat /\ at < b.m_end
      BY <1>1, <1>2, <2>1 DEF Buffers, Size
    <2>4. at < b.m_zeroAreaStart => at \in 0..(d.m_size - 1)
      BY <1>1, <2>3 DEF Sane, Buffers
    <2>5. at >= b.m_zeroAreaEnd => at - ZeroSize(b) \in 0..(d.m_size - 1)
      BY <1>1, <1>2, <2>3 DEF Sane, Buffers, InternalEnd, ZeroSize
    <2>6. d.bytes \in [0..(d.m_size - 1) -> Values] /\ Zero \in Values
      BY <1>1, BufferAssumption DEF Sized, Values
    <2>7. at < b.m_zeroAreaEnd \/ at >= b.m_zeroAreaEnd
      BY <1>1, <2>3 DEF Buffers
    <2>8. PICK k : k = at - ZeroSize(b)
      OBVIOUS
    <2> HIDE DEF f, b, d
    <2>9. CASE at < b.m_zeroAreaStart
      BY <2>2, <2>4, <2>6, <2>9
    <2>10. CASE ~(at < b.m_zeroAreaStart) /\ at < b.m_zeroAreaEnd
      BY <2>2, <2>6, <2>10
    <2>11. CASE ~(at < b.m_zeroAreaStart) /\ ~(at < b.m_zeroAreaEnd)
      <3>1. f[i] = d.bytes[k]
        BY <2>2, <2>8, <2>11
      <3>2. k \in 0..(d.m_size - 1)
        BY <2>5, <2>7, <2>8, <2>11
      <3> QED
        BY <2>6, <3>1, <3>2
    <2> QED
      BY <2>9, <2>10, <2>11
  <1>5. f \in [1..Size(b) -> Values]
    <2> HIDE DEF b, d
    <2> QED
      BY <1>4
  <1> HIDE DEF f, b, d
  <1>6. f \in Seq(Values) /\ Len(f) = Size(b)
    BY <1>2, <1>5
  <1> QED
    BY <1>2, <1>3, <1>6 DEF b

LEMMA SubSeqType ==
  ASSUME NEW q \in Seq(Values), NEW i \in 1..(Len(q) + 1), NEW j \in 0..Len(q)
  PROVE  SubSeq(q, i, j) \in Seq(Values) /\ Len(SubSeq(q, i, j)) \in Nat
  <1>1. SubSeq(q, i, j) \in Seq(Values)
    BY SubSeqProperties
  <1> QED
    BY <1>1

LEMMA KeptTwice ==
  ASSUME NEW s, NEW t, NEW u, NEW p, Kept(s, t, p), Kept(t, u, p)
  PROVE  Kept(s, u, p)
  BY DEF Kept, Only

LEMMA Repeated ==
  ASSUME NEW n \in Nat, NEW v \in Values
  PROVE  [i \in 1..n |-> v] \in Seq(Values) /\ Len([i \in 1..n |-> v]) = n
  OBVIOUS

(* A write in front of what is there *)
LEMMA PrependIsGood ==
  ASSUME GoneIsNothing, NEW s, Good(s), NEW p \in Names, s.buffer[p] # Gone,
         NEW q \in Seq(Values), NEW slack \in Nat,
         NEW u, u = GrownAtStart(s, p, Len(q), slack),
         NEW t, t = Written(u, p, u.buffer[p].m_start, q)
  PROVE  Kept(s, t, p)
  <1>1. Len(q) \in Nat
    OBVIOUS
  <1>2. Kept(s, u, p)
    BY <1>1, GrownAtStartIsGood
  <1>3. Good(u) /\ u.buffer[p] # Gone
    BY <1>2 DEF Kept
  <1>4. u.buffer[p] \in Buffers
    BY <1>3, Held
  <1>5. u.buffer[p].m_start \in Int
    BY <1>4 DEF Buffers
  <1>6. Kept(u, t, p)
    BY <1>3, <1>5, WrittenIsGood
  <1> QED
    BY <1>2, <1>6, KeptTwice

(* A write of n bytes behind what is there *)
LEMMA AppendIsGood ==
  ASSUME GoneIsNothing, NEW s, Good(s), NEW p \in Names, s.buffer[p] # Gone,
         NEW n \in Nat, NEW q \in Seq(Values), NEW slack \in Nat,
         NEW u, u = GrownAtEnd(s, p, n, slack),
         NEW t, t = Written(u, p, u.buffer[p].m_end - n, q)
  PROVE  Kept(s, t, p)
  <1>1. Kept(s, u, p)
    BY GrownAtEndIsGood
  <1>2. Good(u) /\ u.buffer[p] # Gone
    BY <1>1 DEF Kept
  <1>3. u.buffer[p] \in Buffers
    BY <1>2, Held
  <1>4. u.buffer[p].m_end - n \in Int
    BY <1>3 DEF Buffers
  <1>5. Kept(u, t, p)
    BY <1>2, <1>4, WrittenIsGood
  <1> QED
    BY <1>1, <1>5, KeptTwice

LEMMA FullCopyIsGood ==
  ASSUME GoneIsNothing, NEW s, Good(s), NEW p \in Names, s.buffer[p] # Gone,
         NEW c \in Names, s.buffer[c] = Gone,
         NEW slack \in Nat, NEW start \in Starts(slack),
         NEW t, t = FullCopy(s, p, c, slack, start)
  PROVE  Kept(s, t, c)
  <1> DEFINE b == s.buffer[p]
             all == Contents(s, p)
             head == SubSeq(all, 1, b.m_zeroAreaStart - b.m_start)
             tail == SubSeq(all, b.m_zeroAreaEnd - b.m_start + 1, Size(b))
             zeroes == [i \in 1..ZeroSize(b) |-> Zero]
             Grow(u, q) == GrownAtStart(u, c, Len(q), slack)
             Prepend(u, q) == Written(Grow(u, q), c, Grow(u, q).buffer[c].m_start, q)
             s1 == Initialized(s, c, 0, slack, start)
             s2 == Prepend(s1, zeroes)
             s3 == Prepend(s2, head)
             s4 == GrownAtEnd(s3, c, Len(tail), slack)
             s5 == Written(s4, c, s4.buffer[c].m_end - Len(tail), tail)
  <1>1. CASE ZeroSize(b) = 0
    <2>1. t = Assigned(s, c, p)
      BY <1>1, Zenon DEF FullCopy
    <2> QED
      BY <2>1, AssignedIsGood
  <1>2. CASE ZeroSize(b) # 0
    <2>1. t = s5
      BY <1>2, Zenon DEF FullCopy
    <2>2. b \in Buffers /\ Sane(b, Data(s, p)) /\ Data(s, p).m_size \in Nat
      BY Held
    <2>3. ZeroSize(b) \in Nat /\ Size(b) \in Nat
      BY <2>2, Bounds
    <2>4. all \in Seq(Values) /\ Len(all) = Size(b)
      BY ContentsType
    <2>5. /\ b.m_zeroAreaStart - b.m_start \in 0..Size(b)
          /\ b.m_zeroAreaEnd - b.m_start + 1 \in 1..(Size(b) + 1)
      BY <2>2 DEF Buffers, Sane, Size
    <2>6. head \in Seq(Values)
      <3> HIDE DEF all, b
      <3>1. 1 \in 1..(Len(all) + 1)
        BY <2>3, <2>4
      <3> QED
        BY <2>4, <2>5, <3>1, SubSeqType
    <2>7. tail \in Seq(Values) /\ Len(tail) \in Nat
      <3> HIDE DEF all, b
      <3>1. Size(b) \in 0..Len(all)
        BY <2>3, <2>4
      <3> QED
        BY <2>4, <2>5, <3>1, SubSeqType
    <2>8. zeroes \in Seq(Values)
      BY <2>3, Repeated, BufferAssumption DEF Values
    <2>9. Kept(s, s1, c)
      BY InitializedIsGood DEF Kept
    <2> HIDE DEF b, all, head, tail, zeroes, s1
    <2>10. Kept(s1, s2, c)
      BY <2>8, <2>9, PrependIsGood DEF Kept
    <2> HIDE DEF s2
    <2>11. Kept(s2, s3, c)
      BY <2>6, <2>10, PrependIsGood DEF Kept
    <2> HIDE DEF s3
    <2>12. Kept(s3, s5, c)
      BY <2>7, <2>11, AppendIsGood DEF Kept
    <2> HIDE DEF s5
    <2> QED
      BY <2>1, <2>9, <2>10, <2>11, <2>12, KeptTwice
  <1> QED
    BY <1>1, <1>2

LEMMA JoinedIsGood ==
  ASSUME GoneIsNothing, NEW s, Good(s), NEW p \in Names, s.buffer[p] # Gone,
         NEW q \in Names, s.buffer[q] # Gone, JoinsZeroes(s, p, q),
         NEW slack \in Nat, NEW t, t = Joined(s, p, q, slack)
  PROVE  Kept(s, t, p)
  <1> DEFINE b == s.buffer[p]
             d == Data(s, p)
             end == b.m_end + ZeroSize(s.buffer[q])
             c == Span(b.m_data, b.m_start, b.m_zeroAreaStart, end, end)
             e == [d EXCEPT !.m_dirtyEnd = end]
             wide == Put(s, p, c, b.m_data, e)
             o == wide.buffer[q]
             n == o.m_end - o.m_zeroAreaEnd
             u == GrownAtEnd(wide, p, n, slack)
             tail == SubSeq(Contents(u, q), Size(u.buffer[q]) - n + 1, Size(u.buffer[q]))
  <1>1. /\ b \in Buffers /\ b.m_data \in Address /\ d \in Blocks /\ Sane(b, d)
        /\ d \in Sized(d.m_size) /\ d.m_size \in Nat
    BY Held
  <1>2. ZeroSize(s.buffer[q]) \in Nat
    BY Held, Bounds
  <1>3. d.m_count = 1 /\ b.m_end = b.m_zeroAreaEnd
    BY DEF JoinsZeroes
  <1>4. end \in Nat /\ end >= b.m_end
    BY <1>1, <1>2 DEF Buffers
  <1>5. t = WrittenRaw(u, p, u.buffer[p].m_end - n, tail)
    BY Zenon DEF Joined
  <1>6. Kept(s, wide, p) /\ wide.buffer[p] = c
    <2> HIDE DEF end
    <2>1. /\ e \in Blocks /\ e.m_count = d.m_count /\ e.m_size = d.m_size
          /\ e.m_dirtyStart = d.m_dirtyStart /\ e.m_dirtyEnd = end
      <3>1. end \in Int
        BY <1>4
      <3> HIDE DEF d
      <3> QED
        BY <1>1, <3>1, DirtySet
    <2>2. d.m_dirtyStart \in Int /\ d.m_dirtyEnd \in Int
      BY <1>1 DEF Sized
    <2>3. /\ b.m_start \in Nat /\ b.m_zeroAreaStart \in Nat
          /\ b.m_start <= b.m_zeroAreaStart /\ b.m_zeroAreaStart <= end
          /\ b.m_start >= d.m_dirtyStart /\ b.m_zeroAreaStart <= d.m_size
      BY <1>1, <1>3, <1>4 DEF Buffers, Sane
    <2>4. end - (end - b.m_zeroAreaStart) <= e.m_size
      BY <1>1, <1>4, <2>1, <2>3
    <2>5. c \in Buffers /\ c.m_data = b.m_data /\ Sane(c, e)
      <3> HIDE DEF e, d, b
      <3> QED
        BY <1>1, <1>4, <2>1, <2>2, <2>3, <2>4, SpanIsSane
    <2>6. wide = Put(s, p, c, c.m_data, e)
      BY <2>5
    <2>7. ~(d.m_count > 1)
      BY <1>3
    <2> HIDE DEF wide, c, e
    <2> QED
      BY <1>3, <2>1, <2>5, <2>6, <2>7, InPlace DEF Kept
  <1> HIDE DEF wide
  <1>7. o # Gone /\ Good(wide) /\ wide.buffer[p] # Gone
    BY <1>6 DEF Kept, Only
  <1>8. o \in Buffers /\ Sane(o, Data(wide, q))
    BY <1>7, Held
  <1>9. n \in Nat /\ n <= Size(o)
    BY <1>8 DEF Buffers, Sane, Size
  <1>10. p = q => n = 0
    <2>1. p = q => o = c
      BY <1>6
    <2>2. c.m_end = end /\ c.m_zeroAreaEnd = end
      BY SpanIs
    <2> HIDE DEF c, end
    <2> QED
      BY <1>4, <2>1, <2>2
  <1> HIDE DEF n
  <1>11. Kept(wide, u, p)
    BY <1>7, <1>9, GrownAtEndIsGood
  <1> HIDE DEF u
  <1>12. Good(u) /\ u.buffer[p] # Gone /\ u.buffer[q] # Gone
    BY <1>7, <1>11 DEF Kept, Only
  <1>13. /\ Contents(u, q) \in Seq(Values) /\ Size(u.buffer[q]) \in Nat
         /\ Len(Contents(u, q)) = Size(u.buffer[q])
    BY <1>12, ContentsType
  <1>14. n <= Size(u.buffer[q])
    <2>1. p # q => u.buffer[q] = o
      BY <1>11 DEF Kept, Only
    <2> QED
      BY <1>9, <1>10, <1>13, <2>1
  <1>15. tail \in Seq(Values)
    <2>1. /\ Size(u.buffer[q]) - n + 1 \in 1..(Len(Contents(u, q)) + 1)
          /\ Size(u.buffer[q]) \in 0..Len(Contents(u, q))
      BY <1>9, <1>13, <1>14
    <2> QED
      BY <1>13, <2>1, SubSeqType
  <1> HIDE DEF tail
  <1>16. u.buffer[p] \in Buffers
    BY <1>12, Held
  <1>17. u.buffer[p].m_end - n \in Int
    BY <1>9, <1>16 DEF Buffers
  <1>18. Kept(u, t, p)
    BY <1>5, <1>12, <1>15, <1>17, WrittenRawIsGood
  <1> QED
    BY <1>6, <1>11, <1>18, KeptTwice

LEMMA ConcatenatedIsGood ==
  ASSUME GoneIsNothing, NEW s, Good(s), \A n \in Temporary : s.buffer[n] = Gone,
         NEW p \in Packet, s.buffer[p] # Gone, NEW q \in Packet, s.buffer[q] # Gone,
         NEW slack \in Nat, NEW start \in Starts(slack),
         NEW t, t = Concatenated(s, p, q, slack, start)
  PROVE  Kept(s, t, p)
  <1> DEFINE s1 == FullCopy(s, p, "dst", slack, start)
             s2 == FullCopy(s1, q, "src", slack, start)
             s3 == GrownAtEnd(s2, "dst", Size(s2.buffer["src"]), slack)
             n  == Size(s3.buffer["src"])
             s4 == WrittenRaw(s3, "dst", s3.buffer["dst"].m_end - n, Contents(s3, "src"))
             s5 == Assigned(s4, p, "dst")
             s6 == Destroyed(s5, "src")
             s7 == Destroyed(s6, "dst")
  <1>1. t = s7
    BY Zenon DEF Concatenated, Concatenating
  <1>2. /\ "dst" \in Names /\ "src" \in Names /\ p \in Names /\ q \in Names
        /\ "dst" # "src" /\ p # "dst" /\ p # "src" /\ q # "dst" /\ q # "src"
        /\ s.buffer["dst"] = Gone /\ s.buffer["src"] = Gone
    BY MemoryAssumption DEF Names, Temporary
  <1>3. Kept(s, s1, "dst")
    BY <1>2, FullCopyIsGood
  <1> HIDE DEF s1
  <1>4. s1.buffer[q] # Gone /\ s1.buffer["src"] = Gone /\ Good(s1)
    BY <1>2, <1>3 DEF Kept, Only
  <1>5. Kept(s1, s2, "src")
    BY <1>2, <1>4, FullCopyIsGood
  <1> HIDE DEF s2
  <1>6. s2.buffer["dst"] # Gone /\ s2.buffer["src"] # Gone /\ Good(s2)
    BY <1>2, <1>3, <1>5 DEF Kept, Only
  <1>7. Size(s2.buffer["src"]) \in Nat
    BY <1>2, <1>6, ContentsType
  <1>8. Kept(s2, s3, "dst")
    BY <1>2, <1>6, <1>7, GrownAtEndIsGood
  <1> HIDE DEF s3
  <1>9. s3.buffer["dst"] # Gone /\ s3.buffer["src"] # Gone /\ Good(s3)
    BY <1>2, <1>6, <1>8 DEF Kept, Only
  <1>10. n \in Nat /\ Contents(s3, "src") \in Seq(Values)
    BY <1>2, <1>9, ContentsType
  <1>11. s3.buffer["dst"] \in Buffers
    BY <1>2, <1>9, Held
  <1>12. s3.buffer["dst"].m_end - n \in Int
    <2> HIDE DEF n
    <2> QED
      BY <1>10, <1>11 DEF Buffers
  <1>13. Kept(s3, s4, "dst")
    BY <1>2, <1>9, <1>10, <1>12, WrittenRawIsGood
  <1> HIDE DEF s4
  <1>14. s4.buffer["dst"] # Gone /\ Good(s4)
    BY <1>13 DEF Kept
  <1>15. Kept(s4, s5, p)
    BY <1>2, <1>14, AssignedIsGood
  <1> HIDE DEF s5
  <1>16. s5.buffer["dst"] # Gone /\ s5.buffer["src"] # Gone /\ Good(s5)
    BY <1>2, <1>9, <1>13, <1>15 DEF Kept, Only
  <1>17. Good(s6) /\ Only(s5, s6, "src") /\ s6.buffer["src"] = Gone
    BY <1>2, <1>16, DestroyedIsGood
  <1> HIDE DEF s6
  <1>18. s6.buffer["dst"] # Gone
    BY <1>2, <1>16, <1>17 DEF Only
  <1>19. Good(s7) /\ Only(s6, s7, "dst") /\ s7.buffer["dst"] = Gone
    BY <1>2, <1>17, <1>18, DestroyedIsGood
  <1> HIDE DEF s7
  <1>20. s7.buffer[p] = s5.buffer[p] /\ s5.buffer[p] # Gone /\ s7.buffer["src"] = Gone
    BY <1>2, <1>15, <1>17, <1>19 DEF Kept, Only
  <1>21. ASSUME NEW m \in Names \ {p}
         PROVE  s7.buffer[m] = s.buffer[m]
    <2>1. CASE m = "dst" \/ m = "src"
      BY <1>2, <1>19, <1>20, <2>1
    <2>2. CASE m # "dst" /\ m # "src"
      <3>1. s1.buffer[m] = s.buffer[m] /\ s2.buffer[m] = s1.buffer[m]
        BY <1>3, <1>5, <2>2 DEF Kept, Only
      <3>2. s3.buffer[m] = s2.buffer[m] /\ s4.buffer[m] = s3.buffer[m]
        BY <1>8, <1>13, <2>2 DEF Kept, Only
      <3>3. s5.buffer[m] = s4.buffer[m] /\ s6.buffer[m] = s5.buffer[m]
        BY <1>15, <1>17, <2>2 DEF Kept, Only
      <3>4. s7.buffer[m] = s6.buffer[m]
        BY <1>19, <2>2 DEF Only
      <3> QED
        BY <3>1, <3>2, <3>3, <3>4
    <2> QED
      BY <2>1, <2>2
  <1> QED
    BY <1>1, <1>19, <1>20, <1>21 DEF Kept, Only

-----------------------------------------------------------------------------
(* Between two calls the local buffers are gone, and all else is good. *)
Idle(s) == \A n \in Temporary : s.buffer[n] = Gone
IInv    == Good(Store) /\ Idle(Store)

(* A call ends in a good store: the state after it is good. *)
LEMMA BecomeIsGood ==
  ASSUME GoneIsNothing, NEW t, Good(t), Idle(t), Become(t)
  PROVE  IInv'
  <1> DEFINE u == Store'
             F(a) == [i \in DOMAIN t.block[a].bytes |->
                        IF i \in Used(t, a) THEN t.block[a].bytes[i] ELSE Old]
  <1>1. u.buffer = t.buffer /\ Idle(u)
    BY MemoryAssumption DEF Store, Become, Idle, Good, Stores, Names
  <1>2. ASSUME NEW a \in Address
        PROVE  u.block[a] = IF t.block[a] = Gone THEN Gone
                            ELSE [t.block[a] EXCEPT !.bytes = F(a)]
    BY <1>2 DEF Store, Become
  <1>3. ASSUME NEW a \in Address, t.block[a] # Gone
        PROVE  /\ u.block[a] \in Blocks /\ u.block[a] # Gone
               /\ u.block[a].m_count = t.block[a].m_count
               /\ u.block[a].m_size = t.block[a].m_size
               /\ u.block[a].m_dirtyStart = t.block[a].m_dirtyStart
               /\ u.block[a].m_dirtyEnd = t.block[a].m_dirtyEnd
    <2>1. t.block[a] \in Blocks
      BY <1>3 DEF Good, Stores
    <2>2. t.block[a] \in Sized(t.block[a].m_size)
      BY <2>1, BlockIs
    <2>3. t.block[a].bytes \in [0..(t.block[a].m_size - 1) -> Values]
      BY <2>2 DEF Sized
    <2>4. F(a) \in [0..(t.block[a].m_size - 1) -> Values]
      BY <2>3 DEF Values
    <2>5. u.block[a] = [t.block[a] EXCEPT !.bytes = F(a)]
      BY <1>2, <1>3
    <2> HIDE DEF F, u
    <2> QED
      BY <2>1, <2>4, <2>5, BytesSet DEF GoneIsNothing
  <1>4. u \in Stores
    <2>1. /\ u = [buffer |-> u.buffer, block |-> u.block]
          /\ u.block = [a \in Address |-> u.block[a]]
      BY DEF Store, Become
    <2>2. \A a \in Address : u.block[a] \in Blocks \cup {Gone}
      BY <1>2, <1>3
    <2>3. u.buffer \in [Names -> Buffers \cup {Gone}]
      BY <1>1 DEF Good, Stores
    <2> HIDE DEF u
    <2>4. u.block \in [Address -> Blocks \cup {Gone}]
      BY <2>1, <2>2
    <2> QED
      BY <2>1, <2>3, <2>4 DEF Stores
  <1>5. \A a \in Address : u.block[a] # Gone => t.block[a] # Gone
    BY <1>2
  <1> HIDE DEF u
  <1>6. \A a : Refs(u, a) = Refs(t, a)
    BY <1>1 DEF Refs
  <1>7. ASSUME NEW n \in Names, u.buffer[n] # Gone
        PROVE  /\ u.block[u.buffer[n].m_data] # Gone
               /\ Sane(u.buffer[n], u.block[u.buffer[n].m_data])
    <2>1. t.buffer[n] = u.buffer[n] /\ u.buffer[n].m_data \in Address
      BY <1>1, <1>7 DEF Good, Stores, Buffers
    <2>2. /\ t.block[u.buffer[n].m_data] # Gone
          /\ Sane(u.buffer[n], t.block[u.buffer[n].m_data])
      BY <1>7, <2>1 DEF Good
    <2> QED
      BY <1>3, <2>1, <2>2 DEF Sane
  <1>8. Good(u)
    BY <1>3, <1>4, <1>5, <1>6, <1>7 DEF Good
  <1>9. Good(Store') /\ Idle(Store')
    BY <1>1, <1>8 DEF u
  <1> QED
    BY <1>9 DEF IInv, Good, Idle, Stores, Refs

(* The store a call starts from *)
LEMMA Started ==
  ASSUME IInv, NEW p \in Packet
  PROVE  /\ Good(Store) /\ Idle(Store) /\ p \in Names
         /\ Store.buffer[p] = buffer[p]
         /\ Exists(p) <=> Store.buffer[p] # Gone
  BY DEF IInv, Store, Names, Exists

LEMMA StillIdle ==
  ASSUME NEW s, Idle(s), NEW p \in Packet, NEW t, Kept(s, t, p)
  PROVE  Idle(t)
  BY MemoryAssumption DEF Idle, Kept, Only, Names

LEMMA SizeIs ==
  ASSUME GoneIsNothing, IInv, NEW p \in Packet, Exists(p)
  PROVE  Size(buffer[p]) \in Nat
  BY Started, ContentsType

LEMMA InitIsGood ==
  ASSUME Init
  PROVE  IInv
  <1>1. Store = [buffer |-> [n \in Names |-> Gone], block |-> [a \in Address |-> Gone]]
    BY DEF Init, Store, Names
  <1>2. Temporary \subseteq Names
    BY DEF Names
  <1> QED
    BY <1>1, <1>2 DEF IInv, Good, Idle, Stores

LEMMA StepIsGood ==
  ASSUME GoneIsNothing
  PROVE  IInv /\ [Next]_vars => IInv'
  <1> SUFFICES ASSUME IInv, [Next]_vars
               PROVE  IInv'
    OBVIOUS
  <1>1. ASSUME NEW p \in Packet, NEW n \in AddSizes, Create(p, n)
        PROVE  IInv'
    <2>1. PICK slack \in Slack : \E start \in Starts(slack) :
            Become(Initialized(Store, p, n, slack, start))
      BY <1>1 DEF Create
    <2>2. PICK start \in Starts(slack) : Become(Initialized(Store, p, n, slack, start))
      BY <2>1
    <2> DEFINE t == Initialized(Store, p, n, slack, start)
    <2>3. slack \in Nat /\ n \in Nat
      BY BufferAssumption
    <2>4. Kept(Store, t, p)
      BY <1>1, <2>3, Started, InitializedIsGood DEF Kept, Create
    <2> HIDE DEF t
    <2>5. Good(t) /\ Idle(t)
      BY <2>4, Started, StillIdle DEF Kept
    <2> QED
      BY <2>2, <2>5, BecomeIsGood DEF t
  <1>2. ASSUME NEW p \in Packet, Destroy(p)
        PROVE  IInv'
    <2> DEFINE t == Destroyed(Store, p)
    <2>1. Good(t) /\ Only(Store, t, p)
      BY <1>2, Started, DestroyedIsGood DEF Destroy
    <2>2. Become(t)
      BY <1>2 DEF Destroy
    <2> HIDE DEF t
    <2>3. Idle(t)
      BY <2>1, Started, MemoryAssumption DEF Idle, Only, Names
    <2> QED
      BY <2>1, <2>2, <2>3, BecomeIsGood
  <1>3. ASSUME NEW p \in Packet, NEW q \in Packet, Copy(p, q)
        PROVE  IInv'
    <2> DEFINE t == Assigned(Store, p, q)
    <2>1. Kept(Store, t, p)
      BY <1>3, Started, AssignedIsGood DEF Copy
    <2>2. Become(t)
      BY <1>3 DEF Copy
    <2> HIDE DEF t
    <2>3. Good(t) /\ Idle(t)
      BY <2>1, Started, StillIdle DEF Kept
    <2> QED
      BY <2>2, <2>3, BecomeIsGood
  <1>4. ASSUME NEW p \in Packet, NEW n \in AddSizes, NEW v \in Byte, AddHeader(p, n, v)
        PROVE  IInv'
    <2> DEFINE q == [i \in 1..n |-> v]
               Grow(slack) == GrownAtStart(Store, p, n, slack)
               To(slack) == Written(Grow(slack), p, Grow(slack).buffer[p].m_start, q)
    <2>1. PICK slack \in Slack : Become(To(slack))
      BY <1>4, Zenon DEF AddHeader
    <2> DEFINE t == To(slack)
    <2>2. slack \in Nat /\ n \in Nat
      BY BufferAssumption
    <2>3. q \in Seq(Values) /\ Len(q) = n
      BY <2>2, Repeated DEF Values
    <2> HIDE DEF q
    <2>4. Good(Store) /\ p \in Names /\ Store.buffer[p] # Gone
      BY <1>4, Started DEF AddHeader
    <2>5. t = Written(Grow(slack), p, Grow(slack).buffer[p].m_start, q)
          /\ Grow(slack) = GrownAtStart(Store, p, Len(q), slack)
      BY <2>3
    <2> HIDE DEF t, Grow
    <2>6. Kept(Store, t, p)
      BY <2>2, <2>3, <2>4, <2>5, PrependIsGood
    <2>7. Good(t) /\ Idle(t)
      BY <2>6, Started, StillIdle DEF Kept
    <2> QED
      BY <2>1, <2>7, BecomeIsGood DEF t
  <1>5. ASSUME NEW p \in Packet, NEW n \in AddSizes, NEW v \in Byte, AddTrailer(p, n, v)
        PROVE  IInv'
    <2> DEFINE q == [i \in 1..n |-> v]
               Grow(slack) == GrownAtEnd(Store, p, n, slack)
               To(slack) == Written(Grow(slack), p, Grow(slack).buffer[p].m_end - n, q)
    <2>1. PICK slack \in Slack : Become(To(slack))
      BY <1>5, Zenon DEF AddTrailer
    <2> DEFINE t == To(slack)
    <2>2. slack \in Nat /\ n \in Nat
      BY BufferAssumption
    <2>3. q \in Seq(Values)
      BY <2>2, Repeated DEF Values
    <2> HIDE DEF q
    <2>4. Good(Store) /\ p \in Names /\ Store.buffer[p] # Gone
      BY <1>5, Started DEF AddTrailer
    <2>5. t = Written(Grow(slack), p, Grow(slack).buffer[p].m_end - n, q)
          /\ Grow(slack) = GrownAtEnd(Store, p, n, slack)
      OBVIOUS
    <2> HIDE DEF t, Grow
    <2>6. Kept(Store, t, p)
      BY <2>2, <2>3, <2>4, <2>5, AppendIsGood
    <2>7. Good(t) /\ Idle(t)
      BY <2>6, Started, StillIdle DEF Kept
    <2> QED
      BY <2>1, <2>7, BecomeIsGood DEF t
  <1>6. ASSUME NEW p \in Packet, NEW n \in AddSizes, AddPaddingAtEnd(p, n)
        PROVE  IInv'
    <2>1. PICK slack \in Slack : Become(GrownAtEnd(Store, p, n, slack))
      BY <1>6 DEF AddPaddingAtEnd
    <2> DEFINE t == GrownAtEnd(Store, p, n, slack)
    <2>2. slack \in Nat /\ n \in Nat
      BY BufferAssumption
    <2>3. Kept(Store, t, p)
      BY <1>6, <2>2, Started, GrownAtEndIsGood DEF AddPaddingAtEnd
    <2> HIDE DEF t
    <2>4. Good(t) /\ Idle(t)
      BY <2>3, Started, StillIdle DEF Kept
    <2> QED
      BY <2>1, <2>4, BecomeIsGood DEF t
  <1>7. ASSUME NEW p \in Packet, NEW n \in 1..(MaxLength + 1), RemoveAtStart(p, n)
        PROVE  IInv'
    <2> DEFINE t == CutAtStart(Store, p, n)
    <2>1. n \in Nat
      BY BufferAssumption
    <2>2. Kept(Store, t, p)
      BY <1>7, <2>1, Started, CutAtStartIsGood DEF RemoveAtStart
    <2>3. Become(t)
      BY <1>7 DEF RemoveAtStart
    <2> HIDE DEF t
    <2>4. Good(t) /\ Idle(t)
      BY <2>2, Started, StillIdle DEF Kept
    <2> QED
      BY <2>3, <2>4, BecomeIsGood
  <1>8. ASSUME NEW p \in Packet, NEW n \in 1..(MaxLength + 1), RemoveAtEnd(p, n)
        PROVE  IInv'
    <2> DEFINE t == CutAtEnd(Store, p, n)
    <2>1. n \in Nat
      BY BufferAssumption
    <2>2. Kept(Store, t, p)
      BY <1>8, <2>1, Started, CutAtEndIsGood DEF RemoveAtEnd
    <2>3. Become(t)
      BY <1>8 DEF RemoveAtEnd
    <2> HIDE DEF t
    <2>4. Good(t) /\ Idle(t)
      BY <2>2, Started, StillIdle DEF Kept
    <2> QED
      BY <2>3, <2>4, BecomeIsGood
  <1>9. ASSUME NEW p \in Packet, NEW q \in Packet, NEW i \in 0..MaxLength,
               NEW n \in 0..MaxLength, CreateFragment(p, q, i, n)
        PROVE  IInv'
    <2> DEFINE rest == Size(buffer[q]) - (i + n)
               s1 == Assigned(Store, p, q)
               s2 == CutAtStart(s1, p, i)
               t  == CutAtEnd(s2, p, rest)
    <2>1. i \in Nat /\ n \in Nat
      BY BufferAssumption
    <2>2. Exists(q) /\ i + n <= Size(buffer[q]) /\ Become(t)
      BY <1>9 DEF CreateFragment
    <2>3. rest \in Nat
      <3>1. Size(buffer[q]) \in Nat
        BY <2>2, SizeIs
      <3> QED
        BY <2>1, <2>2, <3>1
    <2> HIDE DEF rest
    <2>4. Kept(Store, s1, p) /\ p \in Names
      BY <2>2, Started, AssignedIsGood
    <2> HIDE DEF s1
    <2>5. Kept(s1, s2, p)
      BY <2>1, <2>4, CutAtStartIsGood DEF Kept
    <2> HIDE DEF s2
    <2>6. Kept(s2, t, p)
      BY <2>3, <2>4, <2>5, CutAtEndIsGood DEF Kept
    <2> HIDE DEF t
    <2>7. Kept(Store, t, p)
      BY <2>4, <2>5, <2>6, KeptTwice
    <2>8. Good(t) /\ Idle(t)
      BY <2>7, Started, StillIdle DEF Kept
    <2> QED
      BY <2>2, <2>8, BecomeIsGood
  <1>10. ASSUME NEW p \in Packet, NEW q \in Packet, AddAtEnd(p, q)
         PROVE  IInv'
    <2>1. /\ Good(Store) /\ Idle(Store) /\ p \in Names /\ q \in Names
          /\ Store.buffer[p] # Gone /\ Store.buffer[q] # Gone
      BY <1>10, Started DEF AddAtEnd
    <2>2. PICK slack \in Slack :
            IF JoinsZeroes(Store, p, q)
            THEN Become(Joined(Store, p, q, slack))
            ELSE \E start \in Starts(slack) :
                   Become(Concatenated(Store, p, q, slack, start))
      BY <1>10, Zenon DEF AddAtEnd
    <2>3. slack \in Nat
      BY BufferAssumption
    <2>4. CASE JoinsZeroes(Store, p, q)
      <3> DEFINE t == Joined(Store, p, q, slack)
      <3>1. Become(t)
        BY <2>2, <2>4
      <3>2. Kept(Store, t, p)
        BY <2>1, <2>3, <2>4, JoinedIsGood
      <3> HIDE DEF t
      <3>3. Good(t) /\ Idle(t)
        BY <2>1, <3>2, StillIdle DEF Kept
      <3> QED
        BY <3>1, <3>3, BecomeIsGood
    <2>5. CASE ~JoinsZeroes(Store, p, q)
      <3>1. PICK start \in Starts(slack) :
              Become(Concatenated(Store, p, q, slack, start))
        BY <2>2, <2>5
      <3> DEFINE t == Concatenated(Store, p, q, slack, start)
      <3>2. Kept(Store, t, p)
        BY <2>1, <2>3, ConcatenatedIsGood DEF Idle
      <3> HIDE DEF t
      <3>3. Good(t) /\ Idle(t)
        BY <2>1, <3>2, StillIdle DEF Kept
      <3> QED
        BY <3>1, <3>3, BecomeIsGood DEF t
    <2> QED
      BY <2>4, <2>5
  <1>11. ASSUME NEW p \in Packet, TransformIntoRealBuffer(p)
         PROVE  IInv'
    <2> DEFINE Copied(slack, start) == FullCopy(Store, p, "tmp", slack, start)
               Back(slack, start) == Assigned(Copied(slack, start), p, "tmp")
    <2>1. PICK slack \in Slack : \E start \in Starts(slack) :
            Become(Destroyed(Back(slack, start), "tmp"))
      BY <1>11, Zenon DEF TransformIntoRealBuffer
    <2>2. PICK start \in Starts(slack) : Become(Destroyed(Back(slack, start), "tmp"))
      BY <2>1
    <2> DEFINE s1 == Copied(slack, start)
               s2 == Back(slack, start)
               t  == Destroyed(s2, "tmp")
    <2>3. /\ Good(Store) /\ Idle(Store) /\ p \in Names /\ Store.buffer[p] # Gone
          /\ slack \in Nat
      BY <1>11, Started, BufferAssumption DEF TransformIntoRealBuffer
    <2>4. "tmp" \in Names /\ p # "tmp" /\ Store.buffer["tmp"] = Gone
      BY <2>3, MemoryAssumption DEF Names, Temporary, Idle
    <2>5. Kept(Store, s1, "tmp")
      BY <2>3, <2>4, FullCopyIsGood
    <2>6. s2 = Assigned(s1, p, "tmp") /\ Become(t)
      BY <2>2
    <2> HIDE DEF s1, s2
    <2>7. Kept(s1, s2, p)
      BY <2>3, <2>4, <2>5, <2>6, AssignedIsGood DEF Kept
    <2>8. s2.buffer["tmp"] # Gone /\ Good(s2)
      BY <2>4, <2>5, <2>7 DEF Kept, Only
    <2>9. Good(t) /\ Only(s2, t, "tmp") /\ t.buffer["tmp"] = Gone
      BY <2>4, <2>8, DestroyedIsGood
    <2> HIDE DEF t
    <2>10. Idle(t)
      <3> SUFFICES ASSUME NEW n \in Temporary, n # "tmp" PROVE t.buffer[n] = Gone
        BY <2>9 DEF Idle
      <3>1. n \in Names /\ n # p /\ Store.buffer[n] = Gone
        BY <2>3, MemoryAssumption DEF Names, Idle
      <3> QED
        BY <2>5, <2>7, <2>9, <3>1 DEF Kept, Only
    <2> QED
      BY <2>6, <2>9, <2>10, BecomeIsGood
  <1>12. CASE UNCHANGED vars
    <2>1. buffer' = buffer /\ block' = block
      BY <1>12 DEF vars
    <2>2. Store' = Store
      BY <2>1 DEF Store
    <2> QED
      BY <2>2 DEF IInv, Good, Idle, Stores, Refs
  <1>13. CASE Next
    BY <1>1, <1>2, <1>3, <1>4, <1>5, <1>6, <1>7, <1>8, <1>9, <1>10, <1>11, <1>13
    DEF Next
  <1> QED
    BY <1>12, <1>13

LEMMA Inductive ==
  ASSUME GoneIsNothing
  PROVE  Spec => []IInv
  <1>1. Init => IInv
    BY InitIsGood
  <1>2. IInv /\ [Next]_vars => IInv'
    BY StepIsGood
  <1> QED
    BY <1>1, <1>2, PTL DEF Spec

(* Every block of memory counts exactly the buffers that refer to it       *)
(* (Buffer::Data::m_count): none is recycled while a packet's bytes are in *)
(* it, and none is kept when no packet's are.                              *)
THEOREM BlocksCountTheirBuffers ==
  ASSUME GoneIsNothing
  PROVE  Spec => []CountsBuffers
  <1>1. ASSUME IInv
        PROVE  CountsBuffers
    <2>1. Good(Store) /\ Store.block = block
      BY <1>1 DEF IInv, Store
    <2>2. \A p \in Packet : p \in Names /\ Store.buffer[p] = buffer[p]
      BY <1>1, Started
    <2>3. ASSUME NEW a \in Address
          PROVE  {p \in Living : buffer[p].m_data = a} = Refs(Store, a)
      <3>1. \A n \in Names : n \notin Packet => Store.buffer[n] = Gone
        BY <1>1 DEF IInv, Idle, Names
      <3> QED
        BY <2>2, <3>1 DEF Living, Exists, Refs
    <2>4. \A p \in Living : block[buffer[p].m_data] # Gone
      BY <2>1, <2>2 DEF Good, Living, Exists
    <2>5. \A a \in Address : block[a] # Gone =>
            block[a].m_count = Cardinality(Refs(Store, a)) /\ block[a].m_count > 0
      BY <2>1 DEF Good
    <2> QED
      BY <2>3, <2>4, <2>5 DEF CountsBuffers
  <1> QED
    BY <1>1, Inductive, PTL

(* Every buffer is inside the dirty area of its block and inside the       *)
(* block, its zero area in order: the check CheckInternalState, which      *)
(* buffer.cc:213 has switched off, would never fail.                       *)
THEOREM BuffersAreSane ==
  ASSUME GoneIsNothing
  PROVE  Spec => []CheckInternalState
  <1>1. ASSUME IInv
        PROVE  CheckInternalState
    <2>1. Good(Store) /\ Store.block = block
      BY <1>1 DEF IInv, Store
    <2>2. \A p \in Packet : p \in Names /\ Store.buffer[p] = buffer[p]
      BY <1>1, Started
    <2>3. \A p \in Living : Sane(buffer[p], block[buffer[p].m_data])
      BY <2>1, <2>2 DEF Good, Living, Exists
    <2> QED
      BY <2>3 DEF CheckInternalState, Sane
  <1> QED
    BY <1>1, Inductive, PTL
=============================================================================
