---------------------------- MODULE SumTheorems ----------------------------
(***************************************************************************)
(* The sum of a sequence of numbers: what appending, taking the head and   *)
(* bounding the elements do to it; and counters that wrap.  The folds of   *)
(* the community modules are defined by recursion over sets, so the        *)
(* lemmas rest on an induction over sets of naturals, which is derived     *)
(* here from the library's theorem that < is well-founded on them.         *)
(***************************************************************************)
EXTENDS Sums, SequenceTheorems, FiniteSetTheorems, WellFoundedInduction, TLAPS

(* A set of naturals has a least element, *)
LEMMA Least ==
  ASSUME NEW T \in SUBSET Nat, T # {}
  PROVE  \E n \in T : \A m \in T : n <= m
  <1> DEFINE R == {p \in Nat \X Nat : p[1] < p[2]}
  <1>1. IsWellFoundedOn(R, Nat)
    BY NatLessThanWellFounded, Zenon DEF OpToRel
  <1> HIDE DEF R
  <1>2. PICK n \in T : \A m \in T : <<m, n>> \notin R
    BY <1>1, WFMin
  <1>3. \A m \in T : ~(m < n)
    BY <1>2 DEF R
  <1> QED
    BY <1>3

(* so a set of them with 0 and the successor of each element has them all. *)
LEMMA Induction ==
  ASSUME NEW P \in SUBSET Nat, 0 \in P, \A n \in P : n + 1 \in P
  PROVE  P = Nat
  <1> SUFFICES ASSUME P # Nat PROVE FALSE
    OBVIOUS
  <1> DEFINE T == Nat \ P
  <1>1. PICK n \in T : \A m \in T : n <= m
    BY Least
  <1>2. n # 0 /\ n - 1 \in Nat
    BY <1>1
  <1>3. n - 1 \notin T
    BY <1>1
  <1> QED
    BY <1>1, <1>2, <1>3

-----------------------------------------------------------------------------
(* The function by which FoldFunction sums q over the subsets of S. *)
Some(s) == CHOOSE x \in s : TRUE
Step(f, q, s) == IF s = {} THEN 0 ELSE q[Some(s)] + f[s \ {Some(s)}]
IsFold(f, q, S) == f = [s \in SUBSET S |-> Step(f, q, s)]

LEMMA Unfold ==
  ASSUME NEW q
  PROVE  Sum(q) = (CHOOSE f : IsFold(f, q, DOMAIN q))[DOMAIN q]
  BY Zenon DEF Sum, FoldFunction, FoldFunctionOnSet, MapThenFoldSet,
               IsFold, Step, Some

LEMMA SomeIn == ASSUME NEW s, s # {} PROVE Some(s) \in s
  BY Zenon DEF Some

LEMMA OneLess ==
  ASSUME NEW S, IsFiniteSet(S), NEW s \in SUBSET S, s # {}, NEW x \in s
  PROVE  /\ Cardinality(s) \in Nat /\ s \ {x} \in SUBSET S
         /\ Cardinality(s \ {x}) = Cardinality(s) - 1
  BY FS_Subset, FS_RemoveElement, FS_CardinalityType

LEMMA FoldExists ==
  ASSUME NEW q, NEW S, IsFiniteSet(S), \A x \in S : q[x] \in Int
  PROVE  \E f : IsFold(f, q, S) /\ f \in [SUBSET S -> Int]
  <1> DEFINE Upto(k) == {s \in SUBSET S : Cardinality(s) <= k}
             Part(f, k) == /\ f \in [Upto(k) -> Int]
                           /\ \A s \in Upto(k) : f[s] = Step(f, q, s)
             P == {k \in Nat : \E f : Part(f, k)}
  <1>1. 0 \in P
    <2> DEFINE f == [s \in Upto(0) |-> 0]
    <2>1. \A s \in Upto(0) : s = {}
      BY FS_Subset, FS_EmptySet, FS_CardinalityType
    <2>2. Part(f, 0)
      BY <2>1 DEF Step
    <2> QED
      BY <2>2
  <1>2. ASSUME NEW k \in P PROVE k + 1 \in P
    <2>1. PICK f : Part(f, k)
      OBVIOUS
    <2> DEFINE g == [s \in Upto(k + 1) |->
                       IF s \in Upto(k) THEN f[s] ELSE Step(f, q, s)]
    <2>2. ASSUME NEW s \in Upto(k + 1)
          PROVE  g[s] \in Int /\ g[s] = Step(g, q, s)
      <3>1. CASE s = {}
        <4>1. s \in Upto(k)
          BY <3>1, FS_EmptySet
        <4> QED
          BY <2>1, <3>1, <4>1 DEF Step
      <3>2. CASE s # {}
        <4> DEFINE x == Some(s)
        <4>1. x \in s
          BY <3>2, SomeIn
        <4> HIDE DEF x
        <4>2. s \ {x} \in Upto(k) /\ s \ {x} \in Upto(k + 1)
          BY <3>2, <4>1, OneLess
        <4>3. f[s \ {x}] \in Int /\ g[s \ {x}] = f[s \ {x}] /\ q[x] \in Int
          BY <2>1, <4>1, <4>2
        <4>4. Step(f, q, s) = q[x] + f[s \ {x}]
          BY <3>2 DEF Step, x
        <4>5. Step(g, q, s) = q[x] + g[s \ {x}]
          BY <3>2 DEF Step, x
        <4>6. g[s] = Step(f, q, s)
          <5>1. CASE s \in Upto(k)
            BY <2>1, <5>1
          <5>2. CASE s \notin Upto(k)
            BY <5>2
          <5> QED
            BY <5>1, <5>2
        <4> HIDE DEF g
        <4> QED
          BY <4>3, <4>4, <4>5, <4>6
      <3> QED
        BY <3>1, <3>2
    <2>3. g \in [Upto(k + 1) -> Int]
      BY <2>2
    <2> HIDE DEF g
    <2>4. Part(g, k + 1)
      BY <2>2, <2>3
    <2> QED
      BY <2>4
  <1>3. P = Nat
    <2> HIDE DEF P
    <2>1. P \in SUBSET Nat
      BY DEF P
    <2> QED
      BY <1>1, <1>2, <2>1, Induction
  <1>4. PICK f : Part(f, Cardinality(S))
    BY <1>3, FS_CardinalityType
  <1>5. Upto(Cardinality(S)) = SUBSET S
    BY FS_Subset
  <1>6. f \in [SUBSET S -> Int] /\ \A s \in SUBSET S : f[s] = Step(f, q, s)
    BY <1>4, <1>5
  <1>7. IsFold(f, q, S)
    BY <1>6 DEF IsFold
  <1> QED
    BY <1>6, <1>7

LEMMA FoldType ==
  ASSUME NEW q, NEW S, IsFiniteSet(S), \A x \in S : q[x] \in Int,
         NEW f, IsFold(f, q, S)
  PROVE  /\ f \in [SUBSET S -> Int]
         /\ \A s \in SUBSET S : f[s] = Step(f, q, s)
  <1> DEFINE P == {k \in Nat : \A s \in SUBSET S :
                                 Cardinality(s) = k => f[s] \in Int}
  <1>0. /\ \A s \in SUBSET S : f[s] = Step(f, q, s)
        /\ f = [s \in SUBSET S |-> f[s]]
    BY DEF IsFold
  <1>1. 0 \in P
    <2>1. \A s \in SUBSET S : Cardinality(s) = 0 => s = {}
      BY FS_EmptySet, FS_Subset
    <2>2. f[{}] = 0
      BY <1>0 DEF Step
    <2> QED
      BY <2>1, <2>2
  <1>2. ASSUME NEW k \in P PROVE k + 1 \in P
    <2> SUFFICES ASSUME NEW s \in SUBSET S, Cardinality(s) = k + 1
                 PROVE  f[s] \in Int
      OBVIOUS
    <2> DEFINE x == Some(s)
    <2>1. s # {} /\ x \in s
      <3>1. CASE s = {}
        BY <3>1, FS_EmptySet
      <3>2. CASE s # {}
        BY <3>2, SomeIn
      <3> QED
        BY <3>1, <3>2
    <2>2. f[s] = q[x] + f[s \ {x}]
      BY <1>0, <2>1 DEF Step
    <2> HIDE DEF x
    <2>3. s \ {x} \in SUBSET S /\ Cardinality(s \ {x}) = k
      BY <2>1, OneLess
    <2>4. f[s \ {x}] \in Int /\ q[x] \in Int
      BY <2>1, <2>3
    <2> QED
      BY <2>2, <2>4
  <1>3. P = Nat
    <2> HIDE DEF P
    <2>1. P \in SUBSET Nat
      BY DEF P
    <2> QED
      BY <1>1, <1>2, <2>1, Induction
  <1>4. \A s \in SUBSET S : f[s] \in Int
    BY <1>3, FS_Subset, FS_CardinalityType
  <1> QED
    BY <1>0, <1>4

(* Any element of a set may be taken out first. *)
AnyFirst(f, q, S) ==
  \A s \in SUBSET S : \A x \in s : f[s] = q[x] + f[s \ {x}]

LEMMA AnyOrder ==
  ASSUME NEW q, NEW S, IsFiniteSet(S), \A x \in S : q[x] \in Int,
         NEW f, IsFold(f, q, S)
  PROVE  AnyFirst(f, q, S)
  <1> DEFINE Holds(t) == \A y \in t : f[t] = q[y] + f[t \ {y}]
             P == {k \in Nat : \A t \in SUBSET S : Cardinality(t) = k => Holds(t)}
  <1>0. f \in [SUBSET S -> Int] /\ \A t \in SUBSET S : f[t] = Step(f, q, t)
    BY FoldType
  <1>1. 0 \in P
    BY FS_EmptySet, FS_Subset
  <1>2. ASSUME NEW k \in P PROVE k + 1 \in P
    <2> SUFFICES ASSUME NEW t \in SUBSET S, Cardinality(t) = k + 1, NEW y \in t
                 PROVE  f[t] = q[y] + f[t \ {y}]
      OBVIOUS
    <2> DEFINE c == Some(t)
    <2>1. c \in t
      BY SomeIn
    <2>2. f[t] = q[c] + f[t \ {c}]
      BY <1>0 DEF Step
    <2> HIDE DEF c
    <2>3. CASE y = c
      BY <2>2, <2>3
    <2>4. CASE y # c
      <3>1. t \ {c} \in SUBSET S /\ Cardinality(t \ {c}) = k /\ y \in t \ {c}
        BY <2>1, <2>4, OneLess
      <3>2. t \ {y} \in SUBSET S /\ Cardinality(t \ {y}) = k /\ c \in t \ {y}
        BY <2>1, <2>4, OneLess
      <3>3. f[t \ {c}] = q[y] + f[(t \ {c}) \ {y}]
        BY <3>1
      <3> DEFINE rest == (t \ {c}) \ {y}
      <3>4. rest = (t \ {y}) \ {c} /\ rest \in SUBSET S
        OBVIOUS
      <3>5. f[t \ {y}] = q[c] + f[rest]
        BY <3>2, <3>4
      <3>6. q[y] \in Int /\ q[c] \in Int /\ f[rest] \in Int
        BY <1>0, <2>1, <3>4
      <3>7. f[t] = q[c] + (q[y] + f[rest])
        BY <2>2, <3>3
      <3> HIDE DEF rest
      <3>8. q[c] + (q[y] + f[rest]) = q[y] + (q[c] + f[rest])
        BY <3>6
      <3> QED
        BY <3>5, <3>7, <3>8
    <2> QED
      BY <2>3, <2>4
  <1>3. P = Nat
    <2> HIDE DEF P
    <2>1. P \in SUBSET Nat
      BY DEF P
    <2> QED
      BY <1>1, <1>2, <2>1, Induction
  <1>4. \A t \in SUBSET S : Cardinality(t) \in Nat
    BY FS_Subset, FS_CardinalityType
  <1> QED
    BY <1>3, <1>4 DEF AnyFirst
-----------------------------------------------------------------------------
(* A sequence of numbers has partial sums, and Sum is the last of them.    *)
IsPartial(p, q) ==
  /\ p \in [0..Len(q) -> Int] /\ p[0] = 0
  /\ \A n \in 1..Len(q) : p[n] = p[n - 1] + q[n]

LEMMA PartialSums ==
  ASSUME NEW q \in Seq(Int)
  PROVE  \E p : IsPartial(p, q) /\ Sum(q) = p[Len(q)]
  <1> DEFINE S == DOMAIN q
  <1>1. S = 1..Len(q) /\ Len(q) \in Nat /\ \A x \in S : q[x] \in Int
    OBVIOUS
  <1>2. IsFiniteSet(S)
    BY <1>1, FS_Interval
  <1>3. \E g : IsFold(g, q, S)
    <2> HIDE DEF S
    <2> QED
      BY <1>1, <1>2, FoldExists
  <1>4. \E f : IsFold(f, q, S) /\ Sum(q) = f[S]
    BY <1>3, Unfold, Zenon
  <1>5. PICK f : IsFold(f, q, S) /\ Sum(q) = f[S]
    BY <1>4
  <1> DEFINE p == [n \in 0..Len(q) |-> f[1..n]]
  <1> HIDE DEF S
  <1>6. /\ f \in [SUBSET S -> Int]
        /\ \A s \in SUBSET S : f[s] = Step(f, q, s)
        /\ AnyFirst(f, q, S)
    <2>1. \A x \in S : q[x] \in Int
      BY <1>1
    <2>2. IsFold(f, q, S)
      BY <1>5
    <2>3. f \in [SUBSET S -> Int] /\ \A s \in SUBSET S : f[s] = Step(f, q, s)
      BY <1>2, <2>1, <2>2, FoldType
    <2>4. AnyFirst(f, q, S)
      BY <1>2, <2>1, <2>2, AnyOrder
    <2> QED
      BY <2>3, <2>4
  <1>7. \A n \in 0..Len(q) : 1..n \in SUBSET S /\ p[n] = f[1..n] /\ p[n] \in Int
    BY <1>1, <1>6
  <1>8. p[0] = 0
    <2>1. 1..0 = {} /\ 0 \in 0..Len(q)
      BY <1>1
    <2> QED
      BY <1>6, <1>7, <2>1 DEF Step
  <1>9. ASSUME NEW n \in 1..Len(q) PROVE p[n] = p[n - 1] + q[n]
    <2>1. n \in 1..n /\ (1..n) \ {n} = 1..(n - 1) /\ n - 1 \in 0..Len(q)
      OBVIOUS
    <2>2. f[1..n] = q[n] + f[(1..n) \ {n}]
      <3>1. 1..n \in SUBSET S
        BY <1>1, <1>7
      <3> HIDE DEF p
      <3> QED
        BY <1>6, <2>1, <3>1 DEF AnyFirst
    <2>3. /\ p[n] = f[1..n] /\ p[n - 1] = f[1..(n - 1)]
          /\ p[n - 1] \in Int /\ q[n] \in Int
      BY <1>1, <1>7, <2>1
    <2> HIDE DEF p
    <2>4. f[1..n] = q[n] + f[1..(n - 1)]
      BY <2>1, <2>2, Zenon
    <2> QED
      BY <2>3, <2>4
  <1>10. Sum(q) = p[Len(q)]
    BY <1>1, <1>5, <1>7
  <1>11. p \in [0..Len(q) -> Int]
    BY <1>7
  <1> HIDE DEF p
  <1> QED
    BY <1>8, <1>9, <1>10, <1>11 DEF IsPartial

LEMMA SumType == ASSUME NEW q \in Seq(Int) PROVE Sum(q) \in Int
  BY PartialSums DEF IsPartial

(* Nothing sums to 0. *)
LEMMA SumEmpty == Sum(<< >>) = 0
  <1>1. << >> \in Seq(Int) /\ Len(<< >>) = 0
    BY EmptySeq
  <1> QED
    BY <1>1, PartialSums DEF IsPartial

LEMMA SumAppend ==
  ASSUME NEW q \in Seq(Int), NEW x \in Int
  PROVE  Sum(Append(q, x)) = Sum(q) + x
  <1> DEFINE r == Append(q, x)
  <1>1. /\ r \in Seq(Int) /\ Len(r) = Len(q) + 1 /\ Len(q) \in Nat
        /\ r[Len(r)] = x /\ \A i \in 1..Len(q) : r[i] = q[i]
    BY AppendProperties
  <1> HIDE DEF r
  <1>2. PICK p : IsPartial(p, q) /\ Sum(q) = p[Len(q)]
    BY PartialSums
  <1>3. PICK o : IsPartial(o, r) /\ Sum(r) = o[Len(r)]
    BY <1>1, PartialSums
  <1> DEFINE P == {n \in Nat : n <= Len(q) => o[n] = p[n]}
  <1>4. 0 \in P
    BY <1>2, <1>3 DEF IsPartial
  <1>5. ASSUME NEW n \in P PROVE n + 1 \in P
    <2> SUFFICES ASSUME n + 1 <= Len(q) PROVE o[n + 1] = p[n + 1]
      OBVIOUS
    <2>1. n + 1 \in 1..Len(q) /\ n + 1 \in 1..Len(r) /\ (n + 1) - 1 = n
      BY <1>1
    <2>2. o[n + 1] = o[n] + r[n + 1] /\ p[n + 1] = p[n] + q[n + 1]
      BY <1>2, <1>3, <2>1 DEF IsPartial
    <2> QED
      BY <1>1, <2>1, <2>2
  <1>6. P = Nat
    <2> HIDE DEF P
    <2>1. P \in SUBSET Nat
      BY DEF P
    <2> QED
      BY <1>4, <1>5, <2>1, Induction
  <1>7. o[Len(q)] = Sum(q)
    BY <1>1, <1>2, <1>6
  <1>8. Len(r) \in 1..Len(r) /\ Len(r) - 1 = Len(q)
    BY <1>1
  <1>9. Sum(r) = o[Len(q)] + x
    BY <1>1, <1>3, <1>8 DEF IsPartial
  <1> QED
    BY <1>7, <1>9 DEF r

LEMMA SumTail ==
  ASSUME NEW q \in Seq(Int), q # << >>
  PROVE  Sum(q) = Head(q) + Sum(Tail(q))
  <1> DEFINE r == Tail(q)
  <1>1. /\ r \in Seq(Int) /\ Len(r) = Len(q) - 1 /\ Len(q) \in Nat /\ Len(q) > 0
        /\ Head(q) = q[1] /\ \A i \in 1..Len(r) : r[i] = q[i + 1]
    BY HeadTailProperties, EmptySeq
  <1> HIDE DEF r
  <1>2. PICK p : IsPartial(p, q) /\ Sum(q) = p[Len(q)]
    BY PartialSums
  <1>3. PICK o : IsPartial(o, r) /\ Sum(r) = o[Len(r)]
    BY <1>1, PartialSums
  <1> DEFINE P == {n \in Nat : n <= Len(r) => p[n + 1] = q[1] + o[n]}
  <1>4. 0 \in P
    <2>1. 1 \in 1..Len(q) /\ q[1] \in Int
      BY <1>1
    <2>2. p[1] = p[1 - 1] + q[1] /\ p[0] = 0 /\ o[0] = 0
      BY <1>2, <1>3, <2>1 DEF IsPartial
    <2> QED
      BY <2>1, <2>2
  <1>5. ASSUME NEW n \in P PROVE n + 1 \in P
    <2> SUFFICES ASSUME n + 1 <= Len(r) PROVE p[n + 2] = q[1] + o[n + 1]
      OBVIOUS
    <2>1. /\ n + 1 \in 1..Len(r) /\ n + 2 \in 1..Len(q) /\ n \in 0..Len(r)
          /\ (n + 1) - 1 = n /\ (n + 2) - 1 = n + 1 /\ 1 \in 1..Len(q)
      BY <1>1
    <2>2. o[n + 1] = o[n] + r[n + 1] /\ p[n + 2] = p[n + 1] + q[n + 2]
      BY <1>2, <1>3, <2>1 DEF IsPartial
    <2>3. r[n + 1] = q[(n + 1) + 1]
      BY <1>1, <2>1
    <2>4. q[n + 2] \in Int /\ q[1] \in Int /\ o[n] \in Int
      BY <1>3, <2>1 DEF IsPartial
    <2>5. p[n + 1] = q[1] + o[n] /\ (n + 1) + 1 = n + 2
      BY <2>1
    <2> QED
      BY <2>2, <2>3, <2>4, <2>5
  <1>6. P = Nat
    <2> HIDE DEF P
    <2>1. P \in SUBSET Nat
      BY DEF P
    <2> QED
      BY <1>4, <1>5, <2>1, Induction
  <1>7. Len(r) \in Nat /\ Len(r) + 1 = Len(q)
    BY <1>1
  <1>8. Len(r) \in P
    BY <1>6, <1>7
  <1> QED
    BY <1>1, <1>2, <1>3, <1>7, <1>8 DEF r

(* Numbers between 0 and max sum to at most max for each. *)
LEMMA SumBound ==
  ASSUME NEW q \in Seq(Int), NEW max \in Nat,
         \A i \in 1..Len(q) : q[i] \in 0..max
  PROVE  Sum(q) \in Nat /\ Sum(q) <= Len(q) * max
  <1>1. PICK p : IsPartial(p, q) /\ Sum(q) = p[Len(q)]
    BY PartialSums
  <1> DEFINE P == {n \in Nat : n <= Len(q) => 0 <= p[n] /\ p[n] <= n * max}
  <1>2. 0 \in P
    BY <1>1 DEF IsPartial
  <1>3. ASSUME NEW n \in P PROVE n + 1 \in P
    <2> SUFFICES ASSUME n + 1 <= Len(q)
                 PROVE  0 <= p[n + 1] /\ p[n + 1] <= (n + 1) * max
      OBVIOUS
    <2>1. n + 1 \in 1..Len(q) /\ (n + 1) - 1 = n /\ n \in 0..Len(q)
      OBVIOUS
    <2>2. p[n + 1] = p[n] + q[n + 1] /\ p[n] \in Int
      BY <1>1, <2>1 DEF IsPartial
    <2>3. 0 <= p[n] /\ p[n] <= n * max /\ q[n + 1] \in 0..max
      BY <2>1
    <2>4. (n + 1) * max = n * max + max
      OBVIOUS
    <2> QED
      BY <2>2, <2>3, <2>4
  <1>4. P = Nat
    <2> HIDE DEF P
    <2>1. P \in SUBSET Nat
      BY DEF P
    <2> QED
      BY <1>2, <1>3, <2>1, Induction
  <1>5. Len(q) \in P
    BY <1>4
  <1> QED
    BY <1>1, <1>5, SumType

-----------------------------------------------------------------------------
(* Counters that wrap at w. *)
LEMMA DivMod ==
  ASSUME NEW w \in Nat \ {0}, NEW x \in Int
  PROVE  /\ x = w * (x \div w) + (x % w)
         /\ x \div w \in Int /\ x % w \in 0..(w - 1)
  OBVIOUS

LEMMA Multiples ==
  ASSUME NEW w \in Nat \ {0}, NEW d \in Int
  PROVE  (d >= 1 => w * d >= w) /\ (d <= -1 => w * d <= -w)
  OBVIOUS

LEMMA ModIs ==
  ASSUME NEW w \in Nat \ {0}, NEW k \in Int, NEW r \in 0..(w - 1)
  PROVE  (w * k + r) % w = r
  <1> DEFINE x == w * k + r
  <1>0. x \in Int /\ x = w * k + r
    OBVIOUS
  <1> HIDE DEF x
  <1>1. /\ x = w * (x \div w) + (x % w)
        /\ x \div w \in Int /\ x % w \in 0..(w - 1)
    BY <1>0, DivMod
  <1> DEFINE d == k - (x \div w)
  <1>2. d \in Int /\ w * d = (x % w) - r
    BY <1>0, <1>1
  <1>3. d = 0
    <2> HIDE DEF d
    <2>1. (d >= 1 => w * d >= w) /\ (d <= -1 => w * d <= -w)
      BY <1>2, Multiples
    <2> QED
      BY <1>1, <1>2, <2>1
  <1> QED
    BY <1>1, <1>2, <1>3 DEF x

LEMMA ModSmall ==
  ASSUME NEW w \in Nat \ {0}, NEW x \in 0..(w - 1)
  PROVE  x % w = x
  <1>1. w * 0 + x = x
    OBVIOUS
  <1> QED
    BY <1>1, ModIs

LEMMA ModShift ==
  ASSUME NEW w \in Nat \ {0}, NEW k \in Int, NEW x \in Int
  PROVE  (w * k + x) % w = x % w
  <1> DEFINE a == x \div w
             r == x % w
  <1>1. x = w * a + r /\ a \in Int /\ r \in 0..(w - 1)
    BY DivMod
  <1> HIDE DEF a, r
  <1>2. w * k + x = w * (k + a) + r /\ k + a \in Int
    BY <1>1
  <1>3. (w * (k + a) + r) % w = r
    BY <1>1, <1>2, ModIs
  <1> QED
    BY <1>2, <1>3 DEF r

(* An operand may wrap before the addition or after it. *)
LEMMA ModPlus ==
  ASSUME NEW w \in Nat \ {0}, NEW x \in Int, NEW y \in Int
  PROVE  ((x % w) + y) % w = (x + y) % w
  <1> DEFINE a == x \div w
             r == x % w
  <1>1. x = w * a + r /\ a \in Int /\ r \in Int
    BY DivMod
  <1> HIDE DEF a, r
  <1>2. x + y = w * a + (r + y) /\ r + y \in Int
    BY <1>1
  <1>3. (w * a + (r + y)) % w = (r + y) % w
    BY <1>1, <1>2, ModShift
  <1> QED
    BY <1>2, <1>3 DEF r

LEMMA ModLess ==
  ASSUME NEW w \in Nat \ {0}, NEW x \in Int, NEW y \in Int
  PROVE  (x - (y % w)) % w = (x - y) % w
  <1> DEFINE a == y \div w
             r == y % w
  <1>1. y = w * a + r /\ a \in Int /\ r \in Int
    BY DivMod
  <1> HIDE DEF a, r
  <1>2. x - r = w * a + (x - y) /\ x - y \in Int
    BY <1>1
  <1>3. (w * a + (x - y)) % w = (x - y) % w
    BY <1>1, <1>2, ModShift
  <1> QED
    BY <1>2, <1>3 DEF r

LEMMA ModAround ==
  ASSUME NEW w \in Nat \ {0}, NEW x \in Int
  PROVE  (x + w) % w = x % w
  <1> DEFINE a == x \div w
             r == x % w
  <1>1. x = w * a + r /\ a \in Int /\ r \in 0..(w - 1)
    BY DivMod
  <1> HIDE DEF a, r
  <1>2. x + w = w * (a + 1) + r /\ a + 1 \in Int
    BY <1>1
  <1>3. (w * (a + 1) + r) % w = r
    BY <1>1, <1>2, ModIs
  <1> QED
    BY <1>2, <1>3 DEF r
=============================================================================
