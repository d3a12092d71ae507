--------------------------- MODULE Scoring_proofs ---------------------------
(***************************************************************************)
(* What the numbers of a game satisfy, for any players, rounds, scores and *)
(* reactions.  The first part says what sorted() and sum() return; the     *)
(* second reads ranks, points and podium off it.                           *)
(***************************************************************************)
EXTENDS Scoring, FiniteSetTheorems, FunctionTheorems, SequenceTheorems, TLAPS

(***************************************************************************)
(* Induction: a set of numbers, or of finite sets, has a smallest member,  *)
(* and so has a set of counterexamples.                                    *)
(***************************************************************************)

LEMMA SmallestNumber ==
  ASSUME NEW N \in SUBSET Nat, N # {}
  PROVE  \E n \in N : \A m \in N : n <= m
<1>1. PICK n \in N : \A m \in N : <<m, n>> \notin OpToRel(<, Nat)
  BY NatLessThanWellFounded, WFMin
<1>2. ASSUME NEW m \in N PROVE n <= m
  <2>1. m \in Nat /\ n \in Nat
    OBVIOUS
  <2>2. ~ (m < n)
    BY <1>1, <2>1 DEF OpToRel
  <2> QED  BY <2>1, <2>2
<1> QED  BY <1>2

LEMMA SmallestSet ==
  ASSUME NEW S, IsFiniteSet(S), NEW F, F # {}, \A T \in F : T \subseteq S
  PROVE  \E T \in F : \A U \in F : U \subseteq T => U = T
<1>1. FiniteSubsetsOf(S) = SUBSET S
  BY FS_FiniteSubsetsOfFinite
<1>2. PICK T \in F : \A U \in F : <<U, T>> \notin StrictSubsetOrdering(S)
  BY <1>1, FS_StrictSubsetOrderingWellFounded, WFMin
<1>3. \A U \in F : U \subseteq T => U = T
  BY <1>2 DEF StrictSubsetOrdering
<1> QED  BY <1>3

\* Min and Max of numbers, where they exist.
LEMMA SmallestOf ==
  ASSUME NEW N \in SUBSET Nat, N # {}
  PROVE  Min(N) \in N /\ \A m \in N : Min(N) <= m
BY SmallestNumber DEF Min

LEMMA LargestOf ==
  ASSUME NEW S \in SUBSET Int, IsFiniteSet(S), S # {}
  PROVE  Max(S) \in S /\ \A m \in S : m <= Max(S)
<1> DEFINE F == {T \in SUBSET S : T # {} /\ ~ \E x \in T : \A y \in T : x >= y}
<1>1. F = {}
  <2> SUFFICES ASSUME F # {} PROVE FALSE
    OBVIOUS
  <2>1. PICK T \in F : \A U \in F : U \subseteq T => U = T
    <3>1. \A T \in F : T \subseteq S
      OBVIOUS
    <3> HIDE DEF F
    <3> QED  BY <3>1, SmallestSet
  <2>2. PICK x \in T : TRUE
    OBVIOUS
  <2>3. T \ {x} \notin F
    BY <2>1, <2>2
  <2>4. CASE T \ {x} = {}
    BY <2>2, <2>4
  <2>5. CASE T \ {x} # {}
    <3>1. PICK y \in T \ {x} : \A z \in T \ {x} : y >= z
      BY <2>3, <2>5
    <3>2. x \in Int /\ y \in Int /\ \A z \in T : z \in Int
      OBVIOUS
    <3> QED  BY <3>1, <3>2
  <2> QED  BY <2>4, <2>5
<1>2. \E x \in S : \A y \in S : x >= y
  BY <1>1
<1>3. Max(S) \in S /\ \A y \in S : Max(S) >= y
  BY <1>2 DEF Max
<1> QED  BY <1>3

(***************************************************************************)
(* A fold over a finite set is a recursive function on its subsets: it     *)
(* exists, whatever is folded.                                             *)
(***************************************************************************)

Picks(first, S) == \A T \in SUBSET S : T # {} => first[T] \in T

FoldsBy(f, S, V, base, first, step) ==
  /\ f \in [SUBSET S -> V]
  /\ \A T \in SUBSET S :
       f[T] = IF T = {} THEN base ELSE step[<<first[T], f[T \ {first[T]}]>>]

LEMMA FoldExists ==
  ASSUME NEW S, IsFiniteSet(S), NEW V, NEW base \in V,
         NEW first, Picks(first, S), NEW step \in [S \X V -> V]
  PROVE  \E f : FoldsBy(f, S, V, base, first, step)
<1> DEFINE Small(n) == {T \in SUBSET S : Cardinality(T) <= n}
           Folds(f, n) == /\ f \in [Small(n) -> V]
                          /\ \A T \in Small(n) :
                               f[T] = IF T = {} THEN base
                                      ELSE step[<<first[T], f[T \ {first[T]}]>>]
           N == {n \in Nat : ~ \E f : Folds(f, n)}
<1>0. \A T \in SUBSET S : /\ IsFiniteSet(T) /\ Cardinality(T) \in Nat
                          /\ Cardinality(T) <= Cardinality(S)
                          /\ Cardinality(T) = 0 <=> T = {}
  BY FS_Subset, FS_CardinalityType, FS_EmptySet
<1>1. \A T \in SUBSET S : T # {} => Cardinality(T \ {first[T]}) = Cardinality(T) - 1
  BY <1>0, FS_RemoveElement DEF Picks
<1>2. N = {}
  <2> SUFFICES ASSUME N # {} PROVE FALSE
    OBVIOUS
  <2>1. PICK n \in N : \A m \in N : n <= m
    <3>1. N \in SUBSET Nat
      OBVIOUS
    <3> HIDE DEF N
    <3> QED  BY <3>1, SmallestNumber
  <2>2. CASE n = 0
    <3>1. Small(n) = {{}}
      BY <1>0, <2>2
    <3>2. Folds([T \in Small(n) |-> base], n)
      BY <3>1
    <3> QED  BY <3>2
  <2>3. CASE n # 0
    <3>1. n - 1 \in Nat /\ n - 1 \notin N
      <4>1. n \in Nat
        OBVIOUS
      <4> HIDE DEF N
      <4> QED  BY <4>1, <2>1, <2>3
    <3>2. PICK g : Folds(g, n - 1)
      BY <3>1
    <3> DEFINE f == [T \in Small(n) |->
                       IF T = {} THEN base ELSE step[<<first[T], g[T \ {first[T]}]>>]]
    <3>3. \A T \in Small(n) : T # {} => T \ {first[T]} \in Small(n - 1)
      BY <1>0, <1>1
    <3>4. Small(n - 1) \subseteq Small(n)
      BY <1>0
    <3>5. \A T \in Small(n - 1) : f[T] = g[T]
      BY <3>2, <3>4
    <3>6. f \in [Small(n) -> V]
      <4> SUFFICES ASSUME NEW T \in Small(n), T # {}
                   PROVE  step[<<first[T], g[T \ {first[T]}]>>] \in V
        OBVIOUS
      <4>1. g[T \ {first[T]}] \in V /\ first[T] \in S
        BY <3>2, <3>3 DEF Picks
      <4> QED  BY <4>1
    <3>7. ASSUME NEW T \in Small(n)
          PROVE  f[T] = IF T = {} THEN base ELSE step[<<first[T], f[T \ {first[T]}]>>]
      <4>1. CASE T = {}
        BY <4>1
      <4>2. CASE T # {}
        <5>1. f[T \ {first[T]}] = g[T \ {first[T]}]
          BY <3>3, <3>5, <4>2
        <5>2. f[T] = step[<<first[T], g[T \ {first[T]}]>>]
          BY <4>2
        <5> QED  BY <5>1, <5>2, <4>2
      <4> QED  BY <4>1, <4>2
    <3>8. Folds(f, n)
      BY <3>6, <3>7
    <3> QED  BY <3>8
  <2> QED  BY <2>2, <2>3
<1>3. PICK f : Folds(f, Cardinality(S))
  BY <1>0, <1>2
<1>4. Small(Cardinality(S)) = SUBSET S
  BY <1>0
<1> QED  BY <1>3, <1>4 DEF FoldsBy
-----------------------------------------------------------------------------
(***************************************************************************)
(* What sorted() returns.                                                  *)
(***************************************************************************)

\* The list q holds every element of I, once.
Lists(q, I) ==
  /\ q \in Seq(I) /\ Len(q) = Cardinality(I)
  /\ \A i \in I : \E k \in 1..Len(q) : q[k] = i
  /\ \A k, m \in 1..Len(q) : q[k] = q[m] => k = m

InOrder(q, before) == \A k, m \in 1..Len(q) : k < m => <<q[k], q[m]>> \in before

StrictOrder(before, I) ==
  /\ \A i, j \in I : i # j => <<i, j>> \in before \/ <<j, i>> \in before
  /\ \A i, j, k \in I : <<i, j>> \in before /\ <<j, k>> \in before => <<i, k>> \in before
  /\ \A i \in I : <<i, i>> \notin before

\* Where Sorted inserts i.
Place(q, i, before) == Min({k \in 1..Len(q) : <<i, q[k]>> \in before} \cup {Len(q) + 1})

LEMMA PlaceOf ==
  ASSUME NEW I, NEW q \in Seq(I), NEW i, NEW before
  PROVE  /\ Place(q, i, before) \in 1..(Len(q) + 1)
         /\ \A k \in 1..Len(q) : k < Place(q, i, before) => <<i, q[k]>> \notin before
         /\ Place(q, i, before) <= Len(q) => <<i, q[Place(q, i, before)]>> \in before
<1> DEFINE N == {k \in 1..Len(q) : <<i, q[k]>> \in before} \cup {Len(q) + 1}
<1>1. Len(q) \in Nat /\ N \in SUBSET Nat /\ N # {}
  BY LenProperties
<1>2. Min(N) \in N /\ \A k \in N : Min(N) <= k
  <2> HIDE DEF N
  <2> QED  BY <1>1, SmallestOf
<1>3. \A k \in 1..Len(q) : k < Min(N) => <<i, q[k]>> \notin before
  <2> SUFFICES ASSUME NEW k \in 1..Len(q), k < Min(N), k \in N
               PROVE  FALSE
    OBVIOUS
  <2>1. Min(N) <= k /\ Min(N) \in Nat /\ k \in Nat
    BY <1>1, <1>2
  <2> QED  BY <2>1
<1>4. Min(N) <= Len(q) => <<i, q[Min(N)]>> \in before
  BY <1>1, <1>2
<1>5. Min(N) \in 1..(Len(q) + 1)
  BY <1>1, <1>2
<1> QED  BY <1>3, <1>4, <1>5 DEF Place

LEMMA InsertAtProperties ==
  ASSUME NEW I, NEW q \in Seq(I), NEW i \in I, NEW at \in 1..(Len(q) + 1)
  PROVE  /\ InsertAt(q, at, i) \in Seq(I)
         /\ Len(InsertAt(q, at, i)) = Len(q) + 1
         /\ \A k \in 1..(Len(q) + 1) :
              InsertAt(q, at, i)[k] = IF k < at THEN q[k] ELSE IF k = at THEN i ELSE q[k - 1]
<1> DEFINE a == SubSeq(q, 1, at - 1)
           b == <<i>>
           c == SubSeq(q, at, Len(q))
<1>1. Len(q) \in Nat /\ q \in [1..Len(q) -> I]
  BY LenProperties
<1>2. a \in Seq(I) /\ Len(a) = at - 1 /\ \A k \in 1..(at - 1) : a[k] = q[k]
  BY <1>1, SubSeqProperties
<1>3. b \in Seq(I) /\ Len(b) = 1 /\ b[1] = i
  OBVIOUS
<1>4. /\ c \in Seq(I) /\ Len(c) = Len(q) - at + 1
      /\ \A k \in 1..(Len(q) - at + 1) : c[k] = q[at + k - 1]
  BY <1>1, SubSeqProperties
<1> HIDE DEF a, b, c
<1>5. /\ a \o b \in Seq(I) /\ Len(a \o b) = at
      /\ \A k \in 1..at : (a \o b)[k] = IF k < at THEN q[k] ELSE i
  <2>1. /\ a \o b \in Seq(I) /\ Len(a \o b) = Len(a) + Len(b)
        /\ \A k \in 1..(Len(a) + Len(b)) :
             (a \o b)[k] = IF k <= Len(a) THEN a[k] ELSE b[k - Len(a)]
    BY <1>2, <1>3, ConcatProperties
  <2>2. Len(a) + Len(b) = at
    BY <1>1, <1>2, <1>3
  <2>3. \A k \in 1..at : IF k <= Len(a) THEN k < at /\ k \in 1..(at - 1)
                         ELSE k = at /\ k - Len(a) = 1
    BY <1>1, <1>2
  <2> QED  BY <1>2, <1>3, <2>1, <2>2, <2>3
<1> DEFINE ab == a \o b
<1> HIDE DEF ab
<1>6. /\ ab \o c \in Seq(I) /\ Len(ab \o c) = Len(q) + 1
      /\ \A k \in 1..(Len(q) + 1) : (ab \o c)[k] = IF k <= at THEN ab[k] ELSE c[k - at]
  <2>0. ab \in Seq(I)
    BY <1>5 DEF ab
  <2>1. /\ ab \o c \in Seq(I) /\ Len(ab \o c) = Len(ab) + Len(c)
        /\ \A k \in 1..(Len(ab) + Len(c)) :
             (ab \o c)[k] = IF k <= Len(ab) THEN ab[k] ELSE c[k - Len(ab)]
    BY <1>4, <2>0, ConcatProperties
  <2>2. Len(ab) = at /\ Len(ab) + Len(c) = Len(q) + 1
    BY <1>1, <1>4, <1>5 DEF ab
  <2> QED  BY <2>1, <2>2
<1>7. ASSUME NEW k \in 1..(Len(q) + 1)
      PROVE  (ab \o c)[k] = IF k < at THEN q[k] ELSE IF k = at THEN i ELSE q[k - 1]
  <2>1. CASE k <= at
    BY <1>5, <1>6, <2>1 DEF ab
  <2>2. CASE k > at
    <3>1. k - at \in 1..(Len(q) - at + 1) /\ at + (k - at) - 1 = k - 1
      BY <1>1, <2>2
    <3> QED  BY <1>4, <1>6, <2>2, <3>1
  <2>3. k <= at \/ k > at
    BY <1>1
  <2> QED  BY <2>1, <2>2, <2>3
<1> QED  BY <1>6, <1>7 DEF InsertAt, ab, a, b, c

\* Inserting an element keeps a list in order.
LEMMA Insertion ==
  ASSUME NEW I, IsFiniteSet(I), NEW before, StrictOrder(before, I),
         NEW T \in SUBSET I, NEW i \in T, NEW q, Lists(q, T \ {i}), InOrder(q, before)
  PROVE  LET w == InsertAt(q, Place(q, i, before), i)
         IN  Lists(w, T) /\ InOrder(w, before)
<1> DEFINE at == Place(q, i, before)
           w == InsertAt(q, at, i)
<1>1. /\ q \in Seq(T) /\ Len(q) \in Nat /\ \A k \in 1..Len(q) : q[k] \in T \ {i}
      /\ q \in Seq(T \ {i})
  <2>1. q \in Seq(T \ {i})
    BY DEF Lists
  <2> QED  BY <2>1, LenProperties, SeqMonotonic
<1>2. /\ at \in 1..(Len(q) + 1)
      /\ \A k \in 1..Len(q) : k < at => <<i, q[k]>> \notin before
      /\ at <= Len(q) => <<i, q[at]>> \in before
  BY <1>1, PlaceOf
<1> HIDE DEF at
<1>3. /\ w \in Seq(T) /\ Len(w) = Len(q) + 1
      /\ \A k \in 1..(Len(q) + 1) :
           w[k] = IF k < at THEN q[k] ELSE IF k = at THEN i ELSE q[k - 1]
  <2>1. q \in Seq(T) /\ at \in 1..(Len(q) + 1)
    BY <1>1, <1>2
  <2> QED  BY <2>1, InsertAtProperties
<1> HIDE DEF w
<1>4. Len(w) = Cardinality(T)
  <2>1. IsFiniteSet(T) /\ Cardinality(T) \in Nat
    BY FS_Subset, FS_CardinalityType
  <2>2. Cardinality(T \ {i}) = Cardinality(T) - 1
    BY <2>1, FS_RemoveElement
  <2> QED  BY <1>3, <2>1, <2>2 DEF Lists
<1>5. ASSUME NEW j \in T PROVE \E k \in 1..Len(w) : w[k] = j
  <2>1. CASE j = i
    BY <1>1, <1>2, <1>3, <2>1
  <2>2. CASE j # i
    <3>1. PICK k \in 1..Len(q) : q[k] = j
      BY <2>2 DEF Lists
    <3>2. CASE k < at
      BY <1>1, <1>2, <1>3, <3>1, <3>2
    <3>3. CASE k >= at
      <4>1. k + 1 \in 1..Len(w) /\ w[k + 1] = q[k + 1 - 1] /\ k + 1 - 1 = k
        BY <1>1, <1>2, <1>3, <3>3
      <4> QED  BY <3>1, <4>1
    <3> QED  BY <1>1, <1>2, <3>2, <3>3
  <2> QED  BY <2>1, <2>2
<1>6. \A k \in 1..Len(q) : IF k < at THEN <<q[k], i>> \in before ELSE <<i, q[k]>> \in before
  <2> SUFFICES ASSUME NEW k \in 1..Len(q)
               PROVE  IF k < at THEN <<q[k], i>> \in before ELSE <<i, q[k]>> \in before
    OBVIOUS
  <2>1. CASE k < at
    BY <1>1, <1>2, <2>1 DEF StrictOrder
  <2>2. CASE k = at
    BY <1>1, <1>2, <2>2
  <2>3. CASE k > at
    <3>1. at \in 1..Len(q) /\ at <= Len(q)
      BY <1>1, <1>2, <2>3
    <3>2. <<i, q[at]>> \in before /\ <<q[at], q[k]>> \in before
      BY <1>2, <2>3, <3>1 DEF InOrder
    <3>3. i \in I /\ q[at] \in I /\ q[k] \in I
      BY <1>1, <3>1
    <3>4. <<i, q[k]>> \in before
      BY <3>2, <3>3 DEF StrictOrder
    <3> QED  BY <1>1, <2>3, <3>1, <3>4
  <2> QED  BY <1>1, <1>2, <2>1, <2>2, <2>3
<1>7. ASSUME NEW k \in 1..Len(w), NEW m \in 1..Len(w), k < m
      PROVE  <<w[k], w[m]>> \in before
  <2>0. k \in 1..(Len(q) + 1) /\ m \in 1..(Len(q) + 1)
    BY <1>3
  <2>1. CASE m < at
    BY <1>1, <1>2, <1>3, <1>7, <2>0, <2>1 DEF InOrder
  <2>2. CASE m = at
    <3>1. w[m] = i /\ w[k] = q[k] /\ k \in 1..Len(q) /\ k < at
      BY <1>1, <1>2, <1>3, <1>7, <2>0, <2>2
    <3> QED  BY <1>6, <3>1
  <2>3. CASE m > at
    <3>1. w[m] = q[m - 1] /\ m - 1 \in 1..Len(q) /\ ~ (m - 1 < at)
      BY <1>1, <1>2, <1>3, <2>0, <2>3
    <3>2. CASE k < at
      <4>1. w[k] = q[k] /\ k \in 1..Len(q) /\ k < m - 1
        BY <1>1, <1>2, <1>3, <2>0, <2>3, <3>2
      <4> QED  BY <3>1, <4>1 DEF InOrder
    <3>3. CASE k = at
      <4>1. w[k] = i
        BY <1>3, <2>0, <3>3
      <4> QED  BY <1>6, <3>1, <4>1
    <3>4. CASE k > at
      <4>1. w[k] = q[k - 1] /\ k - 1 \in 1..Len(q) /\ k - 1 < m - 1
        BY <1>1, <1>2, <1>3, <1>7, <2>0, <3>4
      <4> QED  BY <3>1, <4>1 DEF InOrder
    <3> QED  BY <1>2, <2>0, <3>2, <3>3, <3>4
  <2> QED  BY <1>2, <2>0, <2>1, <2>2, <2>3
<1>8. ASSUME NEW k \in 1..Len(w), NEW m \in 1..Len(w), w[k] = w[m]
      PROVE  k = m
  <2>1. w[k] \in I /\ <<w[k], w[k]>> \notin before
    BY <1>3, LenProperties DEF StrictOrder
  <2>2. ~ (k < m) /\ ~ (m < k)
    BY <1>7, <1>8, <2>1
  <2> QED  BY <1>1, <1>3, <2>2
<1> QED  BY <1>3, <1>4, <1>5, <1>7, <1>8 DEF Lists, InOrder, w, at

\* The result of sorted() is the list of all positions, in their order.
LEMMA SortedLists ==
  ASSUME NEW I \in SUBSET Int, IsFiniteSet(I), NEW before, StrictOrder(before, I)
  PROVE  Lists(Sorted(I, before), I) /\ InOrder(Sorted(I, before), before)
<1> DEFINE Insert(i, q) == InsertAt(q, Place(q, i, before), i)
           Step(g) == [T \in SUBSET I |->
                         IF T = {} THEN <<>> ELSE Insert(Max(T), g[T \ {Max(T)}])]
           iter == CHOOSE g : g = Step(g)
<1>1. Sorted(I, before) = iter[I]
  BY DEF Sorted, MapThenFoldSet, Place
<1>2. \A T \in SUBSET I : IsFiniteSet(T) /\ (T # {} => Max(T) \in T)
  BY FS_Subset, LargestOf
<1>3. iter = Step(iter)
  <2> DEFINE first == [T \in SUBSET I |-> Max(T)]
             step == [e \in I \X Seq(I) |-> Insert(e[1], e[2])]
  <2>1. ASSUME NEW i \in I, NEW q \in Seq(I) PROVE Insert(i, q) \in Seq(I)
    BY PlaceOf, InsertAtProperties
  <2>2. step \in [I \X Seq(I) -> Seq(I)]
    BY <2>1
  <2>3. Picks(first, I)
    BY <1>2 DEF Picks
  <2>4. <<>> \in Seq(I)
    OBVIOUS
  <2>5. PICK f : FoldsBy(f, I, Seq(I), <<>>, first, step)
    <3> HIDE DEF step, first
    <3> QED  BY <2>2, <2>3, <2>4, FoldExists
  <2>6. ASSUME NEW T \in SUBSET I, T # {}
        PROVE  step[<<first[T], f[T \ {first[T]}]>>] = Insert(Max(T), f[T \ {Max(T)}])
    <3>1. first[T] = Max(T) /\ Max(T) \in I /\ f[T \ {Max(T)}] \in Seq(I)
      BY <1>2, <2>5, <2>6 DEF FoldsBy
    <3> HIDE DEF Insert, first
    <3> QED  BY <3>1
  <2>7. f = Step(f)
    <3> HIDE DEF step, first, Insert
    <3> QED  BY <2>5, <2>6 DEF FoldsBy
  <2> HIDE DEF Step
  <2> QED  BY <2>7
<1> DEFINE Good(T) == Lists(iter[T], T) /\ InOrder(iter[T], before)
           F == {T \in SUBSET I : ~ Good(T)}
<1>4. \A T \in SUBSET I :
        iter[T] = IF T = {} THEN <<>> ELSE Insert(Max(T), iter[T \ {Max(T)}])
  <2> HIDE DEF iter, Insert
  <2> QED  BY <1>3
<1> HIDE DEF iter, Step
<1>5. F = {}
  <2> SUFFICES ASSUME F # {} PROVE FALSE
    OBVIOUS
  <2>1. PICK T \in F : \A U \in F : U \subseteq T => U = T
    <3>1. \A T \in F : T \subseteq I
      OBVIOUS
    <3> HIDE DEF F
    <3> QED  BY <3>1, SmallestSet
  <2>2. CASE T = {}
    <3>1. iter[T] = <<>> /\ Len(iter[T]) = 0
      <4>1. iter[{}] = <<>>
        BY <1>4
      <4> QED  BY <2>2, <4>1
    <3>2. Cardinality(T) = 0 /\ iter[T] \in Seq(T)
      BY <2>2, <3>1, FS_EmptySet
    <3>3. Good(T)
      BY <2>2, <3>1, <3>2 DEF Lists, InOrder
    <3> QED  BY <3>3
  <2>3. CASE T # {}
    <3>1. Max(T) \in T /\ T \ {Max(T)} \in SUBSET I /\ T \ {Max(T)} # T
      BY <1>2, <2>3
    <3>2. Good(T \ {Max(T)})
      BY <2>1, <3>1
    <3>3. iter[T] = Insert(Max(T), iter[T \ {Max(T)}])
      BY <1>4, <2>3
    <3>4. Good(T)
      BY <3>1, <3>2, <3>3, Insertion
    <3> QED  BY <3>4
  <2> QED  BY <2>2, <2>3
<1>6. Good(I)
  BY <1>5
<1> QED  BY <1>1, <1>6

\* Before the k-th of a list in order there are k - 1.
LEMMA PlaceCounts ==
  ASSUME NEW I, IsFiniteSet(I), NEW before, StrictOrder(before, I),
         NEW q, Lists(q, I), InOrder(q, before), NEW k \in 1..Len(q)
  PROVE  k = 1 + Cardinality({j \in I : <<j, q[k]>> \in before})
<1> DEFINE J == {j \in I : <<j, q[k]>> \in before}
           f == [m \in 1..(k - 1) |-> q[m]]
<1>1. Len(q) \in Nat /\ \A m \in 1..Len(q) : q[m] \in I
  BY LenProperties DEF Lists
<1>2. \A m \in 1..Len(q) : q[m] \in J <=> m < k
  <2> SUFFICES ASSUME NEW m \in 1..Len(q) PROVE q[m] \in J <=> m < k
    OBVIOUS
  <2>1. CASE m < k
    BY <1>1, <2>1 DEF InOrder
  <2>2. CASE m = k
    BY <1>1, <2>2 DEF StrictOrder
  <2>3. CASE m > k
    <3>1. <<q[k], q[m]>> \in before /\ q[k] \in I /\ q[m] \in I
      BY <1>1, <2>3 DEF InOrder
    <3>2. <<q[m], q[k]>> \notin before
      BY <3>1 DEF StrictOrder
    <3> QED  BY <2>3, <3>2
  <2> QED  BY <1>1, <2>1, <2>2, <2>3
<1>3. f \in [1..(k - 1) -> J]
  BY <1>1, <1>2
<1>4. \A a, b \in 1..(k - 1) : f[a] = f[b] => a = b
  BY <1>1 DEF Lists
<1>5. \A j \in J : \E m \in 1..(k - 1) : f[m] = j
  <2> SUFFICES ASSUME NEW j \in J PROVE \E m \in 1..(k - 1) : f[m] = j
    OBVIOUS
  <2>1. PICK m \in 1..Len(q) : q[m] = j
    BY DEF Lists
  <2>2. m < k
    <3> HIDE DEF J
    <3> QED  BY <1>2, <2>1
  <2>3. m \in 1..(k - 1)
    BY <1>1, <2>2
  <2> QED  BY <2>1, <2>3
<1>6. f \in Bijection(1..(k - 1), J)
  <2> HIDE DEF f, J
  <2> QED  BY <1>3, <1>4, <1>5, Fun_IsBij
<1>7. Cardinality(J) = k - 1
  <2>1. ExistsBijection(1..(k - 1), J)
    BY <1>6, Fun_ExistsBij
  <2>2. k - 1 \in Nat
    BY <1>1
  <2> HIDE DEF J
  <2> QED  BY <2>1, <2>2, FS_CountingElements
<1> QED  BY <1>1, <1>7
-----------------------------------------------------------------------------
(***************************************************************************)
(* What sum() returns.                                                     *)
(***************************************************************************)

SumsUp(g, f, S) ==
  /\ g \in [SUBSET S -> Int]
  /\ \A T \in SUBSET S :
       g[T] = IF T = {} THEN 0
              ELSE f[CHOOSE x \in T : TRUE] + g[T \ {CHOOSE x \in T : TRUE}]

LEMMA SumIsFold ==
  ASSUME NEW S, IsFiniteSet(S), NEW f \in [S -> Int]
  PROVE  \E g : SumsUp(g, f, S) /\ SumFunction(f) = g[S]
<1> DEFINE Some(T) == CHOOSE x \in T : TRUE
           Step(g) == [T \in SUBSET S |->
                         IF T = {} THEN 0 ELSE f[Some(T)] + g[T \ {Some(T)}]]
           iter == CHOOSE g : g = Step(g)
<1>1. SumFunction(f) = iter[S]
  <2>1. DOMAIN f = S
    OBVIOUS
  <2> QED  BY <2>1 DEF SumFunction, SumFunctionOnSet, FoldFunctionOnSet, MapThenFoldSet
<1>2. iter = Step(iter) /\ iter \in [SUBSET S -> Int]
  <2> DEFINE first == [T \in SUBSET S |-> Some(T)]
             step == [e \in S \X Int |-> f[e[1]] + e[2]]
  <2>1. step \in [S \X Int -> Int] /\ 0 \in Int
    OBVIOUS
  <2>2. \A T \in SUBSET S : T # {} => first[T] = Some(T) /\ Some(T) \in T
    OBVIOUS
  <2>3. Picks(first, S)
    BY <2>2 DEF Picks
  <2>4. PICK g : FoldsBy(g, S, Int, 0, first, step)
    <3> HIDE DEF step, first
    <3> QED  BY <2>1, <2>3, FoldExists
  <2>5. ASSUME NEW T \in SUBSET S, T # {}
        PROVE  step[<<first[T], g[T \ {first[T]}]>>] = f[Some(T)] + g[T \ {Some(T)}]
    <3>1. first[T] = Some(T) /\ Some(T) \in S /\ g[T \ {Some(T)}] \in Int
      BY <2>2, <2>4, <2>5 DEF FoldsBy
    <3> HIDE DEF Some, first
    <3> QED  BY <3>1
  <2>6. g = Step(g)
    <3> HIDE DEF step, first, Some
    <3> QED  BY <2>4, <2>5 DEF FoldsBy
  <2>7. iter = Step(iter)
    <3> HIDE DEF Step
    <3> QED  BY <2>6
  <2>8. \A T \in SUBSET S : IsFiniteSet(T)
    BY FS_Subset
  <2> DEFINE F == {T \in SUBSET S : iter[T] \notin Int}
  <2>9. \A T \in SUBSET S : iter[T] = IF T = {} THEN 0 ELSE f[Some(T)] + iter[T \ {Some(T)}]
    <3> HIDE DEF iter, Some
    <3> QED  BY <2>7
  <2> HIDE DEF iter
  <2>10. F = {}
    <3> SUFFICES ASSUME F # {} PROVE FALSE
      OBVIOUS
    <3>1. PICK T \in F : \A U \in F : U \subseteq T => U = T
      <4>1. \A T \in F : T \subseteq S
        OBVIOUS
      <4> HIDE DEF F
      <4> QED  BY <4>1, SmallestSet
    <3>2. T # {}
      <4>1. T \in SUBSET S /\ iter[T] \notin Int
        OBVIOUS
      <4>2. T = {} => iter[T] = 0
        <5> HIDE DEF F, Some
        <5> QED  BY <2>9, <4>1
      <4> QED  BY <4>1, <4>2
    <3>3. Some(T) \in T /\ T \ {Some(T)} \notin F
      BY <3>1, <3>2
    <3>4. iter[T \ {Some(T)}] \in Int /\ f[Some(T)] \in Int
      BY <3>3
    <3>5. iter[T] = f[Some(T)] + iter[T \ {Some(T)}]
      BY <2>9, <3>2
    <3> HIDE DEF Some
    <3> QED  BY <3>4, <3>5
  <2>11. \A T \in SUBSET S : iter[T] \in Int
    BY <2>10
  <2>12. iter \in [SUBSET S -> Int]
    <3>1. iter = [T \in SUBSET S |-> iter[T]]
      <4> HIDE DEF Some
      <4> QED  BY <2>7
    <3> QED  BY <2>11, <3>1
  <2> QED  BY <2>7, <2>12
<1>3. SumsUp(iter, f, S)
  <2> HIDE DEF iter
  <2> QED  BY <1>2 DEF SumsUp
<1> QED  BY <1>1, <1>3

\* Any element may be taken out of a sum.
LEMMA SumTakes ==
  ASSUME NEW S, IsFiniteSet(S), NEW f \in [S -> Int], NEW g, SumsUp(g, f, S)
  PROVE  \A T \in SUBSET S : \A x \in T : g[T] = f[x] + g[T \ {x}]
<1> DEFINE Bad(T) == \E x \in T : g[T] # f[x] + g[T \ {x}]
           F == {T \in SUBSET S : Bad(T)}
<1>0. \A T \in SUBSET S : g[T] \in Int
  BY DEF SumsUp
<1>1. F = {}
  <2> SUFFICES ASSUME F # {} PROVE FALSE
    OBVIOUS
  <2>1. PICK T \in F : \A U \in F : U \subseteq T => U = T
    <3>1. \A T \in F : T \subseteq S
      OBVIOUS
    <3> HIDE DEF F
    <3> QED  BY <3>1, SmallestSet
  <2>2. PICK x \in T : g[T] # f[x] + g[T \ {x}]
    OBVIOUS
  <2>3. T \in SUBSET S
    OBVIOUS
  <2>4. PICK c \in T : g[T] = f[c] + g[T \ {c}]
    <3>1. (CHOOSE y \in T : TRUE) \in T
      BY <2>2
    <3> QED  BY <2>3, <3>1 DEF SumsUp
  <2>5. c # x
    BY <2>2, <2>4
  <2>6. /\ T \ {c} \in SUBSET S /\ T \ {c} # T /\ x \in T \ {c}
        /\ T \ {x} \in SUBSET S /\ T \ {x} # T /\ c \in T \ {x}
    BY <2>3, <2>5
  <2>7. T \ {c} \notin F /\ T \ {x} \notin F
    <3> HIDE DEF F
    <3> QED  BY <2>1, <2>6
  <2>8. g[T \ {c}] = f[x] + g[(T \ {c}) \ {x}] /\ g[T \ {x}] = f[c] + g[(T \ {x}) \ {c}]
    BY <2>6, <2>7
  <2>9. (T \ {c}) \ {x} = (T \ {x}) \ {c} /\ (T \ {c}) \ {x} \in SUBSET S
    BY <2>3
  <2> DEFINE z == g[(T \ {c}) \ {x}]
  <2>10. f[c] \in Int /\ f[x] \in Int /\ z \in Int
    BY <1>0, <2>3, <2>9
  <2>11. g[T] = f[c] + (f[x] + z) /\ g[T \ {x}] = f[c] + z
    BY <2>4, <2>8, <2>9
  <2> HIDE DEF F, z
  <2>12. f[x] + (f[c] + z) = f[c] + (f[x] + z)
    BY <2>10
  <2> QED  BY <2>2, <2>11, <2>12
<1> QED  BY <1>1

\* A sum lies between as many times the least and as many times the greatest of its terms.
LEMMA SumBounds ==
  ASSUME NEW S, IsFiniteSet(S), NEW f \in [S -> Int], NEW lo \in Int, NEW hi \in Int,
         \A x \in S : lo <= f[x] /\ f[x] <= hi
  PROVE  /\ SumFunction(f) \in Int
         /\ lo * Cardinality(S) <= SumFunction(f) /\ SumFunction(f) <= hi * Cardinality(S)
<1>1. PICK g : SumsUp(g, f, S) /\ SumFunction(f) = g[S]
  BY SumIsFold
<1> DEFINE Good(T) == lo * Cardinality(T) <= g[T] /\ g[T] <= hi * Cardinality(T)
           F == {T \in SUBSET S : ~ Good(T)}
<1>2. \A T \in SUBSET S : g[T] \in Int /\ Cardinality(T) \in Nat
  BY <1>1, FS_Subset, FS_CardinalityType DEF SumsUp
<1>3. F = {}
  <2> SUFFICES ASSUME F # {} PROVE FALSE
    OBVIOUS
  <2>1. PICK T \in F : \A U \in F : U \subseteq T => U = T
    <3>1. \A T \in F : T \subseteq S
      OBVIOUS
    <3> HIDE DEF F
    <3> QED  BY <3>1, SmallestSet
  <2>2. T \in SUBSET S /\ ~ Good(T)
    OBVIOUS
  <2>3. CASE T = {}
    <3>1. Cardinality(T) = 0 /\ g[T] = 0
      BY <1>1, <2>2, <2>3, FS_EmptySet DEF SumsUp
    <3> QED  BY <2>2, <3>1
  <2>4. CASE T # {}
    <3>1. PICK x \in T : TRUE
      BY <2>4
    <3> DEFINE U == T \ {x}
    <3>2. U \in SUBSET S /\ U # T
      BY <2>2
    <3>3. Good(U)
      <4> HIDE DEF Good
      <4> QED  BY <2>1, <3>2
    <3>4. Cardinality(U) = Cardinality(T) - 1
      BY <2>2, FS_Subset, FS_RemoveElement
    <3>5. g[T] = f[x] + g[U]
      BY <1>1, <2>2, SumTakes
    <3>6. g[U] \in Int /\ g[T] \in Int /\ Cardinality(T) \in Nat /\ f[x] \in Int
          /\ lo <= f[x] /\ f[x] <= hi
      BY <1>2, <2>2, <3>2
    <3>7. /\ lo * (Cardinality(T) - 1) = lo * Cardinality(T) - lo
          /\ hi * (Cardinality(T) - 1) = hi * Cardinality(T) - hi
      BY <3>6
    <3> HIDE DEF U
    <3>8. Good(T)
      <4>1. lo * Cardinality(T) \in Int /\ hi * Cardinality(T) \in Int
        BY <3>6
      <4> QED  BY <3>3, <3>4, <3>5, <3>6, <3>7, <4>1
    <3> QED  BY <2>2, <3>8
  <2> QED  BY <2>3, <2>4
<1>4. Good(S)
  BY <1>3
<1> QED  BY <1>1, <1>2, <1>4

\* A sum does not depend on how its terms are numbered.
LEMMA SumRenumbered ==
  ASSUME NEW S, IsFiniteSet(S), NEW f \in [S -> Int],
         NEW R, IsFiniteSet(R), NEW b \in Bijection(R, S)
  PROVE  SumFunction([r \in R |-> f[b[r]]]) = SumFunction(f)
<1> DEFINE e == [r \in R |-> f[b[r]]]
           Image(T) == {b[r] : r \in T}
<1>1. b \in [R -> S] /\ (\A r, t \in R : b[r] = b[t] => r = t) /\ Image(R) = S
  BY Fun_BijectionProperties
<1>2. e \in [R -> Int]
  BY <1>1
<1>3. PICK g : SumsUp(g, f, S) /\ SumFunction(f) = g[S]
  BY SumIsFold
<1>4. PICK h : SumsUp(h, e, R) /\ SumFunction(e) = h[R]
  <2> HIDE DEF e
  <2> QED  BY <1>2, SumIsFold
<1> DEFINE F == {T \in SUBSET R : h[T] # g[Image(T)]}
<1>5. F = {}
  <2> SUFFICES ASSUME F # {} PROVE FALSE
    OBVIOUS
  <2>1. PICK T \in F : \A U \in F : U \subseteq T => U = T
    <3>1. \A T \in F : T \subseteq R
      OBVIOUS
    <3> HIDE DEF F
    <3> QED  BY <3>1, SmallestSet
  <2>2. T \in SUBSET R /\ h[T] # g[Image(T)]
    OBVIOUS
  <2>3. CASE T = {}
    <3>1. Image(T) = {} /\ {} \in SUBSET S
      BY <2>3
    <3>2. h[T] = 0 /\ g[{}] = 0
      BY <1>3, <1>4, <2>3 DEF SumsUp
    <3> QED  BY <2>2, <3>1, <3>2
  <2>4. CASE T # {}
    <3>1. PICK r \in T : TRUE
      BY <2>4
    <3>2. T \ {r} \in SUBSET R /\ T \ {r} # T
      BY <2>2
    <3>3. h[T \ {r}] = g[Image(T \ {r})]
      <4> HIDE DEF Image
      <4> QED  BY <2>1, <3>2
    <3>4. Image(T) \in SUBSET S /\ b[r] \in Image(T) /\ Image(T \ {r}) = Image(T) \ {b[r]}
      BY <1>1, <2>2
    <3>5. g[Image(T)] = f[b[r]] + g[Image(T \ {r})]
      <4> DEFINE M == Image(T)
                 y == b[r]
      <4>1. M \in SUBSET S /\ y \in M
        BY <3>4
      <4>2. g[M] = f[y] + g[M \ {y}]
        <5> HIDE DEF M, y, e, F
        <5> QED  BY <1>3, <4>1, SumTakes
      <4> HIDE DEF Image
      <4> QED  BY <3>4, <4>2
    <3>6. h[T] = e[r] + h[T \ {r}]
      <4> HIDE DEF e
      <4> QED  BY <1>2, <1>4, <2>2, SumTakes
    <3>7. e[r] = f[b[r]]
      BY <2>2
    <3> HIDE DEF Image, e
    <3> QED  BY <2>2, <3>3, <3>5, <3>6, <3>7
  <2> QED  BY <2>3, <2>4
<1>6. h[R] = g[Image(R)]
  BY <1>5
<1> QED  BY <1>1, <1>3, <1>4, <1>6
-----------------------------------------------------------------------------
(***************************************************************************)
(* Ranks and points of one round.                                          *)
(***************************************************************************)

Precedes(round) ==
  {e \in RankedAt(round) \X RankedAt(round) : Before(round[e[1]], round[e[2]])}

Ahead(round, i) == {j \in RankedAt(round) : Before(round[j], round[i])}

LEMMA RoundPositions ==
  ASSUME NEW round, IsRound(round)
  PROVE  /\ Len(round) \in Nat /\ DOMAIN round = 1..Len(round)
         /\ RankedAt(round) \in SUBSET Int /\ IsFiniteSet(RankedAt(round))
         /\ \A i \in DOMAIN round :
              /\ round[i] \in Submission /\ round[i].id \in Nat /\ round[i].id \in Ids
              /\ round[i].at \in Nat /\ round[i].status \in Statuses
              /\ round[i].score \in {NoScore} \cup 0..MaxScore
              /\ round[i].status = "submitted" => round[i].score \in 0..MaxScore
              /\ FinalScore(round[i]) \in -1..MaxScore
         /\ \A i \in RankedAt(round) :
              i \in DOMAIN round /\ FinalScore(round[i]) \in 0..MaxScore
<1>1. Len(round) \in Nat /\ DOMAIN round = 1..Len(round) /\ round \in [1..Len(round) -> Submission]
  BY LenProperties DEF IsRound
<1>2. RankedAt(round) \in SUBSET (1..Len(round))
  BY <1>1 DEF RankedAt
<1>3. IsFiniteSet(RankedAt(round))
  <2>1. IsFiniteSet(1..Len(round))
    BY <1>1, FS_Interval
  <2> QED  BY <1>2, <2>1, FS_Subset
<1>4. ASSUME NEW i \in DOMAIN round
      PROVE  /\ round[i] \in Submission /\ round[i].id \in Nat /\ round[i].id \in Ids
             /\ round[i].at \in Nat /\ round[i].status \in Statuses
             /\ round[i].score \in {NoScore} \cup 0..MaxScore
             /\ round[i].status = "submitted" => round[i].score \in 0..MaxScore
             /\ FinalScore(round[i]) \in -1..MaxScore
  <2>1. round[i] \in Submission
    BY <1>1
  <2>2. /\ round[i].id \in Ids /\ round[i].at \in Nat /\ round[i].status \in Statuses
        /\ round[i].score \in {NoScore} \cup 0..MaxScore
        /\ round[i].status = "submitted" => round[i].score # NoScore
    BY <2>1 DEF Submission
  <2>3. round[i].id \in Nat
    BY <2>2, ConstantsAssumption DEF ConstantsAssumption
  <2>4. FinalScore(round[i]) \in -1..MaxScore
    BY <2>2 DEF FinalScore, NoScore, MaxScore
  <2> QED  BY <2>1, <2>2, <2>3, <2>4
<1>5. ASSUME NEW i \in RankedAt(round)
      PROVE  i \in DOMAIN round /\ FinalScore(round[i]) \in 0..MaxScore
  <2>1. i \in DOMAIN round /\ round[i].status \in {"submitted", "no_face"}
    BY DEF RankedAt, IsRanked
  <2> QED  BY <1>4, <2>1 DEF FinalScore, MaxScore
<1>6. RankedAt(round) \in SUBSET Int
  BY <1>1, <1>2
<1> QED  BY <1>1, <1>3, <1>4, <1>5, <1>6

\* The key of the ranking leaves no two submissions equal.
LEMMA KeyIsStrict ==
  ASSUME NEW round, IsRound(round)
  PROVE  StrictOrder(Precedes(round), RankedAt(round))
<1> DEFINE S(i) == FinalScore(round[i])
           A(i) == round[i].at
           N(i) == round[i].id
           I == RankedAt(round)
<1>1. \A i \in I : S(i) \in Int /\ A(i) \in Int /\ N(i) \in Int /\ i \in DOMAIN round
  <2> SUFFICES ASSUME NEW i \in RankedAt(round)
               PROVE  /\ i \in DOMAIN round /\ FinalScore(round[i]) \in Int
                      /\ round[i].at \in Int /\ round[i].id \in Int
    OBVIOUS
  <2>1. i \in DOMAIN round /\ FinalScore(round[i]) \in 0..MaxScore
    BY RoundPositions
  <2>2. round[i].at \in Nat /\ round[i].id \in Nat
    BY <2>1, RoundPositions
  <2> QED  BY <2>1, <2>2 DEF MaxScore
<1>2. \A i, j \in I : N(i) = N(j) => i = j
  BY <1>1 DEF IsRound
<1>3. \A i, j \in I : <<i, j>> \in Precedes(round) <=>
        \/ S(i) > S(j)
        \/ S(i) = S(j) /\ (A(i) < A(j) \/ (A(i) = A(j) /\ N(i) < N(j)))
  BY DEF Precedes, Before
<1> HIDE DEF S, A, N, I
<1>4. \A i, j \in I : i # j => <<i, j>> \in Precedes(round) \/ <<j, i>> \in Precedes(round)
  BY <1>1, <1>2, <1>3
<1>5. \A i, j, k \in I : <<i, j>> \in Precedes(round) /\ <<j, k>> \in Precedes(round)
                         => <<i, k>> \in Precedes(round)
  BY <1>1, <1>3
<1>6. \A i \in I : <<i, i>> \notin Precedes(round)
  BY <1>1, <1>3
<1> QED  BY <1>4, <1>5, <1>6 DEF StrictOrder, I

\* The ranking lists everybody who has a rank, and the rank is how many are ahead, and one.
LEMMA RankingLists ==
  ASSUME NEW round, IsRound(round)
  PROVE  /\ Lists(Ranking(round), RankedAt(round))
         /\ Len(Ranking(round)) \in Nat
         /\ \A k \in 1..Len(Ranking(round)) :
              /\ Ranking(round)[k] \in RankedAt(round)
              /\ k = 1 + Cardinality(Ahead(round, Ranking(round)[k]))
<1>1. RankedAt(round) \in SUBSET Int /\ IsFiniteSet(RankedAt(round))
      /\ StrictOrder(Precedes(round), RankedAt(round))
  BY RoundPositions, KeyIsStrict
<1>2. Ranking(round) = Sorted(RankedAt(round), Precedes(round))
  BY DEF Ranking, Precedes
<1>3. Lists(Ranking(round), RankedAt(round)) /\ InOrder(Ranking(round), Precedes(round))
  BY <1>1, <1>2, SortedLists
<1>4. Len(Ranking(round)) \in Nat
      /\ \A k \in 1..Len(Ranking(round)) : Ranking(round)[k] \in RankedAt(round)
  BY <1>3, LenProperties DEF Lists
<1>5. ASSUME NEW k \in 1..Len(Ranking(round))
      PROVE  k = 1 + Cardinality(Ahead(round, Ranking(round)[k]))
  <2> DEFINE q == Ranking(round)
  <2>1. k = 1 + Cardinality({j \in RankedAt(round) : <<j, q[k]>> \in Precedes(round)})
    BY <1>1, <1>3, PlaceCounts
  <2>2. {j \in RankedAt(round) : <<j, q[k]>> \in Precedes(round)} = Ahead(round, q[k])
    BY <1>4 DEF Precedes, Ahead
  <2> QED  BY <2>1, <2>2
<1> QED  BY <1>3, <1>4, <1>5

Awarded(round) ==
  [k \in 1..Len(Ranking(round)) |-> AwardedPoints(round[Ranking(round)[k]], k)]

Compensation(round) ==
  IF Ranking(round) = <<>> THEN 30
  ELSE RoundHalfUp(SumFunction(Awarded(round)), Len(Ranking(round)))

\* What ScoreRound gives to each submission.
LEMMA RoundResult ==
  ASSUME NEW round, IsRound(round), NEW i \in DOMAIN round
  PROVE  LET result == ScoreRound(round)[round[i].id]
         IN  /\ Voided(round) =>
                  result = [rank |-> NoRank, points |-> 0, score |-> FinalScore(round[i])]
             /\ ~ Voided(round) /\ i \in RankedAt(round) =>
                  /\ result.rank \in 1..Len(Ranking(round)) /\ Ranking(round)[result.rank] = i
                  /\ result.rank = 1 + Cardinality(Ahead(round, i))
                  /\ result.points = AwardedPoints(round[i], result.rank)
                  /\ result.score = FinalScore(round[i])
             /\ ~ Voided(round) /\ i \notin RankedAt(round) =>
                  result = [rank |-> NoRank,
                            points |-> IF round[i].status = "failed" THEN Compensation(round) ELSE 0,
                            score |-> NoScore]
<1> DEFINE ranked == Ranking(round)
           At(j) == CHOOSE k \in 1..Len(ranked) : ranked[k] = j
           Result(j) ==
             IF Voided(round) THEN [rank |-> NoRank, points |-> 0, score |-> FinalScore(round[j])]
             ELSE IF IsRanked(round[j])
             THEN [rank |-> At(j), points |-> Awarded(round)[At(j)], score |-> FinalScore(round[j])]
             ELSE [rank |-> NoRank,
                   points |-> IF round[j].status = "failed" THEN Compensation(round) ELSE 0,
                   score |-> NoScore]
           Ident == {round[j].id : j \in DOMAIN round}
           who(p) == CHOOSE j \in DOMAIN round : round[j].id = p
<1>1. ScoreRound(round) = [p \in Ident |-> Result(who(p))]
  BY DEF ScoreRound, Awarded, Compensation
<1>2. who(round[i].id) = i
  BY DEF IsRound
<1>3. ScoreRound(round)[round[i].id] = Result(i)
  <2>1. round[i].id \in Ident
    OBVIOUS
  <2> HIDE DEF Result, who, Ident
  <2> QED  BY <1>1, <1>2, <2>1
<1>4. i \in RankedAt(round) <=> IsRanked(round[i])
  BY DEF RankedAt
<1>5. i \in RankedAt(round) => At(i) \in 1..Len(ranked) /\ ranked[At(i)] = i
  <2> HIDE DEF ranked
  <2>1. i \in RankedAt(round) => \E k \in 1..Len(ranked) : ranked[k] = i
    BY RankingLists DEF Lists, ranked
  <2> QED  BY <2>1
<1>6. i \in RankedAt(round) => /\ At(i) = 1 + Cardinality(Ahead(round, i))
                               /\ Awarded(round)[At(i)] = AwardedPoints(round[i], At(i))
  <2> HIDE DEF At
  <2> QED  BY <1>5, RankingLists DEF Awarded
<1> HIDE DEF At
<1> QED  BY <1>3, <1>4, <1>5, <1>6

LEMMA UnrankedResult ==
  ASSUME NEW round, IsRound(round), NEW i \in DOMAIN round, i \notin RankedAt(round),
         ~ Voided(round)
  PROVE  /\ ScoreRound(round)[round[i].id].rank = NoRank
         /\ round[i].status = "failed" =>
              ScoreRound(round)[round[i].id].points = Compensation(round)
<1> DEFINE result == ScoreRound(round)[round[i].id]
<1>1. result = [rank |-> NoRank,
                points |-> IF round[i].status = "failed" THEN Compensation(round) ELSE 0,
                score |-> NoScore]
  BY RoundResult
<1> HIDE DEF result
<1>2. /\ result.rank = NoRank
      /\ result.points = IF round[i].status = "failed" THEN Compensation(round) ELSE 0
  BY <1>1
<1> QED  BY <1>2 DEF result

\* The quotient, the half rounded up.
LEMMA HalfUp ==
  ASSUME NEW s \in Int, NEW n \in Nat, n # 0
  PROVE  LET c == RoundHalfUp(s, n)
         IN  c \in Int /\ (2 * n) * c <= 2 * s + n /\ 2 * s + n < (2 * n) * c + 2 * n
<1> DEFINE a == 2 * s + n
           d == 2 * n
<1>1. a \in Int /\ d \in Int /\ d > 0
  OBVIOUS
<1> HIDE DEF a, d
<1>2. a \div d \in Int /\ d * (a \div d) <= a /\ a < d * (a \div d) + d
  BY <1>1
<1> QED  BY <1>2 DEF RoundHalfUp, a, d

LEMMA TimesIsMonotone ==
  ASSUME NEW n \in Nat, NEW a \in Int, NEW b \in Int, a <= b
  PROVE  n * a \in Int /\ n * b \in Int /\ n * a <= n * b
<1>1. n * (b - a) >= 0
  BY SMT
<1>2. n * (b - a) = n * b - n * a
  BY SMT
<1> QED  BY <1>1, <1>2

LEMMA AwardedBounds ==
  ASSUME NEW s, NEW rank \in Nat
  PROVE  AwardedPoints(s, rank) \in 30..100
BY DEF AwardedPoints, RankPoints

LEMMA HigherInRange ==
  ASSUME NEW x \in 0..MaxScore, NEW y \in -1..MaxScore
  PROVE  Higher(x, y) \in 0..MaxScore
BY DEF Higher, MaxScore

\* A failure is worth what lies between any bounds of what the others were awarded.
LEMMA CompensationBounds ==
  ASSUME NEW round, IsRound(round), Ranking(round) # <<>>,
         NEW lo \in Int, NEW hi \in Int,
         \A k \in 1..Len(Ranking(round)) : lo <= Awarded(round)[k] /\ Awarded(round)[k] <= hi
  PROVE  lo <= Compensation(round) /\ Compensation(round) <= hi /\ Compensation(round) \in Int
<1> DEFINE n == Len(Ranking(round))
           f == Awarded(round)
           s == SumFunction(f)
           c == RoundHalfUp(s, n)
<1>1. n \in Nat /\ n # 0
  BY RankingLists, EmptySeq DEF Lists
<1>2. f \in [1..n -> Int]
  BY RankingLists, AwardedBounds DEF Awarded
<1>3. IsFiniteSet(1..n) /\ Cardinality(1..n) = n
  BY <1>1, FS_Interval
<1>4. s \in Int /\ lo * n <= s /\ s <= hi * n
  <2>1. \A k \in 1..n : lo <= f[k] /\ f[k] <= hi
    OBVIOUS
  <2> HIDE DEF f, n
  <2> QED  BY <1>2, <1>3, <2>1, SumBounds
<1>5. Compensation(round) = c
  BY DEF Compensation
<1> HIDE DEF f, s
<1>6. c \in Int /\ (2 * n) * c <= 2 * s + n /\ 2 * s + n < (2 * n) * c + 2 * n
  BY <1>1, <1>4, HalfUp
<1> HIDE DEF c, n
<1>7. lo <= c
  <2> SUFFICES ASSUME c + 1 <= lo PROVE FALSE
    BY <1>6
  <2>1. n * (c + 1) \in Int /\ n * lo \in Int /\ n * (c + 1) <= n * lo
    BY <1>1, <1>6, TimesIsMonotone
  <2>2. n * lo = lo * n /\ n * (c + 1) = n * c + n /\ (2 * n) * c = 2 * (n * c) /\ n * c \in Int
    BY <1>1, <1>6
  <2> QED  BY <1>1, <1>4, <1>6, <2>1, <2>2
<1>8. c <= hi
  <2> SUFFICES ASSUME hi <= c - 1 PROVE FALSE
    BY <1>6
  <2>1. n * hi \in Int /\ n * (c - 1) \in Int /\ n * hi <= n * (c - 1)
    BY <1>1, <1>6, TimesIsMonotone
  <2>2. n * hi = hi * n /\ n * (c - 1) = n * c - n /\ (2 * n) * c = 2 * (n * c) /\ n * c \in Int
    BY <1>1, <1>6
  <2> QED  BY <1>1, <1>4, <1>6, <2>1, <2>2
<1> QED  BY <1>5, <1>6, <1>7, <1>8

\* Nobody is paid more than 100 a round, or less than nothing.
LEMMA ResultBounds ==
  ASSUME NEW round, IsRound(round), NEW i \in DOMAIN round
  PROVE  /\ ScoreRound(round)[round[i].id].points \in 0..100
         /\ ScoreRound(round)[round[i].id].score \in -1..MaxScore
<1> DEFINE result == ScoreRound(round)[round[i].id]
<1>1. FinalScore(round[i]) \in -1..MaxScore
  BY RoundPositions
<1>2. CASE Voided(round)
  <2>1. result = [rank |-> NoRank, points |-> 0, score |-> FinalScore(round[i])]
    BY <1>2, RoundResult
  <2> HIDE DEF result
  <2>2. result.points \in 0..100 /\ result.score \in -1..MaxScore
    BY <1>1, <2>1
  <2> QED  BY <2>2 DEF result
<1>3. CASE ~ Voided(round) /\ i \in RankedAt(round)
  <2>1. /\ result.rank \in 1..Len(Ranking(round)) /\ result.score = FinalScore(round[i])
        /\ result.points = AwardedPoints(round[i], result.rank)
    BY <1>3, RoundResult
  <2>2. Len(Ranking(round)) \in Nat
    BY RankingLists
  <2> HIDE DEF result
  <2>3. result.points \in 30..100
    <3>1. result.rank \in Nat
      BY <2>1, <2>2
    <3> QED  BY <2>1, <3>1, AwardedBounds
  <2>4. result.points \in 0..100 /\ result.score \in -1..MaxScore
    BY <1>1, <2>1, <2>3
  <2> QED  BY <2>4 DEF result
<1>4. CASE ~ Voided(round) /\ i \notin RankedAt(round)
  <2>1. result = [rank |-> NoRank,
                  points |-> IF round[i].status = "failed" THEN Compensation(round) ELSE 0,
                  score |-> NoScore]
    BY <1>4, RoundResult
  <2>2. Compensation(round) \in 0..100
    <3>1. CASE Ranking(round) = <<>>
      BY <3>1 DEF Compensation
    <3>2. CASE Ranking(round) # <<>>
      <4>1. ASSUME NEW k \in 1..Len(Ranking(round))
            PROVE  0 <= Awarded(round)[k] /\ Awarded(round)[k] <= 100
        <5>1. k \in Nat /\ Awarded(round)[k] = AwardedPoints(round[Ranking(round)[k]], k)
          BY RankingLists DEF Awarded
        <5>2. AwardedPoints(round[Ranking(round)[k]], k) \in 30..100
          BY <5>1, AwardedBounds
        <5> DEFINE w == Awarded(round)[k]
        <5>3. w \in 30..100
          BY <5>1, <5>2
        <5> HIDE DEF w
        <5>4. 0 <= w /\ w <= 100
          BY <5>3
        <5> QED  BY <5>4 DEF w
      <4> DEFINE lo == 0
                 hi == 100
      <4>2. /\ lo \in Int /\ hi \in Int
            /\ \A k \in 1..Len(Ranking(round)) : lo <= Awarded(round)[k] /\ Awarded(round)[k] <= hi
        BY <4>1
      <4> HIDE DEF lo, hi
      <4>3. lo <= Compensation(round) /\ Compensation(round) <= hi /\ Compensation(round) \in Int
        BY <3>2, <4>2, CompensationBounds
      <4> QED  BY <4>3 DEF lo, hi
    <3> QED  BY <3>1, <3>2
  <2> HIDE DEF result
  <2>3. result.points \in 0..100 /\ result.score \in -1..MaxScore
    BY <2>1, <2>2 DEF NoScore, MaxScore
  <2> QED  BY <2>3 DEF result
<1> QED  BY <1>2, <1>3, <1>4
-----------------------------------------------------------------------------
(***************************************************************************)
(* The invariant of the game.                                              *)
(***************************************************************************)

LEMMA OrderLists ==
  /\ Cardinality(Ids) \in Nat /\ DOMAIN Order = 1..Cardinality(Ids)
  /\ \A i \in DOMAIN Order : Order[i] \in Ids
  /\ \A p \in Ids : \E i \in DOMAIN Order : Order[i] = p
  /\ \A i, j \in DOMAIN Order : Order[i] = Order[j] => i = j
<1> DEFINE n == Cardinality(Ids)
<1>1. n \in Nat
  BY ConstantsAssumption, FS_CardinalityType DEF ConstantsAssumption
<1>2. Order \in [1..n -> Ids] /\ \A p \in Ids : \E i \in 1..n : Order[i] = p
  BY ConstantsAssumption DEF ConstantsAssumption
<1>3. IsFiniteSet(1..n) /\ Cardinality(1..n) = n
  BY <1>1, FS_Interval
<1>4. Order \in Surjection(1..n, Ids)
  BY <1>2, Fun_IsSurj
<1>5. Order \in Injection(1..n, Ids)
  BY <1>3, <1>4, FS_SurjSameCardinalityImpliesInj
<1> QED  BY <1>1, <1>2, <1>5, Fun_InjectionProperties

LEMMA InitInv == Init => IInv
<1> SUFFICES ASSUME Init PROVE IInv
  OBVIOUS
<1>1. RoundCount \in Nat
  BY ConstantsAssumption, LenProperties DEF ConstantsAssumption, RoundCount
<1>2. TypeOK
  BY <1>1, ConstantsAssumption DEF Init, TypeOK, MaxScore, ConstantsAssumption
<1>3. IsRound(subs)
  BY DEF Init, IsRound
<1>4. \A p \in Ids : totals[p].points <= 100 * played
  BY DEF Init
<1> QED  BY <1>2, <1>3, <1>4 DEF IInv

LEMMA SettleInv == IInv /\ SettleRound => IInv'
<1> SUFFICES ASSUME IInv, SettleRound PROVE IInv'
  OBVIOUS
<1>0. RoundCount \in Nat /\ played \in 0..RoundCount /\ played' = played + 1 /\ played' \in 0..RoundCount
  BY ConstantsAssumption, LenProperties
  DEF ConstantsAssumption, RoundCount, IInv, TypeOK, SettleRound
<1>1. PICK entry \in Entries[played + 1] :
        subs' = [i \in DOMAIN Order |->
                   [id |-> Order[i], status |-> entry[Order[i]].status,
                    at |-> entry[Order[i]].at, score |-> entry[Order[i]].score]]
  BY DEF SettleRound
<1>2. entry \in [Ids -> Entry]
  <2>1. Entries \in Seq(SUBSET [Ids -> Entry]) /\ played + 1 \in 1..Len(Entries)
    BY <1>0, ConstantsAssumption DEF ConstantsAssumption, RoundCount
  <2>2. Entries[played + 1] \in SUBSET [Ids -> Entry]
    BY <2>1, LenProperties
  <2> QED  BY <2>2
<1>3. IsRound(subs')
  <2>1. ASSUME NEW i \in DOMAIN Order PROVE subs'[i] \in Submission
    <3>1. entry[Order[i]] \in Entry
      BY <1>2, OrderLists
    <3> DEFINE e == entry[Order[i]]
               s == [id |-> Order[i], status |-> e.status, at |-> e.at, score |-> e.score]
    <3>2. subs'[i] = s
      BY <1>1
    <3> HIDE DEF e
    <3>3. /\ e.status \in Statuses /\ e.at \in Nat /\ e.score \in {NoScore} \cup 0..MaxScore
          /\ e.status = "submitted" <=> e.score # NoScore
      BY <3>1 DEF e, Entry
    <3>4. s \in Submission
      BY <3>3, OrderLists DEF Submission
    <3> QED  BY <3>2, <3>4
  <2>2. subs' \in [1..Cardinality(Ids) -> Submission] /\ DOMAIN subs' = DOMAIN Order
    BY <1>1, <2>1, OrderLists
  <2>3. subs' \in Seq(Submission)
    BY <2>2, OrderLists
  <2>4. \A i, j \in DOMAIN subs' : subs'[i].id = subs'[j].id => i = j
    BY <1>1, OrderLists
  <2> QED  BY <2>3, <2>4 DEF IsRound
<1> DEFINE results == ScoreRound(subs')
           paid(p) == InLedger(p) /\ ~ Voided(subs')
<1>4. totals' = [p \in Ids |-> IF paid(p) THEN Accumulate(totals[p], results[p]) ELSE totals[p]]
  BY DEF SettleRound
<1>5. \A p \in Ids : results[p].points \in 0..100 /\ results[p].score \in -1..MaxScore
  <2> SUFFICES ASSUME NEW p \in Ids
               PROVE  results[p].points \in 0..100 /\ results[p].score \in -1..MaxScore
    OBVIOUS
  <2>1. PICK i \in DOMAIN Order : Order[i] = p
    BY OrderLists
  <2>2. i \in DOMAIN subs' /\ subs'[i].id = p
    BY <1>1, <2>1
  <2> QED  BY <1>3, <2>2, ResultBounds
<1> HIDE DEF results, paid
<1>6. ASSUME NEW p \in Ids
      PROVE  /\ totals'[p] \in [points : 0..100 * RoundCount, best : 0..MaxScore]
             /\ totals'[p].points <= 100 * played'
  <2>1. /\ totals[p] \in [points : 0..100 * RoundCount, best : 0..MaxScore]
        /\ totals[p].points <= 100 * played
    BY DEF IInv, TypeOK
  <2>2. CASE paid(p)
    <3>1. totals'[p] = [points |-> totals[p].points + results[p].points,
                        best |-> Higher(totals[p].best, results[p].score)]
      BY <1>4, <2>2 DEF Accumulate
    <3>2. totals[p].points + results[p].points \in 0..100 * played'
      BY <1>0, <1>5, <2>1
    <3>3. 100 * played' <= 100 * RoundCount
      BY <1>0
    <3>4. Higher(totals[p].best, results[p].score) \in 0..MaxScore
      <4>1. totals[p].best \in 0..MaxScore /\ results[p].score \in -1..MaxScore
        BY <1>5, <2>1
      <4> QED  BY <4>1, HigherInRange
    <3> QED  BY <1>0, <3>1, <3>2, <3>3, <3>4
  <2>3. CASE ~ paid(p)
    BY <1>0, <1>4, <2>1, <2>3
  <2> QED  BY <2>2, <2>3
<1>7. \A p \in Departed : totals'[p].points = 0
  BY <1>4, ConstantsAssumption
  DEF IInv, TypeOK, paid, InLedger, Active, ConstantsAssumption
<1>8. loved' \in [Ids -> [likes : Nat, questions : Nat]]
  BY DEF SettleRound, IInv, TypeOK
<1>9. totals' \in [Ids -> [points : 0..100 * RoundCount, best : 0..MaxScore]]
  BY <1>4, <1>6
<1> QED  BY <1>0, <1>3, <1>6, <1>7, <1>8, <1>9 DEF IInv, TypeOK

LEMMA FinishInv == IInv /\ FinishGame => IInv'
<1> SUFFICES ASSUME IInv, FinishGame PROVE IInv'
  OBVIOUS
<1>1. IsRound(subs')
  BY DEF FinishGame, IsRound
<1>2. loved' \in [Ids -> [likes : Nat, questions : Nat]]
  BY ConstantsAssumption DEF FinishGame, ConstantsAssumption
<1>3. totals' = totals /\ played' = played
  BY DEF FinishGame
<1> QED  BY <1>1, <1>2, <1>3 DEF IInv, TypeOK

\* However a game runs, its totals are what its rounds paid, and every round has one
\* submission of each: finalize_round and finish_game keep the inductive invariant.
THEOREM InvariantHolds == Spec => []IInv
<1>1. IInv /\ [Next]_vars => IInv'
  <2> SUFFICES ASSUME IInv, [Next]_vars PROVE IInv'
    OBVIOUS
  <2>1. CASE UNCHANGED vars
    BY <2>1 DEF vars, IInv, TypeOK
  <2> QED  BY <2>1, SettleInv, FinishInv DEF Next
<1> QED  BY <1>1, InitInv, PTL DEF Spec

\* The totals stay in range: nobody is paid more than 100 a round or less than nothing, and
\* who left before the settlement is not paid.
THEOREM TypeCorrect == Spec => []TypeOK
<1>1. IInv => TypeOK
  BY DEF IInv
<1> QED  BY <1>1, InvariantHolds, PTL
-----------------------------------------------------------------------------
(***************************************************************************)
(* Ranks.                                                                  *)
(***************************************************************************)

LEMMA InvMeansRound == IInv => IsRound(subs)
BY DEF IInv

LEMMA RankedAre ==
  ASSUME IsRound(subs)
  PROVE  /\ Ranked = {subs[j] : j \in RankedAt(subs)}
         /\ \A s \in Submissions : \E i \in DOMAIN subs : s = subs[i]
         /\ \A i, j \in DOMAIN subs : subs[i] = subs[j] => i = j
BY DEF Ranked, Submissions, RankedAt, IsRound

\* As many positions are ahead of a submission as there are submissions ahead of it.
LEMMA AheadCounts ==
  ASSUME IsRound(subs), NEW i \in RankedAt(subs)
  PROVE  Cardinality({t \in Ranked : Before(t, subs[i])}) = Cardinality(Ahead(subs, i))
<1> DEFINE A == Ahead(subs, i)
           B == {t \in Ranked : Before(t, subs[i])}
           f == [j \in A |-> subs[j]]
<1>1. RankedAt(subs) \subseteq DOMAIN subs
  BY DEF RankedAt
<1>2. f \in [A -> B]
  BY RankedAre DEF Ahead
<1>3. \A j, k \in A : f[j] = f[k] => j = k
  BY <1>1, RankedAre DEF Ahead
<1>4. \A t \in B : \E j \in A : f[j] = t
  BY RankedAre DEF Ahead
<1>5. IsFiniteSet(A)
  BY RoundPositions, FS_Subset DEF Ahead
<1> HIDE DEF A, B, f
<1>6. ExistsBijection(A, B)
  BY <1>2, <1>3, <1>4, Fun_IsBij, Fun_ExistsBij
<1>7. Cardinality(B) = Cardinality(A)
  BY <1>5, <1>6, FS_Bijection
<1> QED  BY <1>7 DEF A, B

\* score_round's sort gives every submission the rank that spec.md section 11 defines without
\* an algorithm, for any number of players, any scores and times, and any order of arrival.
THEOREM RanksHold == Spec => []RanksAsSpecified
<1>1. IInv => RanksAsSpecified
  <2> SUFFICES ASSUME IInv, ~ Voided(subs), NEW s \in Submissions
               PROVE  LET better == {t \in Ranked : FinalScore(t) > FinalScore(s)}
                          sooner == {t \in Ranked : FinalScore(t) = FinalScore(s) /\ t.at < s.at}
                          equal  == {t \in Ranked : FinalScore(t) = FinalScore(s) /\ t.at = s.at
                                                                                 /\ t.id < s.id}
                      IN  Outcome[s.id].rank = IF IsRanked(s)
                                               THEN 1 + Cardinality(better \cup sooner \cup equal)
                                               ELSE NoRank
    BY DEF RanksAsSpecified
  <2> DEFINE better == {t \in Ranked : FinalScore(t) > FinalScore(s)}
             sooner == {t \in Ranked : FinalScore(t) = FinalScore(s) /\ t.at < s.at}
             equal  == {t \in Ranked : FinalScore(t) = FinalScore(s) /\ t.at = s.at /\ t.id < s.id}
  <2>1. IsRound(subs)
    BY InvMeansRound
  <2>2. PICK i \in DOMAIN subs : s = subs[i]
    BY <2>1, RankedAre
  <2>3. better \cup sooner \cup equal = {t \in Ranked : Before(t, s)}
    BY DEF Before
  <2>4. i \in RankedAt(subs) <=> IsRanked(s)
    BY <2>2 DEF RankedAt
  <2>5. CASE i \in RankedAt(subs)
    <3>1. Outcome[s.id].rank = 1 + Cardinality(Ahead(subs, i))
      BY <2>1, <2>2, <2>5, RoundResult DEF Outcome
    <3>2. Cardinality({t \in Ranked : Before(t, s)}) = Cardinality(Ahead(subs, i))
      BY <2>1, <2>2, <2>5, AheadCounts
    <3> HIDE DEF better, sooner, equal
    <3> QED  BY <2>3, <2>4, <2>5, <3>1, <3>2 DEF better, sooner, equal
  <2>6. CASE i \notin RankedAt(subs)
    <3>1. Outcome[s.id].rank = NoRank
      BY <2>1, <2>2, <2>6, UnrankedResult DEF Outcome
    <3> QED  BY <2>4, <2>6, <3>1
  <2> QED  BY <2>5, <2>6
<1> QED  BY <1>1, InvariantHolds, PTL

\* The sort of display_ranks, over floats and another list, gives the ranks that are paid.
THEOREM RanksShown == Spec => []DisplayAgrees
<1>1. IInv => DisplayAgrees
  <2> SUFFICES ASSUME IInv, ~ Voided(subs)
               PROVE  \A p \in DOMAIN DisplayRanks(subs) : DisplayRanks(subs)[p] = Outcome[p].rank
    BY DEF DisplayAgrees
  <2>1. IsRound(subs)
    BY InvMeansRound
  <2> DEFINE target(i) == IF subs[i].status = "submitted" THEN subs[i].score ELSE 0
             Key(i, j) == \/ target(i) > target(j)
                          \/ /\ target(i) = target(j)
                             /\ \/ subs[i].at < subs[j].at
                                \/ subs[i].at = subs[j].at /\ subs[i].id < subs[j].id
             keys   == {e \in RankedAt(subs) \X RankedAt(subs) : Key(e[1], e[2])}
             q      == Ranking(subs)
             People == {subs[i].id : i \in {j \in DOMAIN subs : IsSubmitter(subs[j])}}
             Has(p) == \E k \in 1..Len(q) : subs[q[k]].id = p
             Which(p) == CHOOSE k \in 1..Len(q) : subs[q[k]].id = p
  <2>2. \A i \in RankedAt(subs) : target(i) = FinalScore(subs[i])
    BY DEF RankedAt, IsRanked, FinalScore
  <2>3. keys = Precedes(subs)
    <3>1. \A i, j \in RankedAt(subs) : Key(i, j) <=> Before(subs[i], subs[j])
      BY <2>2 DEF Before
    <3> HIDE DEF Key
    <3> QED  BY <3>1 DEF Precedes
  <2>4. q = Sorted(RankedAt(subs), keys)
    BY <2>3 DEF Ranking, Precedes
  <2>5. DisplayRanks(subs) = [p \in People |-> IF Has(p) THEN Which(p) ELSE NoRank]
    <3> HIDE DEF q
    <3> QED  BY <2>4 DEF DisplayRanks
  <2> SUFFICES ASSUME NEW i \in DOMAIN subs, IsSubmitter(subs[i])
               PROVE  (IF Has(subs[i].id) THEN Which(subs[i].id) ELSE NoRank)
                        = Outcome[subs[i].id].rank
    <3> HIDE DEF Has, Which
    <3> QED  BY <2>5
  <2>6. \A k \in 1..Len(q) : q[k] \in RankedAt(subs) /\ q[k] \in DOMAIN subs
    BY <2>1, RankingLists, RoundPositions
  <2>7. \A k \in 1..Len(q) : subs[q[k]].id = subs[i].id <=> q[k] = i
    BY <2>1, <2>6 DEF IsRound
  <2>8. CASE i \in RankedAt(subs)
    <3>1. PICK r \in 1..Len(q) : r = Outcome[subs[i].id].rank /\ q[r] = i
      BY <2>1, <2>8, RoundResult DEF Outcome
    <3>2. \A k \in 1..Len(q) : q[k] = i => k = r
      BY <2>1, <3>1, RankingLists DEF Lists
    <3> HIDE DEF q
    <3>3. Has(subs[i].id) /\ Which(subs[i].id) = r
      BY <2>7, <3>1, <3>2
    <3> QED  BY <3>1, <3>3
  <2>9. CASE i \notin RankedAt(subs)
    <3>1. Outcome[subs[i].id].rank = NoRank
      BY <2>1, <2>9, UnrankedResult DEF Outcome
    <3>2. ~ Has(subs[i].id)
      BY <2>6, <2>7, <2>9
    <3> QED  BY <3>1, <3>2
  <2> QED  BY <2>8, <2>9
<1> QED  BY <1>1, InvariantHolds, PTL
-----------------------------------------------------------------------------
(***************************************************************************)
(* Points.                                                                 *)
(***************************************************************************)

LEMMA BetterRankPaysMore ==
  ASSUME NEW s, NEW a \in Nat \ {0}, NEW b \in Nat, a <= b
  PROVE  AwardedPoints(s, a) >= AwardedPoints(s, b)
BY DEF AwardedPoints, RankPoints

\* Had one player's photo been better, that player would have been paid no less and nobody else
\* with a face more: a photo that is ahead stays ahead, whatever the ties.
THEOREM BetterPays == Spec => []BetterNeverPaysLess
<1>1. IInv => BetterNeverPaysLess
  <2> SUFFICES ASSUME IInv, NEW i \in DOMAIN subs, subs[i].status = "submitted", NEW s \in Ranked
               PROVE  LET improved == ScoreRound([subs EXCEPT ![i].score = MaxScore])
                      IN  IF s.id = subs[i].id THEN improved[s.id].points >= Outcome[s.id].points
                          ELSE improved[s.id].points <= Outcome[s.id].points
    BY DEF BetterNeverPaysLess
  <2> DEFINE better == [subs EXCEPT ![i].score = MaxScore]
  <2>1. IsRound(subs)
    BY InvMeansRound
  <2>2. /\ DOMAIN better = DOMAIN subs
        /\ \A j \in DOMAIN subs : /\ better[j].id = subs[j].id /\ better[j].at = subs[j].at
                                  /\ better[j].status = subs[j].status
                                  /\ j # i => better[j] = subs[j]
        /\ better[i].score = MaxScore
    <3>1. \A j \in DOMAIN subs : subs[j] \in Submission
      BY <2>1, RoundPositions
    <3> QED  BY <3>1 DEF Submission
  <2>3. IsRound(better)
    <3>1. subs[i] \in Submission
      BY <2>1, RoundPositions
    <3>2. [subs[i] EXCEPT !.score = MaxScore] \in Submission
      BY <3>1 DEF Submission, MaxScore, NoScore
    <3>3. better \in Seq(Submission)
      BY <2>1, <3>2, ExceptSeq, RoundPositions DEF IsRound
    <3>4. \A j, k \in DOMAIN better : better[j].id = better[k].id => j = k
      <4> HIDE DEF better
      <4> QED  BY <2>1, <2>2 DEF IsRound
    <3> QED  BY <3>3, <3>4 DEF IsRound
  <2> HIDE DEF better
  <2>4. RankedAt(better) = RankedAt(subs) /\ ~ Voided(subs) /\ ~ Voided(better)
    BY <2>2 DEF RankedAt, IsRanked, Voided, IsSubmitter
  <2>5. PICK j \in RankedAt(subs) : s = subs[j]
    BY <2>1, RankedAre
  <2>6. j \in DOMAIN subs /\ (s.id = subs[i].id <=> j = i)
    BY <2>1, <2>5 DEF RankedAt, IsRound
  <2> DEFINE old == Outcome[s.id].rank
             new == ScoreRound(better)[s.id].rank
  <2>7. /\ old = 1 + Cardinality(Ahead(subs, j))
        /\ Outcome[s.id].points = AwardedPoints(s, old)
    BY <2>1, <2>4, <2>5, <2>6, RoundResult DEF Outcome
  <2>8. /\ new = 1 + Cardinality(Ahead(better, j))
        /\ ScoreRound(better)[s.id].points = AwardedPoints(better[j], new)
    <3>1. better[j].id = s.id /\ j \in DOMAIN better /\ j \in RankedAt(better)
      BY <2>2, <2>4, <2>5, <2>6
    <3> DEFINE result == ScoreRound(better)[better[j].id]
    <3>2. /\ result.rank = 1 + Cardinality(Ahead(better, j))
          /\ result.points = AwardedPoints(better[j], result.rank)
      BY <2>3, <2>4, <3>1, RoundResult
    <3> QED  BY <3>1, <3>2
  <2>9. AwardedPoints(better[j], new) = AwardedPoints(s, new)
    BY <2>2, <2>5, <2>6 DEF AwardedPoints
  <2>10. /\ IsFiniteSet(Ahead(subs, j)) /\ IsFiniteSet(Ahead(better, j))
         /\ Cardinality(Ahead(subs, j)) \in Nat /\ Cardinality(Ahead(better, j)) \in Nat
    <3>1. Ahead(subs, j) \in SUBSET RankedAt(subs) /\ Ahead(better, j) \in SUBSET RankedAt(subs)
      BY <2>4 DEF Ahead
    <3>2. IsFiniteSet(RankedAt(subs))
      BY <2>1, RoundPositions
    <3> QED  BY <3>1, <3>2, FS_Subset, FS_CardinalityType
  <2>11. \A k \in DOMAIN subs : subs[k].at \in Nat /\ subs[k].id \in Nat
    BY <2>1, RoundPositions
  <2>12. \A k \in RankedAt(subs) : /\ k \in DOMAIN subs /\ FinalScore(subs[k]) \in 0..MaxScore
                                   /\ k # i => FinalScore(better[k]) = FinalScore(subs[k])
    BY <2>1, <2>2, RoundPositions
  <2>13. FinalScore(better[i]) = MaxScore /\ MaxScore \in Nat
    BY <2>2 DEF FinalScore, MaxScore
  <2>14. CASE j = i
    <3>1. ASSUME NEW k \in Ahead(better, j) PROVE k \in Ahead(subs, j)
      <4>1. k \in RankedAt(subs) /\ Before(better[k], better[i])
        BY <2>4, <2>14 DEF Ahead
      <4>2. k # i
        BY <2>2, <2>11, <2>13, <4>1 DEF Before
      <4>3. Before(subs[k], subs[i])
        <5>1. /\ FinalScore(subs[k]) >= MaxScore
              /\ \/ FinalScore(subs[k]) > MaxScore
                 \/ better[k].at < better[i].at
                 \/ better[k].at = better[i].at /\ better[k].id < better[i].id
          BY <2>12, <2>13, <4>1, <4>2 DEF Before
        <5>2. i \in RankedAt(subs)
          BY <2>14
        <5> QED  BY <2>2, <2>11, <2>12, <2>13, <4>1, <5>1, <5>2 DEF Before
      <4> QED  BY <2>14, <4>1, <4>3 DEF Ahead
    <3>2. Cardinality(Ahead(better, j)) <= Cardinality(Ahead(subs, j))
      BY <2>10, <3>1, FS_Subset
    <3>3. new \in Nat \ {0} /\ old \in Nat /\ new <= old
      BY <2>7, <2>8, <2>10, <3>2
    <3> HIDE DEF new, old
    <3> QED  BY <2>6, <2>7, <2>8, <2>9, <2>14, <3>3, BetterRankPaysMore DEF better, new
  <2>15. CASE j # i
    <3>1. ASSUME NEW k \in Ahead(subs, j) PROVE k \in Ahead(better, j)
      <4>1. k \in RankedAt(subs) /\ Before(subs[k], subs[j])
        BY DEF Ahead
      <4>2. CASE k # i
        BY <2>2, <2>4, <2>6, <2>15, <4>1, <4>2, <2>12 DEF Ahead
      <4>3. CASE k = i
        <5>1. /\ FinalScore(better[k]) >= FinalScore(subs[k])
              /\ FinalScore(better[j]) = FinalScore(subs[j])
              /\ better[k].at = subs[k].at /\ better[k].id = subs[k].id
              /\ better[j].at = subs[j].at /\ better[j].id = subs[j].id
          BY <2>2, <2>5, <2>6, <2>12, <2>13, <2>15, <4>1, <4>3
        <5>2. /\ FinalScore(better[k]) \in Int /\ FinalScore(subs[k]) \in Int
              /\ FinalScore(subs[j]) \in Int
          BY <2>5, <2>12, <2>13, <4>1, <4>3 DEF MaxScore
        <5>3. Before(better[k], better[j])
          BY <4>1, <5>1, <5>2 DEF Before
        <5> QED  BY <2>4, <4>1, <5>3 DEF Ahead
      <4> QED  BY <4>2, <4>3
    <3>2. Cardinality(Ahead(subs, j)) <= Cardinality(Ahead(better, j))
      BY <2>10, <3>1, FS_Subset
    <3>3. old \in Nat \ {0} /\ new \in Nat /\ old <= new
      BY <2>7, <2>8, <2>10, <3>2
    <3> HIDE DEF new, old
    <3> QED  BY <2>6, <2>7, <2>8, <2>9, <2>15, <3>3, BetterRankPaysMore DEF better, new
  <2> QED  BY <2>14, <2>15
<1> QED  BY <1>1, InvariantHolds, PTL

LEMMA VoidedResult ==
  ASSUME NEW round, IsRound(round), NEW i \in DOMAIN round, Voided(round)
  PROVE  ScoreRound(round)[round[i].id].points = 0
<1> DEFINE result == ScoreRound(round)[round[i].id]
<1>1. result = [rank |-> NoRank, points |-> 0, score |-> FinalScore(round[i])]
  BY RoundResult
<1> HIDE DEF result
<1>2. result.points = 0
  BY <1>1
<1> QED  BY <1>2 DEF result

\* The points of the ranked submissions, taken in any order, add up to what was awarded.
LEMMA PaidIsAwarded ==
  ASSUME IsRound(subs), ~ Voided(subs)
  PROVE  /\ Len(Ranking(subs)) = Cardinality(Ranked)
         /\ \A t \in Ranked : Outcome[t.id].points \in Int
         /\ \A t \in Ranked : \E k \in 1..Len(Ranking(subs)) :
              Awarded(subs)[k] = Outcome[t.id].points
         /\ \A k \in 1..Len(Ranking(subs)) : \E t \in Ranked :
              Awarded(subs)[k] = Outcome[t.id].points
         /\ SumFunction(Awarded(subs)) = SumFunction([t \in Ranked |-> Outcome[t.id].points])
<1> DEFINE q == Ranking(subs)
           n == Len(q)
           f == [t \in Ranked |-> Outcome[t.id].points]
           b == [k \in 1..n |-> subs[q[k]]]
<1>1. n \in Nat /\ \A k \in 1..n : q[k] \in RankedAt(subs) /\ q[k] \in DOMAIN subs
  BY RankingLists DEF RankedAt
<1>2. /\ \A i \in RankedAt(subs) : \E k \in 1..n : q[k] = i
      /\ \A k, m \in 1..n : q[k] = q[m] => k = m
  BY RankingLists DEF Lists
<1>3. b \in [1..n -> Ranked]
  BY <1>1, RankedAre
<1>4. \A k, m \in 1..n : b[k] = b[m] => k = m
  BY <1>1, <1>2, RankedAre
<1>5. \A t \in Ranked : \E k \in 1..n : b[k] = t
  BY <1>2, RankedAre
<1>6. \A k \in 1..n : b[k] \in Ranked
  BY <1>3
<1>7. b \in Bijection(1..n, Ranked)
  <2> HIDE DEF b, n, q
  <2> QED  BY <1>3, <1>4, <1>5, Fun_IsBij
<1>8. /\ IsFiniteSet(1..n) /\ Cardinality(1..n) = n
      /\ IsFiniteSet(Ranked) /\ Cardinality(Ranked) = n
  <2> HIDE DEF b, n, q
  <2>1. IsFiniteSet(1..n) /\ Cardinality(1..n) = n
    BY <1>1, FS_Interval
  <2>2. ExistsBijection(1..n, Ranked)
    BY <1>7, Fun_ExistsBij
  <2> QED  BY <2>1, <2>2, FS_Bijection
<1>9. ASSUME NEW k \in 1..n
      PROVE  /\ Outcome[b[k].id].points = AwardedPoints(b[k], k)
             /\ Awarded(subs)[k] = AwardedPoints(b[k], k)
             /\ AwardedPoints(b[k], k) \in Int
  <2>1. q[k] \in DOMAIN subs /\ q[k] \in RankedAt(subs)
    BY <1>1
  <2> DEFINE result == ScoreRound(subs)[subs[q[k]].id]
  <2>2. /\ result.rank \in 1..n /\ q[result.rank] = q[k]
        /\ result.points = AwardedPoints(subs[q[k]], result.rank)
    BY <2>1, RoundResult
  <2>3. result.rank = k
    BY <1>2, <2>2
  <2>4. AwardedPoints(b[k], k) \in Int
    <3> DEFINE w == AwardedPoints(b[k], k)
    <3>1. k \in Nat
      BY <1>1
    <3>2. w \in 30..100
      BY <3>1, AwardedBounds
    <3> HIDE DEF w
    <3>3. w \in Int
      BY <3>2
    <3> QED  BY <3>3 DEF w
  <2>5. Outcome[b[k].id].points = AwardedPoints(b[k], k)
    BY <2>2, <2>3 DEF Outcome
  <2>6. Awarded(subs)[k] = AwardedPoints(b[k], k)
    BY DEF Awarded
  <2> QED  BY <2>4, <2>5, <2>6
<1>10. Awarded(subs) = [k \in 1..n |-> f[b[k]]]
  <2>1. Awarded(subs) = [k \in 1..n |-> Awarded(subs)[k]]
    BY DEF Awarded
  <2>2. \A k \in 1..n : f[b[k]] = Awarded(subs)[k]
    <3> HIDE DEF b
    <3> QED  BY <1>6, <1>9
  <2> HIDE DEF b, n, q, f
  <2> QED  BY <2>1, <2>2
<1>11. \A t \in Ranked : Outcome[t.id].points \in Int
  <2> HIDE DEF b, n, q
  <2> QED  BY <1>5, <1>9
<1>12. SumFunction(Awarded(subs)) = SumFunction(f)
  <2> DEFINE R == 1..n
  <2>1. f \in [Ranked -> Int]
    BY <1>11
  <2>2. IsFiniteSet(R) /\ b \in Bijection(R, Ranked) /\ Awarded(subs) = [k \in R |-> f[b[k]]]
    BY <1>7, <1>8, <1>10
  <2> HIDE DEF b, n, q, f, R
  <2>3. SumFunction([k \in R |-> f[b[k]]]) = SumFunction(f)
    BY <1>8, <2>1, <2>2, SumRenumbered
  <2> QED  BY <2>2, <2>3
<1>13. \A t \in Ranked : \E k \in 1..n : Awarded(subs)[k] = Outcome[t.id].points
  <2> HIDE DEF b, n, q, f
  <2> QED  BY <1>5, <1>9
<1>14. \A k \in 1..n : \E t \in Ranked : Awarded(subs)[k] = Outcome[t.id].points
  <2> HIDE DEF b, n, q, f
  <2> QED  BY <1>6, <1>9
<1> HIDE DEF b
<1> QED  BY <1>8, <1>11, <1>12, <1>13, <1>14

\* An engine failure is worth the mean of what the others were awarded, the half rounded up,
\* so no less than the worst of them and no more than the best, for any number of players.
THEOREM FailuresPaid == Spec => []FailureCostsNothing
<1>1. IInv => FailureCostsNothing
  <2> DEFINE paid == SumFunction([t \in Ranked |-> Outcome[t.id].points])
             n    == Cardinality(Ranked)
  <2> SUFFICES ASSUME IInv, NEW s \in Submissions, s.status = "failed"
               PROVE  LET c == Outcome[s.id].points
                      IN IF n = 0 THEN c = 0
                         ELSE /\ 2 * paid - n < 2 * n * c /\ 2 * n * c <= 2 * paid + n
                              /\ \E t \in Ranked : Outcome[t.id].points <= c
                              /\ \E t \in Ranked : Outcome[t.id].points >= c
    BY DEF FailureCostsNothing
  <2>1. IsRound(subs)
    BY InvMeansRound
  <2>2. PICK i \in DOMAIN subs : s = subs[i]
    BY <2>1, RankedAre
  <2>3. CASE Voided(subs)
    <3>1. RankedAt(subs) = {}
      BY <2>3 DEF Voided, RankedAt, IsRanked, IsSubmitter
    <3>2. Ranked = {} /\ n = 0
      BY <2>1, <3>1, RankedAre, FS_EmptySet
    <3>3. Outcome[s.id].points = 0
      BY <2>1, <2>2, <2>3, VoidedResult DEF Outcome
    <3> HIDE DEF n
    <3> QED  BY <3>2, <3>3
  <2>4. CASE ~ Voided(subs)
    <3> DEFINE q == Ranking(subs)
               c == Outcome[s.id].points
    <3>1. i \notin RankedAt(subs)
      BY <2>2 DEF RankedAt, IsRanked
    <3>2. c = Compensation(subs)
      BY <2>1, <2>2, <2>4, <3>1, UnrankedResult DEF Outcome
    <3>3. PICK j \in RankedAt(subs) : TRUE
      BY <2>2, <2>4 DEF Voided, RankedAt, IsSubmitter, IsRanked
    <3>4. n = Len(q) /\ n \in Nat /\ n # 0 /\ q # <<>>
      <4>1. Len(q) \in Nat /\ \E k \in 1..Len(q) : q[k] = j
        BY <2>1, RankingLists DEF Lists
      <4>2. Len(q) # 0 /\ q # <<>>
        BY <4>1
      <4> QED  BY <2>1, <2>4, <4>1, <4>2, PaidIsAwarded
    <3> DEFINE a == SumFunction(Awarded(subs))
    <3>5. a = paid
      BY <2>1, <2>4, PaidIsAwarded
    <3>6. c = RoundHalfUp(a, n)
      BY <3>2, <3>4 DEF Compensation
    <3>7. \A k \in 1..Len(q) : Awarded(subs)[k] \in Int
      BY <2>1, <2>4, PaidIsAwarded
    <3>8. a \in Int
      <4>1. Awarded(subs) \in [1..n -> Int]
        BY <3>4, <3>7 DEF Awarded
      <4>2. IsFiniteSet(1..n)
        BY <3>4, FS_Interval
      <4>3. \A k \in 1..n : 30 <= Awarded(subs)[k] /\ Awarded(subs)[k] <= 100
        <5> SUFFICES ASSUME NEW k \in 1..n
                     PROVE  30 <= Awarded(subs)[k] /\ Awarded(subs)[k] <= 100
          OBVIOUS
        <5> DEFINE w == Awarded(subs)[k]
        <5>1. k \in Nat /\ k \in 1..Len(q)
          BY <3>4
        <5>2. w = AwardedPoints(subs[q[k]], k)
          BY <5>1 DEF Awarded
        <5>3. w \in 30..100
          BY <5>1, <5>2, AwardedBounds
        <5> HIDE DEF w
        <5>4. 30 <= w /\ w <= 100
          BY <5>3
        <5> QED  BY <5>4 DEF w
      <4> DEFINE lo == 30
                 hi == 100
                 w  == Awarded(subs)
      <4>4. lo \in Int /\ hi \in Int /\ \A k \in 1..n : lo <= w[k] /\ w[k] <= hi
        BY <4>3
      <4> HIDE DEF lo, hi, n, w
      <4>5. SumFunction(w) \in Int
        BY <4>1, <4>2, <4>4, SumBounds DEF w
      <4> QED  BY <4>5 DEF w
    <3> HIDE DEF n, q, a, c
    <3>9. c \in Int /\ (2 * n) * c <= 2 * a + n /\ 2 * a + n < (2 * n) * c + 2 * n
      BY <3>4, <3>6, <3>8, HalfUp
    <3>10. 2 * a - n < 2 * n * c /\ 2 * n * c <= 2 * a + n
      <4>1. (2 * n) * c \in Int
        BY <3>4, <3>9
      <4> QED  BY <3>4, <3>8, <3>9, <4>1
    <3>11. \E k \in 1..Len(q) : Awarded(subs)[k] <= c
      <4> SUFFICES ASSUME \A k \in 1..Len(q) : ~ (Awarded(subs)[k] <= c)
                   PROVE  FALSE
        OBVIOUS
      <4> DEFINE lo == c + 1
      <4>1. \A k \in 1..Len(q) : lo <= Awarded(subs)[k]
        BY <3>7, <3>9
      <4>2. PICK hi \in Int : \A k \in 1..Len(q) : Awarded(subs)[k] <= hi
        <5>1. 100 \in Int /\ \A k \in 1..Len(q) : Awarded(subs)[k] <= 100
          <6> SUFFICES ASSUME NEW k \in 1..Len(q) PROVE Awarded(subs)[k] <= 100
            OBVIOUS
          <6> DEFINE w == Awarded(subs)[k]
          <6>1. k \in Nat
            BY <3>4
          <6>2. w = AwardedPoints(subs[q[k]], k)
            BY DEF Awarded, q
          <6>3. w \in 30..100
            BY <6>1, <6>2, AwardedBounds
          <6> HIDE DEF w
          <6>4. w <= 100
            BY <6>3
          <6> QED  BY <6>4 DEF w
        <5> QED  BY <5>1
      <4>3. lo \in Int
        BY <3>9
      <4> HIDE DEF lo
      <4>4. lo <= Compensation(subs)
        BY <2>1, <3>4, <4>1, <4>2, <4>3, CompensationBounds DEF q
      <4> QED  BY <3>2, <3>9, <4>4 DEF lo
    <3>12. \E k \in 1..Len(q) : Awarded(subs)[k] >= c
      <4> SUFFICES ASSUME \A k \in 1..Len(q) : ~ (Awarded(subs)[k] >= c)
                   PROVE  FALSE
        OBVIOUS
      <4> DEFINE hi == c - 1
      <4>1. \A k \in 1..Len(q) : Awarded(subs)[k] <= hi
        BY <3>7, <3>9
      <4>2. PICK lo \in Int : \A k \in 1..Len(q) : lo <= Awarded(subs)[k]
        <5>1. 30 \in Int /\ \A k \in 1..Len(q) : 30 <= Awarded(subs)[k]
          <6> SUFFICES ASSUME NEW k \in 1..Len(q) PROVE 30 <= Awarded(subs)[k]
            OBVIOUS
          <6> DEFINE w == Awarded(subs)[k]
          <6>1. k \in Nat
            BY <3>4
          <6>2. w = AwardedPoints(subs[q[k]], k)
            BY DEF Awarded, q
          <6>3. w \in 30..100
            BY <6>1, <6>2, AwardedBounds
          <6> HIDE DEF w
          <6>4. 30 <= w
            BY <6>3
          <6> QED  BY <6>4 DEF w
        <5> QED  BY <5>1
      <4>3. hi \in Int
        BY <3>9
      <4> HIDE DEF hi
      <4>4. Compensation(subs) <= hi
        BY <2>1, <3>4, <4>1, <4>2, <4>3, CompensationBounds DEF q
      <4> QED  BY <3>2, <3>9, <4>4 DEF hi
    <3>13. (\E t \in Ranked : Outcome[t.id].points <= c) /\ (\E t \in Ranked : Outcome[t.id].points >= c)
      BY <2>1, <2>4, <3>11, <3>12, PaidIsAwarded DEF q
    <3> HIDE DEF paid
    <3> QED  BY <3>4, <3>5, <3>10, <3>13 DEF c
  <2> QED  BY <2>3, <2>4
<1> QED  BY <1>1, InvariantHolds, PTL
-----------------------------------------------------------------------------
(***************************************************************************)
(* The end of the game.                                                    *)
(***************************************************************************)

LEMMA StandingTypes ==
  ASSUME IInv, NEW p \in Active
  PROVE  LET s == Standing[p]
         IN /\ s.id = p /\ s.id \in Nat
            /\ s.points \in Nat /\ s.best \in Nat /\ s.joined \in Nat
            /\ s.likes \in Nat /\ s.questions \in Nat
            /\ s.likes = loved[p].likes /\ s.questions = loved[p].questions
<1> DEFINE s == Standing[p]
<1>1. s = [id |-> p, points |-> totals[p].points, best |-> totals[p].best,
           joined |-> JoinedAt[p], likes |-> loved[p].likes, questions |-> loved[p].questions]
  BY DEF Standing
<1> HIDE DEF s
<1>2. p \in Ids /\ p \in Nat /\ JoinedAt[p] \in Nat
  BY ConstantsAssumption DEF ConstantsAssumption, Active
<1>3. /\ totals[p] \in [points : 0..100 * RoundCount, best : 0..MaxScore]
      /\ loved[p] \in [likes : Nat, questions : Nat]
  BY <1>2 DEF IInv, TypeOK
<1>4. totals[p].points \in Nat /\ totals[p].best \in Nat
      /\ loved[p].likes \in Nat /\ loved[p].questions \in Nat
  <2>1. totals[p].points \in 0..100 * RoundCount /\ totals[p].best \in 0..MaxScore
    BY <1>3
  <2> QED  BY <1>3, <2>1
<1> QED  BY <1>1, <1>2, <1>4 DEF s

Listed == {i \in DOMAIN Order : Order[i] \in Active}

Above == {e \in Listed \X Listed : Outranks(Standing[Order[e[1]]], Standing[Order[e[2]]])}

\* Points, best round, time of joining and id order the players without a tie.
LEMMA PodiumIsStrict ==
  ASSUME IInv
  PROVE  StrictOrder(Above, Listed)
<1> DEFINE P(i) == Standing[Order[i]].points
           B(i) == Standing[Order[i]].best
           J(i) == Standing[Order[i]].joined
           N(i) == Standing[Order[i]].id
           I == Listed
<1>1. \A i \in I : P(i) \in Nat /\ B(i) \in Nat /\ J(i) \in Nat /\ N(i) \in Nat
  BY StandingTypes DEF Listed
<1>2. \A i, j \in I : N(i) = N(j) => i = j
  <2> SUFFICES ASSUME NEW i \in I, NEW j \in I, N(i) = N(j) PROVE i = j
    OBVIOUS
  <2>1. Order[i] \in Active /\ Order[j] \in Active /\ i \in DOMAIN Order /\ j \in DOMAIN Order
    BY DEF Listed
  <2>2. N(i) = Order[i] /\ N(j) = Order[j]
    BY <2>1, StandingTypes
  <2> QED  BY <2>1, <2>2, OrderLists
<1>3. \A i, j \in I : <<i, j>> \in Above <=>
        \/ P(i) > P(j)
        \/ /\ P(i) = P(j)
           /\ B(i) > B(j) \/ (B(i) = B(j) /\ (J(i) < J(j) \/ (J(i) = J(j) /\ N(i) < N(j))))
  BY DEF Above, Outranks
<1> HIDE DEF P, B, J, N, I
<1>4. \A i, j \in I : i # j => <<i, j>> \in Above \/ <<j, i>> \in Above
  BY <1>1, <1>2, <1>3
<1>5. \A i, j, k \in I : <<i, j>> \in Above /\ <<j, k>> \in Above => <<i, k>> \in Above
  BY <1>1, <1>3
<1>6. \A i \in I : <<i, i>> \notin Above
  BY <1>1, <1>3
<1> QED  BY <1>4, <1>5, <1>6 DEF StrictOrder, I

\* Every player of the final ranking has one place in the list it is read from.
LEMMA ListedPlayers ==
  /\ Listed \in SUBSET Int /\ IsFiniteSet(Listed)
  /\ Cardinality(Listed) = Cardinality(Active)
  /\ \A i \in Listed : Order[i] \in Active
  /\ \A p \in Active : \E i \in Listed : Order[i] = p
<1>1. Listed \in SUBSET (1..Cardinality(Ids)) /\ Cardinality(Ids) \in Nat
  BY OrderLists DEF Listed
<1>2. IsFiniteSet(1..Cardinality(Ids))
  BY <1>1, FS_Interval
<1>3. IsFiniteSet(Listed)
  BY <1>1, <1>2, FS_Subset
<1>4. \A i \in Listed : Order[i] \in Active
  BY DEF Listed
<1>5. \A p \in Active : \E i \in Listed : Order[i] = p
  BY OrderLists DEF Listed, Active
<1>6. \A i, j \in Listed : Order[i] = Order[j] => i = j
  BY OrderLists DEF Listed
<1> DEFINE b == [i \in Listed |-> Order[i]]
<1>7. b \in Bijection(Listed, Active)
  <2>1. b \in [Listed -> Active] /\ (\A i, j \in Listed : b[i] = b[j] => i = j)
        /\ \A p \in Active : \E i \in Listed : b[i] = p
    BY <1>4, <1>5, <1>6
  <2> HIDE DEF b
  <2> QED  BY <2>1, Fun_IsBij
<1>8. Cardinality(Listed) = Cardinality(Active)
  <2> HIDE DEF b
  <2> QED  BY <1>3, <1>7, Fun_ExistsBij, FS_Bijection
<1> QED  BY <1>1, <1>3, <1>4, <1>5, <1>8

\* The final ranking has a place for every player and puts nobody above a better one, however
\* many players tie on points, on the best round or on both.
THEOREM PodiumHolds == Spec => []PodiumIsFair
<1>1. IInv => PodiumIsFair
  <2> SUFFICES ASSUME IInv
               PROVE  LET podium == FinalRanking
                      IN /\ {podium[i].id : i \in DOMAIN podium} = Active
                         /\ Len(podium) = Cardinality(Active)
                         /\ \A i, j \in DOMAIN podium : i < j =>
                              LET x == podium[i]  y == podium[j]
                              IN /\ x.points >= y.points
                                 /\ x.points = y.points => x.best >= y.best
                                 /\ x.points = y.points /\ x.best = y.best => x.joined <= y.joined
    BY DEF PodiumIsFair
  <2> DEFINE q == Sorted(Listed, Above)
             n == Len(q)
             podium == FinalRanking
             At(k) == Standing[Order[q[k]]]
  <2>1. Lists(q, Listed) /\ InOrder(q, Above)
    BY ListedPlayers, PodiumIsStrict, SortedLists
  <2>2. podium = [k \in 1..n |-> At(k)]
    BY DEF FinalRanking, Listed, Above
  <2>3. n \in Nat /\ n = Cardinality(Listed)
    BY <2>1, LenProperties DEF Lists
  <2>4. \A k \in 1..n : q[k] \in Listed /\ Order[q[k]] \in Active
    <3> HIDE DEF q
    <3>1. q \in Seq(Listed)
      BY <2>1 DEF Lists
    <3>2. \A k \in 1..n : q[k] \in Listed
      BY <2>3, <3>1, LenProperties
    <3> QED  BY <3>2, ListedPlayers
  <2>5. \A i \in Listed : \E k \in 1..n : q[k] = i
    BY <2>1 DEF Lists
  <2>6. \A k, m \in 1..n : k < m => Outranks(At(k), At(m))
    BY <2>1, <2>4 DEF InOrder, Above
  <2>7. \A k \in 1..n : /\ At(k).id = Order[q[k]]
                        /\ At(k).points \in Nat /\ At(k).best \in Nat /\ At(k).joined \in Nat
    BY <2>4, StandingTypes
  <2>8. DOMAIN podium = 1..n /\ \A k \in 1..n : podium[k] = At(k)
    BY <2>2
  <2>9. Len(podium) = n
    BY <2>2, <2>3, LenProperties
  <2>10. {podium[k].id : k \in DOMAIN podium} = Active
    <3> HIDE DEF podium, At, q, n
    <3>1. \A k \in 1..n : podium[k].id \in Active
      BY <2>4, <2>7, <2>8
    <3>2. \A p \in Active : \E k \in 1..n : podium[k].id = p
      BY <2>5, <2>7, <2>8, ListedPlayers
    <3> QED  BY <2>8, <3>1, <3>2
  <2>11. ASSUME NEW k \in DOMAIN podium, NEW m \in DOMAIN podium, k < m
         PROVE  /\ podium[k].points >= podium[m].points
                /\ podium[k].points = podium[m].points => podium[k].best >= podium[m].best
                /\ podium[k].points = podium[m].points /\ podium[k].best = podium[m].best
                   => podium[k].joined <= podium[m].joined
    <3>1. k \in 1..n /\ m \in 1..n /\ podium[k] = At(k) /\ podium[m] = At(m)
      BY <2>8, <2>11
    <3> HIDE DEF podium, At, q, n
    <3>2. Outranks(At(k), At(m))
      BY <2>6, <2>11, <3>1
    <3> QED  BY <2>7, <3>1, <3>2 DEF Outranks
  <2>12. Len(podium) = Cardinality(Active)
    BY <2>3, <2>9, ListedPlayers
  <2> HIDE DEF podium
  <2> QED  BY <2>10, <2>11, <2>12 DEF podium
<1> QED  BY <1>1, InvariantHolds, PTL

Candidates == {p \in Active : Standing[p].likes > 0}

MoreLoved == {e \in Candidates \X Candidates : Lovelier(Standing[e[1]], Standing[e[2]])}

LEMMA LovelierIsStrict ==
  ASSUME IInv
  PROVE  StrictOrder(MoreLoved, Candidates)
<1> DEFINE L(p) == Standing[p].likes
           Q(p) == Standing[p].questions
           J(p) == Standing[p].joined
           N(p) == Standing[p].id
           I == Candidates
<1>1. \A p \in I : L(p) \in Nat /\ Q(p) \in Nat /\ J(p) \in Nat /\ N(p) \in Nat /\ N(p) = p
  BY StandingTypes DEF Candidates
<1>2. \A p, r \in I : N(p) = N(r) => p = r
  BY <1>1
<1>3. \A p, r \in I : <<p, r>> \in MoreLoved <=>
        \/ L(p) > L(r)
        \/ /\ L(p) = L(r)
           /\ Q(p) < Q(r) \/ (Q(p) = Q(r) /\ (J(p) < J(r) \/ (J(p) = J(r) /\ N(p) < N(r))))
  BY DEF MoreLoved, Lovelier
<1> HIDE DEF L, Q, J, N, I
<1>4. \A p, r \in I : p # r => <<p, r>> \in MoreLoved \/ <<r, p>> \in MoreLoved
  BY <1>1, <1>2, <1>3
<1>5. \A p, r, s \in I : <<p, r>> \in MoreLoved /\ <<r, s>> \in MoreLoved => <<p, s>> \in MoreLoved
  BY <1>1, <1>3
<1>6. \A p \in I : <<p, p>> \notin MoreLoved
  BY <1>1, <1>3
<1> QED  BY <1>4, <1>5, <1>6 DEF StrictOrder, I

\* Whenever somebody was liked there is a face that no other is lovelier than.
LEMMA SomebodyIsLoveliest ==
  ASSUME IInv, Candidates # {}
  PROVE  \E p \in Candidates : \A r \in Candidates : <<r, p>> \notin MoreLoved
<1> DEFINE q == Sorted(Candidates, MoreLoved)
<1>1. Candidates \in SUBSET Int /\ IsFiniteSet(Candidates)
  <2>1. Candidates \in SUBSET Ids /\ Candidates \in SUBSET Int /\ IsFiniteSet(Ids)
    BY ConstantsAssumption DEF ConstantsAssumption, Candidates, Active
  <2> QED  BY <2>1, FS_Subset
<1>2. Lists(q, Candidates) /\ InOrder(q, MoreLoved) /\ StrictOrder(MoreLoved, Candidates)
  BY <1>1, LovelierIsStrict, SortedLists
<1> HIDE DEF q
<1>3. /\ Len(q) \in Nat
      /\ \A k \in 1..Len(q) : q[k] \in Candidates
      /\ \A p \in Candidates : \E k \in 1..Len(q) : q[k] = p
  BY <1>2, LenProperties DEF Lists
<1>4. 1 \in 1..Len(q) /\ q[1] \in Candidates
  BY <1>3
<1>5. ASSUME NEW r \in Candidates, <<r, q[1]>> \in MoreLoved PROVE FALSE
  <2>1. PICK k \in 1..Len(q) : q[k] = r
    BY <1>3
  <2>2. k # 1
    BY <1>2, <1>4, <1>5, <2>1 DEF StrictOrder
  <2>3. <<q[1], r>> \in MoreLoved
    BY <1>2, <1>3, <1>4, <2>1, <2>2 DEF InOrder
  <2> QED  BY <1>2, <1>4, <1>5, <2>3 DEF StrictOrder
<1> QED  BY <1>4, <1>5

\* Whatever the reactions, one player gets the award when anybody was liked, and nobody who got
\* more likes, or as many and fewer questions, goes without it.
THEOREM AwardHolds == Spec => []AwardIsEarned
<1>1. IInv => AwardIsEarned
  <2> SUFFICES ASSUME IInv
               PROVE  LET winners == MostLoved
                      IN /\ winners = {} <=> \A p \in Active : loved[p].likes = 0
                         /\ Cardinality(winners) <= 1
                         /\ \A p \in winners, r \in Active :
                              /\ loved[p].likes >= loved[r].likes
                              /\ loved[p].likes = loved[r].likes
                                 => loved[p].questions <= loved[r].questions
    BY DEF AwardIsEarned
  <2> DEFINE winners == MostLoved
  <2>1. \A p \in Active : /\ loved[p].likes \in Nat /\ loved[p].questions \in Nat
                          /\ Standing[p].likes = loved[p].likes
                          /\ Standing[p].questions = loved[p].questions
    BY StandingTypes
  <2>2. StrictOrder(MoreLoved, Candidates)
    BY LovelierIsStrict
  <2>3. /\ winners \in SUBSET Candidates /\ Candidates \in SUBSET Active
        /\ \A p \in Candidates : p \in winners <=> \A r \in Candidates \ {p} : <<r, p>> \notin MoreLoved
    BY DEF MostLoved, Candidates, MoreLoved
  <2>4. \A p \in Active : p \in Candidates <=> loved[p].likes # 0
    BY <2>1 DEF Candidates
  <2>5. \A p, r \in Candidates : ~ Lovelier(Standing[r], Standing[p]) <=> <<r, p>> \notin MoreLoved
    BY DEF MoreLoved
  <2> HIDE DEF winners
  <2>6. Candidates # {} => winners # {}
    BY <2>3, SomebodyIsLoveliest
  <2>7. winners = {} <=> \A p \in Active : loved[p].likes = 0
    BY <2>3, <2>4, <2>6
  <2>8. \A p, r \in winners : p = r
    BY <2>2, <2>3 DEF StrictOrder
  <2>9. Cardinality(winners) <= 1
    <3>1. CASE winners = {}
      BY <3>1, FS_EmptySet
    <3>2. CASE winners # {}
      <4>1. PICK p : winners = {p}
        BY <2>8, <3>2
      <4>2. Cardinality({p}) = 1
        BY FS_Singleton
      <4> QED  BY <4>1, <4>2
    <3> QED  BY <3>1, <3>2
  <2>10. ASSUME NEW p \in winners, NEW r \in Active
         PROVE  /\ loved[p].likes >= loved[r].likes
                /\ loved[p].likes = loved[r].likes => loved[p].questions <= loved[r].questions
    <3>1. p \in Candidates /\ p \in Active /\ loved[p].likes # 0
      BY <2>3, <2>4
    <3>2. CASE r \notin Candidates
      BY <2>1, <2>4, <3>1, <3>2
    <3>3. CASE r = p
      BY <2>1, <3>1, <3>3
    <3>4. CASE r \in Candidates /\ r # p
      <4>1. ~ Lovelier(Standing[r], Standing[p])
        BY <2>3, <2>5, <3>1, <3>4
      <4> QED  BY <2>1, <3>1, <4>1 DEF Lovelier
    <3> QED  BY <3>2, <3>3, <3>4
  <2> QED  BY <2>7, <2>9, <2>10 DEF winners
<1> QED  BY <1>1, InvariantHolds, PTL
=============================================================================
