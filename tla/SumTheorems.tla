--------------------------- MODULE SumTheorems ---------------------------
(***************************************************************************)
(* What SumOver adds up to, for every finite set: the totals of the ledger *)
(* and the replay of the penalties are sums of it.                         *)
(*                                                                         *)
(* The induction principles are stated with sets, not with predicates: a   *)
(* proof by induction defines the set of the numbers, or of the subsets,   *)
(* for which its claim holds, and shows that it is the whole set.          *)
(***************************************************************************)
EXTENDS Sums, WellFoundedInduction, FiniteSetTheorems, TLAPS

\* A set of natural numbers with 0, and with the successor of each of its elements,
\* has them all: a smallest number outside of it would have a predecessor in it.
LEMMA SetInduction ==
    ASSUME NEW T \in SUBSET Nat, 0 \in T, \A n \in T : n + 1 \in T
    PROVE  T = Nat
<1> SUFFICES ASSUME Nat \ T # {} PROVE FALSE
    OBVIOUS
<1>1. IsWellFoundedOn(OpToRel(<, Nat), Nat)
    BY NatLessThanWellFounded
<1> DEFINE R == OpToRel(<, Nat)
<1>2. IsWellFoundedOn(R, Nat)
    BY <1>1
<1>3. \A k, m \in Nat : k < m => <<k, m>> \in R
    BY DEF OpToRel
<1> HIDE DEF R
<1>4. PICK m \in Nat \ T : \A k \in Nat \ T : ~(<<k, m>> \in R)
    BY <1>2, WFMin
<1>5. m # 0 /\ m - 1 \in Nat /\ m - 1 < m
    BY <1>4
<1>6. m - 1 \in T
    BY <1>3, <1>4, <1>5
<1> QED
    BY <1>5, <1>6, (m - 1) + 1 = m

\* Removing an element of a finite set.
LEMMA OneLess ==
    ASSUME NEW S, IsFiniteSet(S), NEW x \in S
    PROVE  /\ IsFiniteSet(S \ {x})
           /\ Cardinality(S) \in Nat
           /\ Cardinality(S \ {x}) \in Nat
           /\ Cardinality(S \ {x}) = Cardinality(S) - 1
BY FS_RemoveElement, FS_CardinalityType

\* A family of subsets of a finite set that has the empty set and is closed
\* under adding an element has the set itself.
LEMMA SubsetInduction ==
    ASSUME NEW S, IsFiniteSet(S),
           NEW T \in SUBSET SUBSET S, {} \in T,
           \A s \in T : \A x \in S \ s : s \cup {x} \in T
    PROVE  S \in T
<1> DEFINE P == {n \in Nat : \A s \in SUBSET S : Cardinality(s) = n => s \in T}
<1>1. 0 \in P
  <2> SUFFICES ASSUME NEW s \in SUBSET S, Cardinality(s) = 0 PROVE s \in T
      OBVIOUS
  <2>1. IsFiniteSet(s)
      BY FS_Subset
  <2> QED
      BY <2>1, FS_EmptySet
<1>2. \A n \in P : n + 1 \in P
  <2> SUFFICES ASSUME NEW n \in P, NEW s \in SUBSET S, Cardinality(s) = n + 1
               PROVE  s \in T
      OBVIOUS
  <2>1. IsFiniteSet(s)
      BY FS_Subset
  <2>2. PICK x : x \in s
      BY FS_EmptySet, n + 1 # 0
  <2>3. Cardinality(s \ {x}) = n
      BY <2>1, <2>2, OneLess
  <2>4. s \ {x} \in T
      BY <2>3
  <2>5. (s \ {x}) \cup {x} = s /\ x \in S \ (s \ {x})
      BY <2>2
  <2> QED
      BY <2>4, <2>5
<1> HIDE DEF P
<1>3. P = Nat
  <2>1. P \in SUBSET Nat
      BY DEF P
  <2> QED
      BY <1>1, <1>2, <2>1, SetInduction
<1>4. Cardinality(S) \in P
    BY <1>3, FS_CardinalityType
<1> QED
    BY <1>4 DEF P
-----------------------------------------------------------------------------
(* The recursion behind SumOver has exactly one solution on a finite set.  *)

Pick(s) == CHOOSE x \in s : TRUE

IsSum(g, f, S) ==
    g = [s \in SUBSET S |-> IF s = {} THEN 0 ELSE f[Pick(s)] + g[s \ {Pick(s)}]]

\* The element that the fold takes next is one of the set.
LEMMA PickIn == ASSUME NEW s, s # {} PROVE Pick(s) \in s
BY DEF Pick

\* If the recursion has a solution, SumOver is the value of one of them.
LEMMA SumIsSum ==
    ASSUME NEW f, NEW S, NEW g, IsSum(g, f, S)
    PROVE  \E h : IsSum(h, f, S) /\ SumOver(f, S) = h[S]
<1> DEFINE h == CHOOSE h : IsSum(h, f, S)
<1>1. IsSum(h, f, S)
    OBVIOUS
<1>2. SumOver(f, S) = h[S]
    BY DEF SumOver, MapThenFoldSet, IsSum, Pick
<1> QED
    BY <1>1, <1>2

\* A solution for a set is, restricted, one for each of its subsets.
LEMMA SumRestricted ==
    ASSUME NEW f, NEW S, NEW g, IsSum(g, f, S), NEW T \in SUBSET S
    PROVE  IsSum([s \in SUBSET T |-> g[s]], f, T)
<1> SUFFICES ASSUME NEW s \in SUBSET T
             PROVE  g[s] = IF s = {} THEN 0
                           ELSE f[Pick(s)] + [t \in SUBSET T |-> g[t]][s \ {Pick(s)}]
    BY DEF IsSum
<1> QED
    BY DEF IsSum

\* Two solutions agree on every subset, by induction on its size.
LEMMA SumUnique ==
    ASSUME NEW f, NEW S, IsFiniteSet(S),
           NEW g, IsSum(g, f, S), NEW h, IsSum(h, f, S)
    PROVE  g = h
<1> DEFINE P == {n \in Nat : \A s \in SUBSET S : Cardinality(s) = n => g[s] = h[s]}
<1>1. 0 \in P
  <2> SUFFICES ASSUME NEW s \in SUBSET S, Cardinality(s) = 0 PROVE g[s] = h[s]
      OBVIOUS
  <2>1. s = {}
      BY FS_Subset, FS_EmptySet
  <2> QED
      BY <2>1 DEF IsSum
<1>2. \A n \in P : n + 1 \in P
  <2> SUFFICES ASSUME NEW n \in P, NEW s \in SUBSET S, Cardinality(s) = n + 1
               PROVE  g[s] = h[s]
      OBVIOUS
  <2>1. IsFiniteSet(s) /\ s # {}
      BY FS_Subset, FS_EmptySet, n + 1 # 0
  <2>2. Pick(s) \in s
      BY <2>1, PickIn
  <2>3. Cardinality(s \ {Pick(s)}) = n
      BY <2>1, <2>2, OneLess
  <2>4. g[s \ {Pick(s)}] = h[s \ {Pick(s)}]
      BY <2>3
  <2>5. g[s] = f[Pick(s)] + g[s \ {Pick(s)}]
      BY <2>1 DEF IsSum
  <2>6. h[s] = f[Pick(s)] + h[s \ {Pick(s)}]
      BY <2>1 DEF IsSum
  <2> QED
      BY <2>4, <2>5, <2>6
<1> HIDE DEF P
<1>3. P = Nat
  <2>1. P \in SUBSET Nat
      BY DEF P
  <2> QED
      BY <1>1, <1>2, <2>1, SetInduction
<1>4. \A s \in SUBSET S : g[s] = h[s]
    BY <1>3, FS_Subset, FS_CardinalityType DEF P
<1>5. g = [s \in SUBSET S |-> g[s]] /\ h = [s \in SUBSET S |-> h[s]]
    BY DEF IsSum
<1> QED
    BY <1>4, <1>5

\* The equation of the recursion, where it has a solution.
LEMMA SumStep ==
    ASSUME NEW f, NEW S, IsFiniteSet(S), S # {}, NEW g, IsSum(g, f, S)
    PROVE  SumOver(f, S) = f[Pick(S)] + SumOver(f, S \ {Pick(S)})
<1> DEFINE T == S \ {Pick(S)}
<1>1. PICK h : IsSum(h, f, S) /\ SumOver(f, S) = h[S]
    BY SumIsSum
<1>2. h[S] = f[Pick(S)] + h[T]
    BY <1>1 DEF IsSum
<1>3. IsSum([s \in SUBSET T |-> h[s]], f, T)
    BY <1>1, SumRestricted
<1>4. PICK k : IsSum(k, f, T) /\ SumOver(f, T) = k[T]
    BY <1>3, SumIsSum
<1>5. k = [s \in SUBSET T |-> h[s]]
    BY <1>3, <1>4, SumUnique, FS_Subset
<1>6. k[T] = h[T]
    BY <1>5
<1> QED
    BY <1>1, <1>2, <1>4, <1>6

\* There is a solution for every finite set, by induction on its size.
LEMMA SumExists ==
    ASSUME NEW f, NEW S, IsFiniteSet(S)
    PROVE  \E g : IsSum(g, f, S)
<1> DEFINE P == {n \in Nat : \A s : IsFiniteSet(s) /\ Cardinality(s) <= n
                                    => \E g : IsSum(g, f, s)}
<1>1. 0 \in P
  <2> SUFFICES ASSUME NEW s, IsFiniteSet(s), Cardinality(s) <= 0
               PROVE  \E g : IsSum(g, f, s)
      OBVIOUS
  <2>1. s = {}
      BY FS_CardinalityType, FS_EmptySet
  <2>2. IsSum([t \in SUBSET {} |-> 0], f, {})
      BY DEF IsSum
  <2> QED
      BY <2>1, <2>2
<1>2. \A n \in P : n + 1 \in P
  <2> SUFFICES ASSUME NEW n \in P, NEW s, IsFiniteSet(s), Cardinality(s) <= n + 1
               PROVE  \E g : IsSum(g, f, s)
      OBVIOUS
  <2> DEFINE g == [t \in SUBSET s |->
                      IF t = s /\ s # {} THEN f[Pick(s)] + SumOver(f, s \ {Pick(s)})
                      ELSE SumOver(f, t)]
  <2>1. SumOver(f, {}) = 0
    <3>1. IsSum([t \in SUBSET {} |-> 0], f, {})
        BY DEF IsSum
    <3>2. PICK h : IsSum(h, f, {}) /\ SumOver(f, {}) = h[{}]
        BY <3>1, SumIsSum
    <3> QED
        BY <3>2 DEF IsSum
  <2>2. ASSUME NEW t \in SUBSET s, t # s, t # {}
        PROVE  SumOver(f, t) = f[Pick(t)] + SumOver(f, t \ {Pick(t)})
    <3>1. IsFiniteSet(t) /\ Cardinality(t) <= n
        BY <2>2, FS_Subset, FS_CardinalityType
    <3>2. PICK h : IsSum(h, f, t)
        BY <3>1
    <3> QED
        BY <2>2, <3>1, <3>2, SumStep
  <2>3. \A t \in SUBSET s : t # {} => Pick(t) \in t
      BY PickIn
  <2>4. IsSum(g, f, s)
    <3> SUFFICES ASSUME NEW t \in SUBSET s
                 PROVE  g[t] = IF t = {} THEN 0 ELSE f[Pick(t)] + g[t \ {Pick(t)}]
        BY DEF IsSum
    <3>1. CASE t = {}
        BY <2>1, <3>1
    <3>2. CASE t # {}
      <4>1. t \ {Pick(t)} \in SUBSET s /\ t \ {Pick(t)} # s
          BY <2>3, <3>2
      <4>2. g[t \ {Pick(t)}] = SumOver(f, t \ {Pick(t)})
          BY <4>1
      <4>3. g[t] = f[Pick(t)] + SumOver(f, t \ {Pick(t)})
          BY <2>2, <3>2
      <4> QED
          BY <3>2, <4>2, <4>3
    <3> QED
        BY <3>1, <3>2
  <2> QED
      BY <2>4
<1> HIDE DEF P
<1>3. P = Nat
  <2>1. P \in SUBSET Nat
      BY DEF P
  <2> QED
      BY <1>1, <1>2, <2>1, SetInduction
<1> QED
    BY <1>3, FS_CardinalityType DEF P
-----------------------------------------------------------------------------
(* What the proofs about the models use.                                   *)

\* The sum over no element is 0.
LEMMA SumEmpty == ASSUME NEW f PROVE SumOver(f, {}) = 0
<1>1. PICK g : IsSum(g, f, {})
    BY SumExists, FS_EmptySet
<1>2. PICK h : IsSum(h, f, {}) /\ SumOver(f, {}) = h[{}]
    BY <1>1, SumIsSum
<1> QED
    BY <1>2 DEF IsSum

\* The recursion of the fold, without the condition that a solution is known.
LEMMA SumPick ==
    ASSUME NEW f, NEW S, IsFiniteSet(S), S # {}
    PROVE  SumOver(f, S) = f[Pick(S)] + SumOver(f, S \ {Pick(S)})
<1>1. PICK g : IsSum(g, f, S)
    BY SumExists
<1> QED
    BY <1>1, SumStep

\* A sum of numbers is a number.
LEMMA SumInt ==
    ASSUME NEW f, NEW S, IsFiniteSet(S), \A x \in S : f[x] \in Int
    PROVE  SumOver(f, S) \in Int
<1> DEFINE P == {n \in Nat : \A s \in SUBSET S : Cardinality(s) = n => SumOver(f, s) \in Int}
<1>1. 0 \in P
  <2> SUFFICES ASSUME NEW s \in SUBSET S, Cardinality(s) = 0 PROVE SumOver(f, s) \in Int
      OBVIOUS
  <2>1. s = {}
      BY FS_Subset, FS_EmptySet
  <2> QED
      BY <2>1, SumEmpty
<1>2. \A n \in P : n + 1 \in P
  <2> SUFFICES ASSUME NEW n \in P, NEW s \in SUBSET S, Cardinality(s) = n + 1
               PROVE  SumOver(f, s) \in Int
      OBVIOUS
  <2>1. IsFiniteSet(s) /\ s # {}
      BY FS_Subset, FS_EmptySet, n + 1 # 0
  <2>2. Pick(s) \in s
      BY <2>1, PickIn
  <2>3. Cardinality(s \ {Pick(s)}) = n
      BY <2>1, <2>2, OneLess
  <2>4. SumOver(f, s \ {Pick(s)}) \in Int
      BY <2>3
  <2> QED
      BY <2>1, <2>2, <2>4, SumPick
<1> HIDE DEF P
<1>3. P = Nat
  <2>1. P \in SUBSET Nat
      BY DEF P
  <2> QED
      BY <1>1, <1>2, <2>1, SetInduction
<1> QED
    BY <1>3, FS_CardinalityType DEF P

\* Whichever element is taken first, the sum is the same.
LEMMA SumRemove ==
    ASSUME NEW f, NEW S, IsFiniteSet(S), \A x \in S : f[x] \in Int, NEW x \in S
    PROVE  SumOver(f, S) = f[x] + SumOver(f, S \ {x})
<1> DEFINE P == {n \in Nat : \A s \in SUBSET S : Cardinality(s) = n =>
                    \A y \in s : SumOver(f, s) = f[y] + SumOver(f, s \ {y})}
<1>1. 0 \in P
  <2> SUFFICES ASSUME NEW s \in SUBSET S, Cardinality(s) = 0, NEW y \in s PROVE FALSE
      OBVIOUS
  <2> QED
      BY FS_Subset, FS_EmptySet
<1>2. \A n \in P : n + 1 \in P
  <2> SUFFICES ASSUME NEW n \in P, NEW s \in SUBSET S, Cardinality(s) = n + 1, NEW y \in s
               PROVE  SumOver(f, s) = f[y] + SumOver(f, s \ {y})
      OBVIOUS
  <2> DEFINE p == Pick(s)
  <2>1. IsFiniteSet(s) /\ s # {} /\ p \in s
      BY FS_Subset, PickIn
  <2>2. SumOver(f, s) = f[p] + SumOver(f, s \ {p})
      BY <2>1, SumPick
  <2>3. CASE p = y
      BY <2>2, <2>3
  <2>4. CASE p # y
    <3>1. Cardinality(s \ {p}) = n /\ Cardinality(s \ {y}) = n
        BY <2>1, OneLess
    <3>2. SumOver(f, s \ {p}) = f[y] + SumOver(f, (s \ {p}) \ {y})
        BY <2>4, <3>1
    <3>3. SumOver(f, s \ {y}) = f[p] + SumOver(f, (s \ {y}) \ {p})
        BY <2>1, <2>4, <3>1
    <3>4. (s \ {y}) \ {p} = (s \ {p}) \ {y}
        OBVIOUS
    <3>5. SumOver(f, (s \ {p}) \ {y}) \in Int
        BY FS_Subset, SumInt
    <3>6. f[p] \in Int /\ f[y] \in Int
        BY <2>1
    <3>7. SumOver(f, s \ {y}) = f[p] + SumOver(f, (s \ {p}) \ {y})
        BY <3>3, <3>4
    <3> DEFINE all == SumOver(f, s)      less == SumOver(f, s \ {p})
               other == SumOver(f, s \ {y})  both == SumOver(f, (s \ {p}) \ {y})
               fp == f[p]  fy == f[y]
    <3>8. all = fp + less /\ less = fy + both /\ other = fp + both
        BY <2>2, <3>2, <3>7
    <3>9. both \in Int /\ fp \in Int /\ fy \in Int
        BY <3>5, <3>6
    <3>10. all = fy + other
      <4> HIDE DEF all, less, other, both, fp, fy
      <4> QED
          BY <3>8, <3>9
    <3> QED
        BY <3>10
  <2> QED
      BY <2>3, <2>4
<1> HIDE DEF P
<1>3. P = Nat
  <2>1. P \in SUBSET Nat
      BY DEF P
  <2> QED
      BY <1>1, <1>2, <2>1, SetInduction
<1> QED
    BY <1>3, FS_CardinalityType DEF P

\* A new element adds its value.
LEMMA SumAdd ==
    ASSUME NEW f, NEW S, IsFiniteSet(S), NEW x, x \notin S,
           \A y \in S \cup {x} : f[y] \in Int
    PROVE  SumOver(f, S \cup {x}) = f[x] + SumOver(f, S)
<1>1. IsFiniteSet(S \cup {x}) /\ (S \cup {x}) \ {x} = S
    BY FS_AddElement
<1>2. SumOver(f, S \cup {x}) = f[x] + SumOver(f, (S \cup {x}) \ {x})
    BY <1>1, SumRemove
<1> QED
    BY <1>1, <1>2

\* The sum depends on the values at the elements of the set only.
LEMMA SumSame ==
    ASSUME NEW f, NEW g, NEW S, IsFiniteSet(S),
           \A x \in S : f[x] \in Int /\ g[x] = f[x]
    PROVE  SumOver(f, S) = SumOver(g, S)
<1> DEFINE T == {s \in SUBSET S : SumOver(f, s) = SumOver(g, s)}
<1>1. {} \in T
    BY SumEmpty
<1>2. ASSUME NEW s \in T, NEW x \in S \ s PROVE s \cup {x} \in T
  <2>1. IsFiniteSet(s) /\ SumOver(f, s) = SumOver(g, s)
      BY FS_Subset
  <2>2. SumOver(f, s \cup {x}) = f[x] + SumOver(f, s)
      BY <2>1, SumAdd
  <2>3. SumOver(g, s \cup {x}) = g[x] + SumOver(g, s)
      BY <2>1, SumAdd
  <2> QED
      BY <2>1, <2>2, <2>3
<1> HIDE DEF T
<1>3. S \in T
  <2>1. T \in SUBSET SUBSET S
      BY DEF T
  <2> QED
      BY <1>1, <1>2, <2>1, SubsetInduction
<1> QED
    BY <1>3 DEF T

\* A sum of natural numbers is one.
LEMMA SumNat ==
    ASSUME NEW f, NEW S, IsFiniteSet(S), \A x \in S : f[x] \in Nat
    PROVE  SumOver(f, S) \in Nat
<1> DEFINE T == {s \in SUBSET S : SumOver(f, s) \in Nat}
<1>1. {} \in T
    BY SumEmpty
<1>2. ASSUME NEW s \in T, NEW x \in S \ s PROVE s \cup {x} \in T
  <2>1. IsFiniteSet(s) /\ SumOver(f, s) \in Nat
      BY FS_Subset
  <2>2. SumOver(f, s \cup {x}) = f[x] + SumOver(f, s)
      BY <2>1, SumAdd
  <2> QED
      BY <2>1, <2>2
<1> HIDE DEF T
<1>3. S \in T
  <2>1. T \in SUBSET SUBSET S
      BY DEF T
  <2> QED
      BY <1>1, <1>2, <2>1, SubsetInduction
<1> QED
    BY <1>3 DEF T

\* The sum of sums is the sum of the values added up.
LEMMA SumLinear ==
    ASSUME NEW f, NEW g, NEW h, NEW S, IsFiniteSet(S),
           \A x \in S : f[x] \in Int /\ g[x] \in Int /\ h[x] = f[x] + g[x]
    PROVE  SumOver(h, S) = SumOver(f, S) + SumOver(g, S)
<1> DEFINE T == {s \in SUBSET S : SumOver(h, s) = SumOver(f, s) + SumOver(g, s)}
<1>1. {} \in T
    BY SumEmpty
<1>2. ASSUME NEW s \in T, NEW x \in S \ s PROVE s \cup {x} \in T
  <2>1. IsFiniteSet(s) /\ SumOver(h, s) = SumOver(f, s) + SumOver(g, s)
      BY FS_Subset
  <2>2. SumOver(f, s \cup {x}) = f[x] + SumOver(f, s)
      BY <2>1, SumAdd
  <2>3. SumOver(g, s \cup {x}) = g[x] + SumOver(g, s)
      BY <2>1, SumAdd
  <2>4. SumOver(h, s \cup {x}) = h[x] + SumOver(h, s)
      BY <2>1, SumAdd
  <2>5. SumOver(f, s) \in Int /\ SumOver(g, s) \in Int
      BY <2>1, SumInt
  <2> QED
      BY <2>1, <2>2, <2>3, <2>4, <2>5
<1> HIDE DEF T
<1>3. S \in T
  <2>1. T \in SUBSET SUBSET S
      BY DEF T
  <2> QED
      BY <1>1, <1>2, <2>1, SubsetInduction
<1> QED
    BY <1>3 DEF T

\* A sum of zeros is 0.
LEMMA SumZero ==
    ASSUME NEW f, NEW S, IsFiniteSet(S), \A x \in S : f[x] = 0
    PROVE  SumOver(f, S) = 0
<1> DEFINE T == {s \in SUBSET S : SumOver(f, s) = 0}
<1>1. {} \in T
    BY SumEmpty
<1>2. ASSUME NEW s \in T, NEW x \in S \ s PROVE s \cup {x} \in T
  <2>1. IsFiniteSet(s) /\ SumOver(f, s) = 0
      BY FS_Subset
  <2>2. SumOver(f, s \cup {x}) = f[x] + SumOver(f, s)
      BY <2>1, SumAdd
  <2> QED
      BY <2>1, <2>2
<1> HIDE DEF T
<1>3. S \in T
  <2>1. T \in SUBSET SUBSET S
      BY DEF T
  <2> QED
      BY <1>1, <1>2, <2>1, SubsetInduction
<1> QED
    BY <1>3 DEF T

\* Elements at which the value is 0 can be left out.
LEMMA SumWhere ==
    ASSUME NEW f, NEW S, IsFiniteSet(S), NEW L \in SUBSET S, \A x \in S : f[x] \in Int,
           \A x \in S \ L : f[x] = 0
    PROVE  SumOver(f, S) = SumOver(f, L)
<1> DEFINE T == {s \in SUBSET S : SumOver(f, s) = SumOver(f, s \cap L)}
<1>1. {} \in T
  <2>1. {} \cap L = {}
      OBVIOUS
  <2> QED
      BY <2>1
<1>2. ASSUME NEW s \in T, NEW x \in S \ s PROVE s \cup {x} \in T
  <2>1. IsFiniteSet(s) /\ IsFiniteSet(s \cap L) /\ SumOver(f, s) = SumOver(f, s \cap L)
      BY FS_Subset
  <2>2. SumOver(f, s \cup {x}) = f[x] + SumOver(f, s)
      BY <2>1, SumAdd
  <2>3. SumOver(f, s \cap L) \in Int
      BY <2>1, SumInt
  <2>4. CASE x \in L
    <3>1. (s \cup {x}) \cap L = (s \cap L) \cup {x} /\ x \notin s \cap L
        BY <2>4
    <3>2. SumOver(f, (s \cap L) \cup {x}) = f[x] + SumOver(f, s \cap L)
        BY <2>1, <3>1, SumAdd
    <3> QED
        BY <2>1, <2>2, <3>1, <3>2
  <2>5. CASE x \notin L
    <3>1. (s \cup {x}) \cap L = s \cap L /\ f[x] = 0
        BY <2>5
    <3>2. SumOver(f, s \cup {x}) = SumOver(f, s)
        BY <2>1, <2>2, <2>3, <3>1
    <3> QED
        BY <2>1, <3>1, <3>2
  <2> QED
      BY <2>4, <2>5
<1> HIDE DEF T
<1>3. S \in T
  <2>1. T \in SUBSET SUBSET S
      BY DEF T
  <2> QED
      BY <1>1, <1>2, <2>1, SubsetInduction
<1>4. S \cap L = L
    OBVIOUS
<1> QED
    BY <1>3, <1>4 DEF T

\* A table added up by rows and by columns: r[i] and c[j] are the sums of a row
\* and of a column of m.
LEMMA SumExchange ==
    ASSUME NEW m, NEW I, IsFiniteSet(I), NEW J, IsFiniteSet(J),
           \A i \in I : \A j \in J : m[i][j] \in Int
    PROVE  SumOver([i \in I |-> SumOver(m[i], J)], I) =
           SumOver([j \in J |-> SumOver([i \in I |-> m[i][j]], I)], J)
<1> DEFINE r == [i \in I |-> SumOver(m[i], J)]
           col(j) == [i \in I |-> m[i][j]]
           c(s) == [j \in J |-> SumOver(col(j), s)]
           T == {s \in SUBSET I : SumOver(r, s) = SumOver(c(s), J)}
<1>0. \A s \in SUBSET I : \A j \in J : SumOver(col(j), s) \in Int
    BY FS_Subset, SumInt
<1>a. \A i \in I : r[i] \in Int
    BY SumInt
<1>1. {} \in T
  <2>1. \A j \in J : c({})[j] = 0
      BY SumEmpty
  <2>2. SumOver(c({}), J) = 0
      BY <2>1, SumZero
  <2> QED
      BY <2>2, SumEmpty
<1>2. ASSUME NEW s \in T, NEW x \in I \ s PROVE s \cup {x} \in T
  <2>1. IsFiniteSet(s) /\ SumOver(r, s) = SumOver(c(s), J)
      BY FS_Subset
  <2>2. SumOver(r, s \cup {x}) = r[x] + SumOver(r, s)
      BY <2>1, <1>a, SumAdd
  <2>3. ASSUME NEW j \in J
        PROVE  SumOver(col(j), s \cup {x}) = m[x][j] + SumOver(col(j), s)
    <3>1. \A i \in s \cup {x} : col(j)[i] \in Int
        OBVIOUS
    <3>2. SumOver(col(j), s \cup {x}) = col(j)[x] + SumOver(col(j), s)
        BY <2>1, <3>1, SumAdd
    <3> QED
        BY <3>2
  <2>4. \A j \in J : /\ m[x][j] \in Int /\ c(s)[j] \in Int
                     /\ c(s \cup {x})[j] = m[x][j] + c(s)[j]
      BY <1>0, <2>3
  <2>5. SumOver(c(s \cup {x}), J) = SumOver(m[x], J) + SumOver(c(s), J)
    <3> DEFINE d == c(s) e == c(s \cup {x}) q == m[x]
    <3>1. \A j \in J : q[j] \in Int /\ d[j] \in Int /\ e[j] = q[j] + d[j]
        BY <2>4
    <3> HIDE DEF d, e, q
    <3>2. SumOver(e, J) = SumOver(q, J) + SumOver(d, J)
        BY <3>1, SumLinear
    <3> QED
        BY <3>2 DEF d, e, q
  <2> QED
      BY <2>1, <2>2, <2>5
<1> HIDE DEF T
<1>3. I \in T
  <2>1. T \in SUBSET SUBSET I
      BY DEF T
  <2> QED
      BY <1>1, <1>2, <2>1, SubsetInduction
<1> QED
    BY <1>3 DEF T
=============================================================================
