-------------------------- MODULE CalculationsProofs --------------------------
(***************************************************************************)
(* Proofs about Calculations: each of its properties, for every value of   *)
(* the constants that the assumptions of the modules allow.                *)
(*                                                                         *)
(* A calculation is a sum or a fold over its input.  Both are recursive    *)
(* functions on sets, so the first part shows that they exist and how they *)
(* add an element (induction by the least number at which a fact fails).   *)
(* Then each question has its part: what the algorithm of the code has     *)
(* computed after so many rows, and from it the theorem about its answer.  *)
(***************************************************************************)
EXTENDS Calculations, FiniteSetTheorems, SequenceTheorems, WellFoundedInduction, TLAPS

-----------------------------------------------------------------------------
(* Induction on data, by the least number at which it fails.               *)

LEMMA LeastExists ==
    ASSUME NEW T, T \subseteq Nat, T # {}
    PROVE  \E x \in T : \A y \in T : x <= y
<1> DEFINE R == OpToRel(<, Nat)
<1>1. IsWellFoundedOn(R, Nat)
  BY NatLessThanWellFounded
<1>2. \A x, y \in Nat : <<y, x>> \in R <=> y < x
  BY DEF OpToRel
<1> HIDE DEF R
<1>3. \E x \in T : \A y \in T : ~(<<y, x>> \in R)
  BY <1>1, WFMin
<1>4. PICK x \in T : \A y \in T : ~(<<y, x>> \in R)
  BY <1>3, Zenon
<1>5. \A y \in T : ~(y < x)
  BY <1>2, <1>4, Zenon
<1>6. \A y \in T : x <= y
  BY <1>5
<1> QED
  BY <1>6

\* A set that has 0, and with each number up to m the next one, has all up to m.
LEMMA Reaches ==
    ASSUME NEW m \in Nat, NEW T, 0 \in T,
           \A n \in Nat : n < m /\ n \in T => n + 1 \in T
    PROVE  \A n \in 0..m : n \in T
<1> DEFINE Rest == {n \in 0..m : n \notin T}
<1>1. SUFFICES ASSUME Rest # {} PROVE FALSE
  OBVIOUS
<1>2. Rest \subseteq Nat
  OBVIOUS
<1> HIDE DEF Rest
<1>3. PICK x \in Rest : \A y \in Rest : x <= y
  BY <1>1, <1>2, LeastExists
<1> USE DEF Rest
<1>4. x # 0 /\ x - 1 \in Nat /\ x - 1 < m /\ x - 1 \in 0..m
  BY <1>3
<1>5. x - 1 \in T
  BY <1>3, <1>4
<1> QED
  BY <1>3, <1>4, <1>5

\* A set of numbers that has 0, and with each number the next one, has them all.
LEMMA ReachesAll ==
    ASSUME NEW T, 0 \in T, \A n \in Nat : n \in T => n + 1 \in T
    PROVE  \A n \in Nat : n \in T
<1> TAKE m \in Nat
<1>1. \A n \in 0..m : n \in T
  BY Reaches
<1> QED
  BY <1>1

-----------------------------------------------------------------------------
(* Sums: MapThenSumSet over a finite set, whatever order CHOOSE adds in.   *)

SumOf(f, S) == MapThenSumSet(LAMBDA x : f[x], S)

Picked(s) == CHOOSE x \in s : TRUE

Adder(f, S, it) == [s \in SUBSET S |-> IF s = {} THEN 0 ELSE f[Picked(s)] + it[s \ {Picked(s)}]]

Values(f, S) == IsFiniteSet(S) /\ \A x \in S : f[x] \in Int

LEMMA SumIs == \A f, S : SumOf(f, S) = (CHOOSE it : it = Adder(f, S, it))[S]
BY DEF SumOf, MapThenSumSet, MapThenFoldSet, Adder, Picked

LEMMA PickedIs == \A s : s # {} => Picked(s) \in s
BY DEF Picked

LEMMA Removed ==
    ASSUME NEW S, IsFiniteSet(S), NEW x \in S
    PROVE  /\ IsFiniteSet(S \ {x}) /\ Cardinality(S) \in Nat \ {0}
           /\ Cardinality(S \ {x}) = Cardinality(S) - 1
<1>1. IsFiniteSet(S \ {x}) /\ Cardinality(S \ {x}) = Cardinality(S) - 1
  BY FS_RemoveElement
<1>2. Cardinality(S) \in Nat /\ Cardinality(S) # 0
  BY FS_CardinalityType, FS_EmptySet
<1> QED
  BY <1>1, <1>2

\* The fold is there.
LEMMA AdderExists ==
    ASSUME NEW f, NEW S, Values(f, S)
    PROVE  \E it \in [SUBSET S -> Int] : it = Adder(f, S, it)
<1> DEFINE Small(n) == {s \in SUBSET S : Cardinality(s) <= n}
           Good(n, it) ==
               /\ it \in [Small(n) -> Int]
               /\ \A s \in Small(n) : it[s] = IF s = {} THEN 0 ELSE f[Picked(s)] + it[s \ {Picked(s)}]
           T == {n \in Nat : \E it : Good(n, it)}
<1>1. \A s \in SUBSET S : IsFiniteSet(s) /\ Cardinality(s) \in 0..Cardinality(S) /\ Cardinality(S) \in Nat
  BY FS_Subset, FS_CardinalityType DEF Values
<1>2. \A s \in SUBSET S : s # {} => /\ Picked(s) \in s /\ f[Picked(s)] \in Int
                                    /\ Cardinality(s \ {Picked(s)}) = Cardinality(s) - 1
                                    /\ Cardinality(s) > 0
  <2> SUFFICES ASSUME NEW s \in SUBSET S, s # {}
               PROVE  /\ Picked(s) \in s /\ f[Picked(s)] \in Int
                      /\ Cardinality(s \ {Picked(s)}) = Cardinality(s) - 1
                      /\ Cardinality(s) > 0
    OBVIOUS
  <2>1. Picked(s) \in s
    BY PickedIs
  <2> QED
    BY <1>1, <2>1, Removed DEF Values
<1>3. 0 \in T
  <2> DEFINE it == [s \in Small(0) |-> 0]
  <2>1. \A s \in Small(0) : s = {}
    <3> SUFFICES ASSUME NEW s \in SUBSET S, Cardinality(s) <= 0 PROVE s = {}
      OBVIOUS
    <3>1. Cardinality(s) \in Nat
      BY <1>1
    <3>2. s # {} => Cardinality(s) > 0
      BY <1>2
    <3> QED
      BY <3>1, <3>2
  <2>2. Good(0, it)
    BY <2>1
  <2> QED
    BY <2>2
<1>4. \A n \in Nat : n \in T => n + 1 \in T
  <2> SUFFICES ASSUME NEW n \in Nat, n \in T PROVE n + 1 \in T
    OBVIOUS
  <2> PICK it : Good(n, it)
    OBVIOUS
  <2> HIDE DEF Good
  <2> SUFFICES \E next : Good(n + 1, next)
    OBVIOUS
  <2> USE DEF Good
  <2> DEFINE next == [s \in Small(n + 1) |->
                         IF s = {} THEN 0 ELSE f[Picked(s)] + it[s \ {Picked(s)}]]
  <2>1. \A s \in Small(n + 1) : s # {} => s \ {Picked(s)} \in Small(n)
    BY <1>1, <1>2
  <2>2. next \in [Small(n + 1) -> Int]
    BY <1>2, <2>1
  <2>3. \A s \in Small(n) : s \in Small(n + 1)
    BY <1>1
  <2>4. \A s \in Small(n) : next[s] = it[s]
    BY <2>3
  <2>5. \A s \in Small(n + 1) : s # {} => next[s \ {Picked(s)}] = it[s \ {Picked(s)}]
    BY <2>1, <2>4
  <2>6. Good(n + 1, next)
    <3>1. \A s \in Small(n + 1) : next[s] = IF s = {} THEN 0 ELSE f[Picked(s)] + next[s \ {Picked(s)}]
      BY <2>5
    <3> HIDE DEF next
    <3> QED
      BY <2>2, <3>1
  <2> QED
    BY <2>6
<1> HIDE DEF T
<1>5. \A n \in Nat : n \in T
  BY <1>3, <1>4, ReachesAll
<1>6. PICK it : Good(Cardinality(S), it)
  <2>1. Cardinality(S) \in T
    BY <1>1, <1>5
  <2> QED
    BY <2>1 DEF T
<1>7. Small(Cardinality(S)) = SUBSET S
  BY <1>1
<1>8. it \in [SUBSET S -> Int] /\ it = Adder(f, S, it)
  BY <1>6, <1>7 DEF Adder
<1> QED
  BY <1>8

\* What the fold has for a subset is the sum over it.
LEMMA AdderIs ==
    ASSUME NEW f, NEW S, Values(f, S), NEW it, it = Adder(f, S, it)
    PROVE  \A s \in SUBSET S : it[s] = SumOf(f, s)
<1> DEFINE Fold(s) == CHOOSE a : a = Adder(f, s, a)
           Has(n) == \A R, s, a :
               Values(f, R) /\ s \in SUBSET R /\ Cardinality(s) = n /\ a = Adder(f, R, a) =>
                   a[s] = SumOf(f, s)
           T == {n \in Nat : Has(n)}
<1>1. \A s : Values(f, s) => Fold(s) = Adder(f, s, Fold(s)) /\ SumOf(f, s) = Fold(s)[s]
  BY AdderExists, SumIs
<1>2. \A R, s : Values(f, R) /\ s \in SUBSET R => Values(f, s) /\ Cardinality(s) \in Nat
  BY FS_Subset, FS_CardinalityType DEF Values
<1>3. \A R, s, a : s \in SUBSET R /\ a = Adder(f, R, a) =>
          a[s] = IF s = {} THEN 0 ELSE f[Picked(s)] + a[s \ {Picked(s)}]
  BY DEF Adder
<1> HIDE DEF Fold
<1>4. 0 \in T
  <2> SUFFICES Has(0)
    OBVIOUS
  <2> SUFFICES ASSUME NEW R, NEW s, NEW a, Values(f, R), s \in SUBSET R, Cardinality(s) = 0,
                      a = Adder(f, R, a)
               PROVE  a[s] = SumOf(f, s)
    BY Zenon
  <2>1. s = {} /\ Values(f, s)
    BY <1>2, FS_EmptySet DEF Values
  <2>2. a[s] = 0
    BY <1>3, <2>1
  <2>3. Fold(s)[s] = 0
    BY <1>1, <1>3, <2>1
  <2> QED
    BY <1>1, <2>1, <2>2, <2>3
<1>5. \A n \in Nat : n \in T => n + 1 \in T
  <2> HIDE DEF Has
  <2> SUFFICES ASSUME NEW n \in Nat, Has(n) PROVE Has(n + 1)
    OBVIOUS
  <2> USE DEF Has
  <2> SUFFICES ASSUME NEW R, NEW s, NEW a, Values(f, R), s \in SUBSET R,
                      Cardinality(s) = n + 1, a = Adder(f, R, a)
               PROVE  a[s] = SumOf(f, s)
    BY Zenon
  <2> DEFINE t == s \ {Picked(s)}
  <2>1. Values(f, s) /\ s # {}
    <3>1. n + 1 # 0
      OBVIOUS
    <3> QED
      BY <1>2, <3>1, FS_EmptySet
  <2>2. Picked(s) \in s /\ t \in SUBSET s /\ t \in SUBSET R
    BY <2>1, PickedIs
  <2>3. Cardinality(t) = n
    BY <2>1, <2>2, Removed DEF Values
  <2>4. a[t] = SumOf(f, t)
    BY <2>2, <2>3
  <2>5. Fold(s)[t] = SumOf(f, t)
    BY <1>1, <2>1, <2>2, <2>3
  <2>6. a[s] = f[Picked(s)] + SumOf(f, t)
    BY <1>3, <2>1, <2>4
  <2>7. Fold(s)[s] = f[Picked(s)] + SumOf(f, t)
    BY <1>1, <1>3, <2>1, <2>5
  <2> QED
    BY <1>1, <2>1, <2>6, <2>7
<1> HIDE DEF T
<1>6. \A n \in Nat : n \in T
  BY <1>4, <1>5, ReachesAll
<1> QED
  BY <1>2, <1>6 DEF T

LEMMA SumEmpty == \A f : SumOf(f, {}) = 0
<1> TAKE f
<1>1. Values(f, {})
  BY FS_EmptySet DEF Values
<1>2. PICK it \in [SUBSET {} -> Int] : it = Adder(f, {}, it)
  BY <1>1, AdderExists
<1>3. it[{}] = SumOf(f, {})
  BY <1>1, <1>2, AdderIs
<1>4. it[{}] = 0
  BY <1>2 DEF Adder
<1> QED
  BY <1>3, <1>4

LEMMA SumPicks ==
    ASSUME NEW f, NEW S, Values(f, S), S # {}
    PROVE  SumOf(f, S) = f[Picked(S)] + SumOf(f, S \ {Picked(S)})
<1>1. PICK it \in [SUBSET S -> Int] : it = Adder(f, S, it)
  BY AdderExists
<1>2. it[S] = SumOf(f, S) /\ it[S \ {Picked(S)}] = SumOf(f, S \ {Picked(S)})
  BY <1>1, AdderIs
<1>3. it[S] = f[Picked(S)] + it[S \ {Picked(S)}]
  BY <1>1 DEF Adder
<1> QED
  BY <1>2, <1>3

LEMMA SumType ==
    ASSUME NEW f, NEW S, Values(f, S)
    PROVE  SumOf(f, S) \in Int
<1>1. PICK it \in [SUBSET S -> Int] : it = Adder(f, S, it)
  BY AdderExists
<1>2. it[S] = SumOf(f, S)
  BY <1>1, AdderIs
<1> QED
  BY <1>1, <1>2

\* A sum is that of any of its elements and the others.
LEMMA SumSplit ==
    ASSUME NEW f
    PROVE  \A S : Values(f, S) => \A x \in S : SumOf(f, S) = f[x] + SumOf(f, S \ {x})
<1> DEFINE Has(n) == \A S : Values(f, S) /\ Cardinality(S) = n =>
                                \A x \in S : SumOf(f, S) = f[x] + SumOf(f, S \ {x})
           T == {n \in Nat : Has(n)}
<1>1. 0 \in T
  BY FS_EmptySet DEF Values
<1>2. \A n \in Nat : n \in T => n + 1 \in T
  <2> HIDE DEF Has
  <2> SUFFICES ASSUME NEW n \in Nat, Has(n) PROVE Has(n + 1)
    OBVIOUS
  <2> USE DEF Has
  <2> SUFFICES ASSUME NEW S, Values(f, S), Cardinality(S) = n + 1, NEW x \in S
               PROVE  SumOf(f, S) = f[x] + SumOf(f, S \ {x})
    BY Zenon
  <2> DEFINE y == Picked(S)
  <2>1. y \in S /\ SumOf(f, S) = f[y] + SumOf(f, S \ {y})
    BY SumPicks, PickedIs
  <2>2. CASE x # y
    <3> HIDE DEF y
    <3>1. /\ Values(f, S \ {y}) /\ Cardinality(S \ {y}) = n
          /\ Values(f, S \ {x}) /\ Cardinality(S \ {x}) = n
      BY <2>1, Removed DEF Values
    <3>2. SumOf(f, S \ {y}) = f[x] + SumOf(f, (S \ {y}) \ {x})
      BY <2>2, <3>1
    <3>3. SumOf(f, S \ {x}) = f[y] + SumOf(f, (S \ {x}) \ {y})
      BY <2>1, <2>2, <3>1
    <3>4. (S \ {y}) \ {x} = (S \ {x}) \ {y} /\ Values(f, (S \ {x}) \ {y})
      BY <2>1, <2>2, <3>1, Removed DEF Values
    <3>5. f[x] \in Int /\ f[y] \in Int /\ SumOf(f, (S \ {x}) \ {y}) \in Int
      BY <2>1, <3>4, SumType DEF Values
    <3> QED
      BY <2>1, <3>2, <3>3, <3>4, <3>5
  <2> QED
    BY <2>1, <2>2
<1> HIDE DEF T
<1>3. \A n \in Nat : n \in T
  BY <1>1, <1>2, ReachesAll
<1> QED
  BY <1>3, FS_CardinalityType DEF T, Values

LEMMA SumAdds ==
    ASSUME NEW f, NEW S, NEW x, x \notin S, Values(f, S \cup {x})
    PROVE  SumOf(f, S \cup {x}) = f[x] + SumOf(f, S)
<1>1. (S \cup {x}) \ {x} = S
  OBVIOUS
<1> QED
  BY <1>1, SumSplit

\* Sums depend on the values only.
LEMMA SumSame ==
    ASSUME NEW f, NEW g, NEW S, \A x \in S : f[x] = g[x]
    PROVE  SumOf(f, S) = SumOf(g, S)
<1>1. \A it : Adder(f, S, it) = Adder(g, S, it)
  BY PickedIs DEF Adder
<1>2. (CHOOSE it : it = Adder(f, S, it)) = (CHOOSE it : it = Adder(g, S, it))
  BY <1>1, Zenon
<1> QED
  BY <1>2, SumIs

\* The sum over two sets that have nothing in common.
LEMMA SumUnion ==
    ASSUME NEW f
    PROVE  \A S, R : Values(f, S) /\ Values(f, R) /\ S \cap R = {} =>
               SumOf(f, S \cup R) = SumOf(f, S) + SumOf(f, R)
<1> DEFINE Has(n) == \A S, R : Values(f, S) /\ Values(f, R) /\ S \cap R = {} /\ Cardinality(R) = n =>
                                   SumOf(f, S \cup R) = SumOf(f, S) + SumOf(f, R)
           T == {n \in Nat : Has(n)}
<1>1. Has(0)
  <2> SUFFICES ASSUME NEW S, NEW R, Values(f, S), Values(f, R), S \cap R = {}, Cardinality(R) = 0
               PROVE  SumOf(f, S \cup R) = SumOf(f, S) + SumOf(f, R)
    BY Zenon
  <2>1. R = {} /\ S \cup R = S /\ SumOf(f, S) \in Int /\ SumOf(f, {}) = 0
    BY SumType, SumEmpty, FS_EmptySet DEF Values
  <2> QED
    BY <2>1
<1>2. \A n \in Nat : n \in T => n + 1 \in T
  <2> HIDE DEF Has
  <2> SUFFICES ASSUME NEW n \in Nat, Has(n) PROVE Has(n + 1)
    OBVIOUS
  <2> USE DEF Has
  <2> SUFFICES ASSUME NEW S, NEW R, Values(f, S), Values(f, R), S \cap R = {},
                      Cardinality(R) = n + 1
               PROVE  SumOf(f, S \cup R) = SumOf(f, S) + SumOf(f, R)
    BY Zenon
  <2>1. PICK x \in R : TRUE
    <3>1. n + 1 # 0
      OBVIOUS
    <3> QED
      BY <3>1, FS_EmptySet
  <2> DEFINE Q == R \ {x}
  <2>2. Values(f, Q) /\ Cardinality(Q) = n /\ S \cap Q = {}
    BY <2>1, Removed DEF Values
  <2>3. SumOf(f, S \cup Q) = SumOf(f, S) + SumOf(f, Q)
    BY <2>2
  <2>4. Values(f, S \cup R)
    BY FS_Union DEF Values
  <2>5. SumOf(f, S \cup R) = f[x] + SumOf(f, (S \cup R) \ {x})
    BY <2>1, <2>4, SumSplit
  <2>6. (S \cup R) \ {x} = S \cup Q
    BY <2>1
  <2>7. SumOf(f, R) = f[x] + SumOf(f, Q)
    BY <2>1, SumSplit
  <2>8. f[x] \in Int /\ SumOf(f, S) \in Int /\ SumOf(f, Q) \in Int
    BY <2>1, <2>2, SumType DEF Values
  <2> HIDE DEF Q
  <2> QED
    BY <2>3, <2>5, <2>6, <2>7, <2>8
<1>3. 0 \in T
  BY <1>1
<1> HIDE DEF T
<1>4. \A n \in Nat : n \in T
  BY <1>2, <1>3, ReachesAll
<1>5. \A n \in Nat : Has(n)
  BY <1>4 DEF T
<1> QED
  BY <1>5, FS_CardinalityType DEF Values

\* What of I has the key p, or a key in P.
Keyed(I, key, p) == {i \in I : key[i] = p}
KeyedIn(I, key, P) == {i \in I : key[i] \in P}

\* Sums by the keys in P are the sum over what has a key in P.
LEMMA SumByKey ==
    ASSUME NEW f, NEW I, Values(f, I), NEW key,
           NEW by
    PROVE  \A P : IsFiniteSet(P) /\ (\A p \in P : by[p] = SumOf(f, Keyed(I, key, p))) =>
               SumOf(by, P) = SumOf(f, KeyedIn(I, key, P))
<1> DEFINE Of(p) == {i \in I : key[i] = p}
           In(P) == {i \in I : key[i] \in P}
           Has(n) == \A P : IsFiniteSet(P) /\ Cardinality(P) = n
                              /\ (\A p \in P : by[p] = SumOf(f, Of(p))) =>
                                SumOf(by, P) = SumOf(f, In(P))
           T == {n \in Nat : Has(n)}
<1>0. \A J \in SUBSET I : Values(f, J)
  BY FS_Subset DEF Values
<1>1. Has(0)
  <2> SUFFICES ASSUME NEW P, IsFiniteSet(P), Cardinality(P) = 0 PROVE SumOf(by, P) = SumOf(f, In(P))
    BY Zenon
  <2>1. P = {} /\ In(P) = {}
    BY FS_EmptySet
  <2> QED
    BY <2>1, SumEmpty
<1>2. \A n \in Nat : n \in T => n + 1 \in T
  <2> HIDE DEF Has
  <2> SUFFICES ASSUME NEW n \in Nat, Has(n) PROVE Has(n + 1)
    OBVIOUS
  <2> USE DEF Has
  <2> SUFFICES ASSUME NEW P, IsFiniteSet(P), Cardinality(P) = n + 1,
                      \A p \in P : by[p] = SumOf(f, Of(p))
               PROVE  SumOf(by, P) = SumOf(f, In(P))
    BY Zenon
  <2>1. PICK x \in P : TRUE
    <3>1. n + 1 # 0
      OBVIOUS
    <3> QED
      BY <3>1, FS_EmptySet
  <2>2. IsFiniteSet(P \ {x}) /\ Cardinality(P \ {x}) = n
    BY <2>1, Removed
  <2>3. SumOf(by, P \ {x}) = SumOf(f, In(P \ {x}))
    BY <2>2
  <2>4. \A p \in P : by[p] \in Int
    <3> SUFFICES ASSUME NEW p \in P PROVE SumOf(f, Of(p)) \in Int
      OBVIOUS
    <3>1. Of(p) \in SUBSET I
      OBVIOUS
    <3> QED
      BY <1>0, <3>1, SumType
  <2>5. SumOf(by, P) = by[x] + SumOf(by, P \ {x})
    BY <2>1, <2>4, SumSplit DEF Values
  <2>6. In(P) = In(P \ {x}) \cup Of(x) /\ In(P \ {x}) \cap Of(x) = {}
    BY <2>1
  <2>7. Values(f, In(P \ {x})) /\ Values(f, Of(x))
    BY <1>0
  <2>8. SumOf(f, In(P)) = SumOf(f, In(P \ {x})) + SumOf(f, Of(x))
    BY <2>6, <2>7, SumUnion
  <2>9. SumOf(f, In(P \ {x})) \in Int /\ SumOf(f, Of(x)) \in Int
    BY <2>7, SumType
  <2> HIDE DEF In, Of
  <2> QED
    BY <2>1, <2>3, <2>5, <2>8, <2>9
<1>3. 0 \in T
  BY <1>1
<1> HIDE DEF T
<1>4. \A n \in Nat : n \in T
  BY <1>2, <1>3, ReachesAll
<1>5. \A n \in Nat : Has(n)
  BY <1>4 DEF T
<1> QED
  BY <1>5, FS_CardinalityType DEF Keyed, KeyedIn

LEMMA AbsIs == \A a, b, c \in Int : Abs(a - b) <= c <=> a - b <= c /\ b - a <= c
BY DEF Abs

LEMMA Product == \A k, n \in Int : k * (n + 1) = k * n + k /\ k * n \in Int
OBVIOUS

\* Two sums differ by no more than their terms do, times those that differ.
LEMMA SumDistance ==
    ASSUME NEW f, NEW g, NEW k \in Nat
    PROVE  \A S, D : /\ Values(f, S) /\ Values(g, S) /\ D \subseteq S
                     /\ \A x \in D : Abs(f[x] - g[x]) <= k
                     /\ (\A x \in S \ D : f[x] = g[x])
                     => Abs(SumOf(f, S) - SumOf(g, S)) <= k * Cardinality(D)
<1> DEFINE Close(S, D) == /\ Values(f, S) /\ Values(g, S) /\ D \subseteq S
                          /\ \A x \in D : Abs(f[x] - g[x]) <= k
                          /\ \A x \in S \ D : f[x] = g[x]
           Has(n) == \A S, D : Close(S, D) /\ Cardinality(D) = n =>
                                   Abs(SumOf(f, S) - SumOf(g, S)) <= k * n
           T == {n \in Nat : Has(n)}
<1>1. Has(0)
  <2> SUFFICES ASSUME NEW S, NEW D, Close(S, D), Cardinality(D) = 0
               PROVE  Abs(SumOf(f, S) - SumOf(g, S)) <= k * 0
    BY Zenon
  <2>1. D = {}
    BY FS_Subset, FS_EmptySet DEF Values
  <2>2. SumOf(f, S) = SumOf(g, S)
    BY <2>1, SumSame
  <2>3. SumOf(f, S) \in Int
    BY SumType
  <2> QED
    BY <2>2, <2>3 DEF Abs
<1>2. \A n \in Nat : n \in T => n + 1 \in T
  <2> HIDE DEF Has
  <2> SUFFICES ASSUME NEW n \in Nat, Has(n) PROVE Has(n + 1)
    OBVIOUS
  <2> USE DEF Has
  <2> HIDE DEF Close
  <2> SUFFICES ASSUME NEW S, NEW D, Close(S, D), Cardinality(D) = n + 1
               PROVE  Abs(SumOf(f, S) - SumOf(g, S)) <= k * (n + 1)
    BY Zenon
  <2> USE DEF Close
  <2>0. IsFiniteSet(D)
    BY FS_Subset DEF Values
  <2>1. PICK x \in D : TRUE
    <3>1. n + 1 # 0
      OBVIOUS
    <3> QED
      BY <2>0, <3>1, FS_EmptySet
  <2>2. Close(S \ {x}, D \ {x}) /\ Cardinality(D \ {x}) = n
    BY <2>0, <2>1, Removed DEF Values
  <2>3. Abs(SumOf(f, S \ {x}) - SumOf(g, S \ {x})) <= k * n
    <3> HIDE DEF Close
    <3> QED
      BY <2>2
  <2>4. /\ SumOf(f, S) = f[x] + SumOf(f, S \ {x}) /\ SumOf(g, S) = g[x] + SumOf(g, S \ {x})
        /\ f[x] \in Int /\ g[x] \in Int /\ Abs(f[x] - g[x]) <= k
    BY <2>1, SumSplit DEF Values
  <2>5. SumOf(f, S \ {x}) \in Int /\ SumOf(g, S \ {x}) \in Int
    BY <2>2, SumType
  <2>6. k * (n + 1) = k * n + k /\ k * n \in Int
    BY Product
  <2> HIDE DEF Close
  <2> QED
    BY <2>3, <2>4, <2>5, <2>6 DEF Abs
<1>3. 0 \in T
  BY <1>1
<1> HIDE DEF T
<1>4. \A n \in Nat : n \in T
  BY <1>2, <1>3, ReachesAll
<1>5. \A n \in Nat : Has(n)
  BY <1>4 DEF T
<1>6. \A S, D : Close(S, D) => Cardinality(D) \in Nat
  BY FS_Subset, FS_CardinalityType DEF Values
<1> HIDE DEF Has
<1>7. \A S, D : Close(S, D) => Abs(SumOf(f, S) - SumOf(g, S)) <= k * Cardinality(D)
  <2> HIDE DEF Close
  <2> QED
    BY <1>5, <1>6 DEF Has
<1> QED
  BY <1>7

\* Equal terms add up to so many times one of them.
LEMMA SumConstant ==
    ASSUME NEW f, NEW c \in Int
    PROVE  \A S : IsFiniteSet(S) /\ (\A x \in S : f[x] = c) => SumOf(f, S) = c * Cardinality(S)
<1> DEFINE Has(n) == \A S : IsFiniteSet(S) /\ (\A x \in S : f[x] = c) /\ Cardinality(S) = n =>
                                SumOf(f, S) = c * n
           T == {n \in Nat : Has(n)}
<1>1. Has(0)
  <2> SUFFICES ASSUME NEW S, IsFiniteSet(S), Cardinality(S) = 0 PROVE SumOf(f, S) = c * 0
    BY Zenon
  <2> QED
    BY SumEmpty, FS_EmptySet
<1>2. \A n \in Nat : n \in T => n + 1 \in T
  <2> HIDE DEF Has
  <2> SUFFICES ASSUME NEW n \in Nat, Has(n) PROVE Has(n + 1)
    OBVIOUS
  <2> USE DEF Has
  <2> SUFFICES ASSUME NEW S, IsFiniteSet(S), \A x \in S : f[x] = c, Cardinality(S) = n + 1
               PROVE  SumOf(f, S) = c * (n + 1)
    BY Zenon
  <2>1. PICK x \in S : TRUE
    <3>1. n + 1 # 0
      OBVIOUS
    <3> QED
      BY <3>1, FS_EmptySet
  <2>2. IsFiniteSet(S \ {x}) /\ Cardinality(S \ {x}) = n
    BY <2>1, Removed
  <2>3. SumOf(f, S \ {x}) = c * n
    BY <2>2
  <2>4. SumOf(f, S) = c + SumOf(f, S \ {x})
    BY <2>1, SumSplit DEF Values
  <2>5. c * (n + 1) = c * n + c /\ c * n \in Int
    BY Product
  <2> QED
    BY <2>3, <2>4, <2>5
<1>3. 0 \in T
  BY <1>1
<1> HIDE DEF T
<1>4. \A n \in Nat : n \in T
  BY <1>2, <1>3, ReachesAll
<1>5. \A n \in Nat : Has(n)
  BY <1>4 DEF T
<1> QED
  BY <1>5, FS_CardinalityType

LEMMA Distributes == \A k, a, b \in Int : k * (a + b) = k * a + k * b /\ k * a \in Int
OBVIOUS

\* b lies between k times a and, for each of n, k - 1 more.
Between(k, a, b, n) == k * a <= b /\ b <= k * a + (k - 1) * n

LEMMA BetweenAdds ==
    ASSUME NEW k \in Nat, NEW a \in Int, NEW b \in Int, NEW n \in Int,
           NEW c \in Int, NEW d \in Int, NEW m \in Int, Between(k, a, b, n), Between(k, c, d, m)
    PROVE  Between(k, a + c, b + d, n + m)
<1>1. k * (a + c) = k * a + k * c /\ k * a \in Int /\ k * c \in Int
  BY Distributes
<1>2. (k - 1) * (n + m) = (k - 1) * n + (k - 1) * m /\ (k - 1) * n \in Int /\ (k - 1) * m \in Int
  BY Distributes
<1>3. k * a <= b /\ b <= k * a + (k - 1) * n /\ k * c <= d /\ d <= k * c + (k - 1) * m
  BY DEF Between
<1>4. k * (a + c) <= b + d
  BY <1>1, <1>3
<1>5. b + d <= k * (a + c) + (k - 1) * (n + m)
  BY <1>1, <1>2, <1>3
<1> QED
  BY <1>4, <1>5 DEF Between

\* Sums lie between the sums of what each of their terms lies between.
LEMMA SumBetween ==
    ASSUME NEW k \in Nat, NEW f, NEW g, NEW h
    PROVE  \A S : /\ Values(f, S) /\ Values(g, S) /\ Values(h, S)
                  /\ \A x \in S : Between(k, f[x], g[x], h[x])
                  => Between(k, SumOf(f, S), SumOf(g, S), SumOf(h, S))
<1> DEFINE Fits(S) == /\ Values(f, S) /\ Values(g, S) /\ Values(h, S)
                      /\ \A x \in S : Between(k, f[x], g[x], h[x])
           Has(n) == \A S : Fits(S) /\ Cardinality(S) = n =>
                                Between(k, SumOf(f, S), SumOf(g, S), SumOf(h, S))
           T == {n \in Nat : Has(n)}
<1>1. Has(0)
  <2> SUFFICES ASSUME NEW S, Fits(S), Cardinality(S) = 0
               PROVE  Between(k, SumOf(f, S), SumOf(g, S), SumOf(h, S))
    BY Zenon
  <2>1. SumOf(f, S) = 0 /\ SumOf(g, S) = 0 /\ SumOf(h, S) = 0
    <3>1. S = {}
      BY FS_EmptySet DEF Values
    <3> QED
      BY <3>1, SumEmpty
  <2>2. k * 0 = 0 /\ (k - 1) * 0 = 0
    OBVIOUS
  <2> HIDE DEF Fits
  <2> QED
    BY <2>1, <2>2 DEF Between
<1>2. \A n \in Nat : n \in T => n + 1 \in T
  <2> HIDE DEF Has
  <2> SUFFICES ASSUME NEW n \in Nat, Has(n) PROVE Has(n + 1)
    OBVIOUS
  <2> USE DEF Has
  <2> HIDE DEF Fits
  <2> SUFFICES ASSUME NEW S, Fits(S), Cardinality(S) = n + 1
               PROVE  Between(k, SumOf(f, S), SumOf(g, S), SumOf(h, S))
    BY Zenon
  <2> USE DEF Fits
  <2>1. PICK x \in S : TRUE
    <3>1. n + 1 # 0
      OBVIOUS
    <3> QED
      BY <3>1, FS_EmptySet DEF Values
  <2>2. Fits(S \ {x}) /\ Cardinality(S \ {x}) = n
    BY <2>1, Removed DEF Values
  <2>3. Between(k, SumOf(f, S \ {x}), SumOf(g, S \ {x}), SumOf(h, S \ {x}))
    <3> HIDE DEF Fits
    <3> QED
      BY <2>2
  <2>4. /\ SumOf(f, S) = f[x] + SumOf(f, S \ {x}) /\ SumOf(g, S) = g[x] + SumOf(g, S \ {x})
        /\ SumOf(h, S) = h[x] + SumOf(h, S \ {x})
    BY <2>1, SumSplit
  <2>5. f[x] \in Int /\ g[x] \in Int /\ h[x] \in Int /\ Between(k, f[x], g[x], h[x])
    BY <2>1 DEF Values
  <2>6. SumOf(f, S \ {x}) \in Int /\ SumOf(g, S \ {x}) \in Int /\ SumOf(h, S \ {x}) \in Int
    BY <2>2, SumType
  <2> HIDE DEF Fits
  <2> QED
    BY <2>3, <2>4, <2>5, <2>6, BetweenAdds
<1>3. 0 \in T
  BY <1>1
<1> HIDE DEF T
<1>4. \A n \in Nat : n \in T
  BY <1>2, <1>3, ReachesAll
<1>5. \A n \in Nat : Has(n)
  BY <1>4 DEF T
<1>6. \A S : Fits(S) => Cardinality(S) \in Nat
  BY FS_CardinalityType DEF Values
<1>7. \A S : Fits(S) => Between(k, SumOf(f, S), SumOf(g, S), SumOf(h, S))
  <2> HIDE DEF Fits
  <2> QED
    BY <1>5, <1>6
<1> QED
  BY <1>7

-----------------------------------------------------------------------------
(* Costs: a window matches the instants it covers.                         *)

\* Rows of k: who is in an earlier one comes k earlier at least.
LEMMA Rows ==
    ASSUME NEW k \in Nat, NEW a \in Int, NEW b \in Int, a < b
    PROVE  a * k + k <= b * k
<1>1. PICK d \in Nat : b = a + 1 + d
  <2>1. b - a - 1 \in Nat /\ b = a + 1 + (b - a - 1)
    OBVIOUS
  <2> QED
    BY <2>1
<1>2. b * k = a * k + k + d * k /\ d * k \in Nat /\ a * k \in Int
  BY <1>1
<1> QED
  BY <1>2

LEMMA DivMod ==
    ASSUME NEW t \in Int, NEW k \in Nat \ {0}
    PROVE  \E q \in Int, r \in 0 .. k - 1 :
               t \div k = q /\ t % k = r /\ t = k * q + r /\ (t \in Nat => q \in Nat)
<1>1. PICK q \in Int, r \in 0 .. k - 1 : t \div k = q /\ t % k = r
  OBVIOUS
<1>2. t = k * q + r
  BY <1>1
<1>3. ASSUME t \in Nat, q < 0 PROVE FALSE
  <2>1. q * k + k <= 0 * k
    BY <1>3, Rows
  <2> QED
    BY <1>2, <1>3, <2>1
<1> QED
  BY <1>1, <1>2, <1>3

LEMMA ModIs ==
    ASSUME NEW k \in Nat \ {0}, NEW a \in Int, NEW b \in 0 .. k - 1, NEW t \in Int, t = k * a + b
    PROVE  t % k = b /\ t \div k = a
OBVIOUS

\* The day before, in a week of any length.
LEMMA DayBefore ==
    ASSUME NEW d \in Int
    PROVE  ((d % Week) - 1) % Week = (d - 1) % Week
<1>1. Week \in Nat \ {0}
  BY TariffAssumption
<1>2. PICK a \in Int, b \in 0 .. Week - 1 : d % Week = b /\ d = Week * a + b /\ Week * a \in Int
  <2>1. \E a \in Int, b \in 0 .. Week - 1 :
            d \div Week = a /\ d % Week = b /\ d = Week * a + b /\ (d \in Nat => a \in Nat)
    BY <1>1, DivMod
  <2> QED
    BY <1>1, <2>1
<1>3. CASE b = 0
  <2>1. (d - 1) % Week = Week - 1
    <3>1. d - 1 = Week * (a - 1) + (Week - 1)
      BY <1>1, <1>2, <1>3
    <3> QED
      BY <1>1, <1>2, <3>1, ModIs
  <2>2. (b - 1) % Week = Week - 1
    <3>1. b - 1 = Week * (-1) + (Week - 1)
      BY <1>1, <1>3
    <3> QED
      BY <1>1, <1>2, <3>1, ModIs
  <2> QED
    BY <1>2, <2>1, <2>2
<1>4. CASE b > 0
  <2>1. (d - 1) % Week = b - 1
    <3>1. d - 1 = Week * a + (b - 1)
      BY <1>2
    <3> QED
      BY <1>1, <1>2, <1>4, <3>1, ModIs
  <2>2. (b - 1) % Week = b - 1
    <3>1. b - 1 = Week * 0 + (b - 1)
      BY <1>1, <1>2
    <3> QED
      BY <1>1, <1>2, <1>4, <3>1, ModIs
  <2> QED
    BY <1>2, <2>1, <2>2
<1> QED
  BY <1>2, <1>3, <1>4

\* The code looks at the day of an instant and at the one before; no window that
\* begins on another day goes on so long.
LEMMA MatchesIsCovers ==
    ASSUME NEW w \in [days : SUBSET Int, start : 0 .. Day - 1, end : 0 .. Day, price : Int],
           NEW t \in Nat
    PROVE  Matches(w, t) <=> Covers(w, t)
<1> DEFINE InDay(d) == d * Day + w.start <= t
                       /\ t < (IF w.start < w.end THEN d * Day + w.end ELSE (d + 1) * Day + w.end)
<1>1. Day \in Nat \ {0} /\ w.start \in 0 .. Day - 1 /\ w.end \in 0 .. Day
  BY TariffAssumption
<1>0. PICK q \in Nat, r \in 0 .. Day - 1 : t \div Day = q /\ t % Day = r /\ t = Day * q + r
  <2>1. \E q \in Int, r \in 0 .. Day - 1 :
            t \div Day = q /\ t % Day = r /\ t = Day * q + r /\ (t \in Nat => q \in Nat)
    <3>1. t \in Int /\ Day \in Nat \ {0}
      BY <1>1
    <3> QED
      BY <3>1, DivMod, Zenon
  <2> QED
    BY <2>1, Zenon
<1>2. q \in Nat /\ r \in 0 .. Day - 1 /\ t = q * Day + r /\ q * Day \in Int /\ (q - 1) * Day \in Int
      /\ (q - 1) * Day = q * Day - Day /\ (q + 1) * Day = q * Day + Day
  BY <1>0, <1>1
<1>3. InDay(q) <=> w.start <= r /\ (w.start < w.end => r < w.end)
  BY <1>1, <1>2
<1>4. InDay(q - 1) <=> ~(w.start < w.end) /\ r < w.end
  BY <1>1, <1>2
<1>5. ASSUME NEW d \in -1 .. q, InDay(d) PROVE d = q \/ d = q - 1
  <2> SUFFICES ASSUME d + 1 < q PROVE FALSE
    BY <1>2
  <2>1. (d + 1) * Day + Day <= q * Day /\ (d + 1) * Day = d * Day + Day /\ d * Day \in Int
    BY <1>1, <1>2, Rows
  <2> QED
    BY <1>1, <1>2, <1>5, <2>1
<1>6. Covers(w, t) <=> \/ q % Week \in w.days /\ InDay(q)
                       \/ (q - 1) % Week \in w.days /\ InDay(q - 1)
  <2>1. Covers(w, t) <=> \E d \in -1 .. q : d % Week \in w.days /\ InDay(d)
    BY <1>0 DEF Covers
  <2>2. q \in -1 .. q /\ q - 1 \in -1 .. q
    BY <1>2
  <2> HIDE DEF InDay
  <2> QED
    BY <1>5, <2>1, <2>2
<1>7. Weekday(t) = q % Week /\ (Weekday(t) - 1) % Week = (q - 1) % Week /\ TimeOfDay(t) = r
  BY <1>0, DayBefore DEF Weekday, TimeOfDay
<1>8. Matches(w, t) <=>
          IF w.start < w.end
          THEN q % Week \in w.days /\ w.start <= r /\ r < w.end
          ELSE \/ r >= w.start /\ q % Week \in w.days
               \/ r < w.start /\ r < w.end /\ (q - 1) % Week \in w.days
  BY <1>7 DEF Matches
<1> HIDE DEF InDay
<1>9. (r >= w.start <=> w.start <= r) /\ (~(w.start < w.end) /\ r < w.end => r < w.start)
  BY <1>1, <1>2
<1> QED
  BY <1>3, <1>4, <1>6, <1>8, <1>9

\* The price that the code finds is the owner's.
LEMMA HomePriceIsFair ==
    ASSUME NEW tariffs, NEW n \in Nat, DOMAIN tariffs.windows = 1 .. n,
           \A i \in 1 .. n :
               tariffs.windows[i] \in [days : SUBSET Int, start : 0 .. Day - 1, end : 0 .. Day, price : Int],
           NEW t \in Nat
    PROVE  HomePrice(tariffs, t) = FairPrice(tariffs, t)
<1> DEFINE Fits(i) == Covers(tariffs.windows[i], t)
           fits == {i \in 1 .. n : Fits(i)}
           First(i) == Fits(i) /\ \A j \in 1 .. i - 1 : ~Fits(j)
<1>1. \A i \in 1 .. n : Matches(tariffs.windows[i], t) <=> Fits(i)
  BY MatchesIsCovers
<1>2. HomePrice(tariffs, t) = IF fits = {} THEN tariffs.home ELSE tariffs.windows[Min(fits)].price
  <2>1. {i \in DOMAIN tariffs.windows : Matches(tariffs.windows[i], t)} = fits
    BY <1>1
  <2> HIDE DEF fits
  <2> QED
    BY <2>1 DEF HomePrice
<1>3. FairPrice(tariffs, t) = IF \E i \in 1 .. n : Fits(i)
                              THEN tariffs.windows[CHOOSE i \in 1 .. n : First(i)].price
                              ELSE tariffs.home
  BY DEF FairPrice
<1>4. CASE fits = {}
  BY <1>2, <1>3, <1>4
<1>5. CASE fits # {}
  <2>1. PICK x \in fits : \A y \in fits : x <= y
    <3>1. fits \subseteq Nat
      OBVIOUS
    <3> HIDE DEF fits
    <3> QED
      BY <1>5, <3>1, LeastExists
  <2>2. \A y \in fits : (\A z \in fits : y <= z) => y = x
    BY <2>1
  <2>3. Min(fits) = x
    BY <2>1, <2>2 DEF Min
  <2>4. \A i \in 1 .. n : First(i) <=> i = x
    <3>1. First(x)
      <4> SUFFICES ASSUME NEW j \in 1 .. x - 1, Fits(j) PROVE FALSE
        BY <2>1
      <4>1. j \in fits /\ j < x
        BY <2>1
      <4> QED
        BY <2>1, <4>1
    <3>2. ASSUME NEW i \in 1 .. n, First(i) PROVE i = x
      <4>1. i \in fits /\ x <= i
        BY <2>1, <3>2
      <4>2. x < i => x \in 1 .. i - 1
        BY <2>1
      <4> QED
        BY <2>1, <3>2, <4>1, <4>2
    <3> HIDE DEF First
    <3> QED
      BY <3>1, <3>2
  <2>5. (CHOOSE i \in 1 .. n : First(i)) = x
    <3> HIDE DEF First
    <3> QED
      BY <2>1, <2>4
  <2>6. \E i \in 1 .. n : Fits(i)
    BY <2>1
  <2> HIDE DEF First, fits, Fits
  <2> QED
    BY <1>2, <1>3, <1>5, <2>3, <2>5, <2>6
<1> QED
  BY <1>4, <1>5

-----------------------------------------------------------------------------
(* Costs: a slice costs what its first step does.                          *)

\* Charging from a to b at the price of a, against that of each step.
LEMMA SliceCost ==
    ASSUME NEW p, NEW a \in Int, NEW b \in Int, a < b, b - a <= Slice, NEW k \in Nat,
           \A u \in a .. b - 1 : p[u] \in Int /\ Abs(p[a] - p[u]) <= k
    PROVE  /\ Abs((b - a) * p[a] - SumOf(p, a .. b - 1)) <= k * (Slice - 1)
           /\ SumOf(p, a .. b - 1) \in Int
           /\ (\A u \in a + 1 .. b - 1 : p[u] = p[u - 1]) =>
                  (b - a) * p[a] = SumOf(p, a .. b - 1)
<1> DEFINE S == a .. b - 1
           D == a + 1 .. b - 1
           g == [u \in S |-> p[a]]
           n == b - a - 1
<1>1. /\ n \in Nat /\ a \in S /\ D \subseteq S /\ S \ D = {a} /\ p[a] \in Int /\ Slice \in Nat \ {0}
  BY TariffAssumption
<1>2. IsFiniteSet(S) /\ Cardinality(S) = n + 1 /\ Cardinality(D) = n
  <2>1. a + 1 \in Int /\ b - 1 \in Int
    OBVIOUS
  <2>2. IsFiniteSet(S) /\ Cardinality(S) = IF a > b - 1 THEN 0 ELSE (b - 1) - a + 1
    BY <2>1, FS_Interval
  <2>3. Cardinality(D) = IF a + 1 > b - 1 THEN 0 ELSE (b - 1) - (a + 1) + 1
    BY <2>1, FS_Interval
  <2> HIDE DEF S, D
  <2> QED
    BY <2>2, <2>3
<1>3. Values(p, S) /\ Values(g, S) /\ SumOf(p, S) \in Int
  BY <1>1, <1>2, SumType DEF Values
<1> HIDE DEF S, D
<1>4. SumOf(g, S) = p[a] * (n + 1) /\ p[a] * (n + 1) = (b - a) * p[a]
  <2>1. \A x \in S : g[x] = p[a]
    OBVIOUS
  <2> HIDE DEF g
  <2>2. SumOf(g, S) = p[a] * Cardinality(S)
    <3>1. PICK price \in Int : price = p[a]
      BY <1>1
    <3>2. IsFiniteSet(S) /\ \A x \in S : g[x] = price
      BY <1>2, <2>1, <3>1
    <3> QED
      BY <3>1, <3>2, SumConstant
  <2>3. n + 1 = b - a
    OBVIOUS
  <2>4. p[a] * (b - a) = (b - a) * p[a]
    BY <1>1
  <2> HIDE DEF n
  <2> QED
    BY <1>2, <2>2, <2>3, <2>4
<1>5. Abs(SumOf(g, S) - SumOf(p, S)) <= k * n
  <2>1. \A x \in S : Abs(g[x] - p[x]) <= k
    BY DEF S
  <2>2. \A x \in S \ D : g[x] = p[x]
    BY <1>1
  <2> HIDE DEF g
  <2> QED
    BY <1>1, <1>2, <1>3, <2>1, <2>2, SumDistance
<1>6. k * n <= k * (Slice - 1)
  <2>1. PICK d \in Nat : Slice - 1 = n + d
    <3>1. Slice - 1 - n \in Nat /\ Slice - 1 = n + (Slice - 1 - n)
      BY <1>1
    <3> QED
      BY <3>1
  <2>2. k * (n + d) = k * n + k * d /\ k * n \in Nat /\ k * d \in Nat
    BY <1>1
  <2> QED
    BY <2>1, <2>2
<1>7. ASSUME \A u \in D : p[u] = p[u - 1] PROVE SumOf(g, S) = SumOf(p, S)
  <2> DEFINE T == {i \in Nat : i <= n => p[a + i] = p[a]}
  <2>1. 0 \in T
    OBVIOUS
  <2>2. \A i \in Nat : i < n /\ i \in T => i + 1 \in T
    <3> SUFFICES ASSUME NEW i \in Nat, i < n, p[a + i] = p[a] PROVE p[a + (i + 1)] = p[a]
      OBVIOUS
    <3>1. a + i + 1 \in D /\ (a + i + 1) - 1 = a + i
      BY DEF D
    <3>2. p[a + i + 1] = p[(a + i + 1) - 1]
      BY <1>7, <3>1
    <3> QED
      BY <3>1, <3>2
  <2> HIDE DEF T
  <2>3. \A i \in 0 .. n : i \in T
    BY <1>1, <2>1, <2>2, Reaches
  <2>4. \A u \in S : u - a \in 0 .. n /\ a + (u - a) = u
    BY DEF S
  <2>5. \A u \in S : g[u] = p[u]
    BY <2>3, <2>4 DEF T
  <2> QED
    BY <2>5, SumSame
<1>8. k * n \in Int /\ k * (Slice - 1) \in Int /\ SumOf(g, S) \in Int
  BY <1>1, <1>3, SumType
<1> HIDE DEF g, n
<1>9. Abs(SumOf(g, S) - SumOf(p, S)) <= k * (Slice - 1)
  BY <1>3, <1>5, <1>6, <1>8 DEF Abs
<1> QED
  BY <1>3, <1>4, <1>7, <1>9 DEF S, D, n

\* Every step of a charge is in the slice that begins at or last before it.
LEMMA SlicesPartition ==
    ASSUME NEW charge, charge.start \in Int, charge.end \in Int,
           NEW t \in SliceStarts(charge)
    PROVE  /\ t \in Int /\ t < SliceEnd(charge, t) /\ SliceEnd(charge, t) - t <= Slice
           /\ SliceEnd(charge, t) \in Int /\ SliceEnd(charge, t) <= charge.end /\ charge.start <= t
           /\ {u \in charge.start .. charge.end - 1 : u - ((u - charge.start) % Slice) = t}
                = t .. SliceEnd(charge, t) - 1
<1> DEFINE start == charge.start
           end == charge.end
           last == SliceEnd(charge, t)
<1>1. Slice \in Nat \ {0}
  BY TariffAssumption
<1>2. t \in start .. end - 1 /\ (t - start) % Slice = 0
  BY DEF SliceStarts
<1>3. PICK m \in Int : t - start = Slice * m
  <2>1. PICK d \in Int : d = t - start
    BY <1>2
  <2>2. PICK q \in Int, r \in 0 .. Slice - 1 :
            d \div Slice = q /\ d % Slice = r /\ d = Slice * q + r /\ (d \in Nat => q \in Nat)
    BY <1>1, DivMod
  <2>3. d = Slice * q
    BY <1>1, <1>2, <2>1, <2>2
  <2> QED
    BY <2>1, <2>3
<1>4. last \in Int /\ last = IF t + Slice < end THEN t + Slice ELSE end
  BY <1>1, <1>2 DEF SliceEnd
<1> HIDE DEF last
<1>5. t < last /\ last - t <= Slice /\ last <= end /\ start <= t
  BY <1>1, <1>2, <1>4
<1>6. ASSUME NEW u \in t .. last - 1 PROVE u \in start .. end - 1 /\ u - ((u - start) % Slice) = t
  <2>0. u \in Int /\ t <= u /\ u < last
    BY <1>2, <1>4
  <2>1. PICK d \in Int, r \in 0 .. Slice - 1 : d = u - start /\ r = u - t /\ d = Slice * m + r
    <3>1. u - start = Slice * m + (u - t) /\ u - t \in 0 .. Slice - 1 /\ u - start \in Int
      BY <1>1, <1>2, <1>3, <1>4, <1>5, <2>0
    <3> QED
      BY <3>1
  <2>2. d % Slice = r
    <3>1. m \in Int /\ r \in 0 .. Slice - 1 /\ d \in Int /\ d = Slice * m + r
      BY <1>3, <2>1
    <3> QED
      BY <1>1, <3>1
  <2>3. (u - start) % Slice = u - t
    BY <2>1, <2>2, Zenon
  <2>4. u - (u - t) = t
    BY <1>2, <2>0
  <2>5. u - ((u - start) % Slice) = t
    BY <1>1, <1>2, <2>0, <2>3, <2>4
  <2>6. u \in start .. end - 1
    BY <1>2, <1>4, <1>5, <2>0
  <2> QED
    BY <2>5, <2>6
<1>7. ASSUME NEW u \in start .. end - 1, u - ((u - start) % Slice) = t PROVE u \in t .. last - 1
  <2>1. PICK d \in Nat : d = u - start
    OBVIOUS
  <2>2. PICK r \in 0 .. Slice - 1 : r = d % Slice
    BY <1>1
  <2>3. (u - start) % Slice = r
    BY <2>1, <2>2, Zenon
  <2>4. u - r = t
    BY <1>1, <1>7, <2>3
  <2> QED
    BY <1>1, <1>2, <1>4, <2>4
<1> QED
  BY <1>2, <1>4, <1>5, <1>6, <1>7 DEF last

LEMMA SliceOfStep ==
    ASSUME NEW charge, charge.start \in Int, charge.end \in Int,
           NEW u \in charge.start .. charge.end - 1
    PROVE  u - ((u - charge.start) % Slice) \in SliceStarts(charge)
<1>1. Slice \in Nat \ {0}
  BY TariffAssumption
<1>2. PICK d \in Nat : d = u - charge.start
  OBVIOUS
<1>3. PICK q \in Int, r \in 0 .. Slice - 1 :
          d \div Slice = q /\ d % Slice = r /\ d = Slice * q + r /\ (d \in Nat => q \in Nat)
  <2>1. d \in Int
    OBVIOUS
  <2> QED
    BY <1>1, <2>1, DivMod, Zenon
<1>4. PICK e \in Int : e = Slice * q + 0 /\ e = d - r /\ e \in Nat
  <2>1. Slice * q + 0 = d - r /\ Slice * q + 0 \in Nat
    BY <1>1, <1>3
  <2> QED
    BY <2>1
<1>5. e % Slice = 0
  <2>1. 0 \in 0 .. Slice - 1
    BY <1>1
  <2> QED
    BY <1>1, <1>3, <1>4, <2>1
<1>6. u - r - charge.start = e /\ u - r \in charge.start .. charge.end - 1
  BY <1>2, <1>3, <1>4
<1>7. u - ((u - charge.start) % Slice) = u - r
  <2>1. (u - charge.start) % Slice = r
    BY <1>2, <1>3, Zenon
  <2> QED
    BY <1>1, <2>1
<1> HIDE DEF SliceStarts
<1> QED
  BY <1>5, <1>6, <1>7 DEF SliceStarts

\* The slices within which the price p of a step is not that of the step before.
Changing(charge, p) ==
    {t \in SliceStarts(charge) : \E u \in t + 1 .. SliceEnd(charge, t) - 1 : p[u] # p[u - 1]}

\* What a charge costs by slices is what it costs by steps, up to the slices
\* within which the price changes.
LEMMA CostBySlices ==
    ASSUME NEW charge, charge.start \in Int, charge.end \in Int, NEW p, NEW k \in Nat,
           \A u \in charge.start .. charge.end - 1 : p[u] \in Int,
           \A u, v \in charge.start .. charge.end - 1 : Abs(p[u] - p[v]) <= k,
           NEW f, \A t \in SliceStarts(charge) : f[t] = (SliceEnd(charge, t) - t) * p[t]
    PROVE  Abs(SumOf(f, SliceStarts(charge)) - SumOf(p, charge.start .. charge.end - 1))
               <= k * (Slice - 1) * Cardinality(Changing(charge, p))
<1> DEFINE steps == charge.start .. charge.end - 1
           starts == SliceStarts(charge)
           split == {t \in starts : \E u \in t + 1 .. SliceEnd(charge, t) - 1 : p[u] # p[u - 1]}
           key == [u \in steps |-> u - ((u - charge.start) % Slice)]
           by == [t \in starts |-> SumOf(p, t .. SliceEnd(charge, t) - 1)]
<1>1. Slice \in Nat \ {0} /\ k * (Slice - 1) \in Nat
  BY TariffAssumption
<1>2. IsFiniteSet(steps) /\ IsFiniteSet(starts) /\ starts \subseteq steps
  <2>1. IsFiniteSet(steps)
    BY FS_Interval
  <2>2. starts \subseteq steps
    BY DEF SliceStarts
  <2> QED
    BY <2>1, <2>2, FS_Subset
<1>3. \A t \in starts : {u \in steps : key[u] = t} = t .. SliceEnd(charge, t) - 1
  BY SlicesPartition
<1>4. {u \in steps : key[u] \in starts} = steps
  BY SliceOfStep
<1>5. SumOf(by, starts) = SumOf(p, steps)
  <2>1. Values(p, steps)
    BY <1>2 DEF Values
  <2>2. \A t \in starts : by[t] = SumOf(p, {u \in steps : key[u] = t})
    <3> HIDE DEF key
    <3> QED
      BY <1>3
  <2>3. KeyedIn(steps, key, starts) = steps /\ \A t \in starts : by[t] = SumOf(p, Keyed(steps, key, t))
    <3> HIDE DEF key, steps, by
    <3> QED
      BY <1>4, <2>2 DEF Keyed, KeyedIn
  <2> HIDE DEF by, key, starts, steps
  <2>4. SumOf(by, starts) = SumOf(p, KeyedIn(steps, key, starts))
    BY <1>2, <2>1, <2>3, SumByKey
  <2> QED
    BY <2>3, <2>4
<1>6. ASSUME NEW t \in starts
      PROVE  /\ by[t] \in Int /\ f[t] \in Int /\ Abs(f[t] - by[t]) <= k * (Slice - 1)
             /\ t \notin split => f[t] = by[t]
  <2> DEFINE last == SliceEnd(charge, t)
  <2>1. /\ t \in Int /\ last \in Int /\ t < last /\ last - t <= Slice
        /\ \A u \in t .. last - 1 : u \in steps
    BY SlicesPartition
  <2>2. f[t] = (last - t) * p[t] /\ by[t] = SumOf(p, t .. last - 1) /\ t \in steps
    BY <1>2
  <2>3. t \notin split => \A u \in t + 1 .. last - 1 : p[u] = p[u - 1]
    OBVIOUS
  <2>4. f[t] \in Int
    BY <2>1, <2>2
  <2> HIDE DEF last, by, split
  <2>5. \A u \in t .. last - 1 : p[u] \in Int /\ Abs(p[t] - p[u]) <= k
    BY <2>1, <2>2
  <2>6. /\ Abs((last - t) * p[t] - SumOf(p, t .. last - 1)) <= k * (Slice - 1)
        /\ SumOf(p, t .. last - 1) \in Int
        /\ (\A u \in t + 1 .. last - 1 : p[u] = p[u - 1]) =>
               (last - t) * p[t] = SumOf(p, t .. last - 1)
    BY <2>1, <2>5, SliceCost
  <2> HIDE DEF steps
  <2> QED
    BY <2>2, <2>3, <2>4, <2>6
<1>7. Values(f, starts) /\ Values(by, starts)
  BY <1>2, <1>6 DEF Values
<1>8. split \subseteq starts
  OBVIOUS
<1> HIDE DEF by, split, starts, steps
<1>9. /\ \A t \in split : Abs(f[t] - by[t]) <= k * (Slice - 1)
      /\ \A t \in starts \ split : f[t] = by[t]
  BY <1>6, <1>8
<1>10. Abs(SumOf(f, starts) - SumOf(by, starts)) <= k * (Slice - 1) * Cardinality(split)
  BY <1>1, <1>7, <1>8, <1>9, SumDistance
<1> QED
  BY <1>5, <1>10 DEF split, starts, steps, Changing

LEMMA FairCostIs ==
    ASSUME NEW tariffs, NEW charge
    PROVE  LET steps == charge.start .. charge.end - 1
           IN  FairCost(tariffs, charge) = SumOf([t \in steps |-> FairPrice(tariffs, t)], steps)
<1> DEFINE S == charge.start .. charge.end - 1
           f == [t \in S |-> FairPrice(tariffs, t)]
           Body(it) == [s \in SUBSET S |->
                           IF s = {} THEN 0
                           ELSE FairPrice(tariffs, Picked(s)) + it[s \ {Picked(s)}]]
<1>1. FairCost(tariffs, charge) = (CHOOSE it : it = Body(it))[S]
  BY DEF FairCost, MapThenSumSet, MapThenFoldSet, Picked
<1>2. \A it : Body(it) = Adder(f, S, it)
  BY PickedIs DEF Adder
<1> HIDE DEF Body, f, S
<1>3. (CHOOSE it : it = Body(it)) = (CHOOSE it : it = Adder(f, S, it))
  BY <1>2, Zenon
<1> QED
  BY <1>1, <1>3, SumIs DEF S, f

LEMMA ChargedIs ==
    ASSUME NEW tariffs, NEW charge
    PROVE  LET kind == PriceKind(charge)
               starts == SliceStarts(charge)
           IN  Charged(tariffs, charge)
                   = SumOf([t \in starts |-> (SliceEnd(charge, t) - t) * PriceAt(tariffs, kind, t)], starts)
<1> DEFINE kind == PriceKind(charge)
           S == SliceStarts(charge)
           price(t) == (SliceEnd(charge, t) - t) * PriceAt(tariffs, kind, t)
           f == [t \in S |-> price(t)]
           Body(it) == [s \in SUBSET S |->
                           IF s = {} THEN 0 ELSE price(Picked(s)) + it[s \ {Picked(s)}]]
<1>1. Charged(tariffs, charge) = (CHOOSE it : it = Body(it))[S]
  BY DEF Charged, MapThenSumSet, MapThenFoldSet, Picked
<1>2. \A it : Body(it) = Adder(f, S, it)
  <2> HIDE DEF price, S
  <2> QED
    BY PickedIs DEF Adder
<1> HIDE DEF Body, f, S
<1>3. (CHOOSE it : it = Body(it)) = (CHOOSE it : it = Adder(f, S, it))
  BY <1>2, Zenon
<1>4. Charged(tariffs, charge) = SumOf(f, S)
  BY <1>1, <1>3, SumIs
<1> QED
  BY <1>4 DEF S, f

\* The windows and prices of a tariff of the owner.
WindowsOf(tariffs) ==
    /\ tariffs.home = 1
    /\ \E n \in Nat :
          /\ DOMAIN tariffs.windows = 1 .. n
          /\ \A i \in 1 .. n :
                tariffs.windows[i] \in [days : SUBSET Int, start : 0 .. Day - 1, end : 0 .. Day, price : 1 .. 3]

LEMMA FairPriceType ==
    ASSUME NEW tariffs, WindowsOf(tariffs), NEW t \in Nat
    PROVE  FairPrice(tariffs, t) \in 1 .. 3 /\ HomePrice(tariffs, t) = FairPrice(tariffs, t)
<1>1. PICK n \in Nat :
          /\ DOMAIN tariffs.windows = 1 .. n
          /\ \A i \in 1 .. n :
                tariffs.windows[i] \in [days : SUBSET Int, start : 0 .. Day - 1, end : 0 .. Day, price : 1 .. 3]
  BY DEF WindowsOf
<1>2. \A i \in 1 .. n : tariffs.windows[i].price \in 1 .. 3
  BY <1>1
<1>3. \A i \in 1 .. n :
          tariffs.windows[i] \in [days : SUBSET Int, start : 0 .. Day - 1, end : 0 .. Day, price : Int]
  BY <1>1
<1>4. HomePrice(tariffs, t) = FairPrice(tariffs, t)
  BY <1>1, <1>3, HomePriceIsFair
<1> DEFINE fits == {i \in 1 .. n : Matches(tariffs.windows[i], t)}
<1>5. HomePrice(tariffs, t) = IF fits = {} THEN tariffs.home ELSE tariffs.windows[Min(fits)].price
  BY <1>1 DEF HomePrice
<1>6. fits # {} => Min(fits) \in 1 .. n
  <2> HAVE fits # {}
  <2>1. fits \subseteq Nat
    OBVIOUS
  <2>2. PICK x \in fits : \A y \in fits : x <= y
    <3> HIDE DEF fits
    <3> QED
      BY <2>1, LeastExists
  <2>3. Min(fits) \in fits
    <3> HIDE DEF fits
    <3> QED
      BY <2>2 DEF Min
  <2> QED
    BY <2>3
<1> HIDE DEF fits
<1> QED
  BY <1>2, <1>4, <1>5, <1>6 DEF WindowsOf

LEMMA CostAtHome ==
    ASSUME NEW tariffs, WindowsOf(tariffs), NEW charge, charge.start \in Nat, charge.end \in Int,
           PriceKind(charge) = "home"
    PROVE  Abs(Charged(tariffs, charge) - FairCost(tariffs, charge))
               <= 2 * (Slice - 1) * Cardinality(SplitSlices(tariffs, charge))
<1> DEFINE steps == charge.start .. charge.end - 1
           starts == SliceStarts(charge)
           p == [t \in steps |-> FairPrice(tariffs, t)]
           f == [t \in starts |-> (SliceEnd(charge, t) - t) * PriceAt(tariffs, PriceKind(charge), t)]
           split == Changing(charge, p)
<1>1. \A u \in steps : u \in Nat /\ p[u] \in 1 .. 3 /\ p[u] = HomePrice(tariffs, u)
  BY FairPriceType
<1>2. \A u \in steps : p[u] \in Int
  <2> HIDE DEF p, steps
  <2> QED
    BY <1>1
<1>3. \A u, v \in steps : Abs(p[u] - p[v]) <= 2
  <2> HIDE DEF p, steps
  <2> QED
    BY <1>1 DEF Abs
<1>4. \A t \in starts : t \in steps
  BY DEF SliceStarts
<1>5. \A t \in starts : f[t] = (SliceEnd(charge, t) - t) * p[t]
  <2>1. \A t \in starts : PriceAt(tariffs, PriceKind(charge), t) = p[t]
    BY <1>1, <1>4 DEF PriceAt
  <2> HIDE DEF p, starts, steps
  <2> QED
    BY <2>1
<1>6. SplitSlices(tariffs, charge) = split
  <2>1. \A t \in starts : \A u \in t + 1 .. SliceEnd(charge, t) - 1 :
            /\ u \in steps /\ u - 1 \in steps
            /\ p[u] = FairPrice(tariffs, u) /\ p[u - 1] = FairPrice(tariffs, u - 1)
    <3> TAKE t \in starts
    <3> TAKE u \in t + 1 .. SliceEnd(charge, t) - 1
    <3>1. u \in steps /\ u - 1 \in steps
      BY SlicesPartition
    <3> QED
      BY <3>1
  <2> HIDE DEF p, starts, steps
  <2> QED
    BY <2>1 DEF SplitSlices, starts, Changing
<1>7. SumOf(f, starts) = Charged(tariffs, charge) /\ SumOf(p, steps) = FairCost(tariffs, charge)
  BY ChargedIs, FairCostIs
<1> HIDE DEF f, p
<1>8. Abs(SumOf(f, starts) - SumOf(p, steps)) <= 2 * (Slice - 1) * Cardinality(split)
  <2>1. 2 \in Nat /\ charge.start \in Int
    OBVIOUS
  <2> QED
    BY <1>2, <1>3, <1>5, <2>1, CostBySlices
<1> QED
  BY <1>6, <1>7, <1>8

\* At one price, a charge costs as much as its steps do.
LEMMA CostElsewhere ==
    ASSUME NEW tariffs, NEW charge, charge.start \in Nat, charge.end \in Int,
           charge.start < charge.end, NEW price \in Int,
           \A t \in Nat : PriceAt(tariffs, PriceKind(charge), t) = price
    PROVE  Charged(tariffs, charge) = price * (charge.end - charge.start)
<1> DEFINE steps == charge.start .. charge.end - 1
           starts == SliceStarts(charge)
           p == [t \in steps |-> price]
           f == [t \in starts |-> (SliceEnd(charge, t) - t) * PriceAt(tariffs, PriceKind(charge), t)]
           split == Changing(charge, p)
<1>1. \A u, v \in steps : p[u] \in Int /\ Abs(p[u] - p[v]) <= 0
  BY DEF Abs
<1>2. \A t \in starts : f[t] = (SliceEnd(charge, t) - t) * p[t]
  <2>1. \A t \in starts : t \in steps /\ t \in Nat
    BY DEF SliceStarts
  <2>2. \A t \in starts : PriceAt(tariffs, PriceKind(charge), t) = p[t]
    BY <2>1
  <2> HIDE DEF p, starts
  <2> QED
    BY <2>2
<1>3. split = {}
  <2> SUFFICES ASSUME NEW t \in starts, NEW u \in t + 1 .. SliceEnd(charge, t) - 1
               PROVE  p[u] = p[u - 1]
    BY DEF Changing
  <2>1. u \in steps /\ u - 1 \in steps
    BY SlicesPartition
  <2> QED
    BY <2>1
<1>4. SumOf(f, starts) = Charged(tariffs, charge)
  BY ChargedIs
<1>5. SumOf(p, steps) = price * (charge.end - charge.start)
  <2>1. IsFiniteSet(steps) /\ Cardinality(steps) = charge.end - charge.start
    <3>1. charge.start \in Int /\ charge.end - 1 \in Int
      OBVIOUS
    <3>2. /\ IsFiniteSet(steps)
          /\ Cardinality(steps) = IF charge.start > charge.end - 1 THEN 0 ELSE (charge.end - 1) - charge.start + 1
      BY <3>1, FS_Interval
    <3> HIDE DEF steps
    <3> QED
      BY <3>1, <3>2
  <2>2. \A u \in steps : p[u] = price
    OBVIOUS
  <2> HIDE DEF p, steps
  <2>3. SumOf(p, steps) = price * Cardinality(steps)
    BY <2>1, <2>2, SumConstant
  <2> QED
    BY <2>1, <2>3
<1>6. Values(f, starts)
  <2>1. IsFiniteSet(starts)
    <3>1. IsFiniteSet(steps)
      <4>1. charge.start \in Int /\ charge.end - 1 \in Int
        OBVIOUS
      <4> QED
        BY <4>1, FS_Interval
    <3>2. starts \in SUBSET steps
      BY DEF SliceStarts
    <3> QED
      BY <3>1, <3>2, FS_Subset
  <2>2. \A t \in starts : f[t] \in Int
    <3> TAKE t \in starts
    <3>1. t \in Int /\ SliceEnd(charge, t) \in Int
      BY SlicesPartition
    <3>2. t \in Nat
      BY DEF SliceStarts
    <3>3. f[t] = (SliceEnd(charge, t) - t) * price
      BY <3>2
    <3> HIDE DEF f
    <3> QED
      BY <3>1, <3>3
  <2> HIDE DEF f, starts
  <2> QED
    BY <2>1, <2>2 DEF Values
<1>7. SumOf(f, starts) \in Int
  BY <1>6, SumType
<1> HIDE DEF f, p
<1>8. Abs(SumOf(f, starts) - SumOf(p, steps)) <= 0 * (Slice - 1) * Cardinality(split)
  <2>1. 0 \in Nat /\ charge.start \in Int
    OBVIOUS
  <2>2. /\ \A u \in steps : p[u] \in Int
        /\ \A u, v \in steps : Abs(p[u] - p[v]) <= 0
    BY <1>1
  <2> QED
    BY <1>2, <2>1, <2>2, CostBySlices
<1>9. 0 * (Slice - 1) * Cardinality(split) = 0
  BY <1>3, FS_EmptySet, TariffAssumption
<1>10. price * (charge.end - charge.start) \in Int
  OBVIOUS
<1> QED
  BY <1>4, <1>5, <1>7, <1>8, <1>9, <1>10 DEF Abs

LEMMA HomeTariffsHaveWindows ==
    \A tariffs \in HomeTariffs \cup {Tariff(<<>>)} :
        WindowsOf(tariffs) /\ tariffs.supercharger = 4 /\ tariffs.public = 3
<1> DEFINE Owned == [days : SUBSET Int, start : 0 .. Day - 1, end : 0 .. Day, price : 1 .. 3]
<1>1. Day \in Nat \ {0} /\ Week \in Nat \ {0}
  BY TariffAssumption
<1>2. /\ Windows((SUBSET (0 .. Week - 1)) \ {{}}, 0 .. Day, {3}) \subseteq Owned
      /\ Windows({{0, Week - 1}}, {1, Day}, {2}) \subseteq Owned
      /\ Windows({{0}}, 0 .. Day, {3}) \subseteq Owned
  BY <1>1 DEF Windows
<1> HIDE DEF Owned
<1>3. WindowsOf(Tariff(<<>>))
  BY DEF WindowsOf, Tariff
<1>4. ASSUME NEW w \in Owned PROVE WindowsOf(Tariff(<<w>>))
  <2>1. DOMAIN <<w>> = 1 .. 1 /\ \A i \in 1 .. 1 : <<w>>[i] \in Owned
    BY <1>4
  <2> QED
    BY <2>1 DEF WindowsOf, Tariff, Owned
<1>5. ASSUME NEW w \in Owned, NEW v \in Owned PROVE WindowsOf(Tariff(<<w, v>>))
  <2>1. DOMAIN <<w, v>> = 1 .. 2 /\ \A i \in 1 .. 2 : <<w, v>>[i] \in Owned
    BY <1>5
  <2> QED
    BY <2>1 DEF WindowsOf, Tariff, Owned
<1>6. \A tariffs \in HomeTariffs \cup {Tariff(<<>>)} : WindowsOf(tariffs)
  <2> SUFFICES ASSUME NEW tariffs \in HomeTariffs PROVE WindowsOf(tariffs)
    BY <1>3
  <2>1. CASE \E w \in Windows((SUBSET (0 .. Week - 1)) \ {{}}, 0 .. Day, {3}) : tariffs = Tariff(<<w>>)
    BY <1>2, <1>4, <2>1
  <2>2. CASE \E w \in Windows({{0}}, 0 .. Day, {3}), v \in Windows({{0, Week - 1}}, {1, Day}, {2}) :
                 tariffs = Tariff(<<w, v>>)
    BY <1>2, <1>5, <2>2
  <2>3. \/ \E w \in Windows((SUBSET (0 .. Week - 1)) \ {{}}, 0 .. Day, {3}) : tariffs = Tariff(<<w>>)
        \/ \E w \in Windows({{0}}, 0 .. Day, {3}) : \E v \in Windows({{0, Week - 1}}, {1, Day}, {2}) :
               tariffs = Tariff(<<w, v>>)
    BY DEF HomeTariffs
  <2> QED
    BY <2>1, <2>2, <2>3
<1>7. \A tariffs \in HomeTariffs \cup {Tariff(<<>>)} : tariffs.supercharger = 4 /\ tariffs.public = 3
  BY DEF HomeTariffs, Tariff
<1> QED
  BY <1>6, <1>7

\* What CostIsFair says of a cost.
IsFair(tariffs, c, cost) ==
    LET flat == [home |-> tariffs.home, free |-> 0,
                 supercharger |-> tariffs.supercharger, public |-> tariffs.public]
        fair == IF PriceKind(c) = "home" THEN FairCost(tariffs, c)
                ELSE flat[PriceKind(c)] * (c.end - c.start)
        split == Cardinality(SplitSlices(tariffs, c))
    IN  IF c.invoice # NoInvoice THEN cost = c.invoice
        ELSE Abs(cost - fair) <= 2 * (Slice - 1) * split

\* Whatever the charge and the tariff.
LEMMA ChargeCostIsFair ==
    ASSUME NEW tariffs \in HomeTariffs \cup {Tariff(<<>>)}, NEW c,
           c.start \in Nat, c.end \in Nat, c.start < c.end, c.energy = TRUE
    PROVE  IsFair(tariffs, c, ChargeCost(tariffs, c))
<1> DEFINE flat == [home |-> tariffs.home, free |-> 0,
                    supercharger |-> tariffs.supercharger, public |-> tariffs.public]
           fair == IF PriceKind(c) = "home" THEN FairCost(tariffs, c)
                   ELSE flat[PriceKind(c)] * (c.end - c.start)
           split == Cardinality(SplitSlices(tariffs, c))
<1>2. PriceKind(c) \in {"home", "free", "supercharger", "public"}
  BY DEF PriceKind
<1>3. WindowsOf(tariffs) /\ tariffs.supercharger = 4 /\ tariffs.public = 3
  BY HomeTariffsHaveWindows
<1>4. c.invoice # NoInvoice => ChargeCost(tariffs, c) = c.invoice
  BY DEF ChargeCost
<1>5. c.invoice = NoInvoice => ChargeCost(tariffs, c) = Charged(tariffs, c)
  BY DEF ChargeCost
<1>6. Abs(Charged(tariffs, c) - fair) <= 2 * (Slice - 1) * split
  <2>1. CASE PriceKind(c) = "home"
    BY <1>3, <2>1, CostAtHome
  <2>2. CASE PriceKind(c) # "home"
    <3>1. flat[PriceKind(c)] \in Int /\ \A t \in Nat : PriceAt(tariffs, PriceKind(c), t) = flat[PriceKind(c)]
      BY <1>2, <1>3, <2>2 DEF PriceAt
    <3> HIDE DEF flat
    <3>2. Charged(tariffs, c) = fair
      BY <2>2, <3>1, CostElsewhere
    <3>3. fair \in Int
      BY <2>2, <3>1
    <3>4. Abs(Charged(tariffs, c) - fair) = 0
      BY <3>2, <3>3 DEF Abs
    <3>5. split \in Nat
      <4>1. IsFiniteSet(c.start .. c.end - 1)
        <5>1. c.start \in Int /\ c.end - 1 \in Int
          OBVIOUS
        <5> QED
          BY <5>1, FS_Interval
      <4>2. SplitSlices(tariffs, c) \in SUBSET (c.start .. c.end - 1)
        BY DEF SplitSlices, SliceStarts
      <4> QED
        BY <4>1, <4>2, FS_Subset, FS_CardinalityType
    <3> HIDE DEF split
    <3>6. 2 * (Slice - 1) * split \in Nat
      BY <3>5, TariffAssumption
    <3> QED
      BY <3>4, <3>6
  <2> QED
    BY <2>1, <2>2
<1> HIDE DEF fair, split
<1>7. IF c.invoice # NoInvoice THEN ChargeCost(tariffs, c) = c.invoice
      ELSE Abs(ChargeCost(tariffs, c) - fair) <= 2 * (Slice - 1) * split
  BY <1>4, <1>5, <1>6
<1> QED
  BY <1>7 DEF IsFair, fair, split

LEMMA AskCostIsFair == AskCost => CostIsFair'
<1> SUFFICES ASSUME AskCost PROVE CostIsFair'
  OBVIOUS
<1>1. PICK start \in 0 .. Week * Day - 1, length \in 1 .. Day + 1,
           tariffs \in HomeTariffs \cup {Tariff(<<>>)} :
          \E from, to, dc, invoice : PricedAt(tariffs, Charge(start, length, from, to, dc, invoice))
  BY DEF AskCost
<1>2. PICK from, to, dc, invoice : PricedAt(tariffs, Charge(start, length, from, to, dc, invoice))
  BY <1>1
<1> DEFINE c == Charge(start, length, from, to, dc, invoice)
<1>3. c.start \in Nat /\ c.end \in Nat /\ c.start < c.end /\ c.energy = TRUE
  BY DEF Charge
<1> HIDE DEF c
<1>4. IsFair(tariffs, c, ChargeCost(tariffs, c))
  BY <1>3, ChargeCostIsFair
<1>5. answer'.tariffs = tariffs /\ answer'.charge = c /\ answer'.cost = ChargeCost(tariffs, c)
  BY <1>2 DEF c, PricedAt
<1>6. CostIsFair' = (answer'.of = "cost" => IsFair(answer'.tariffs, answer'.charge, answer'.cost))
  BY DEF CostIsFair, IsFair
<1> QED
  BY <1>4, <1>5, <1>6

-----------------------------------------------------------------------------
(* Reports: sums of figures over sessions.                                 *)

\* Terms that are nothing can be left out.
LEMMA SumWithout ==
    ASSUME NEW f, NEW S, Values(f, S), NEW R \in SUBSET S, \A x \in S \ R : f[x] = 0
    PROVE  SumOf(f, S) = SumOf(f, R)
<1>1. Values(f, R) /\ Values(f, S \ R)
  BY FS_Subset, FS_Difference DEF Values
<1>2. SumOf(f, R \cup (S \ R)) = SumOf(f, R) + SumOf(f, S \ R)
  <2>1. R \cap (S \ R) = {}
    OBVIOUS
  <2> QED
    BY <1>1, <2>1, SumUnion
<1>3. SumOf(f, S \ R) = 0 * Cardinality(S \ R)
  BY <1>1, SumConstant DEF Values
<1>4. Cardinality(S \ R) \in Nat /\ SumOf(f, R) \in Int
  BY <1>1, SumType, FS_CardinalityType DEF Values
<1>5. R \cup (S \ R) = S
  OBVIOUS
<1>6. 0 * Cardinality(S \ R) = 0
  BY <1>4
<1>7. SumOf(f, S) = SumOf(f, R) + SumOf(f, S \ R)
  BY <1>2, <1>5
<1>8. SumOf(f, S \ R) = 0
  BY <1>3, <1>6
<1> QED
  BY <1>4, <1>7, <1>8

\* The sum over a part, as one over the whole.
LEMMA SumFiltered ==
    ASSUME NEW f, NEW g, NEW S, IsFiniteSet(S), NEW D, \A x \in S \cap D : f[x] \in Int /\ g[x] = f[x],
           \A x \in S \ D : g[x] = 0
    PROVE  SumOf(f, S \cap D) = SumOf(g, S)
<1>1. Values(g, S)
  BY DEF Values
<1>2. \A x \in S \ (S \cap D) : g[x] = 0
  OBVIOUS
<1>3. SumOf(g, S) = SumOf(g, S \cap D)
  BY <1>1, <1>2, SumWithout
<1>4. SumOf(f, S \cap D) = SumOf(g, S \cap D)
  BY SumSame
<1> QED
  BY <1>3, <1>4

LEMMA AmountSum ==
    ASSUME NEW rows, NEW S
    PROVE  MapThenSumSet(LAMBDA i : Amount(rows[i]), S) = SumOf([i \in S |-> Amount(rows[i])], S)
<1> DEFINE f == [i \in S |-> Amount(rows[i])]
           Body(it) == [s \in SUBSET S |->
                           IF s = {} THEN 0 ELSE Amount(rows[Picked(s)]) + it[s \ {Picked(s)}]]
<1>1. MapThenSumSet(LAMBDA i : Amount(rows[i]), S) = (CHOOSE it : it = Body(it))[S]
  BY DEF MapThenSumSet, MapThenFoldSet, Picked
<1>2. \A it : Body(it) = Adder(f, S, it)
  BY PickedIs DEF Adder
<1> HIDE DEF Body, f
<1>3. (CHOOSE it : it = Body(it)) = (CHOOSE it : it = Adder(f, S, it))
  BY <1>2, Zenon
<1> QED
  BY <1>1, <1>3, SumIs DEF f

LEMMA DurationSum ==
    ASSUME NEW rows, NEW S
    PROVE  MapThenSumSet(LAMBDA i : Duration(rows[i]), S) = SumOf([i \in S |-> Duration(rows[i])], S)
<1> DEFINE f == [i \in S |-> Duration(rows[i])]
           Body(it) == [s \in SUBSET S |->
                           IF s = {} THEN 0 ELSE Duration(rows[Picked(s)]) + it[s \ {Picked(s)}]]
<1>1. MapThenSumSet(LAMBDA i : Duration(rows[i]), S) = (CHOOSE it : it = Body(it))[S]
  BY DEF MapThenSumSet, MapThenFoldSet, Picked
<1>2. \A it : Body(it) = Adder(f, S, it)
  BY PickedIs DEF Adder
<1> HIDE DEF Body, f
<1>3. (CHOOSE it : it = Body(it)) = (CHOOSE it : it = Adder(f, S, it))
  BY <1>2, Zenon
<1> QED
  BY <1>1, <1>3, SumIs DEF f

LEMMA MinutesSum ==
    ASSUME NEW rows, NEW S
    PROVE  MapThenSumSet(LAMBDA i : Duration(rows[i]) \div Minute, S) = SumOf([i \in S |-> Duration(rows[i]) \div Minute], S)
<1> DEFINE f == [i \in S |-> Duration(rows[i]) \div Minute]
           Body(it) == [s \in SUBSET S |->
                           IF s = {} THEN 0 ELSE (Duration(rows[Picked(s)]) \div Minute) + it[s \ {Picked(s)}]]
<1>1. MapThenSumSet(LAMBDA i : Duration(rows[i]) \div Minute, S) = (CHOOSE it : it = Body(it))[S]
  BY DEF MapThenSumSet, MapThenFoldSet, Picked
<1>2. \A it : Body(it) = Adder(f, S, it)
  BY PickedIs DEF Adder
<1> HIDE DEF Body, f
<1>3. (CHOOSE it : it = Body(it)) = (CHOOSE it : it = Adder(f, S, it))
  BY <1>2, Zenon
<1> QED
  BY <1>1, <1>3, SumIs DEF f

LEMMA CostSum ==
    ASSUME NEW tariffs, NEW rows, NEW S
    PROVE  MapThenSumSet(LAMBDA i : Cost(tariffs, rows[i]), S) = SumOf([i \in S |-> Cost(tariffs, rows[i])], S)
<1> DEFINE f == [i \in S |-> Cost(tariffs, rows[i])]
           Body(it) == [s \in SUBSET S |->
                           IF s = {} THEN 0 ELSE Cost(tariffs, rows[Picked(s)]) + it[s \ {Picked(s)}]]
<1>1. MapThenSumSet(LAMBDA i : Cost(tariffs, rows[i]), S) = (CHOOSE it : it = Body(it))[S]
  BY DEF MapThenSumSet, MapThenFoldSet, Picked
<1>2. \A it : Body(it) = Adder(f, S, it)
  BY PickedIs DEF Adder
<1> HIDE DEF Body, f
<1>3. (CHOOSE it : it = Body(it)) = (CHOOSE it : it = Adder(f, S, it))
  BY <1>2, Zenon
<1> QED
  BY <1>1, <1>3, SumIs DEF f

LEMMA SumOverIs ==
    ASSUME NEW report, NEW figure, NEW P
    PROVE  SumOver(report, figure, P)
               = SumOf([p \in P \cap DOMAIN report |-> report[p][figure]], P \cap DOMAIN report)
<1> DEFINE S == P \cap DOMAIN report
           f == [p \in S |-> report[p][figure]]
           Body(it) == [s \in SUBSET S |->
                           IF s = {} THEN 0 ELSE report[Picked(s)][figure] + it[s \ {Picked(s)}]]
<1>1. SumOver(report, figure, P) = (CHOOSE it : it = Body(it))[S]
  BY DEF SumOver, MapThenSumSet, MapThenFoldSet, Picked
<1>2. \A it : Body(it) = Adder(f, S, it)
  <2> HIDE DEF S
  <2> QED
    BY PickedIs DEF Adder
<1> HIDE DEF Body, f, S
<1>3. (CHOOSE it : it = Body(it)) = (CHOOSE it : it = Adder(f, S, it))
  BY <1>2, Zenon
<1> QED
  BY <1>1, <1>3, SumIs DEF f, S

\* The rows that the table can have, as far as the reports read them.
AreRows(rows) ==
    \E n \in Nat :
        /\ DOMAIN rows = 1 .. n
        /\ \A i \in 1 .. n :
              /\ rows[i].start \in 0 .. Midnights * Day - 1
              /\ \/ rows[i].end = Running
                 \/ rows[i].end \in Nat /\ rows[i].end > rows[i].start
              /\ rows[i].amount \in Int /\ rows[i].invoice \in Int

ArePrices(tariffs) ==
    \A kind \in {"free", "home", "supercharger", "public"} : \A t \in Int : PriceAt(tariffs, kind, t) \in Int

LEMMA FiniteRows ==
    ASSUME NEW rows, AreRows(rows)
    PROVE  \A K \in SUBSET DOMAIN rows : IsFiniteSet(K)
<1>1. PICK n \in Nat : DOMAIN rows = 1 .. n
  BY DEF AreRows
<1>2. IsFiniteSet(1 .. n)
  BY FS_Interval
<1> QED
  BY <1>1, <1>2, FS_Subset

\* What the session i adds to a figure.
Part(tariffs, rows, figure, i) ==
    IF figure \in {"drives", "miles", "time"}
    THEN IF i \notin Drives(rows) THEN 0
         ELSE IF figure = "drives" THEN 1
         ELSE IF figure = "miles" THEN Amount(rows[i]) ELSE Duration(rows[i])
    ELSE IF i \notin Charges(rows) THEN 0
         ELSE IF figure = "charges" THEN 1
         ELSE IF figure = "kwh" THEN Amount(rows[i]) ELSE Cost(tariffs, rows[i])

Parts(tariffs, rows, figure) == [i \in DOMAIN rows |-> Part(tariffs, rows, figure, i)]

LEMMA ChargedType ==
    ASSUME NEW tariffs, ArePrices(tariffs), NEW c, c.start \in Nat, c.end \in Nat
    PROVE  Charged(tariffs, c) \in Int
<1> DEFINE starts == SliceStarts(c)
           f == [t \in starts |-> (SliceEnd(c, t) - t) * PriceAt(tariffs, PriceKind(c), t)]
<1>1. Charged(tariffs, c) = SumOf(f, starts)
  BY ChargedIs
<1>2. IsFiniteSet(starts)
  <2>1. IsFiniteSet(c.start .. c.end - 1)
    <3>1. c.start \in Int /\ c.end - 1 \in Int
      OBVIOUS
    <3> QED
      BY <3>1, FS_Interval
  <2>2. starts \in SUBSET (c.start .. c.end - 1)
    BY DEF SliceStarts
  <2> QED
    BY <2>1, <2>2, FS_Subset
<1>3. PriceKind(c) \in {"free", "home", "supercharger", "public"}
  BY DEF PriceKind
<1>4. \A t \in starts : f[t] \in Int
  <2> SUFFICES ASSUME NEW t \in starts PROVE f[t] \in Int
    OBVIOUS
  <2>1. t \in Int /\ SliceEnd(c, t) \in Int
    BY SlicesPartition
  <2>2. PriceAt(tariffs, PriceKind(c), t) \in Int
    BY <1>3, <2>1 DEF ArePrices
  <2> HIDE DEF starts
  <2>3. f[t] = (SliceEnd(c, t) - t) * PriceAt(tariffs, PriceKind(c), t)
    OBVIOUS
  <2> QED
    BY <2>1, <2>2, <2>3
<1> HIDE DEF starts, f
<1> QED
  BY <1>1, <1>2, <1>4, SumType DEF Values

LEMMA PartType ==
    ASSUME NEW tariffs, ArePrices(tariffs), NEW rows, AreRows(rows), NEW i \in DOMAIN rows
    PROVE  /\ Amount(rows[i]) \in Int /\ Duration(rows[i]) \in Int /\ Cost(tariffs, rows[i]) \in Int
           /\ \A figure \in Figures : Part(tariffs, rows, figure, i) \in Int
<1>1. /\ rows[i].start \in Nat /\ rows[i].amount \in Int /\ rows[i].invoice \in Int
      /\ rows[i].end = Running \/ rows[i].end \in Nat
  BY DEF AreRows
<1>2. Amount(rows[i]) \in Int /\ Duration(rows[i]) \in Int
  BY <1>1 DEF Amount, Duration
<1>3. Cost(tariffs, rows[i]) \in Int
  <2>1. rows[i].end \in Nat => Charged(tariffs, rows[i]) \in Int
    BY <1>1, ChargedType
  <2> QED
    BY <1>1, <2>1 DEF Cost, ChargeCost
<1>4. \A figure \in Figures : Part(tariffs, rows, figure, i) \in Int
  BY <1>2, <1>3 DEF Part
<1> QED
  BY <1>2, <1>3, <1>4

\* A figure of a report is the sum of what each session adds.
LEMMA SumsAre ==
    ASSUME NEW tariffs, ArePrices(tariffs), NEW rows, AreRows(rows), NEW I \in SUBSET DOMAIN rows,
           NEW figure \in Figures
    PROVE  Sums(tariffs, rows, I)[figure] = SumOf(Parts(tariffs, rows, figure), I)
<1> DEFINE g == Parts(tariffs, rows, figure)
           D == Drives(rows)
           C == Charges(rows)
<1>1. IsFiniteSet(I) /\ D \subseteq DOMAIN rows /\ C \subseteq DOMAIN rows
  BY FiniteRows DEF Drives, Charges
<1>2. \A i \in I : g[i] = Part(tariffs, rows, figure, i)
  BY DEF Parts
<1>3. \A i \in I : Amount(rows[i]) \in Int /\ Duration(rows[i]) \in Int /\ Cost(tariffs, rows[i]) \in Int
  BY PartType
<1>4. ASSUME NEW S \in SUBSET I PROVE Cardinality(S) = SumOf([i \in S |-> 1], S)
  <2>1. IsFiniteSet(S)
    BY <1>1, FS_Subset
  <2> DEFINE ones == [i \in S |-> 1]
  <2>2. \A i \in S : ones[i] = 1
    OBVIOUS
  <2> HIDE DEF ones
  <2>3. SumOf(ones, S) = 1 * Cardinality(S)
    BY <2>1, <2>2, SumConstant
  <2>4. Cardinality(S) \in Nat
    BY <2>1, FS_CardinalityType
  <2> QED
    BY <2>3, <2>4 DEF ones
<1> HIDE DEF g, D, C
<1>5. CASE figure = "drives"
  <2> DEFINE f == [i \in I \cap D |-> 1]
  <2>1. Sums(tariffs, rows, I)[figure] = SumOf(f, I \cap D)
    BY <1>4, <1>5 DEF Sums, D
  <2>2. (\A i \in I \cap D : f[i] \in Int /\ g[i] = f[i]) /\ (\A i \in I \ D : g[i] = 0)
    BY <1>2, <1>3, <1>5 DEF Part, D
  <2> HIDE DEF f
  <2>3. SumOf(f, I \cap D) = SumOf(g, I)
    BY <1>1, <2>2, SumFiltered
  <2> QED
    BY <2>1, <2>3 DEF g
<1>6. CASE figure = "miles"
  <2> DEFINE f == [i \in I \cap D |-> Amount(rows[i])]
  <2>1. Sums(tariffs, rows, I)[figure] = SumOf(f, I \cap D)
    BY <1>6, AmountSum DEF Sums, D
  <2>2. (\A i \in I \cap D : f[i] \in Int /\ g[i] = f[i]) /\ (\A i \in I \ D : g[i] = 0)
    BY <1>2, <1>3, <1>6 DEF Part, D
  <2> HIDE DEF f
  <2>3. SumOf(f, I \cap D) = SumOf(g, I)
    BY <1>1, <2>2, SumFiltered
  <2> QED
    BY <2>1, <2>3 DEF g
<1>7. CASE figure = "time"
  <2> DEFINE f == [i \in I \cap D |-> Duration(rows[i])]
  <2>1. Sums(tariffs, rows, I)[figure] = SumOf(f, I \cap D)
    BY <1>7, DurationSum DEF Sums, D
  <2>2. (\A i \in I \cap D : f[i] \in Int /\ g[i] = f[i]) /\ (\A i \in I \ D : g[i] = 0)
    BY <1>2, <1>3, <1>7 DEF Part, D
  <2> HIDE DEF f
  <2>3. SumOf(f, I \cap D) = SumOf(g, I)
    BY <1>1, <2>2, SumFiltered
  <2> QED
    BY <2>1, <2>3 DEF g
<1>8. CASE figure = "charges"
  <2> DEFINE f == [i \in I \cap C |-> 1]
  <2>1. Sums(tariffs, rows, I)[figure] = SumOf(f, I \cap C)
    BY <1>4, <1>8 DEF Sums, C
  <2>2. (\A i \in I \cap C : f[i] \in Int /\ g[i] = f[i]) /\ (\A i \in I \ C : g[i] = 0)
    BY <1>2, <1>3, <1>8 DEF Part, C
  <2> HIDE DEF f
  <2>3. SumOf(f, I \cap C) = SumOf(g, I)
    BY <1>1, <2>2, SumFiltered
  <2> QED
    BY <2>1, <2>3 DEF g
<1>9. CASE figure = "kwh"
  <2> DEFINE f == [i \in I \cap C |-> Amount(rows[i])]
  <2>1. Sums(tariffs, rows, I)[figure] = SumOf(f, I \cap C)
    BY <1>9, AmountSum DEF Sums, C
  <2>2. (\A i \in I \cap C : f[i] \in Int /\ g[i] = f[i]) /\ (\A i \in I \ C : g[i] = 0)
    BY <1>2, <1>3, <1>9 DEF Part, C
  <2> HIDE DEF f
  <2>3. SumOf(f, I \cap C) = SumOf(g, I)
    BY <1>1, <2>2, SumFiltered
  <2> QED
    BY <2>1, <2>3 DEF g
<1>10. CASE figure = "cost"
  <2> DEFINE f == [i \in I \cap C |-> Cost(tariffs, rows[i])]
  <2>1. Sums(tariffs, rows, I)[figure] = SumOf(f, I \cap C)
    BY <1>10, CostSum DEF Sums, C
  <2>2. (\A i \in I \cap C : f[i] \in Int /\ g[i] = f[i]) /\ (\A i \in I \ C : g[i] = 0)
    BY <1>2, <1>3, <1>10 DEF Part, C
  <2> HIDE DEF f
  <2>3. SumOf(f, I \cap C) = SumOf(g, I)
    BY <1>1, <2>2, SumFiltered
  <2> QED
    BY <2>1, <2>3 DEF g
<1> QED
  BY <1>5, <1>6, <1>7, <1>8, <1>9, <1>10 DEF Figures

\* A report by keys, as one sum.
LEMMA KeyedSums ==
    ASSUME NEW f, NEW J, Values(f, J), NEW figure, NEW key, NEW report,
           DOMAIN report = {key[i] : i \in J},
           \A p \in DOMAIN report : report[p][figure] = SumOf(f, Keyed(J, key, p)),
           NEW P
    PROVE  SumOver(report, figure, P) = SumOf(f, KeyedIn(J, key, P))
<1> DEFINE Q == P \cap DOMAIN report
           by == [p \in Q |-> report[p][figure]]
<1>1. IsFiniteSet(Q)
  <2>1. IsFiniteSet({key[i] : i \in J})
    <3> DEFINE q == [i \in J |-> key[i]]
               T == {key[i] : i \in J}
    <3>1. q \in [J -> T] /\ \A t \in T : \E i \in J : q[i] = t
      OBVIOUS
    <3> HIDE DEF q, T
    <3>2. q \in Surjection(J, T)
      BY <3>1 DEF Surjection
    <3>3. IsFiniteSet(T)
      BY <3>2, FS_Surjection DEF Values
    <3> QED
      BY <3>3 DEF T
  <2>2. Q \in SUBSET {key[i] : i \in J}
    OBVIOUS
  <2> QED
    BY <2>1, <2>2, FS_Subset
<1>2. \A p \in Q : by[p] = SumOf(f, Keyed(J, key, p))
  OBVIOUS
<1>3. SumOver(report, figure, P) = SumOf(by, Q)
  BY SumOverIs
<1>4. KeyedIn(J, key, Q) = KeyedIn(J, key, P)
  BY DEF KeyedIn
<1> HIDE DEF Q, by
<1>5. SumOf(by, Q) = SumOf(f, KeyedIn(J, key, Q))
  BY <1>1, <1>2, SumByKey
<1> QED
  BY <1>3, <1>4, <1>5

\* The sessions of a report by keys, as one sum.
LEMMA SumOverKeys ==
    ASSUME NEW tariffs, ArePrices(tariffs), NEW rows, AreRows(rows), NEW J \in SUBSET DOMAIN rows,
           NEW figure \in Figures, NEW key, NEW report, DOMAIN report = {key[i] : i \in J},
           \A p \in DOMAIN report :
               report[p][figure] = Sums(tariffs, rows, Keyed(J, key, p))[figure],
           NEW P
    PROVE  SumOver(report, figure, P) = SumOf(Parts(tariffs, rows, figure), KeyedIn(J, key, P))
<1> DEFINE f == Parts(tariffs, rows, figure)
<1>1. IsFiniteSet(J)
  BY FiniteRows
<1>2. Values(f, J)
  BY <1>1, PartType DEF Values, Parts
<1>3. \A p \in DOMAIN report : report[p][figure] = SumOf(f, Keyed(J, key, p))
  <2> TAKE p \in DOMAIN report
  <2>1. Keyed(J, key, p) \in SUBSET DOMAIN rows
    BY DEF Keyed
  <2> QED
    BY <2>1, SumsAre
<1> HIDE DEF f
<1> QED
  BY <1>2, <1>3, KeyedSums DEF f

\* What the session i adds to the minutes, and to a figure of totals.
Minutes(rows, i) == IF i \in Drives(rows) THEN Duration(rows[i]) \div Minute ELSE 0

TotalParts(tariffs, rows, figure) ==
    IF figure = "time" THEN [i \in DOMAIN rows |-> Minutes(rows, i)]
    ELSE Parts(tariffs, rows, figure)

\* A session's minutes are its time, less than a minute short.
LEMMA MinutesType ==
    ASSUME NEW tariffs, ArePrices(tariffs), NEW rows, AreRows(rows), NEW i \in DOMAIN rows
    PROVE  /\ Minutes(rows, i) \in Int
           /\ Between(Minute, Minutes(rows, i), Part(tariffs, rows, "time", i),
                      Part(tariffs, rows, "drives", i))
<1>1. Minute \in Nat \ {0} /\ Duration(rows[i]) \in Int
  BY ReportAssumption, PartType
<1>2. CASE i \in Drives(rows)
  <2>1. PICK q \in Int, r \in 0 .. Minute - 1 :
            /\ Duration(rows[i]) \div Minute = q
            /\ Duration(rows[i]) = Minute * q + r
    BY <1>1, DivMod
  <2>2. Minutes(rows, i) = q /\ Part(tariffs, rows, "time", i) = Minute * q + r
        /\ Part(tariffs, rows, "drives", i) = 1
    BY <1>2, <2>1 DEF Minutes, Part
  <2>3. Minute * q \in Int /\ (Minute - 1) * 1 = Minute - 1 /\ r \in Nat /\ r <= Minute - 1
    BY <1>1
  <2> QED
    BY <1>1, <2>2, <2>3 DEF Between
<1>3. CASE i \notin Drives(rows)
  <2>1. Minutes(rows, i) = 0 /\ Part(tariffs, rows, "time", i) = 0
        /\ Part(tariffs, rows, "drives", i) = 0
    BY <1>3 DEF Minutes, Part
  <2>2. Minute * 0 = 0 /\ (Minute - 1) * 0 = 0
    BY <1>1
  <2> QED
    BY <2>1, <2>2 DEF Between
<1> QED
  BY <1>2, <1>3

LEMMA TotalPartsType ==
    ASSUME NEW tariffs, ArePrices(tariffs), NEW rows, AreRows(rows), NEW figure \in Figures,
           NEW K \in SUBSET DOMAIN rows
    PROVE  Values(TotalParts(tariffs, rows, figure), K)
<1>1. IsFiniteSet(K)
  BY FiniteRows
<1>2. \A i \in K : Minutes(rows, i) \in Int /\ Part(tariffs, rows, figure, i) \in Int
  BY MinutesType, PartType
<1> QED
  BY <1>1, <1>2 DEF Values, TotalParts, Parts

\* A figure of totals is the sum of what each session adds.
LEMMA InMinutesAre ==
    ASSUME NEW tariffs, ArePrices(tariffs), NEW rows, AreRows(rows), NEW I \in SUBSET DOMAIN rows,
           NEW figure \in Figures
    PROVE  InMinutes(tariffs, rows, I)[figure] = SumOf(TotalParts(tariffs, rows, figure), I)
<1>1. CASE figure # "time"
  <2>1. InMinutes(tariffs, rows, I)[figure] = Sums(tariffs, rows, I)[figure]
    BY <1>1 DEF InMinutes, Figures, Sums
  <2> QED
    BY <1>1, <2>1, SumsAre DEF TotalParts
<1>2. CASE figure = "time"
  <2> DEFINE D == Drives(rows)
             f == [i \in I \cap D |-> Duration(rows[i]) \div Minute]
             g == [i \in DOMAIN rows |-> Minutes(rows, i)]
  <2>1. InMinutes(tariffs, rows, I)[figure] = SumOf(f, I \cap D)
    BY <1>2, MinutesSum DEF InMinutes, Sums, D
  <2>2. (\A i \in I \cap D : f[i] \in Int /\ g[i] = f[i]) /\ (\A i \in I \ D : g[i] = 0)
    <3>1. \A i \in I : Minutes(rows, i) \in Int
      BY MinutesType
    <3> QED
      BY <3>1 DEF Minutes
  <2>3. IsFiniteSet(I)
    BY FiniteRows
  <2> HIDE DEF f, g, D
  <2>4. SumOf(f, I \cap D) = SumOf(g, I)
    BY <2>2, <2>3, SumFiltered
  <2> QED
    BY <1>2, <2>1, <2>4 DEF g, TotalParts
<1> QED
  BY <1>1, <1>2

\* The minutes of sessions are their time, less than a minute short for each drive.
LEMMA MinutesAreCut ==
    ASSUME NEW tariffs, ArePrices(tariffs), NEW rows, AreRows(rows), NEW K \in SUBSET DOMAIN rows
    PROVE  CutToMinutes(SumOf(TotalParts(tariffs, rows, "time"), K),
                        Sums(tariffs, rows, K)["time"], Sums(tariffs, rows, K)["drives"])
<1> DEFINE f == TotalParts(tariffs, rows, "time")
           g == Parts(tariffs, rows, "time")
           h == Parts(tariffs, rows, "drives")
<1>1. "time" \in Figures /\ "drives" \in Figures /\ Minute \in Nat
  BY ReportAssumption DEF Figures
<1>2. Values(f, K)
  BY <1>1, TotalPartsType
<1>3. Values(g, K) /\ Values(h, K)
  <2>1. IsFiniteSet(K)
    BY FiniteRows
  <2> QED
    BY <1>1, <2>1, PartType DEF Values, Parts
<1>4. \A i \in K : Between(Minute, f[i], g[i], h[i])
  <2> TAKE i \in K
  <2>1. f[i] = Minutes(rows, i) /\ g[i] = Part(tariffs, rows, "time", i)
        /\ h[i] = Part(tariffs, rows, "drives", i)
    BY DEF TotalParts, Parts
  <2> QED
    BY <2>1, MinutesType
<1>5. Sums(tariffs, rows, K)["time"] = SumOf(g, K) /\ Sums(tariffs, rows, K)["drives"] = SumOf(h, K)
  BY <1>1, SumsAre
<1> HIDE DEF f, g, h
<1>6. Between(Minute, SumOf(f, K), SumOf(g, K), SumOf(h, K))
  BY <1>1, <1>2, <1>3, <1>4, SumBetween
<1> QED
  BY <1>5, <1>6 DEF Between, CutToMinutes, f

\* totals adds up what is finished and starts in some of the periods.
LEMMA TotalsAre ==
    ASSUME NEW tariffs, ArePrices(tariffs), NEW rows, AreRows(rows), NEW I \in SUBSET DOMAIN rows,
           NEW figure \in Figures, NEW days, NEW P
    PROVE  SumOver(Totals(tariffs, rows, I, days), figure, P)
               = SumOf(TotalParts(tariffs, rows, figure),
                       {i \in I \cap Finished(rows) : Period(rows[i], days) \in P})
<1> DEFINE J == I \cap Finished(rows)
           key == [i \in DOMAIN rows |-> Period(rows[i], days)]
           report == Totals(tariffs, rows, I, days)
           f == TotalParts(tariffs, rows, figure)
<1>1. DOMAIN report = {key[i] : i \in J}
  BY DEF Totals
<1>2. \A p \in DOMAIN report :
          report[p][figure] = InMinutes(tariffs, rows, {i \in J : key[i] = p})[figure]
  <2>1. \A p : {i \in J : key[i] = p} = {i \in J : Period(rows[i], days) = p}
    OBVIOUS
  <2> HIDE DEF key
  <2>2. report = [p \in {Period(rows[i], days) : i \in J} |->
                     InMinutes(tariffs, rows, {i \in J : Period(rows[i], days) = p})]
    BY DEF Totals
  <2> HIDE DEF report, J
  <2> QED
    BY <2>1, <2>2
<1>3. {i \in J : key[i] \in P} = {i \in J : Period(rows[i], days) \in P}
  OBVIOUS
<1>4. J \in SUBSET DOMAIN rows
  OBVIOUS
<1> HIDE DEF key, report, J, f
<1>5. SumOver(report, figure, P) = SumOf(f, KeyedIn(J, key, P))
  <2>1. \A p \in DOMAIN report : report[p][figure] = SumOf(f, Keyed(J, key, p))
    <3> TAKE p \in DOMAIN report
    <3>1. Keyed(J, key, p) \in SUBSET DOMAIN rows
      BY <1>4 DEF Keyed
    <3> QED
      BY <1>2, <3>1, InMinutesAre DEF Keyed, f
  <2>2. Values(f, J)
    BY <1>4, TotalPartsType DEF f
  <2> QED
    BY <1>1, <2>1, <2>2, KeyedSums
<1> QED
  BY <1>3, <1>5 DEF report, J, KeyedIn, f

\* What of I starts on a day.
OnDay(rows, I, d) == {i \in I : Period(rows[i], 1) = d}

\* The calendar has what starts on a day.
LEMMA CalendarIs ==
    ASSUME NEW tariffs, NEW rows, NEW I \in SUBSET DOMAIN rows, NEW first \in Int, NEW last \in Int,
           NEW d \in first .. last
    PROVE  Calendar(tariffs, rows, I, first, last)[d]
               = Sums(tariffs, rows, OnDay(rows, I, d))
<1> DEFINE of(p) == {i \in I : Period(rows[i], 1) = p}
           byDay == Aggregate(tariffs, rows, I, 1)
<1>1. byDay = [p \in {Period(rows[i], 1) : i \in I} |-> Sums(tariffs, rows, of(p))]
  BY DEF Aggregate
<1>2. Calendar(tariffs, rows, I, first, last)[d]
          = IF d \in DOMAIN byDay THEN byDay[d] ELSE Sums(tariffs, rows, {})
  BY DEF Calendar
<1>3. d \notin {Period(rows[i], 1) : i \in I} => of(d) = {}
  OBVIOUS
<1> HIDE DEF byDay, of
<1> QED
  BY <1>1, <1>2, <1>3 DEF of, OnDay

-----------------------------------------------------------------------------
(* Reports: days and months.                                               *)

LEMMA DivIs ==
    ASSUME NEW k \in Nat \ {0}, NEW t \in Int, NEW q \in Int
    PROVE  t \div k = q <=> q * k <= t /\ t < (q + 1) * k
<1>1. q * k \in Int /\ k * q = q * k /\ (q + 1) * k = q * k + k
  OBVIOUS
<1>2. ASSUME t \div k = q PROVE q * k <= t /\ t < (q + 1) * k
  <2>1. PICK p \in Int, r \in 0 .. k - 1 :
            t \div k = p /\ t % k = r /\ t = k * p + r /\ (t \in Nat => p \in Nat)
    BY DivMod
  <2> QED
    BY <1>1, <1>2, <2>1
<1>3. ASSUME q * k <= t, t < (q + 1) * k PROVE t \div k = q
  <2>1. PICK b \in 0 .. k - 1 : b = t - k * q /\ t = k * q + b
    BY <1>1, <1>3
  <2> QED
    BY <2>1, ModIs
<1> QED
  BY <1>2, <1>3

LEMMA DayIs ==
    ASSUME NEW t \in Nat
    PROVE  /\ DayOf(t) \in Nat
           /\ \A d \in Int : DayOf(t) = d <=> d * Day <= t /\ t < (d + 1) * Day
           /\ \A d \in Int : DayOf(t) <= d <=> t < (d + 1) * Day
           /\ \A d \in Int : d <= DayOf(t) <=> d * Day <= t
<1>1. Day \in Nat \ {0} /\ t \in Int
  BY TariffAssumption
<1>2. PICK q \in Int, r \in 0 .. Day - 1 :
          t \div Day = q /\ t % Day = r /\ t = Day * q + r /\ (t \in Nat => q \in Nat)
  BY <1>1, DivMod
<1>3. DayOf(t) = q /\ q \in Nat
  BY <1>2 DEF DayOf
<1>4. \A d \in Int : DayOf(t) = d <=> d * Day <= t /\ t < (d + 1) * Day
  BY <1>1, DivIs DEF DayOf
<1>5. q * Day <= t /\ t < (q + 1) * Day
  BY <1>3, <1>4
<1>6. ASSUME NEW d \in Int PROVE (q <= d <=> t < (d + 1) * Day) /\ (d <= q <=> d * Day <= t)
  <2>1. d * Day \in Int /\ (d + 1) * Day = d * Day + Day /\ q * Day \in Int /\ (q + 1) * Day = q * Day + Day
    BY <1>1
  <2>2. d < q => d * Day + Day <= q * Day
    BY <1>1, Rows
  <2>3. q < d => q * Day + Day <= d * Day
    BY <1>1, Rows
  <2> QED
    BY <1>1, <1>2, <1>5, <2>1, <2>2, <2>3
<1> QED
  BY <1>3, <1>4, <1>6

LEMMA MonthIs ==
    ASSUME NEW d \in Nat
    PROVE  /\ DayOf(d * Day) = d
           /\ MonthOf(d * Day) \in Nat /\ MonthOf(d * Day) = d \div Month
           /\ MonthOf(d * Day) * Month <= d /\ d <= MonthOf(d * Day) * Month + Month - 1
<1>1. Day \in Nat \ {0} /\ Month \in Nat \ {0} /\ d * Day \in Nat /\ d * Day < (d + 1) * Day
  BY TariffAssumption, ReportAssumption
<1>2. DayOf(d * Day) = d
  BY <1>1, DayIs
<1>3. MonthOf(d * Day) = d \div Month
  BY <1>2 DEF MonthOf
<1>4. PICK q \in Int, r \in 0 .. Month - 1 :
          d \div Month = q /\ d % Month = r /\ d = Month * q + r /\ (d \in Nat => q \in Nat)
  <2>1. d \in Int
    OBVIOUS
  <2> QED
    BY <1>1, <2>1, DivMod
<1>5. q * Month <= d /\ d < (q + 1) * Month /\ (q + 1) * Month = q * Month + Month /\ q * Month \in Int
  BY <1>1, <1>4
<1> QED
  BY <1>1, <1>2, <1>3, <1>4, <1>5

LEMMA PeriodIs ==
    ASSUME NEW row, row.start \in Nat
    PROVE  Period(row, 1) = DayOf(row.start) /\ Period(row, Month) = MonthOf(row.start)
<1>1. DayOf(row.start) \in Nat
  BY DayIs
<1> QED
  BY <1>1 DEF Period, MonthOf

\* What starts on a day.
StartsOn(rows, d) == {i \in DOMAIN rows : DayOf(rows[i].start) = d}

LEMMA RowIs ==
    ASSUME NEW rows, AreRows(rows), Midnights \in Nat, NEW i \in DOMAIN rows
    PROVE  /\ rows[i].start \in Nat /\ rows[i].start < Midnights * Day
           /\ \/ rows[i].end = Running
              \/ rows[i].end \in Nat /\ rows[i].end > rows[i].start
           /\ DayOf(rows[i].start) \in 0 .. Midnights - 1
           /\ Period(rows[i], 1) = DayOf(rows[i].start)
           /\ Period(rows[i], Month) = DayOf(rows[i].start) \div Month
           /\ i \in StartsOn(rows, DayOf(rows[i].start))
<1>1. /\ rows[i].start \in 0 .. Midnights * Day - 1 /\ Midnights * Day \in Int
      /\ \/ rows[i].end = Running
         \/ rows[i].end \in Nat /\ rows[i].end > rows[i].start
  BY TariffAssumption DEF AreRows
<1>2. rows[i].start \in Nat /\ rows[i].start < Midnights * Day
  BY <1>1
<1>3. DayOf(rows[i].start) \in Nat /\ DayOf(rows[i].start) <= Midnights - 1
  <2>1. Midnights - 1 \in Int /\ (Midnights - 1) + 1 = Midnights
    OBVIOUS
  <2> QED
    BY <1>2, <2>1, DayIs
<1> QED
  BY <1>1, <1>2, <1>3, PeriodIs DEF StartsOn, MonthOf

\* The sessions that each query selects.
LEMMA QueriesAre ==
    ASSUME NEW rows, AreRows(rows), Midnights \in Nat, NEW d \in 0 .. Midnights - 1
    PROVE  /\ SessionsBetween(rows, d * Day, (d + 1) * Day) = StartsOn(rows, d)
           /\ SessionsOverlapping(rows, d * Day, (d + 1) * Day)
                  = {i \in DOMAIN rows : /\ DayOf(rows[i].start) <= d
                                         /\ rows[i].end = Running \/ d * Day < rows[i].end}
           /\ StartsOn(rows, d) \subseteq SessionsOverlapping(rows, d * Day, (d + 1) * Day)
           /\ LocalRange(rows, 0, Midnights - 1) = DOMAIN rows
<1>1. Day \in Nat \ {0} /\ d \in Int
  BY TariffAssumption
<1>2. \A i \in DOMAIN rows :
          /\ rows[i].start \in Nat /\ rows[i].start < Midnights * Day
          /\ \/ rows[i].end = Running
             \/ rows[i].end \in Nat /\ rows[i].end > rows[i].start
  BY RowIs
<1>3. \A i \in DOMAIN rows :
          /\ DayOf(rows[i].start) = d <=> d * Day <= rows[i].start /\ rows[i].start < (d + 1) * Day
          /\ DayOf(rows[i].start) <= d <=> rows[i].start < (d + 1) * Day
  BY <1>1, <1>2, DayIs
<1>4. SessionsBetween(rows, d * Day, (d + 1) * Day) = StartsOn(rows, d)
  BY <1>3 DEF SessionsBetween, StartsOn
<1>5. SessionsOverlapping(rows, d * Day, (d + 1) * Day)
          = {i \in DOMAIN rows : /\ DayOf(rows[i].start) <= d
                                 /\ rows[i].end = Running \/ d * Day < rows[i].end}
  <2>1. d * Day \in Int
    BY <1>1
  <2>2. \A i \in DOMAIN rows : (rows[i].end = Running \/ rows[i].end > d * Day)
                                  <=> (rows[i].end = Running \/ d * Day < rows[i].end)
    BY <1>2, <2>1
  <2> QED
    BY <1>3, <2>2 DEF SessionsOverlapping
<1>6. \A i \in DOMAIN rows : DayOf(rows[i].start) = d => rows[i].end = Running \/ d * Day < rows[i].end
  <2>1. d * Day \in Int
    BY <1>1
  <2> QED
    BY <1>2, <1>3, <2>1
<1>7. \A i \in DOMAIN rows : DayOf(rows[i].start) = d => DayOf(rows[i].start) <= d
  BY <1>1
<1>8. LocalRange(rows, 0, Midnights - 1) = DOMAIN rows
  <2>1. (Midnights - 1) + 1 = Midnights /\ 0 * Day = 0
    BY <1>1
  <2> QED
    BY <1>2, <2>1 DEF LocalRange, SessionsBetween
<1> QED
  BY <1>4, <1>5, <1>6, <1>7, <1>8 DEF StartsOn

\* Two parts of what a figure adds up.
LEMMA SumsSplit ==
    ASSUME NEW tariffs, ArePrices(tariffs), NEW rows, AreRows(rows), NEW figure \in Figures,
           NEW I \in SUBSET DOMAIN rows, NEW J \in SUBSET DOMAIN rows, I \cap J = {}
    PROVE  Sums(tariffs, rows, I \cup J)[figure]
               = Sums(tariffs, rows, I)[figure] + Sums(tariffs, rows, J)[figure]
<1> DEFINE f == Parts(tariffs, rows, figure)
<1>1. \A K \in SUBSET DOMAIN rows : Sums(tariffs, rows, K)[figure] = SumOf(f, K) /\ Values(f, K)
  <2> SUFFICES ASSUME NEW K \in SUBSET DOMAIN rows
               PROVE  Sums(tariffs, rows, K)[figure] = SumOf(f, K) /\ Values(f, K)
    OBVIOUS
  <2>1. IsFiniteSet(K)
    BY FiniteRows
  <2>2. \A i \in K : f[i] \in Int
    BY PartType DEF Parts
  <2> QED
    BY <2>1, <2>2, SumsAre DEF Values
<1> HIDE DEF f
<1>2. SumOf(f, I \cup J) = SumOf(f, I) + SumOf(f, J)
  BY <1>1, SumUnion
<1>3. I \cup J \in SUBSET DOMAIN rows
  OBVIOUS
<1> QED
  BY <1>1, <1>2, <1>3

\* The days of a month.
DaysOf(m) == {d \in 0 .. Midnights - 1 : MonthOf(d * Day) = m}

\* What starts on a day and is finished.
DoneOn(rows, d) == StartsOn(rows, d) \cap Finished(rows)

Daily(tariffs, rows) == Totals(tariffs, rows, LocalRange(rows, 0, Midnights - 1), 1)
Monthly(tariffs, rows) == Totals(tariffs, rows, LocalRange(rows, 0, Midnights - 1), Month)

\* Days, months and the whole agree on what is finished.
LEMMA TotalsAgree ==
    ASSUME NEW tariffs, ArePrices(tariffs), NEW rows, AreRows(rows), Midnights \in Nat,
           NEW figure \in Figures
    PROVE  /\ SumOver(Daily(tariffs, rows), figure, 0 .. Midnights - 1)
                  = SumOf(TotalParts(tariffs, rows, figure), Finished(rows))
           /\ \A m : SumOver(Monthly(tariffs, rows), figure, {m}) = SumOver(Daily(tariffs, rows), figure, DaysOf(m))
           /\ \A d : SumOver(Daily(tariffs, rows), figure, {d})
                         = SumOf(TotalParts(tariffs, rows, figure), DoneOn(rows, d))
<1> DEFINE f == TotalParts(tariffs, rows, figure)
           all == DOMAIN rows
           done == Finished(rows)
           days == 0 .. Midnights - 1
           daily == Daily(tariffs, rows)
           months == Monthly(tariffs, rows)
<1>1. LocalRange(rows, 0, Midnights - 1) = all
  <2>1. CASE Midnights = 0
    <3>1. all = {}
      <4> SUFFICES ASSUME NEW i \in all PROVE FALSE
        OBVIOUS
      <4>1. DayOf(rows[i].start) \in 0 .. Midnights - 1
        BY RowIs
      <4> QED
        BY <2>1, <4>1
    <3> QED
      BY <3>1 DEF LocalRange, SessionsBetween
  <2>2. CASE Midnights # 0
    <3>1. 0 \in 0 .. Midnights - 1
      BY <2>2
    <3> QED
      BY <3>1, QueriesAre
  <2> QED
    BY <2>1, <2>2
<1>2. done \in SUBSET all /\ all \cap done = done
  BY DEF Finished
<1>3. \A P : SumOver(daily, figure, P) = SumOf(f, {i \in done : Period(rows[i], 1) \in P})
  BY <1>1, <1>2, TotalsAre DEF Daily, Monthly
<1>4. \A P : SumOver(months, figure, P) = SumOf(f, {i \in done : Period(rows[i], Month) \in P})
  BY <1>1, <1>2, TotalsAre DEF Daily, Monthly
<1>5. \A i \in all : /\ Period(rows[i], 1) = DayOf(rows[i].start) /\ DayOf(rows[i].start) \in days
                     /\ Period(rows[i], Month) = MonthOf(DayOf(rows[i].start) * Day)
  <2> SUFFICES ASSUME NEW i \in all
               PROVE  /\ Period(rows[i], 1) = DayOf(rows[i].start) /\ DayOf(rows[i].start) \in days
                      /\ Period(rows[i], Month) = MonthOf(DayOf(rows[i].start) * Day)
    OBVIOUS
  <2>1. DayOf(rows[i].start) \in days /\ DayOf(rows[i].start) \in Nat
    BY RowIs
  <2> QED
    BY <2>1, RowIs, MonthIs
<1> HIDE DEF f, done, days, daily, months
<1>7. {i \in done : Period(rows[i], 1) \in days} = done
  BY <1>2, <1>5
<1>8. \A m : {i \in done : Period(rows[i], Month) \in {m}}
                 = {i \in done : Period(rows[i], 1) \in {d \in days : MonthOf(d * Day) = m}}
  BY <1>2, <1>5
<1>9. \A d : {i \in done : Period(rows[i], 1) \in {d}} = StartsOn(rows, d) \cap done
  BY <1>2, <1>5 DEF StartsOn
<1> HIDE DEF all
<1>10. SumOver(daily, figure, days) = SumOf(f, done)
  BY <1>2, <1>3, <1>7
<1>11. ASSUME NEW m
       PROVE  SumOver(months, figure, {m}) = SumOver(daily, figure, {d \in days : MonthOf(d * Day) = m})
  BY <1>3, <1>4, <1>8
<1>12. ASSUME NEW d
       PROVE  SumOver(daily, figure, {d}) = SumOf(f, StartsOn(rows, d) \cap done)
  BY <1>3, <1>9
<1> QED
  BY <1>10, <1>11, <1>12 DEF days, done, DaysOf, DoneOn, daily, months, f

\* What totals has is what the others have; its minutes are cut.
LEMMA TotalsCount ==
    ASSUME NEW tariffs, ArePrices(tariffs), NEW rows, AreRows(rows), Midnights \in Nat,
           NEW P, NEW K \in SUBSET DOMAIN rows,
           \A f \in Figures : SumOver(Daily(tariffs, rows), f, P) = SumOf(TotalParts(tariffs, rows, f), K)
    PROVE  /\ \A f \in Figures \ {"time"} :
                  SumOver(Daily(tariffs, rows), f, P) = Sums(tariffs, rows, K)[f]
           /\ CutToMinutes(SumOver(Daily(tariffs, rows), "time", P), Sums(tariffs, rows, K)["time"],
                           Sums(tariffs, rows, K)["drives"])
<1>1. ASSUME NEW f \in Figures \ {"time"}
      PROVE  SumOver(Daily(tariffs, rows), f, P) = Sums(tariffs, rows, K)[f]
  <2>1. TotalParts(tariffs, rows, f) = Parts(tariffs, rows, f) /\ f \in Figures
    BY DEF TotalParts
  <2>2. Sums(tariffs, rows, K)[f] = SumOf(Parts(tariffs, rows, f), K)
    BY <2>1, SumsAre
  <2> QED
    BY <2>1, <2>2
<1>2. "time" \in Figures
  BY DEF Figures
<1>3. SumOver(Daily(tariffs, rows), "time", P) = SumOf(TotalParts(tariffs, rows, "time"), K)
  BY <1>2
<1>4. CutToMinutes(SumOf(TotalParts(tariffs, rows, "time"), K), Sums(tariffs, rows, K)["time"],
                   Sums(tariffs, rows, K)["drives"])
  BY MinutesAreCut
<1> QED
  BY <1>1, <1>3, <1>4

\* The calendar and the page of a day count what starts on it.
LEMMA DaysAgree ==
    ASSUME NEW tariffs, ArePrices(tariffs), NEW rows, AreRows(rows), Midnights \in Nat,
           NEW d \in 0 .. Midnights - 1
    PROVE  /\ CalendarMonth(tariffs, rows, MonthOf(d * Day))[d] = Sums(tariffs, rows, StartsOn(rows, d))
           /\ DayPage(tariffs, rows, d).totals = Sums(tariffs, rows, StartsOn(rows, d))
           /\ DayPage(tariffs, rows, d).sums = Sums(tariffs, rows, DayPage(tariffs, rows, d).sessions)
           /\ DayPage(tariffs, rows, d).sessions = SessionsOverlapping(rows, d * Day, (d + 1) * Day)
<1> DEFINE first == MonthOf(d * Day) * Month
           last == first + Month - 1
           I == SessionsOverlapping(rows, d * Day, (d + 1) * Day)
           range == LocalRange(rows, first, last)
<1>1. d \in Nat /\ first \in Int /\ last \in Int /\ d \in first .. last /\ Day \in Nat \ {0}
  <2>1. PICK m \in Nat : m = MonthOf(d * Day) /\ m * Month <= d /\ d <= m * Month + Month - 1
    BY MonthIs
  <2>2. m * Month \in Int /\ Month \in Nat
    BY ReportAssumption
  <2> QED
    BY <2>1, <2>2, TariffAssumption
<1>2. \A i \in DOMAIN rows : Period(rows[i], 1) = DayOf(rows[i].start) /\ rows[i].start \in Nat
  BY RowIs
<1>3. range \subseteq DOMAIN rows /\ StartsOn(rows, d) \subseteq range
  <2> SUFFICES ASSUME NEW i \in StartsOn(rows, d) PROVE i \in range
    BY DEF LocalRange, SessionsBetween
  <2>1. i \in DOMAIN rows /\ d * Day <= rows[i].start /\ rows[i].start < (d + 1) * Day
        /\ rows[i].start \in Nat
    BY <1>1, <1>2, DayIs DEF StartsOn
  <2>2. first * Day <= d * Day /\ (d + 1) * Day <= (last + 1) * Day /\ first * Day \in Int
        /\ d * Day \in Int /\ (d + 1) * Day \in Int /\ (last + 1) * Day \in Int
    <3>1. \A a, b \in Int : a <= b => a * Day <= b * Day /\ a * Day \in Int /\ b * Day \in Int
      <4> SUFFICES ASSUME NEW a \in Int, NEW b \in Int, a <= b
                   PROVE  a * Day <= b * Day /\ a * Day \in Int /\ b * Day \in Int
        OBVIOUS
      <4>1. a * Day \in Int /\ b * Day \in Int
        BY <1>1
      <4>2. a < b => a * Day + Day <= b * Day
        BY <1>1, Rows
      <4> QED
        BY <1>1, <4>1, <4>2
    <3>2. first <= d /\ d + 1 <= last + 1 /\ d \in Int /\ d + 1 \in Int /\ last + 1 \in Int
      BY <1>1
    <3> HIDE DEF first, last
    <3> QED
      BY <1>1, <3>1, <3>2
  <2> HIDE DEF first, last
  <2> QED
    BY <2>1, <2>2 DEF LocalRange, SessionsBetween
<1>4. {i \in range : Period(rows[i], 1) = d} = StartsOn(rows, d)
  BY <1>2, <1>3 DEF StartsOn
<1>5. CalendarMonth(tariffs, rows, MonthOf(d * Day)) = Calendar(tariffs, rows, range, first, last)
  BY DEF CalendarMonth
<1>6. Calendar(tariffs, rows, range, first, last)[d] = Sums(tariffs, rows, StartsOn(rows, d))
  <2> HIDE DEF first, last, range
  <2>1. Calendar(tariffs, rows, range, first, last)[d] = Sums(tariffs, rows, OnDay(rows, range, d))
    BY <1>1, <1>3, CalendarIs
  <2> QED
    BY <1>4, <2>1 DEF OnDay
<1>7. I \in SUBSET DOMAIN rows /\ StartsOn(rows, d) \subseteq I
  BY QueriesAre DEF SessionsOverlapping
<1>8. {i \in I : Period(rows[i], 1) = d} = StartsOn(rows, d)
  BY <1>2, <1>7 DEF StartsOn
<1>9. Calendar(tariffs, rows, I, d, d)[d] = Sums(tariffs, rows, StartsOn(rows, d))
  <2>1. d \in Int /\ d \in d .. d
    BY <1>1
  <2> HIDE DEF I
  <2>2. Calendar(tariffs, rows, I, d, d)[d] = Sums(tariffs, rows, OnDay(rows, I, d))
    BY <1>7, <2>1, CalendarIs
  <2> QED
    BY <1>8, <2>2 DEF OnDay
<1> HIDE DEF I, range, first, last
<1>10. DayPage(tariffs, rows, d) = [sessions |-> I, sums |-> Sums(tariffs, rows, I),
                                    totals |-> Calendar(tariffs, rows, I, d, d)[d]]
  BY DEF DayPage, I
<1> QED
  BY <1>5, <1>6, <1>9, <1>10 DEF I

\* The history gate counts what the months of the report have.
LEMMA GateAgrees ==
    ASSUME NEW tariffs, ArePrices(tariffs), NEW rows, AreRows(rows),
           NEW figure \in {"drives", "miles", "charges", "kwh"},
           NEW P, \A i \in DOMAIN rows : MonthOf(rows[i].start) \in P
    PROVE  SumOver(GateMonths(rows), figure, P) = Sums(tariffs, rows, Finished(rows))[figure]
<1> DEFINE J == Finished(rows)
           key == [i \in DOMAIN rows |-> MonthOf(rows[i].start)]
           report == GateMonths(rows)
           of(m) == {i \in J : MonthOf(rows[i].start) = m}
<1>1. J \in SUBSET DOMAIN rows /\ figure \in Figures
  BY DEF Finished, Figures
<1>2. \A m : {i \in J : key[i] = m} = of(m)
  BY <1>1
<1>3. report = [m \in {MonthOf(rows[i].start) : i \in J} |->
                   [drives  |-> Cardinality(of(m) \cap Drives(rows)),
                    miles   |-> MapThenSumSet(LAMBDA i : Amount(rows[i]), of(m) \cap Drives(rows)),
                    charges |-> Cardinality(of(m) \cap Charges(rows)),
                    kwh     |-> MapThenSumSet(LAMBDA i : Amount(rows[i]), of(m) \cap Charges(rows))]]
  BY DEF GateMonths
<1>4. DOMAIN report = {key[i] : i \in J}
  BY <1>1, <1>3
<1> HIDE DEF report
<1>5. \A m \in DOMAIN report : report[m][figure] = Sums(tariffs, rows, of(m))[figure]
  <2> SUFFICES ASSUME NEW m \in DOMAIN report PROVE report[m][figure] = Sums(tariffs, rows, of(m))[figure]
    OBVIOUS
  <2> HIDE DEF of
  <2>1. report[m] = [drives  |-> Cardinality(of(m) \cap Drives(rows)),
                     miles   |-> MapThenSumSet(LAMBDA i : Amount(rows[i]), of(m) \cap Drives(rows)),
                     charges |-> Cardinality(of(m) \cap Charges(rows)),
                     kwh     |-> MapThenSumSet(LAMBDA i : Amount(rows[i]), of(m) \cap Charges(rows))]
    BY <1>3
  <2> QED
    BY <2>1, AmountSum DEF Sums
<1>6. \A m \in DOMAIN report : report[m][figure] = Sums(tariffs, rows, Keyed(J, key, m))[figure]
  <2> HIDE DEF key, of, J
  <2> QED
    BY <1>2, <1>5 DEF Keyed
<1>7. KeyedIn(J, key, P) = J
  BY <1>1 DEF KeyedIn
<1> HIDE DEF key, J
<1>8. SumOver(report, figure, P) = SumOf(Parts(tariffs, rows, figure), KeyedIn(J, key, P))
  BY <1>1, <1>4, <1>6, SumOverKeys
<1>9. Sums(tariffs, rows, J)[figure] = SumOf(Parts(tariffs, rows, figure), J)
  BY <1>1, SumsAre
<1> QED
  BY <1>7, <1>8, <1>9 DEF report, J

\* The places of the charges have the cost of what is finished.
LEMMA PlacesAgree ==
    ASSUME NEW tariffs, ArePrices(tariffs), NEW rows, AreRows(rows),
           NEW places, places = ChargeLocations(tariffs, rows)
    PROVE  SumOver(places, "cost", DOMAIN places) = Sums(tariffs, rows, Finished(rows)).cost
<1> DEFINE J == Charges(rows)
           key == [i \in DOMAIN rows |-> LocationOf(rows[i])]
           f == Parts(tariffs, rows, "cost")
           of(p) == {i \in J : LocationOf(rows[i]) = p}
           done == Finished(rows)
<1>1. J \in SUBSET DOMAIN rows /\ done \in SUBSET DOMAIN rows /\ "cost" \in Figures
  BY DEF Charges, Finished, Figures
<1>2. \A p : {i \in J : key[i] = p} = of(p)
  BY <1>1
<1>3. places = [p \in {LocationOf(rows[i]) : i \in J} |-> Sums(tariffs, rows, of(p))]
  BY DEF ChargeLocations
<1>4. DOMAIN places = {key[i] : i \in J}
  BY <1>1, <1>3
<1>5. \A p \in DOMAIN places : places[p]["cost"] = Sums(tariffs, rows, Keyed(J, key, p))["cost"]
  <2> HIDE DEF key, of, J
  <2> QED
    BY <1>2, <1>3 DEF Keyed
<1>6. KeyedIn(J, key, DOMAIN places) = J
  <2> HIDE DEF key, J
  <2> QED
    BY <1>4 DEF KeyedIn
<1>7. SumOver(places, "cost", DOMAIN places) = SumOf(f, KeyedIn(J, key, DOMAIN places))
  <2> HIDE DEF key, J, of
  <2> QED
    BY <1>1, <1>4, <1>5, SumOverKeys
<1>8. Sums(tariffs, rows, done)["cost"] = SumOf(f, done)
  <2> HIDE DEF done
  <2> QED
    BY <1>1, SumsAre
<1>9. SumOf(f, J) = SumOf(f, J \cap done) /\ SumOf(f, done) = SumOf(f, J \cap done)
  <2>1. \A K \in SUBSET DOMAIN rows : Values(f, K)
    <3> SUFFICES ASSUME NEW K \in SUBSET DOMAIN rows PROVE Values(f, K)
      OBVIOUS
    <3>1. IsFiniteSet(K)
      BY FiniteRows
    <3>2. \A i \in K : f[i] \in Int
      BY <1>1, PartType DEF Parts
    <3> QED
      BY <3>1, <3>2 DEF Values
  <2>2. \A i \in J \ (J \cap done) : f[i] = 0
    BY DEF Parts, Part, Cost, Finished, Charges
  <2>3. \A i \in done \ (J \cap done) : f[i] = 0
    BY DEF Parts, Part, Cost, Finished, Charges
  <2> HIDE DEF f, done, J
  <2> QED
    BY <1>1, <2>1, <2>2, <2>3, SumWithout
<1> HIDE DEF f, done, J, key
<1> QED
  BY <1>6, <1>7, <1>8, <1>9 DEF done

LEMMA HomeAssistantAgrees ==
    ASSUME NEW tariffs, NEW rows, AreRows(rows), Midnights \in Nat, NEW d \in 0 .. Midnights - 1,
           NEW figure \in {"miles", "kwh"}
    PROVE  HomeAssistantToday(rows, d)[figure] = Sums(tariffs, rows, StartsOn(rows, d))[figure]
<1>1. SessionsBetween(rows, d * Day, (d + 1) * Day) = StartsOn(rows, d)
  BY QueriesAre
<1>2. HomeAssistantToday(rows, d)
          = [miles |-> MapThenSumSet(LAMBDA i : Amount(rows[i]), StartsOn(rows, d) \cap Drives(rows)),
             kwh   |-> MapThenSumSet(LAMBDA i : Amount(rows[i]), StartsOn(rows, d) \cap Charges(rows))]
  BY <1>1 DEF HomeAssistantToday
<1> QED
  BY <1>2, AmountSum DEF Sums

\* What ReportsAgree says of an answer.
Agree(a) ==
    LET rows == a.rows
        days == DOMAIN a.pages
        all == DOMAIN rows
        whole == Sums(a.tariffs, rows, Finished(rows))
        startsOn(d) == StartsOn(rows, d)
        open(d) == Sums(a.tariffs, rows, startsOn(d) \ Finished(rows))
        earlier(d) == Sums(a.tariffs, rows, a.pages[d].sessions \ startsOn(d))
        day(d, f) == a.calendar[MonthOf(d * Day)][d][f]
    IN  /\ \A f \in Figures :
              /\ \A m \in DOMAIN a.calendar :
                    LET inMonth == {d \in days : MonthOf(d * Day) = m}
                    IN  SumOver(a.months, f, {m}) = SumOver(a.daily, f, inMonth)
              /\ \A d \in days :
                    /\ a.pages[d].totals[f] = day(d, f)
                    /\ a.pages[d].sums[f] = day(d, f) + earlier(d)[f]
        /\ \A f \in Figures \ {"time"} :
              /\ SumOver(a.daily, f, days) = whole[f]
              /\ \A d \in days : day(d, f) = SumOver(a.daily, f, {d}) + open(d)[f]
        /\ CutToMinutes(SumOver(a.daily, "time", days), whole.time, whole.drives)
        /\ \A d \in days : CutToMinutes(SumOver(a.daily, "time", {d}),
                                        day(d, "time") - open(d).time,
                                        SumOver(a.daily, "drives", {d}))
        /\ \A f \in {"drives", "miles", "charges", "kwh"} :
              SumOver(a.gate, f, DOMAIN a.calendar) = whole[f]
        /\ \A d \in days, f \in {"miles", "kwh"} : a.ha[d][f] = day(d, f)
        /\ SumOver(a.places, "cost", DOMAIN a.places) = whole.cost
        /\ \A i \in all : \E d \in days :
              /\ i \in startsOn(d)
              /\ {e \in days : i \in a.pages[e].sessions} =
                    {e \in days : /\ d <= e
                                  /\ rows[i].end = Running \/ e * Day < rows[i].end}

\* The reports over the rows that there can be agree.
LEMMA RowsAgree ==
    ASSUME Midnights \in Nat, Midnights > 0, NEW a, ArePrices(a.tariffs), AreRows(a.rows),
           a.pages = [d \in 0 .. Midnights - 1 |-> DayPage(a.tariffs, a.rows, d)],
           a.daily = Daily(a.tariffs, a.rows),
           a.months = Monthly(a.tariffs, a.rows),
           a.gate = GateMonths(a.rows),
           a.ha = [d \in 0 .. Midnights - 1 |-> HomeAssistantToday(a.rows, d)],
           a.calendar = [m \in {MonthOf(d * Day) : d \in 0 .. Midnights - 1} |->
                            CalendarMonth(a.tariffs, a.rows, m)],
           a.places = ChargeLocations(a.tariffs, a.rows)
    PROVE  Agree(a)
<1> DEFINE rows == a.rows
           tariffs == a.tariffs
           days == 0 .. Midnights - 1
           done == Finished(rows)
<1>1. DOMAIN a.pages = days /\ DOMAIN a.calendar = {MonthOf(d * Day) : d \in days}
  OBVIOUS
<1>2. /\ a.daily = Daily(tariffs, rows) /\ a.months = Monthly(tariffs, rows)
      /\ a.gate = GateMonths(rows) /\ a.places = ChargeLocations(tariffs, rows)
  OBVIOUS
<1>3. \A d \in days : /\ a.pages[d] = DayPage(tariffs, rows, d)
                      /\ a.ha[d] = HomeAssistantToday(rows, d)
                      /\ a.calendar[MonthOf(d * Day)] = CalendarMonth(tariffs, rows, MonthOf(d * Day))
  OBVIOUS
<1>0. AreRows(rows) /\ ArePrices(tariffs)
  OBVIOUS
<1> HIDE DEF days, rows, tariffs
<1>4. \A d \in days : /\ a.calendar[MonthOf(d * Day)][d] = Sums(tariffs, rows, StartsOn(rows, d))
                      /\ a.pages[d].totals = Sums(tariffs, rows, StartsOn(rows, d))
                      /\ a.pages[d].sums = Sums(tariffs, rows, a.pages[d].sessions)
                      /\ a.pages[d].sessions = SessionsOverlapping(rows, d * Day, (d + 1) * Day)
  <2> TAKE d \in days
  <2>1. /\ CalendarMonth(tariffs, rows, MonthOf(d * Day))[d] = Sums(tariffs, rows, StartsOn(rows, d))
        /\ DayPage(tariffs, rows, d).totals = Sums(tariffs, rows, StartsOn(rows, d))
        /\ DayPage(tariffs, rows, d).sums = Sums(tariffs, rows, DayPage(tariffs, rows, d).sessions)
        /\ DayPage(tariffs, rows, d).sessions = SessionsOverlapping(rows, d * Day, (d + 1) * Day)
    BY <1>0, DaysAgree DEF days
  <2> QED
    BY <1>3, <2>1
<1>5. \A d \in days : /\ a.pages[d].sessions \in SUBSET DOMAIN rows
                      /\ StartsOn(rows, d) \subseteq a.pages[d].sessions
                      /\ a.pages[d].sessions = {i \in DOMAIN rows :
                             DayOf(rows[i].start) <= d /\ (rows[i].end = Running \/ d * Day < rows[i].end)}
  <2> TAKE d \in days
  <2>1. /\ StartsOn(rows, d) \subseteq SessionsOverlapping(rows, d * Day, (d + 1) * Day)
        /\ SessionsOverlapping(rows, d * Day, (d + 1) * Day) = {i \in DOMAIN rows :
               DayOf(rows[i].start) <= d /\ (rows[i].end = Running \/ d * Day < rows[i].end)}
    BY <1>0, QueriesAre DEF days
  <2>2. SessionsOverlapping(rows, d * Day, (d + 1) * Day) \in SUBSET DOMAIN rows
    BY DEF SessionsOverlapping
  <2> QED
    BY <1>4, <2>1, <2>2
<1>6. /\ \A f \in Figures : \A m : SumOver(a.months, f, {m}) = SumOver(a.daily, f, DaysOf(m))
      /\ \A f \in Figures : SumOver(a.daily, f, days) = SumOf(TotalParts(tariffs, rows, f), done)
      /\ \A f \in Figures : \A d :
            SumOver(a.daily, f, {d}) = SumOf(TotalParts(tariffs, rows, f), DoneOn(rows, d))
  <2>1. a.daily = Daily(tariffs, rows) /\ a.months = Monthly(tariffs, rows)
    BY <1>2
  <2>2. \A f \in Figures : SumOver(Daily(tariffs, rows), f, 0 .. Midnights - 1)
                               = SumOf(TotalParts(tariffs, rows, f), Finished(rows))
    BY <1>0, TotalsAgree
  <2>3. \A f \in Figures : \A m : SumOver(Monthly(tariffs, rows), f, {m}) = SumOver(Daily(tariffs, rows), f, DaysOf(m))
    <3> TAKE f \in Figures
    <3> TAKE m
    <3> QED
      BY <1>0, TotalsAgree
  <2>4. \A f \in Figures : \A d : SumOver(Daily(tariffs, rows), f, {d})
                          = SumOf(TotalParts(tariffs, rows, f), DoneOn(rows, d))
    <3> TAKE f \in Figures
    <3> TAKE d
    <3> QED
      BY <1>0, TotalsAgree
  <2> QED
    BY <2>1, <2>2, <2>3, <2>4 DEF days
<1>25. ASSUME NEW P, NEW K \in SUBSET DOMAIN rows,
              \A f \in Figures : SumOver(Daily(tariffs, rows), f, P) = SumOf(TotalParts(tariffs, rows, f), K)
       PROVE  /\ \A f \in Figures \ {"time"} :
                     SumOver(Daily(tariffs, rows), f, P) = Sums(tariffs, rows, K)[f]
              /\ CutToMinutes(SumOver(Daily(tariffs, rows), "time", P), Sums(tariffs, rows, K)["time"],
                              Sums(tariffs, rows, K)["drives"])
  BY <1>0, <1>25, TotalsCount
<1>21. /\ \A f \in Figures \ {"time"} : SumOver(a.daily, f, days) = Sums(tariffs, rows, done)[f]
       /\ CutToMinutes(SumOver(a.daily, "time", days), Sums(tariffs, rows, done)["time"],
                       Sums(tariffs, rows, done)["drives"])
  <2>1. done \in SUBSET DOMAIN rows
    BY DEF Finished
  <2>2. \A f \in Figures : SumOver(Daily(tariffs, rows), f, days) = SumOf(TotalParts(tariffs, rows, f), done)
    BY <1>2, <1>6
  <2> HIDE DEF done
  <2>3. /\ \A f \in Figures \ {"time"} :
              SumOver(Daily(tariffs, rows), f, days) = Sums(tariffs, rows, done)[f]
        /\ CutToMinutes(SumOver(Daily(tariffs, rows), "time", days), Sums(tariffs, rows, done)["time"],
                        Sums(tariffs, rows, done)["drives"])
    BY <1>25, <2>1, <2>2
  <2> QED
    BY <1>2, <2>3
<1>22. ASSUME NEW d
       PROVE  /\ \A f \in Figures \ {"time"} :
                     SumOver(a.daily, f, {d}) = Sums(tariffs, rows, DoneOn(rows, d))[f]
              /\ CutToMinutes(SumOver(a.daily, "time", {d}), Sums(tariffs, rows, DoneOn(rows, d))["time"],
                              Sums(tariffs, rows, DoneOn(rows, d))["drives"])
  <2>1. DoneOn(rows, d) \in SUBSET DOMAIN rows
    BY DEF DoneOn, StartsOn
  <2>2. \A f \in Figures : SumOver(Daily(tariffs, rows), f, {d})
                               = SumOf(TotalParts(tariffs, rows, f), DoneOn(rows, d))
    BY <1>2, <1>6
  <2>3. /\ \A f \in Figures \ {"time"} :
              SumOver(Daily(tariffs, rows), f, {d}) = Sums(tariffs, rows, DoneOn(rows, d))[f]
        /\ CutToMinutes(SumOver(Daily(tariffs, rows), "time", {d}),
                        Sums(tariffs, rows, DoneOn(rows, d))["time"],
                        Sums(tariffs, rows, DoneOn(rows, d))["drives"])
    BY <1>25, <2>1, <2>2
  <2> QED
    BY <1>2, <2>3
<1>7. ASSUME NEW f \in Figures, NEW d \in days
      PROVE  LET day == a.calendar[MonthOf(d * Day)][d][f]
                 open == Sums(tariffs, rows, StartsOn(rows, d) \ Finished(rows))[f]
                 earlier == Sums(tariffs, rows, a.pages[d].sessions \ StartsOn(rows, d))[f]
             IN  /\ day = Sums(tariffs, rows, DoneOn(rows, d))[f] + open
                 /\ day \in Int /\ open \in Int /\ Sums(tariffs, rows, DoneOn(rows, d))[f] \in Int
                 /\ a.pages[d].totals[f] = day
                 /\ a.pages[d].sums[f] = day + earlier
  <2> DEFINE S == StartsOn(rows, d)
             I == a.pages[d].sessions
  <2>1. S \in SUBSET DOMAIN rows /\ I \in SUBSET DOMAIN rows /\ S \subseteq I
    BY <1>5 DEF StartsOn
  <2> HIDE DEF S, I, done
  <2>2. /\ S \cap done \in SUBSET DOMAIN rows /\ S \ done \in SUBSET DOMAIN rows
        /\ (S \cap done) \cap (S \ done) = {} /\ (S \cap done) \cup (S \ done) = S
        /\ I \ S \in SUBSET DOMAIN rows /\ S \cap (I \ S) = {} /\ S \cup (I \ S) = I
    BY <2>1
  <2>3. Sums(tariffs, rows, (S \cap done) \cup (S \ done))[f]
            = Sums(tariffs, rows, S \cap done)[f] + Sums(tariffs, rows, S \ done)[f]
    BY <1>0, <2>2, SumsSplit
  <2>4. Sums(tariffs, rows, S \cup (I \ S))[f]
            = Sums(tariffs, rows, S)[f] + Sums(tariffs, rows, I \ S)[f]
    BY <1>0, <2>1, <2>2, SumsSplit
  <2>5. Sums(tariffs, rows, S)[f] = Sums(tariffs, rows, S \cap done)[f] + Sums(tariffs, rows, S \ done)[f]
    BY <2>2, <2>3
  <2>6. Sums(tariffs, rows, I)[f] = Sums(tariffs, rows, S)[f] + Sums(tariffs, rows, I \ S)[f]
    BY <2>2, <2>4
  <2>7. \A K \in SUBSET DOMAIN rows : Sums(tariffs, rows, K)[f] \in Int
    <3> TAKE K \in SUBSET DOMAIN rows
    <3>1. IsFiniteSet(K) /\ \A i \in K : Parts(tariffs, rows, f)[i] \in Int
      BY <1>0, FiniteRows, PartType DEF Parts
    <3>2. SumOf(Parts(tariffs, rows, f), K) \in Int
      BY <3>1, SumType DEF Values
    <3> QED
      BY <1>0, <3>2, SumsAre
  <2>8. Sums(tariffs, rows, S)[f] \in Int /\ Sums(tariffs, rows, S \cap done)[f] \in Int
        /\ Sums(tariffs, rows, S \ done)[f] \in Int
    BY <2>1, <2>2, <2>7
  <2> QED
    BY <1>4, <2>5, <2>6, <2>8 DEF S, I, done, DoneOn
<1>8. ASSUME NEW f \in {"drives", "miles", "charges", "kwh"}
      PROVE  SumOver(a.gate, f, DOMAIN a.calendar) = Sums(tariffs, rows, done)[f]
  <2>1. ASSUME NEW i \in DOMAIN rows PROVE MonthOf(rows[i].start) \in DOMAIN a.calendar
    <3>1. DayOf(rows[i].start) \in days /\ DayOf(rows[i].start) \in Nat
      BY <1>0, RowIs DEF days
    <3>2. MonthOf(rows[i].start) = MonthOf(DayOf(rows[i].start) * Day)
      BY <3>1, MonthIs DEF MonthOf
    <3> QED
      BY <1>1, <3>1, <3>2
  <2>2. DOMAIN a.calendar = DOMAIN a.calendar
    OBVIOUS
  <2> QED
    BY <1>0, <1>2, <2>1, GateAgrees
<1>9. ASSUME NEW d \in days, NEW f \in {"miles", "kwh"}
      PROVE  a.ha[d][f] = a.calendar[MonthOf(d * Day)][d][f]
  <2>1. HomeAssistantToday(rows, d)[f] = Sums(tariffs, rows, StartsOn(rows, d))[f]
    BY <1>0, HomeAssistantAgrees DEF days
  <2> QED
    BY <1>3, <1>4, <2>1
<1>10. SumOver(a.places, "cost", DOMAIN a.places) = Sums(tariffs, rows, done).cost
  BY <1>0, <1>2, PlacesAgree
<1>11. ASSUME NEW i \in DOMAIN rows
       PROVE  \E d \in days :
                 /\ i \in StartsOn(rows, d)
                 /\ {e \in days : i \in a.pages[e].sessions} =
                       {e \in days : /\ d <= e
                                     /\ rows[i].end = Running \/ e * Day < rows[i].end}
  <2>1. DayOf(rows[i].start) \in days /\ i \in StartsOn(rows, DayOf(rows[i].start))
    BY <1>0, RowIs DEF days
  <2>2. \A e \in days : i \in a.pages[e].sessions <=>
            DayOf(rows[i].start) <= e /\ (rows[i].end = Running \/ e * Day < rows[i].end)
    BY <1>5
  <2> QED
    BY <2>1, <2>2
<1>12. \A m : {d \in days : MonthOf(d * Day) = m} = DaysOf(m)
  BY DEF days, DaysOf
<1> HIDE DEF done
<1>13. \A f \in Figures : \A m \in DOMAIN a.calendar :
          SumOver(a.months, f, {m}) = SumOver(a.daily, f, {d \in days : MonthOf(d * Day) = m})
  <2> TAKE f \in Figures
  <2> TAKE m \in DOMAIN a.calendar
  <2>1. SumOver(a.months, f, {m}) = SumOver(a.daily, f, DaysOf(m))
    BY <1>6
  <2> QED
    BY <1>12, <2>1
<1>14. \A f \in Figures \ {"time"} : \A d \in days :
          a.calendar[MonthOf(d * Day)][d][f]
              = SumOver(a.daily, f, {d}) + Sums(tariffs, rows, StartsOn(rows, d) \ Finished(rows))[f]
  <2> TAKE f \in Figures \ {"time"}
  <2> TAKE d \in days
  <2>1. f \in Figures
    OBVIOUS
  <2>2. a.calendar[MonthOf(d * Day)][d][f]
            = Sums(tariffs, rows, DoneOn(rows, d))[f] + Sums(tariffs, rows, StartsOn(rows, d) \ Finished(rows))[f]
    BY <1>7, <2>1, Zenon
  <2>3. SumOver(a.daily, f, {d}) = Sums(tariffs, rows, DoneOn(rows, d))[f]
    BY <1>22, Zenon
  <2> QED
    BY <2>2, <2>3
<1>23. \A d \in days :
          CutToMinutes(SumOver(a.daily, "time", {d}),
                       a.calendar[MonthOf(d * Day)][d]["time"]
                           - Sums(tariffs, rows, StartsOn(rows, d) \ Finished(rows))["time"],
                       SumOver(a.daily, "drives", {d}))
  <2> TAKE d \in days
  <2>1. "time" \in Figures /\ "drives" \in Figures \ {"time"}
    BY DEF Figures
  <2>2. a.calendar[MonthOf(d * Day)][d]["time"]
            - Sums(tariffs, rows, StartsOn(rows, d) \ Finished(rows))["time"]
            = Sums(tariffs, rows, DoneOn(rows, d))["time"]
    <3> DEFINE x == a.calendar[MonthOf(d * Day)][d]["time"]
               y == Sums(tariffs, rows, StartsOn(rows, d) \ Finished(rows))["time"]
               z == Sums(tariffs, rows, DoneOn(rows, d))["time"]
    <3>1. x = z + y /\ x \in Int /\ y \in Int /\ z \in Int
      BY <1>7, <2>1, Zenon
    <3> HIDE DEF x, y, z
    <3>2. x - y = z
      BY <3>1
    <3> QED
      BY <3>2 DEF x, y, z
  <2> QED
    BY <1>22, <2>1, <2>2
<1>15. \A f \in Figures : \A d \in days :
          LET day == a.calendar[MonthOf(d * Day)][d][f]
              earlier == Sums(tariffs, rows, a.pages[d].sessions \ StartsOn(rows, d))[f]
          IN  /\ a.pages[d].totals[f] = day
              /\ a.pages[d].sums[f] = day + earlier
  BY <1>7
<1>16. /\ \A f \in {"drives", "miles", "charges", "kwh"} :
             SumOver(a.gate, f, DOMAIN a.calendar) = Sums(tariffs, rows, done)[f]
       /\ \A d \in days, f \in {"miles", "kwh"} : a.ha[d][f] = a.calendar[MonthOf(d * Day)][d][f]
  BY <1>8, <1>9
<1>17. DOMAIN a.pages = days
  BY <1>1
<1>18. \A f \in Figures :
          /\ \A m \in DOMAIN a.calendar :
                SumOver(a.months, f, {m})
                    = SumOver(a.daily, f, {d \in DOMAIN a.pages : MonthOf(d * Day) = m})
          /\ \A d \in DOMAIN a.pages :
                LET day == a.calendar[MonthOf(d * Day)][d][f]
                    earlier == Sums(tariffs, rows, a.pages[d].sessions \ StartsOn(rows, d))[f]
                IN  /\ a.pages[d].totals[f] = day
                    /\ a.pages[d].sums[f] = day + earlier
  BY <1>13, <1>15, <1>17
<1>24. /\ \A f \in Figures \ {"time"} :
             /\ SumOver(a.daily, f, DOMAIN a.pages) = Sums(tariffs, rows, Finished(rows))[f]
             /\ \A d \in DOMAIN a.pages :
                   a.calendar[MonthOf(d * Day)][d][f]
                       = SumOver(a.daily, f, {d})
                             + Sums(tariffs, rows, StartsOn(rows, d) \ Finished(rows))[f]
       /\ CutToMinutes(SumOver(a.daily, "time", DOMAIN a.pages),
                       Sums(tariffs, rows, Finished(rows)).time,
                       Sums(tariffs, rows, Finished(rows)).drives)
       /\ \A d \in DOMAIN a.pages :
             CutToMinutes(SumOver(a.daily, "time", {d}),
                          a.calendar[MonthOf(d * Day)][d]["time"]
                              - Sums(tariffs, rows, StartsOn(rows, d) \ Finished(rows)).time,
                          SumOver(a.daily, "drives", {d}))
  BY <1>14, <1>17, <1>21, <1>23 DEF done
<1>19. /\ \A f \in {"drives", "miles", "charges", "kwh"} :
             SumOver(a.gate, f, DOMAIN a.calendar) = Sums(tariffs, rows, Finished(rows))[f]
       /\ \A d \in DOMAIN a.pages, f \in {"miles", "kwh"} :
             a.ha[d][f] = a.calendar[MonthOf(d * Day)][d][f]
       /\ SumOver(a.places, "cost", DOMAIN a.places) = Sums(tariffs, rows, Finished(rows)).cost
  BY <1>10, <1>16, <1>17 DEF done
<1>20. \A i \in DOMAIN rows : \E d \in DOMAIN a.pages :
          /\ i \in StartsOn(rows, d)
          /\ {e \in DOMAIN a.pages : i \in a.pages[e].sessions} =
                {e \in DOMAIN a.pages : /\ d <= e
                                        /\ rows[i].end = Running \/ e * Day < rows[i].end}
  BY <1>11, <1>17
<1> QED
  BY <1>18, <1>19, <1>20, <1>24 DEF Agree, rows, tariffs

\* What is known of the spans of two sessions.
LEMMA SpansAre ==
    ASSUME NEW s \in Spans
    PROVE  /\ s[1] \in 0 .. Midnights * Day - 1 /\ s[2] \in Nat /\ s[1] < s[2]
           /\ s[3] \in 0 .. Midnights * Day - 1 /\ s[2] <= s[3]
           /\ s[4] = Running \/ (s[4] \in Nat /\ s[4] > s[3])
           /\ s[1] \in Nat /\ s[3] \in Nat
           /\ Midnights > 0
<1>1. PICK p \in {ab \in (0 .. Midnights * Day) \X (1 .. Midnights * Day - 2) : ab[1] < ab[2]} :
          s \in {<<p[1], p[2], c, d>> : c \in {p[2], p[2] + 1}, d \in {Running} \cup p[2] + 2 .. Midnights * Day}
  BY DEF Spans
<1>5. PICK c \in {p[2], p[2] + 1}, d \in {Running} \cup p[2] + 2 .. Midnights * Day : s = <<p[1], p[2], c, d>>
  BY <1>1
<1>2. PICK n \in Nat : n = Midnights * Day /\ Midnights \in Nat /\ (Midnights = 0 => n = 0)
  BY CalculationAssumption, TariffAssumption
<1>3. p[1] \in 0 .. n /\ p[2] \in 1 .. n - 2 /\ p[1] < p[2]
  BY <1>1, <1>2
<1>4. s[1] = p[1] /\ s[2] = p[2] /\ s[3] = c /\ s[4] = d
  BY <1>5
<1>6. c \in {p[2], p[2] + 1} /\ (d = Running \/ d \in p[2] + 2 .. n)
  BY <1>2, <1>5
<1>7. /\ p[1] \in 0 .. n - 1 /\ p[2] \in Nat /\ c \in 0 .. n - 1 /\ n > 0 /\ p[2] <= c
      /\ p[1] \in Nat /\ c \in Nat
      /\ d = Running \/ (d \in Nat /\ d > c)
  <2>1. PICK u \in Nat, v \in Nat : u = p[1] /\ v = p[2] /\ u < v /\ v + 2 <= n
    BY <1>3
  <2>2. c \in {v, v + 1} /\ (d = Running \/ d \in v + 2 .. n)
    BY <1>6, <2>1
  <2>3. u \in 0 .. n - 1 /\ n > 0 /\ c \in 0 .. n - 1 /\ v <= c /\ c \in Nat
    BY <2>1, <2>2
  <2>4. d = Running \/ (d \in Nat /\ d > c)
    BY <2>1, <2>2
  <2> QED
    BY <2>1, <2>3, <2>4
<1> QED
  BY <1>2, <1>3, <1>4, <1>7

LEMMA AskReportsAgree == AskReports => ReportsAgree'
<1> SUFFICES ASSUME AskReports PROVE ReportsAgree'
  OBVIOUS
<1> DEFINE tariffs == Tariff(<<[days |-> {1}, start |-> 1, end |-> 0, price |-> 2]>>)
           days == 0 .. Midnights - 1
           Answered(rows) ==
               answer' =
                   [of |-> "reports", rows |-> rows, tariffs |-> tariffs,
                    pages  |-> [d \in days |-> DayPage(tariffs, rows, d)],
                    daily  |-> Totals(tariffs, rows, LocalRange(rows, 0, Midnights - 1), 1),
                    months |-> Totals(tariffs, rows, LocalRange(rows, 0, Midnights - 1), Month),
                    gate   |-> GateMonths(rows),
                    ha     |-> [d \in days |-> HomeAssistantToday(rows, d)],
                    calendar |-> [m \in {MonthOf(d * Day) : d \in days} |-> CalendarMonth(tariffs, rows, m)],
                    places |-> ChargeLocations(tariffs, rows)]
<1>1. PICK x \in Shapes, y \in Shapes, s \in Spans :
          Answered(<<Session(x, s[1], s[2]), Session(y, s[3], s[4])>>)
  BY DEF AskReports
<1> HIDE DEF Answered
<1>2. /\ s[1] \in 0 .. Midnights * Day - 1 /\ s[2] \in Nat /\ s[1] < s[2]
      /\ s[3] \in 0 .. Midnights * Day - 1
      /\ s[4] = Running \/ (s[4] \in Nat /\ s[4] > s[3])
      /\ Midnights > 0
  BY SpansAre
<1> DEFINE rows == <<Session(x, s[1], s[2]), Session(y, s[3], s[4])>>
<1>3. \A z \in Shapes : \A a, b :
          /\ Session(z, a, b).start = a /\ Session(z, a, b).end = b
          /\ Session(z, a, b).amount \in Int /\ Session(z, a, b).invoice \in Int
  BY DEF Session, Shapes, Charge, Unknown, NoInvoice
<1>4. AreRows(rows)
  <2>1. DOMAIN rows = 1 .. 2 /\ rows[1] = Session(x, s[1], s[2]) /\ rows[2] = Session(y, s[3], s[4])
    OBVIOUS
  <2> HIDE DEF rows
  <2> QED
    BY <1>2, <1>3, <2>1 DEF AreRows
<1>5. ArePrices(tariffs)
  <2>1. tariffs.supercharger \in Int /\ tariffs.public \in Int /\ tariffs.home \in Int
        /\ DOMAIN tariffs.windows = 1 .. 1 /\ tariffs.windows[1].price \in Int
    BY DEF Tariff
  <2>2. \A t \in Int : HomePrice(tariffs, t) \in Int
    <3> TAKE t \in Int
    <3> DEFINE fits == {i \in DOMAIN tariffs.windows : Matches(tariffs.windows[i], t)}
    <3>1. fits = {} \/ fits = {1}
      BY <2>1
    <3>2. fits = {1} => Min(fits) = 1
      BY DEF Min
    <3> HIDE DEF fits, tariffs
    <3> QED
      BY <2>1, <3>1, <3>2 DEF HomePrice, fits
  <2> HIDE DEF tariffs
  <2> QED
    BY <2>1, <2>2 DEF ArePrices, PriceAt
<1> HIDE DEF rows, tariffs
<1>6. Agree(answer')
  <2>1. /\ answer'.rows = rows /\ answer'.tariffs = tariffs
        /\ answer'.pages = [d \in days |-> DayPage(tariffs, rows, d)]
        /\ answer'.daily = Daily(tariffs, rows)
        /\ answer'.months = Monthly(tariffs, rows)
        /\ answer'.gate = GateMonths(rows)
        /\ answer'.ha = [d \in days |-> HomeAssistantToday(rows, d)]
        /\ answer'.calendar = [m \in {MonthOf(d * Day) : d \in days} |-> CalendarMonth(tariffs, rows, m)]
        /\ answer'.places = ChargeLocations(tariffs, rows)
    BY <1>1 DEF Answered, rows, Daily, Monthly
  <2> QED
    BY <1>2, <1>4, <1>5, <2>1, RowsAgree, CalculationAssumption
<1>7. ReportsAgree' = (answer'.of = "reports" => Agree(answer'))
  BY DEF ReportsAgree, Agree, StartsOn
<1> QED
  BY <1>6, <1>7

-----------------------------------------------------------------------------
(* The answers in every behaviour.                                         *)

LEMMA AnswersNamed ==
    /\ AskTimes => answer'.of = "times"
    /\ AskFiles => answer'.of = "files"
    /\ AskCost => answer'.of = "cost"
    /\ AskReports => answer'.of = "reports"
    /\ AskMap => answer'.of = "map"
    /\ AskDrives => answer'.of = "drives"
    /\ AskTelemetry => answer'.of = "telemetry"
<1>1. AskTimes => answer'.of = "times"
  BY DEF AskTimes
<1>2. AskFiles => answer'.of = "files"
  BY DEF AskFiles
<1>3. AskCost => answer'.of = "cost"
  <2>1. \A tariffs, charge : PricedAt(tariffs, charge) => answer'.of = "cost"
    BY DEF PricedAt
  <2> QED
    BY <2>1 DEF AskCost
<1>4. AskReports => answer'.of = "reports"
  BY DEF AskReports
<1>5. AskMap => answer'.of = "map"
  BY DEF AskMap
<1>6. AskDrives => answer'.of = "drives"
  BY DEF AskDrives
<1>7. AskTelemetry => answer'.of = "telemetry"
  BY DEF AskTelemetry
<1> QED
  BY <1>1, <1>2, <1>3, <1>4, <1>5, <1>6, <1>7

\* A charge at home costs, slice by slice, what the owner's windows say for the
\* time of the slice, to within the slices in which the price changes; elsewhere
\* it has one price, and an invoice always wins: for every set of places and
\* every length of the calendar (charge_cost, price_at, _price_kind).
THEOREM CostIsFairAlways == Spec => []CostIsFair
<1>1. Init => CostIsFair
  BY DEF Init, CostIsFair
<1>2. CostIsFair /\ [Next]_answer => CostIsFair'
  <2> SUFFICES ASSUME CostIsFair, [Next]_answer
               PROVE  CostIsFair'
    OBVIOUS
  <2>1. CASE AskCost
    BY <2>1, AskCostIsFair
  <2>2. CASE AskTimes \/ AskFiles \/ AskReports \/ AskMap \/ AskDrives \/ AskTelemetry
    <3>1. answer'.of # "cost"
      BY <2>2, AnswersNamed
    <3> QED
      BY <3>1 DEF CostIsFair
  <2>3. CASE UNCHANGED answer
    BY <2>3 DEF CostIsFair
  <2> QED
    BY <2>1, <2>2, <2>3 DEF Next
<1> QED
  BY <1>1, <1>2, PTL DEF Spec

\* Every finished session counts in one day and in the month of that day, in
\* whichever report counts it; the pages, the calendar and Home Assistant differ
\* from the totals by the sessions they are meant to add, and from their minutes
\* by less than one for each drive: for every number of days that the sessions
\* fall on and every length of a minute (totals, aggregate, calendar,
\* totals_from_sessions, state_payload, summarize_day, charge_locations).
THEOREM ReportsAgreeAlways == Spec => []ReportsAgree
<1>1. Init => ReportsAgree
  BY DEF Init, ReportsAgree
<1>2. ReportsAgree /\ [Next]_answer => ReportsAgree'
  <2> SUFFICES ASSUME ReportsAgree, [Next]_answer
               PROVE  ReportsAgree'
    OBVIOUS
  <2>1. CASE AskReports
    BY <2>1, AskReportsAgree
  <2>2. CASE AskTimes \/ AskFiles \/ AskCost \/ AskMap \/ AskDrives \/ AskTelemetry
    <3>1. answer'.of # "reports"
      BY <2>2, AnswersNamed
    <3> QED
      BY <3>1 DEF ReportsAgree
  <2>3. CASE UNCHANGED answer
    <3>1. ReportsAgree = (answer.of = "reports" => Agree(answer))
      BY DEF ReportsAgree, Agree, StartsOn
    <3>2. ReportsAgree' = (answer'.of = "reports" => Agree(answer'))
      BY DEF ReportsAgree, Agree, StartsOn
    <3>3. answer' = answer
      BY <2>3
    <3> QED
      BY <3>1, <3>2, <3>3
  <2> QED
    BY <2>1, <2>2, <2>3 DEF Next
<1> QED
  BY <1>1, <1>2, PTL DEF Spec

-----------------------------------------------------------------------------
(* Rows that are read one after the other: folds over numbers, in order.   *)

LEMMA MaxIs ==
    ASSUME NEW m \in Nat, NEW S \in SUBSET (0 .. m), S # {}
    PROVE  Max(S) \in S /\ \A x \in S : x <= Max(S)
<1> DEFINE T == {m - x : x \in S}
<1>1. T \subseteq Nat /\ T # {}
  <2>1. \A x \in S : m - x \in Nat
    <3> TAKE x \in S
    <3>1. x \in 0 .. m
      OBVIOUS
    <3> QED
      BY <3>1
  <2> QED
    BY <2>1
<1> HIDE DEF T
<1>2. PICK k \in T : \A l \in T : k <= l
  BY <1>1, LeastExists
<1>3. PICK y \in S : k = m - y
  BY DEF T
<1>4. \A x \in S : m - x \in T
  BY DEF T
<1>5. \A x \in S : y >= x
  BY <1>2, <1>3, <1>4
<1> QED
  BY <1>5 DEF Max

Below(S, n) == {t \in S : t < n}

LEMMA BelowIs ==
    ASSUME NEW m \in Nat, NEW S \in SUBSET (0 .. m)
    PROVE  /\ Below(S, 0) = {} /\ Below(S, m + 1) = S
           /\ \A n : Below(S, n) \in SUBSET S
<1>1. \A x \in S : x \in 0 .. m
  OBVIOUS
<1>2. \A x \in S : ~(x < 0) /\ x < m + 1
  BY <1>1
<1> QED
  BY <1>2 DEF Below

LinkStart == [start |-> NoReading, found |-> {}]

\* What is read: the rows of the link, those of a file, the reports on the files
\* of an import, or the rows that links are taken from.
StartOf(what) ==
    CASE what = "link" -> LinkStart
      [] what = "file" -> NothingRead
      [] what = "files" -> NothingImported
      [] what = "rows" -> <<>>

Turn(what, x, t, state) ==
    CASE what = "link" -> ReadLink(x, t, state)
      [] what = "file" -> ReadRow(state, x[t])
      [] what = "files" -> ImportFile(state, x[t])
      [] what = "rows" -> AddLink(state, x[t])

Reader(what, x, S, it) ==
    [s \in SUBSET S |->
        IF s = {} THEN StartOf(what) ELSE Turn(what, x, Max(s), it[s \ {Max(s)}])]

Read(what, x) == (CHOOSE it : it = Reader(what, x, DOMAIN x, it))[DOMAIN x]

LinkReader(link, it) ==
    [s \in SUBSET DOMAIN link |->
        IF s = {} THEN LinkStart ELSE ReadLink(link, Max(s), it[s \ {Max(s)}])]

LinksRead(link) == (CHOOSE it : it = LinkReader(link, it))[DOMAIN link]

LEMMA ConnectedIntervalsIs ==
    \A link, end :
        LET last == Read("link", link)
        IN  ConnectedIntervals(link, end)
              = last.found \cup (IF last.start = NoReading THEN {} ELSE {<<last.start, end>>})
<1>1. StartOf("link") = LinkStart /\ \A x, t, state : Turn("link", x, t, state) = ReadLink(x, t, state)
  BY DEF StartOf, Turn
<1>2. \A link, it : Reader("link", link, DOMAIN link, it) = LinkReader(link, it)
  BY <1>1 DEF Reader, LinkReader
<1>3. ASSUME NEW link
      PROVE  Read("link", link) = LinksRead(link)
  <2>1. \A it : Reader("link", link, DOMAIN link, it) = LinkReader(link, it)
    BY <1>2
  <2>2. (CHOOSE it : it = Reader("link", link, DOMAIN link, it)) = (CHOOSE it : it = LinkReader(link, it))
    BY <2>1, Zenon
  <2> QED
    BY <2>2 DEF Read, LinksRead
<1>4. \A link, end :
          LET last == LinksRead(link)
          IN  ConnectedIntervals(link, end)
                = last.found \cup (IF last.start = NoReading THEN {} ELSE {<<last.start, end>>})
  BY DEF ConnectedIntervals, MapThenFoldSet, LinksRead, LinkReader, LinkStart
<1> QED
  BY <1>3, <1>4

FileReader(file, it) ==
    [s \in SUBSET DOMAIN file |->
        IF s = {} THEN NothingRead ELSE ReadRow(it[s \ {Max(s)}], file[Max(s)])]

LEMMA ReadRowsIs == \A file : ReadRows(file) = Read("file", file)
<1>1. StartOf("file") = NothingRead /\ \A x, t, state : Turn("file", x, t, state) = ReadRow(state, x[t])
  BY DEF StartOf, Turn
<1>2. \A file, it : Reader("file", file, DOMAIN file, it) = FileReader(file, it)
  BY <1>1 DEF Reader, FileReader
<1>3. ASSUME NEW file
      PROVE  Read("file", file) = (CHOOSE it : it = FileReader(file, it))[DOMAIN file]
  <2>1. \A it : Reader("file", file, DOMAIN file, it) = FileReader(file, it)
    BY <1>2
  <2>2. (CHOOSE it : it = Reader("file", file, DOMAIN file, it)) = (CHOOSE it : it = FileReader(file, it))
    BY <2>1, Zenon
  <2> QED
    BY <2>2 DEF Read
<1>4. \A file : ReadRows(file) = (CHOOSE it : it = FileReader(file, it))[DOMAIN file]
  BY DEF ReadRows, FoldLeft, MapThenFoldSet, FileReader
<1> QED
  BY <1>3, <1>4

\* The greatest of some numbers below n + 1 leaves numbers below n.
LEMMA BelowMax ==
    ASSUME NEW m \in Nat, NEW S \in SUBSET (0 .. m), NEW n \in Nat,
           NEW s \in SUBSET Below(S, n + 1), s # {}
    PROVE  s \ {Max(s)} \in SUBSET Below(S, n)
<1>1. s \in SUBSET (0 .. m)
  BY DEF Below
<1>2. Max(s) \in s /\ \A x \in s : x <= Max(s)
  BY <1>1, MaxIs
<1>3. \A x \in s : x \in Nat /\ x \in S /\ x < n + 1
  BY <1>1 DEF Below
<1>4. \A x \in s \ {Max(s)} : x < n
  BY <1>2, <1>3
<1> QED
  BY <1>3, <1>4 DEF Below

LEMMA ReaderExists ==
    ASSUME NEW what, NEW x, NEW m \in Nat, NEW S \in SUBSET (0 .. m)
    PROVE  \E it : it = Reader(what, x, S, it)
<1> DEFINE Good(n, it) == it = Reader(what, x, Below(S, n), it)
           T == {n \in Nat : \E it : Good(n, it)}
<1>1. 0 \in T
  <2> DEFINE it == [s \in SUBSET Below(S, 0) |-> StartOf(what)]
  <2>1. Below(S, 0) = {}
    BY BelowIs
  <2>2. Good(0, it)
    BY <2>1 DEF Reader
  <2> QED
    BY <2>2
<1>2. \A n \in Nat : n \in T => n + 1 \in T
  <2> SUFFICES ASSUME NEW n \in Nat, n \in T PROVE n + 1 \in T
    OBVIOUS
  <2> PICK it : Good(n, it)
    OBVIOUS
  <2> DEFINE next == Reader(what, x, Below(S, n + 1), it)
  <2>1. \A s \in SUBSET Below(S, n + 1) : s # {} => s \ {Max(s)} \in SUBSET Below(S, n)
    BY BelowMax
  <2>2. \A s \in SUBSET Below(S, n) : s \in SUBSET Below(S, n + 1)
    BY DEF Below
  <2>3. \A s \in SUBSET Below(S, n) : next[s] = it[s]
    BY <2>2 DEF Reader
  <2>4. \A s \in SUBSET Below(S, n + 1) : s # {} => next[s \ {Max(s)}] = it[s \ {Max(s)}]
    BY <2>1, <2>3
  <2> HIDE DEF next
  <2>5. Reader(what, x, Below(S, n + 1), it) = Reader(what, x, Below(S, n + 1), next)
    BY <2>4 DEF Reader
  <2>6. Good(n + 1, next)
    BY <2>5 DEF next
  <2> QED
    BY <2>6
<1> HIDE DEF T
<1>3. \A n \in Nat : n \in T
  BY <1>1, <1>2, ReachesAll
<1>4. PICK it : Good(m + 1, it)
  BY <1>3 DEF T
<1>5. Below(S, m + 1) = S
  BY BelowIs
<1> QED
  BY <1>4, <1>5

\* The rows are read in the order of time, whichever instants have one.
LEMMA ReadStates ==
    ASSUME NEW what, NEW x, NEW m \in Nat, DOMAIN x \in SUBSET (0 .. m)
    PROVE  \E st : /\ st[0] = StartOf(what)
                   /\ \A n \in 0 .. m :
                         st[n + 1] = IF n \in DOMAIN x THEN Turn(what, x, n, st[n]) ELSE st[n]
                   /\ st[m + 1] = Read(what, x)
<1> DEFINE S == DOMAIN x
           it == CHOOSE it : it = Reader(what, x, S, it)
           st == [n \in 0 .. m + 1 |-> it[Below(S, n)]]
<1>1. it[S] = Read(what, x)
  BY DEF Read
<1>2. it = Reader(what, x, S, it)
  BY ReaderExists
<1> HIDE DEF it
<1>3. \A s \in SUBSET S :
          it[s] = IF s = {} THEN StartOf(what) ELSE Turn(what, x, Max(s), it[s \ {Max(s)}])
  BY <1>2 DEF Reader
<1>4. Below(S, m + 1) = S /\ Below(S, 0) = {} /\ \A n : Below(S, n) \in SUBSET S
  BY BelowIs
<1>5. st[0] = StartOf(what)
  <2>1. 0 \in 0 .. m + 1 /\ {} \in SUBSET S
    OBVIOUS
  <2>2. st[0] = it[Below(S, 0)]
    BY <2>1
  <2> QED
    BY <1>3, <1>4, <2>1, <2>2
<1>6. st[m + 1] = it[S]
  BY <1>4
<1>7. ASSUME NEW n \in 0 .. m
      PROVE  st[n + 1] = IF n \in S THEN Turn(what, x, n, st[n]) ELSE st[n]
  <2>1. st[n + 1] = it[Below(S, n + 1)] /\ st[n] = it[Below(S, n)]
    OBVIOUS
  <2>2. CASE n \notin S
    <3>1. Below(S, n + 1) = Below(S, n)
      BY <2>2 DEF Below
    <3> QED
      BY <2>1, <2>2, <3>1
  <2>3. CASE n \in S
    <3> DEFINE s == Below(S, n + 1)
    <3>1. n \in s /\ s \in SUBSET (0 .. m) /\ \A y \in s : y <= n
      BY <2>3 DEF Below
    <3>2. Max(s) \in s /\ \A y \in s : y <= Max(s)
      BY <3>1, MaxIs
    <3>3. Max(s) = n
      BY <3>1, <3>2
    <3>4. s \ {n} = Below(S, n)
      BY DEF Below
    <3>5. it[s] = Turn(what, x, Max(s), it[s \ {Max(s)}])
      BY <1>3, <1>4, <3>1
    <3> QED
      BY <2>1, <2>3, <3>3, <3>4, <3>5
  <2> QED
    BY <2>2, <2>3
<1> HIDE DEF st
<1> QED
  BY <1>1, <1>5, <1>6, <1>7

-----------------------------------------------------------------------------
(* The live gate: what the rows of the link say, and the gaps in between.  *)

\* The car is connected at t, by the rows.
ConnectedAt(link, t) ==
    \E r \in DOMAIN link : r <= t /\ link[r] /\ \A s \in r + 1 .. t : s \in DOMAIN link => link[s]

LinkOf(link, m) == DOMAIN link \in SUBSET (0 .. m) /\ link \in [DOMAIN link -> BOOLEAN]

\* A row says for its instant, the one before for an instant without a row.
LEMMA ConnectedStep ==
    ASSUME NEW link, NEW m \in Nat, LinkOf(link, m), NEW n \in Nat
    PROVE  /\ n \in DOMAIN link => (ConnectedAt(link, n) <=> link[n])
           /\ n \notin DOMAIN link /\ n = 0 => ~ConnectedAt(link, n)
           /\ n \notin DOMAIN link /\ n > 0 => (ConnectedAt(link, n) <=> ConnectedAt(link, n - 1))
<1>1. \A r \in DOMAIN link : r \in Nat
  BY DEF LinkOf
<1>2. ASSUME n \in DOMAIN link
      PROVE  ConnectedAt(link, n) <=> link[n]
  <2>1. ASSUME link[n] PROVE ConnectedAt(link, n)
    <3>1. n + 1 .. n = {}
      OBVIOUS
    <3> QED
      BY <1>2, <2>1, <3>1 DEF ConnectedAt
  <2>2. ASSUME ConnectedAt(link, n) PROVE link[n]
    <3>1. PICK r \in DOMAIN link :
              r <= n /\ link[r] /\ \A s \in r + 1 .. n : s \in DOMAIN link => link[s]
      BY <2>2 DEF ConnectedAt
    <3>2. r = n \/ n \in r + 1 .. n
      BY <1>1, <3>1
    <3> QED
      BY <1>2, <3>1, <3>2
  <2> QED
    BY <2>1, <2>2
<1>3. ASSUME n \notin DOMAIN link, n = 0
      PROVE  ~ConnectedAt(link, n)
  <2>1. \A r \in DOMAIN link : ~(r <= n)
    BY <1>1, <1>3
  <2> QED
    BY <2>1 DEF ConnectedAt
<1>4. ASSUME n \notin DOMAIN link, n > 0
      PROVE  ConnectedAt(link, n) <=> ConnectedAt(link, n - 1)
  <2>1. \A r \in DOMAIN link : r <= n <=> r <= n - 1
    BY <1>1, <1>4
  <2>2. \A r \in DOMAIN link : r <= n - 1 => r + 1 .. n = (r + 1 .. n - 1) \cup {n}
    BY <1>1
  <2>3. \A r \in DOMAIN link : r <= n - 1 =>
            ((\A s \in r + 1 .. n : s \in DOMAIN link => link[s])
             <=> (\A s \in r + 1 .. n - 1 : s \in DOMAIN link => link[s]))
    BY <1>4, <2>2
  <2> QED
    BY <2>1, <2>3 DEF ConnectedAt
<1> QED
  BY <1>2, <1>3, <1>4

\* What the state of the loop says of the rows before n: the interval it is in,
\* and the ones that have ended.
InProgress(link, n, s) ==
    IF s.start = NoReading THEN n > 0 => ~ConnectedAt(link, n - 1)
    ELSE /\ s.start \in 0 .. n - 1
         /\ \A t \in s.start .. n - 1 : ConnectedAt(link, t)

Ended(link, n, found) ==
    \A i \in found : /\ i = <<i[1], i[2]>> /\ i[1] \in 0 .. n - 1 /\ i[2] \in 0 .. n - 1
                     /\ i[1] < i[2]
                     /\ \A t \in i[1] .. i[2] - 1 : ConnectedAt(link, t)
                     /\ ~ConnectedAt(link, i[2])

AllTold(link, n, s) ==
    \A t \in 0 .. n - 1 : ConnectedAt(link, t) =>
        \/ s.start # NoReading /\ s.start <= t
        \/ \E i \in s.found : i[1] <= t /\ t < i[2]

Tells(link, n, s) ==
    /\ s = [start |-> s.start, found |-> s.found]
    /\ InProgress(link, n, s) /\ Ended(link, n, s.found) /\ AllTold(link, n, s)

LEMMA TellsNext ==
    ASSUME NEW link, NEW m \in Nat, LinkOf(link, m), NEW n \in Nat, NEW s, Tells(link, n, s)
    PROVE  Tells(link, n + 1, IF n \in DOMAIN link THEN ReadLink(link, n, s) ELSE s)
<1> DEFINE next == IF n \in DOMAIN link THEN ReadLink(link, n, s) ELSE s
<1>1. /\ n \in DOMAIN link => (ConnectedAt(link, n) <=> link[n])
      /\ n \notin DOMAIN link /\ n = 0 => ~ConnectedAt(link, n)
      /\ n \notin DOMAIN link /\ n > 0 => (ConnectedAt(link, n) <=> ConnectedAt(link, n - 1))
  BY ConnectedStep
<1>2. /\ \A t : t \in 0 .. (n + 1) - 1 <=> (t \in 0 .. n - 1 \/ t = n)
      /\ (n + 1) - 1 = n /\ n + 1 > 0 /\ NoReading \notin Nat
  BY DEF NoReading
<1>3. \A found : Ended(link, n, found) => Ended(link, n + 1, found)
  BY <1>2 DEF Ended
<1>4. s = [start |-> s.start, found |-> s.found] /\ InProgress(link, n, s)
      /\ Ended(link, n, s.found) /\ AllTold(link, n, s)
  BY DEF Tells
<1>5. s.start # NoReading =>
          s.start \in 0 .. n - 1 /\ \A t \in s.start .. n - 1 : ConnectedAt(link, t)
  BY <1>4 DEF InProgress
<1>6. CASE ConnectedAt(link, n) /\ s.start = NoReading
  <2>1. n \in DOMAIN link
    <3>1. n > 0 => ~ConnectedAt(link, n - 1)
      BY <1>4, <1>6 DEF InProgress
    <3> QED
      BY <1>1, <1>6, <3>1
  <2>2. next = [s EXCEPT !.start = n]
    BY <1>1, <1>6, <2>1 DEF ReadLink
  <2>3. next.start = n /\ next.found = s.found /\ next = [start |-> next.start, found |-> next.found]
    BY <1>4, <2>2
  <2> HIDE DEF next
  <2>4. InProgress(link, n + 1, next)
    <3>1. n # NoReading /\ n \in 0 .. (n + 1) - 1 /\ n .. (n + 1) - 1 = {n}
      BY <1>2
    <3> QED
      BY <1>6, <2>3, <3>1 DEF InProgress
  <2>5. AllTold(link, n + 1, next)
    <3> SUFFICES ASSUME NEW t \in 0 .. (n + 1) - 1, ConnectedAt(link, t)
                 PROVE  \/ next.start # NoReading /\ next.start <= t
                        \/ \E i \in next.found : i[1] <= t /\ t < i[2]
      BY DEF AllTold
    <3>1. CASE t = n
      BY <1>2, <2>3, <3>1
    <3>2. CASE t \in 0 .. n - 1
      BY <1>4, <1>6, <2>3, <3>2 DEF AllTold
    <3> QED
      BY <1>2, <3>1, <3>2
  <2>6. Ended(link, n + 1, next.found)
    BY <1>3, <1>4, <2>3
  <2> QED
    BY <2>3, <2>4, <2>5, <2>6 DEF Tells, next
<1>7. CASE ~ConnectedAt(link, n) /\ s.start # NoReading
  <2>1. n \in DOMAIN link
    <3>1. s.start \in 0 .. n - 1 /\ n - 1 \in s.start .. n - 1 /\ n > 0
      BY <1>5, <1>7
    <3> QED
      BY <1>1, <1>5, <1>7, <3>1
  <2>2. next = [start |-> NoReading, found |-> s.found \cup {<<s.start, n>>}]
    BY <1>1, <1>7, <2>1 DEF ReadLink
  <2>3. next.start = NoReading /\ next.found = s.found \cup {<<s.start, n>>}
        /\ next = [start |-> next.start, found |-> next.found]
    BY <2>2
  <2> HIDE DEF next
  <2>4. InProgress(link, n + 1, next)
    BY <1>2, <1>7, <2>3 DEF InProgress
  <2>5. AllTold(link, n + 1, next)
    <3> SUFFICES ASSUME NEW t \in 0 .. (n + 1) - 1, ConnectedAt(link, t)
                 PROVE  \E i \in next.found : i[1] <= t /\ t < i[2]
      BY DEF AllTold
    <3>1. t # n /\ t \in 0 .. n - 1 /\ t < n
      BY <1>2, <1>7
    <3>2. \/ s.start <= t
          \/ \E i \in s.found : i[1] <= t /\ t < i[2]
      BY <1>4, <1>7, <3>1 DEF AllTold
    <3>3. CASE s.start <= t
      <4> DEFINE i == <<s.start, n>>
      <4>1. i \in next.found
        BY <2>3
      <4>2. i[1] <= t /\ t < i[2]
        BY <3>1, <3>3
      <4> QED
        BY <4>1, <4>2
    <3> QED
      BY <2>3, <3>2, <3>3
  <2>6. Ended(link, n + 1, next.found)
    <3>1. ASSUME NEW i, i = <<s.start, n>>
          PROVE  /\ i = <<i[1], i[2]>> /\ i[1] \in 0 .. (n + 1) - 1 /\ i[2] \in 0 .. (n + 1) - 1
                 /\ i[1] < i[2]
                 /\ \A t \in i[1] .. i[2] - 1 : ConnectedAt(link, t)
                 /\ ~ConnectedAt(link, i[2])
      <4>1. i[1] = s.start /\ i[2] = n
        BY <3>1
      <4> QED
        BY <1>2, <1>5, <1>7, <3>1, <4>1
    <3>2. Ended(link, n + 1, s.found)
      BY <1>3, <1>4
    <3> QED
      BY <2>3, <3>1, <3>2 DEF Ended
  <2> QED
    BY <2>3, <2>4, <2>5, <2>6 DEF Tells, next
<1>8. CASE ConnectedAt(link, n) <=> s.start # NoReading
  <2>1. next = s
    BY <1>1, <1>8 DEF ReadLink
  <2>2. InProgress(link, n + 1, s)
    <3>1. CASE s.start = NoReading
      BY <1>2, <1>8, <3>1 DEF InProgress
    <3>2. CASE s.start # NoReading
      <4>1. s.start \in 0 .. (n + 1) - 1
        BY <1>2, <1>5, <3>2
      <4>2. \A t \in s.start .. (n + 1) - 1 : t = n \/ t \in s.start .. n - 1
        BY <1>5, <3>2
      <4>3. \A t \in s.start .. (n + 1) - 1 : ConnectedAt(link, t)
        BY <1>5, <1>8, <3>2, <4>2
      <4> QED
        BY <3>2, <4>1, <4>3 DEF InProgress
    <3> QED
      BY <3>1, <3>2
  <2>3. AllTold(link, n + 1, s)
    <3> SUFFICES ASSUME NEW t \in 0 .. (n + 1) - 1, ConnectedAt(link, t)
                 PROVE  \/ s.start # NoReading /\ s.start <= t
                        \/ \E i \in s.found : i[1] <= t /\ t < i[2]
      BY DEF AllTold
    <3>1. CASE t = n
      BY <1>5, <1>8, <3>1
    <3>2. CASE t \in 0 .. n - 1
      BY <1>4, <3>2 DEF AllTold
    <3> QED
      BY <1>2, <3>1, <3>2
  <2>4. Ended(link, n + 1, s.found)
    BY <1>3, <1>4
  <2> QED
    BY <1>4, <2>1, <2>2, <2>3, <2>4 DEF Tells
<1> QED
  BY <1>6, <1>7, <1>8

LEMMA StatesTell ==
    ASSUME NEW link, NEW m \in Nat, LinkOf(link, m)
    PROVE  \E s : /\ Tells(link, m + 1, s)
                  /\ \A end : ConnectedIntervals(link, end)
                                = s.found \cup (IF s.start = NoReading THEN {} ELSE {<<s.start, end>>})
<1>1. PICK st :
          /\ st[0] = LinkStart
          /\ \A n \in 0 .. m :
                st[n + 1] = IF n \in DOMAIN link THEN ReadLink(link, n, st[n]) ELSE st[n]
          /\ st[m + 1] = Read("link", link)
  <2>1. PICK st :
            /\ st[0] = StartOf("link")
            /\ \A n \in 0 .. m :
                  st[n + 1] = IF n \in DOMAIN link THEN Turn("link", link, n, st[n]) ELSE st[n]
            /\ st[m + 1] = Read("link", link)
    BY ReadStates DEF LinkOf
  <2>2. StartOf("link") = LinkStart /\ \A n : Turn("link", link, n, st[n]) = ReadLink(link, n, st[n])
    BY DEF StartOf, Turn
  <2> QED
    BY <2>1, <2>2
<1>7. \A end : ConnectedIntervals(link, end)
                  = st[m + 1].found \cup
                    (IF st[m + 1].start = NoReading THEN {} ELSE {<<st[m + 1].start, end>>})
  BY <1>1, ConnectedIntervalsIs
<1> DEFINE T == {n \in Nat : Tells(link, n, st[n])}
<1>2. 0 \in T
  <2>1. LinkStart.start = NoReading /\ LinkStart.found = {}
        /\ LinkStart = [start |-> LinkStart.start, found |-> LinkStart.found]
    BY DEF LinkStart
  <2>2. 0 .. 0 - 1 = {} /\ ~(0 > 0)
    OBVIOUS
  <2>3. Tells(link, 0, LinkStart)
    BY <2>1, <2>2 DEF Tells, InProgress, Ended, AllTold
  <2> QED
    BY <1>1, <2>3
<1>3. \A n \in Nat : n < m + 1 /\ n \in T => n + 1 \in T
  <2> SUFFICES ASSUME NEW n \in Nat, n < m + 1, Tells(link, n, st[n])
               PROVE  Tells(link, n + 1, st[n + 1])
    OBVIOUS
  <2>1. st[n + 1] = IF n \in DOMAIN link THEN ReadLink(link, n, st[n]) ELSE st[n]
    BY <1>1
  <2>2. Tells(link, n + 1, IF n \in DOMAIN link THEN ReadLink(link, n, st[n]) ELSE st[n])
    BY TellsNext
  <2> QED
    BY <2>1, <2>2
<1> HIDE DEF T
<1>4. m + 1 \in Nat /\ m + 1 \in 0 .. m + 1
  OBVIOUS
<1>5. m + 1 \in T
  BY <1>2, <1>3, <1>4, Reaches
<1>6. Tells(link, m + 1, st[m + 1])
  BY <1>5 DEF T
<1> QED
  BY <1>6, <1>7

\* The intervals are connected, end with the connection or with the window, and
\* leave nothing out that is connected.
LEMMA IntervalsAre ==
    ASSUME NEW link, NEW m \in Nat, LinkOf(link, m)
    PROVE  /\ \A i \in ConnectedIntervals(link, m) :
                 /\ i[1] \in 0 .. m /\ i[2] \in 0 .. m /\ i[1] <= i[2]
                 /\ \A t \in i[1] .. i[2] - 1 : ConnectedAt(link, t)
                 /\ i[2] = m \/ ~ConnectedAt(link, i[2])
           /\ \A t \in 0 .. m - 1 : ConnectedAt(link, t) =>
                 \E i \in ConnectedIntervals(link, m) : i[1] <= t /\ t < i[2]
<1>1. PICK s :
          /\ Tells(link, m + 1, s)
          /\ ConnectedIntervals(link, m)
               = s.found \cup (IF s.start = NoReading THEN {} ELSE {<<s.start, m>>})
  BY StatesTell
<1>2. InProgress(link, m + 1, s) /\ Ended(link, m + 1, s.found) /\ AllTold(link, m + 1, s)
  BY <1>1 DEF Tells
<1>3. (m + 1) - 1 = m
  OBVIOUS
<1>4. s.start # NoReading =>
          s.start \in 0 .. m /\ \A t \in s.start .. m : ConnectedAt(link, t)
  BY <1>2, <1>3 DEF InProgress
<1>5. ASSUME NEW i \in ConnectedIntervals(link, m)
      PROVE  /\ i[1] \in 0 .. m /\ i[2] \in 0 .. m /\ i[1] <= i[2]
             /\ \A t \in i[1] .. i[2] - 1 : ConnectedAt(link, t)
             /\ i[2] = m \/ ~ConnectedAt(link, i[2])
  <2>1. CASE i \in s.found
    BY <1>2, <1>3, <2>1 DEF Ended
  <2>2. CASE i \notin s.found
    <3>1. s.start # NoReading /\ i[1] = s.start /\ i[2] = m
      BY <1>1, <2>2
    <3>2. \A t \in s.start .. m - 1 : t \in s.start .. m
      BY <1>4, <3>1
    <3> QED
      BY <1>4, <3>1, <3>2
  <2> QED
    BY <2>1, <2>2
<1>6. ASSUME NEW t \in 0 .. m - 1, ConnectedAt(link, t)
      PROVE  \E i \in ConnectedIntervals(link, m) : i[1] <= t /\ t < i[2]
  <2>1. t \in 0 .. (m + 1) - 1 /\ t < m
    OBVIOUS
  <2>2. \/ s.start # NoReading /\ s.start <= t
        \/ \E i \in s.found : i[1] <= t /\ t < i[2]
    BY <1>2, <1>6, <2>1 DEF AllTold
  <2>3. CASE s.start # NoReading /\ s.start <= t
    <3> DEFINE i == <<s.start, m>>
    <3>1. i \in ConnectedIntervals(link, m)
      BY <1>1, <2>3
    <3>2. i[1] <= t /\ t < i[2]
      BY <2>1, <2>3
    <3> QED
      BY <3>1, <3>2
  <2>4. CASE \E i \in s.found : i[1] <= t /\ t < i[2]
    BY <1>1, <2>4
  <2> QED
    BY <2>2, <2>3, <2>4
<1> QED
  BY <1>5, <1>6

Stops(events, i) == {i[1], i[2]} \cup {t \in events : i[1] <= t /\ t <= i[2]}

LEMMA GapsAreSilent ==
    ASSUME NEW link, NEW m \in Nat, LinkOf(link, m), NEW events \in SUBSET (0 .. m)
    PROVE  CheckGaps(link, events, m) \subseteq SilentStretches(link, events, m)
<1> SUFFICES ASSUME NEW i \in ConnectedIntervals(link, m), NEW g \in GapsIn(events, i)
             PROVE  g \in SilentStretches(link, events, m)
  BY DEF CheckGaps
<1>1. /\ i[1] \in 0 .. m /\ i[2] \in 0 .. m /\ i[1] <= i[2]
      /\ \A t \in i[1] .. i[2] - 1 : ConnectedAt(link, t)
  BY IntervalsAre
<1>2. /\ g \in Stops(events, i) \X Stops(events, i)
      /\ g[2] - g[1] > MaxTelemetryGap
      /\ Stops(events, i) \cap (g[1] + 1 .. g[2] - 1) = {}
  BY DEF GapsIn, Steps, Stops
<1>3. PICK a \in Stops(events, i), b \in Stops(events, i) : g = <<a, b>>
  BY <1>2
<1>4. PICK l \in 0 .. m, r \in 0 .. m : l = i[1] /\ r = i[2]
  BY <1>1
<1>5. a \in 0 .. m /\ b \in 0 .. m
  BY <1>1 DEF Stops
<1>6. b - a > MaxTelemetryGap /\ Stops(events, i) \cap (a + 1 .. b - 1) = {}
  BY <1>2, <1>3
<1>7. a < b
  BY <1>5, <1>6, GateAssumption
<1>8. l <= a /\ b <= r
  <2>1. a = l \/ a = r \/ l <= a
    BY <1>4 DEF Stops
  <2>2. b = l \/ b = r \/ (b <= r /\ l <= b)
    BY <1>4 DEF Stops
  <2>3. a = l \/ a = r \/ a <= r
    BY <1>4 DEF Stops
  <2>4. l <= r
    BY <1>1, <1>4
  <2> QED
    BY <1>5, <1>7, <2>1, <2>2, <2>4
<1>9. ConnectedFrom(link, a, b)
  <2>1. \A t \in a .. b - 1 : t \in l .. r - 1
    BY <1>5, <1>8
  <2>2. \A t \in a .. b - 1 : ConnectedAt(link, t)
    BY <1>1, <1>4, <2>1
  <2> QED
    BY <2>2 DEF ConnectedFrom, ConnectedAt
<1>10. events \cap (a + 1 .. b - 1) = {}
  <2>1. \A t \in events : t \in a + 1 .. b - 1 => t \in Stops(events, i)
    <3> SUFFICES ASSUME NEW t \in events, t \in a + 1 .. b - 1 PROVE t \in Stops(events, i)
      OBVIOUS
    <3>1. l <= t /\ t <= r
      BY <1>5, <1>8
    <3> QED
      BY <1>4, <3>1 DEF Stops
  <2> QED
    BY <1>6, <2>1
<1> QED
  BY <1>3, <1>5, <1>6, <1>9, <1>10 DEF SilentStretches

\* Around two times of a window there are a last stop before and a first after.
LEMMA StopsAround ==
    ASSUME NEW m \in Nat, NEW S \in SUBSET (0 .. m), NEW a \in 0 .. m, NEW b \in 0 .. m,
           \E x \in S : x <= a, \E y \in S : b <= y
    PROVE  \E x, y \in S : /\ x <= a /\ b <= y
                           /\ \A z \in S : z <= x \/ (a < z /\ z < b) \/ y <= z
<1> DEFINE L == {x \in S : x <= a}
           R == {y \in S : b <= y}
<1>1. L \in SUBSET (0 .. m) /\ L # {} /\ R \subseteq Nat /\ R # {}
  <2>1. \A z \in S : z \in 0 .. m /\ z \in Nat
    OBVIOUS
  <2> QED
    BY <2>1
<1> HIDE DEF L, R
<1>2. Max(L) \in L /\ \A x \in L : x <= Max(L)
  BY <1>1, MaxIs
<1>3. PICK y \in R : \A z \in R : y <= z
  BY <1>1, LeastExists
<1>4. ASSUME NEW z \in S PROVE z <= Max(L) \/ (a < z /\ z < b) \/ y <= z
  <2>1. z \in L \/ (a < z /\ z < b) \/ z \in R
    <3>1. z \in 0 .. m
      OBVIOUS
    <3> QED
      BY <3>1 DEF L, R
  <2> QED
    BY <1>2, <1>3, <2>1
<1> QED
  BY <1>2, <1>3, <1>4 DEF L, R

LEMMA SilentIsInGap ==
    ASSUME NEW link, NEW m \in Nat, LinkOf(link, m), NEW events \in SUBSET (0 .. m),
           NEW s \in SilentStretches(link, events, m)
    PROVE  \E g \in CheckGaps(link, events, m) : g[1] <= s[1] /\ s[2] <= g[2]
<1>1. PICK a \in 0 .. m, b \in 0 .. m : s = <<a, b>>
  BY DEF SilentStretches
<1>2. /\ b - a > MaxTelemetryGap
      /\ \A t \in a .. b - 1 : ConnectedAt(link, t)
      /\ events \cap (a + 1 .. b - 1) = {}
  BY <1>1 DEF SilentStretches, ConnectedFrom, ConnectedAt
<1>3. a < b /\ a \in a .. b - 1 /\ a \in 0 .. m - 1
  BY <1>2, GateAssumption
<1>4. PICK i \in ConnectedIntervals(link, m) : i[1] <= a /\ a < i[2]
  BY <1>2, <1>3, IntervalsAre
<1>5. /\ i[1] \in 0 .. m /\ i[2] \in 0 .. m /\ i[1] <= i[2]
      /\ i[2] = m \/ ~ConnectedAt(link, i[2])
  BY IntervalsAre
<1>6. PICK l \in 0 .. m, r \in 0 .. m : l = i[1] /\ r = i[2]
  BY <1>5
<1>7. b <= r
  <2>1. r = m \/ r \notin a .. b - 1
    BY <1>2, <1>5, <1>6
  <2> QED
    BY <1>4, <1>6, <2>1
<1> DEFINE S == Stops(events, i)
<1>8. l \in S /\ r \in S /\ S \in SUBSET (0 .. m) /\ l <= a
  BY <1>4, <1>6 DEF Stops
<1>9. \A z \in S : ~(a < z /\ z < b)
  <2> SUFFICES ASSUME NEW z \in S, a < z, z < b PROVE FALSE
    OBVIOUS
  <2>1. z \in a + 1 .. b - 1 /\ z # l /\ z # r
    <3>1. z \in 0 .. m
      BY <1>8
    <3> QED
      BY <1>7, <1>8, <3>1
  <2>2. z \in events
    BY <1>6, <2>1 DEF Stops
  <2> QED
    BY <1>2, <2>1, <2>2
<1>10. PICK x \in S, y \in S : /\ x <= a /\ b <= y
                               /\ \A z \in S : z <= x \/ (a < z /\ z < b) \/ y <= z
  <2>1. (\E x \in S : x <= a) /\ (\E y \in S : b <= y)
    BY <1>7, <1>8
  <2> HIDE DEF S
  <2> QED
    BY <1>8, <2>1, StopsAround
<1>11. x \in 0 .. m /\ y \in 0 .. m
  BY <1>8
<1>12. S \cap (x + 1 .. y - 1) = {}
  <2> SUFFICES ASSUME NEW z \in S, z \in x + 1 .. y - 1 PROVE FALSE
    OBVIOUS
  <2>1. z <= x \/ y <= z
    BY <1>9, <1>10
  <2> QED
    BY <1>11, <2>1
<1>13. y - x > MaxTelemetryGap
  BY <1>2, <1>10, <1>11, GateAssumption
<1> DEFINE g == <<x, y>>
<1>14. g \in GapsIn(events, i)
  BY <1>12, <1>13 DEF GapsIn, Steps, Stops
<1>15. g \in CheckGaps(link, events, m)
  BY <1>14 DEF CheckGaps
<1>16. g[1] <= s[1] /\ s[2] <= g[2]
  BY <1>1, <1>10
<1> QED
  BY <1>15, <1>16

LEMMA AskGapsShow == AskTelemetry => GapsShow'
<1> SUFFICES ASSUME AskTelemetry PROVE GapsShow'
  OBVIOUS
<1>1. PICK times \in SUBSET (0 .. Horizon) :
          \E link \in [times -> BOOLEAN], events \in SUBSET (0 .. Horizon) :
              answer' = [of |-> "telemetry", link |-> link, events |-> events,
                         gaps |-> CheckGaps(link, events, Horizon)]
  BY DEF AskTelemetry
<1>2. PICK link \in [times -> BOOLEAN], events \in SUBSET (0 .. Horizon) :
          answer' = [of |-> "telemetry", link |-> link, events |-> events,
                     gaps |-> CheckGaps(link, events, Horizon)]
  BY <1>1
<1>3. Horizon \in Nat /\ LinkOf(link, Horizon)
  BY CalculationAssumption DEF LinkOf
<1>4. answer'.link = link /\ answer'.events = events /\ answer'.gaps = CheckGaps(link, events, Horizon)
  BY <1>2
<1>5. CheckGaps(link, events, Horizon) \subseteq SilentStretches(link, events, Horizon)
  BY <1>3, GapsAreSilent
<1>6. \A s \in SilentStretches(link, events, Horizon) :
          \E g \in CheckGaps(link, events, Horizon) : g[1] <= s[1] /\ s[2] <= g[2]
  BY <1>3, SilentIsInGap
<1> QED
  BY <1>4, <1>5, <1>6 DEF GapsShow

\* The live gate reports exactly the stretches longer than max_gap in which the
\* car was connected, by the rows of the link, and nothing was stored: for every
\* window, any rows and any events in it (check_gaps, connected_intervals).
THEOREM GapsShowAlways == Spec => []GapsShow
<1>1. Init => GapsShow
  BY DEF Init, GapsShow
<1>2. GapsShow /\ [Next]_answer => GapsShow'
  <2> SUFFICES ASSUME GapsShow, [Next]_answer
               PROVE  GapsShow'
    OBVIOUS
  <2>1. CASE AskTelemetry
    BY <2>1, AskGapsShow
  <2>2. CASE AskTimes \/ AskFiles \/ AskCost \/ AskReports \/ AskMap \/ AskDrives
    <3>1. answer'.of # "telemetry"
      BY <2>2, AnswersNamed
    <3> QED
      BY <3>1 DEF GapsShow
  <2>3. CASE UNCHANGED answer
    BY <2>3 DEF GapsShow
  <2> QED
    BY <2>1, <2>2, <2>3 DEF Next
<1> QED
  BY <1>1, <1>2, PTL DEF Spec

-----------------------------------------------------------------------------
(* Import: what a row's wall clock stands for.                             *)

LEMMA UniqueClock ==
    ASSUME NEW w \in Int, NEW t \in Int, NEW previous,
           w \notin Spring .. Spring + Hour - 1, w \notin Autumn .. Autumn + Hour - 1,
           t \in {w, w - Hour}, WallClock(t) = w
    PROVE  Meanings(w) = {t} /\ ToUtc(w, previous) = t
<1>1. /\ Hour \in Nat \ {0} /\ Spring \in Nat /\ Autumn \in Nat
      /\ Spring >= Hour /\ Autumn >= Spring + 2 * Hour
  BY ZoneAssumption
<1>2. \A x \in {w, w - Hour} : WallClock(x) = w => x = t
  BY <1>1 DEF WallClock, Offset
<1>3. Shown(w) = {t}
  BY <1>2 DEF Shown
<1>4. (CHOOSE x \in Shown(w) : TRUE) = t
  BY <1>3
<1>5. Folded(w, 0) = t /\ Folded(w, 1) = t
  BY <1>4 DEF Folded
<1>6. ToUtc(w, previous) = t
  BY <1>5 DEF ToUtc
<1> QED
  BY <1>3, <1>6 DEF Meanings

LEMMA SkippedClock ==
    ASSUME NEW w \in Spring .. Spring + Hour - 1, NEW previous
    PROVE  Meanings(w) = {Spring} /\ ToUtc(w, previous) = Spring
<1>1. /\ Hour \in Nat \ {0} /\ Spring \in Nat /\ Autumn \in Nat
      /\ Spring >= Hour /\ Autumn >= Spring + 2 * Hour
  BY ZoneAssumption
<1>2. w \in Int /\ Spring <= w /\ w < Spring + Hour /\ w < Autumn /\ w - Hour < w /\ w # w - Hour
      /\ w - Hour < Spring
  BY <1>1
<1>3. Offset(w - Hour) = 0 /\ Offset(w) = Hour /\ WallClock(w - Hour) = w - Hour /\ WallClock(w) = w + Hour
  BY <1>1, <1>2 DEF WallClock, Offset
<1>4. Shown(w) = {}
  BY <1>1, <1>2, <1>3 DEF Shown
<1>5. Folded(w, 0) = w /\ Folded(w, 1) = w - Hour
  BY <1>1, <1>2 DEF Folded
<1>6. ToUtc(w, previous) = OffsetChangeInstant(w - Hour, w)
  BY <1>1, <1>2, <1>3, <1>5 DEF ToUtc
<1>7. \A t \in w - Hour + 1 .. w :
          (Offset(t) # Offset(w - Hour) /\ Offset(t - 1) = Offset(w - Hour)) <=> t = Spring
  BY <1>1, <1>2, <1>3 DEF Offset
<1>8. Spring \in w - Hour + 1 .. w
  BY <1>1, <1>2
<1>9. OffsetChangeInstant(w - Hour, w) = Spring
  BY <1>7, <1>8 DEF OffsetChangeInstant
<1> QED
  BY <1>4, <1>6, <1>9 DEF Meanings

LEMMA RepeatedClock ==
    ASSUME NEW w \in Autumn .. Autumn + Hour - 1, NEW previous
    PROVE  /\ Meanings(w) = {w, w - Hour}
           /\ ToUtc(w, previous) = IF previous # None /\ previous > w - Hour THEN w ELSE w - Hour
<1>1. /\ Hour \in Nat \ {0} /\ Spring \in Nat /\ Autumn \in Nat
      /\ Spring >= Hour /\ Autumn >= Spring + 2 * Hour
  BY ZoneAssumption
<1>2. w \in Int /\ Autumn <= w /\ w < Autumn + Hour /\ w - Hour < w /\ w # w - Hour
      /\ Spring <= w - Hour /\ w - Hour < Autumn /\ w \notin Spring .. Spring + Hour - 1
  BY <1>1
<1>3. WallClock(w - Hour) = w /\ WallClock(w) = w
  BY <1>1, <1>2 DEF WallClock, Offset
<1>4. Shown(w) = {w, w - Hour}
  BY <1>3 DEF Shown
<1>5. Folded(w, 0) = w - Hour /\ Folded(w, 1) = w
  BY <1>2 DEF Folded
<1>6. ToUtc(w, previous) = IF previous # None /\ previous > w - Hour THEN w ELSE w - Hour
  BY <1>1, <1>2, <1>3, <1>5 DEF ToUtc
<1> QED
  BY <1>4, <1>6 DEF Meanings

\* A clock that shows one instant, one that does not exist, or one of two.
LEMMA ClockCases ==
    ASSUME NEW t \in Nat, NEW lag \in 0 .. Hour
    PROVE  LET w == ClockOf(t, lag)
           IN  \/ /\ \A p : Meanings(w) = {t} /\ ToUtc(w, p) = t
                  /\ t < Spring \/ Spring + lag <= t
               \/ /\ Spring <= t /\ t < Spring + lag
                  /\ \A p : Meanings(w) = {Spring} /\ ToUtc(w, p) = Spring
               \/ /\ Spring + lag <= w - Hour /\ w \in Nat /\ t \in {w, w - Hour} /\ w - Hour \in Nat
                  /\ \A p : /\ Meanings(w) = {w, w - Hour}
                            /\ ToUtc(w, p) = IF p # None /\ p > w - Hour THEN w ELSE w - Hour
<1> DEFINE w == ClockOf(t, lag)
<1>1. /\ Hour \in Nat \ {0} /\ Spring \in Nat /\ Autumn \in Nat /\ lag \in Nat /\ lag <= Hour
      /\ Spring >= Hour /\ Autumn >= Spring + 2 * Hour
  BY ZoneAssumption
<1>2. CASE Spring <= t /\ t < Spring + lag
  <2>1. w = t /\ w \in Spring .. Spring + Hour - 1
    BY <1>1, <1>2 DEF ClockOf
  <2> QED
    BY <1>2, <2>1, SkippedClock
<1>3. CASE t < Spring \/ Spring + lag <= t
  <2>1. w = WallClock(t)
    BY <1>1, <1>3 DEF ClockOf
  <2>2. w \in Nat /\ t \in {w, w - Hour}
    BY <1>1, <2>1 DEF WallClock, Offset
  <2>3. CASE w \in Autumn .. Autumn + Hour - 1
    <3>1. Spring + lag <= w - Hour /\ w - Hour \in Nat
      BY <1>1, <2>3
    <3> QED
      BY <2>2, <2>3, <3>1, RepeatedClock
  <2>4. CASE w \notin Autumn .. Autumn + Hour - 1
    <3>1. CASE w \notin Spring .. Spring + Hour - 1
      <4>1. w \in Int /\ t \in Int
        BY <2>2
      <4> QED
        BY <1>3, <2>1, <2>2, <2>4, <3>1, <4>1, UniqueClock
    <3>2. CASE w \in Spring .. Spring + Hour - 1
      BY <1>1, <2>1, <3>2 DEF WallClock, Offset
    <3> QED
      BY <3>1, <3>2
  <2> QED
    BY <2>3, <2>4
<1> QED
  BY <1>1, <1>2, <1>3

\* The instant of row i, when p is that of the row before it; and what it must be.
Fits(p, t, u, wall, lag) ==
    /\ u \in Nat /\ u \in Meanings(wall) /\ u <= t
    /\ p # None => p <= u
    /\ t < Spring + lag => u <= Spring
    /\ \A v \in Meanings(wall) : v < u => p # None /\ v < p

\* to_utc: whatever instant the row before was given, as long as it is no later
\* than that row was written, and no later than the change if that row was written
\* before the clock was set.
LEMMA UtcFits ==
    ASSUME NEW t \in Nat, NEW lag \in 0 .. Hour, NEW p,
           \/ p = None
           \/ p \in Nat /\ p < t /\ (t < Spring + lag => p <= Spring)
    PROVE  Fits(p, t, ToUtc(ClockOf(t, lag), p), ClockOf(t, lag), lag)
<1> DEFINE w == ClockOf(t, lag)
           u == ToUtc(w, p)
<1>1. /\ Hour \in Nat \ {0} /\ Spring \in Nat /\ Autumn \in Nat /\ lag \in Nat /\ lag <= Hour
      /\ Spring >= Hour /\ Autumn >= Spring + 2 * Hour
  BY ZoneAssumption
<1>2. \/ /\ Meanings(w) = {t} /\ u = t
         /\ t < Spring \/ Spring + lag <= t
      \/ /\ Spring <= t /\ t < Spring + lag
         /\ Meanings(w) = {Spring} /\ u = Spring
      \/ /\ Spring + lag <= w - Hour /\ w \in Nat /\ t \in {w, w - Hour} /\ w - Hour \in Nat
         /\ Meanings(w) = {w, w - Hour}
         /\ u = IF p # None /\ p > w - Hour THEN w ELSE w - Hour
  BY ClockCases
<1> SUFFICES Fits(p, t, u, w, lag)
  OBVIOUS
<1> HIDE DEF w, u
<1>3. CASE /\ Meanings(w) = {t} /\ u = t
           /\ t < Spring \/ Spring + lag <= t
  BY <1>1, <1>3 DEF Fits, None
<1>4. CASE /\ Spring <= t /\ t < Spring + lag
           /\ Meanings(w) = {Spring} /\ u = Spring
  BY <1>1, <1>4 DEF Fits, None
<1>5. CASE /\ Spring + lag <= w - Hour /\ w \in Nat /\ t \in {w, w - Hour} /\ w - Hour \in Nat
           /\ Meanings(w) = {w, w - Hour}
           /\ u = IF p # None /\ p > w - Hour THEN w ELSE w - Hour
  <2>1. CASE p # None /\ p > w - Hour
    <3>1. u = w /\ p \in Nat /\ p < t /\ t = w /\ ~(t < Spring + lag) /\ p <= u
      BY <1>1, <1>5, <2>1
    <3>2. \A v \in Meanings(w) : v < u => v = w - Hour
      BY <1>5, <3>1
    <3> QED
      BY <1>5, <2>1, <3>1, <3>2 DEF Fits
  <2>2. CASE p = None \/ ~(p > w - Hour)
    <3>1. u = w - Hour /\ u <= t /\ ~(t < Spring + lag) /\ u <= w
      BY <1>1, <1>5, <2>2
    <3>2. p # None => p <= u
      BY <1>5, <2>2, <3>1
    <3>3. \A v \in Meanings(w) : ~(v < u)
      BY <1>5, <3>1
    <3> QED
      BY <1>5, <3>1, <3>2, <3>3 DEF Fits
  <2> QED
    BY <2>1, <2>2
<1> QED
  BY <1>2, <1>3, <1>4, <1>5

Kept(file, n) == {i \in 1 .. n : file[i].date /\ file[i].fields}

\* The clocks of a file are those of the times at which it was written.
Written(ts, lag, file) ==
    /\ \A i \in DOMAIN ts : ts[i] \in Nat /\ file[i].wall = ClockOf(ts[i], lag)
                            /\ file[i].date \in BOOLEAN /\ file[i].fields \in BOOLEAN
    /\ \A i, j \in DOMAIN ts : i < j => ts[i] < ts[j]

\* What the report says of the rows that are read, the time of row i being time[i].
ReadSoFar(ts, lag, file, time, n, r) ==
    /\ Kept(file, n) = {} => r.previous = None
    /\ Kept(file, n) # {} => \E j \in Kept(file, n) : r.previous = time[j] /\ time[j] # None
    /\ \A j \in Kept(file, n) : /\ time[j] \in Nat /\ time[j] <= r.previous
                                /\ time[j] <= ts[j] /\ (ts[j] < Spring + lag => time[j] <= Spring)
    /\ r.outOfOrder = 0

\* What it has of the rows it keeps.
RowsSoFar(file, time, n, r) ==
    /\ r.rows \in Seq([ts : Nat, state : {"online"}])
    /\ Len(r.rows) = Cardinality(Kept(file, n))
    /\ r.skipped = n - Cardinality(Kept(file, n))
    /\ \A i \in Kept(file, n) : r.rows[Cardinality(Kept(file, i))].ts = time[i]

IsReport(r) ==
    r = [rows |-> r.rows, previous |-> r.previous, skipped |-> r.skipped,
         outOfOrder |-> r.outOfOrder, first |-> r.first, last |-> r.last]

LEMMA KeptNext ==
    ASSUME NEW file, NEW n \in Nat
    PROVE  /\ file[n + 1].date /\ file[n + 1].fields => Kept(file, n + 1) = Kept(file, n) \cup {n + 1}
           /\ ~(file[n + 1].date /\ file[n + 1].fields) => Kept(file, n + 1) = Kept(file, n)
           /\ n + 1 \notin Kept(file, n) /\ IsFiniteSet(Kept(file, n))
<1>1. 1 .. n + 1 = (1 .. n) \cup {n + 1} /\ n + 1 \notin 1 .. n
  OBVIOUS
<1>2. IsFiniteSet(1 .. n)
  BY FS_Interval
<1>3. Kept(file, n) \subseteq 1 .. n
  BY DEF Kept
<1>4. IsFiniteSet(Kept(file, n))
  BY <1>2, <1>3, FS_Subset
<1> QED
  BY <1>1, <1>4 DEF Kept

\* What a row makes of the report, by kind of row.
LEMMA ReadRowIs ==
    ASSUME NEW r, IsReport(r), r.outOfOrder = 0, NEW row, row.date \in BOOLEAN, row.fields \in BOOLEAN,
           NEW u, u = ToUtc(row.wall, r.previous), ~(r.previous # None /\ u < r.previous)
    PROVE  LET next == ReadRow(r, row)
           IN  /\ IsReport(next) /\ next.outOfOrder = 0
               /\ row.date /\ row.fields =>
                     /\ next.rows = Append(r.rows, [ts |-> u, state |-> row.state])
                     /\ next.previous = (IF u > r.previous THEN u ELSE r.previous)
                     /\ next.skipped = r.skipped
               /\ ~(row.date /\ row.fields) =>
                     /\ next.rows = r.rows /\ next.previous = r.previous
                     /\ next.skipped = r.skipped + 1
<1> DEFINE seen == [r EXCEPT !.outOfOrder = @ + IF r.previous # None /\ u < r.previous THEN 1 ELSE 0]
<1>1. seen = r
  BY DEF IsReport
<1>2. CASE ~row.date
  BY <1>2 DEF ReadRow, IsReport
<1>3. CASE row.date /\ ~row.fields
  <2>1. ReadRow(r, row) = [r EXCEPT !.skipped = @ + 1]
    BY <1>1, <1>3 DEF ReadRow
  <2> QED
    BY <1>3, <2>1 DEF IsReport
<1>4. CASE row.date /\ row.fields
  <2>1. ReadRow(r, row)
          = [r EXCEPT !.rows = Append(@, [ts |-> u, state |-> row.state]),
                      !.previous = IF u > @ THEN u ELSE @,
                      !.first = IF @ = None THEN u ELSE @,
                      !.last = u]
    BY <1>1, <1>4 DEF ReadRow
  <2> QED
    BY <1>4, <2>1 DEF IsReport
<1> QED
  BY <1>2, <1>3, <1>4

LEMMA KeptCount ==
    ASSUME NEW file, NEW n \in Nat, NEW i \in Kept(file, n)
    PROVE  /\ Cardinality(Kept(file, i)) \in 1 .. Cardinality(Kept(file, n))
           /\ Cardinality(Kept(file, n)) \in Nat
<1>1. i \in 1 .. n /\ i \in 1 .. i /\ 1 .. i \subseteq 1 .. n
  BY DEF Kept
<1>2. i \in Kept(file, i) /\ Kept(file, i) \subseteq Kept(file, n)
  BY <1>1 DEF Kept
<1>3. IsFiniteSet(Kept(file, n))
  BY KeptNext
<1>4. /\ IsFiniteSet(Kept(file, i)) /\ Cardinality(Kept(file, i)) \in Nat
      /\ Cardinality(Kept(file, n)) \in Nat
      /\ Cardinality(Kept(file, i)) <= Cardinality(Kept(file, n))
  BY <1>2, <1>3, FS_Subset, FS_CardinalityType
<1>5. Cardinality(Kept(file, i)) # 0
  BY <1>2, <1>4, FS_EmptySet
<1> QED
  BY <1>4, <1>5

\* The next row fits, whatever was read before.
LEMMA NextFits ==
    ASSUME NEW lag \in 0 .. Hour, NEW n \in Nat, NEW ts, NEW file, NEW time, NEW r,
           n + 1 \in DOMAIN ts, 1 .. n \subseteq DOMAIN ts, Written(ts, lag, file),
           ReadSoFar(ts, lag, file, time, n, r), time[n + 1] = ToUtc(file[n + 1].wall, r.previous)
    PROVE  Fits(r.previous, ts[n + 1], time[n + 1], file[n + 1].wall, lag)
<1> DEFINE p == r.previous
           t == ts[n + 1]
<1>1. t \in Nat /\ file[n + 1].wall = ClockOf(t, lag)
  BY DEF Written
<1>2. Spring + lag \in Int
  BY ZoneAssumption
<1>3. \/ p = None
      \/ p \in Nat /\ p < t /\ (t < Spring + lag => p <= Spring)
  <2>1. CASE Kept(file, n) = {}
    BY <2>1 DEF ReadSoFar
  <2>2. CASE Kept(file, n) # {}
    <3>1. PICK j \in Kept(file, n) : p = time[j]
      BY <2>2 DEF ReadSoFar
    <3>2. time[j] \in Nat /\ time[j] <= ts[j] /\ (ts[j] < Spring + lag => time[j] <= Spring)
      BY <3>1 DEF ReadSoFar
    <3>3. j \in DOMAIN ts /\ j < n + 1
      BY DEF Kept
    <3>4. ts[j] \in Nat /\ ts[j] < t
      BY <3>3 DEF Written
    <3> QED
      BY <1>1, <1>2, <3>1, <3>2, <3>4
  <2> QED
    BY <2>1, <2>2
<1> HIDE DEF p, t
<1>4. Fits(p, t, ToUtc(ClockOf(t, lag), p), ClockOf(t, lag), lag)
  BY <1>1, <1>3, UtcFits
<1> QED
  BY <1>1, <1>4 DEF p, t

LEMMA ReadNext ==
    ASSUME NEW lag \in 0 .. Hour, NEW n \in Nat, NEW ts, NEW file, NEW time, NEW r,
           n + 1 \in DOMAIN ts, 1 .. n \subseteq DOMAIN ts, Written(ts, lag, file),
           file[n + 1].state = "online", IsReport(r),
           ReadSoFar(ts, lag, file, time, n, r), RowsSoFar(file, time, n, r),
           time[n + 1] = ToUtc(file[n + 1].wall, r.previous)
    PROVE  LET next == ReadRow(r, file[n + 1])
           IN  /\ IsReport(next)
               /\ ReadSoFar(ts, lag, file, time, n + 1, next)
               /\ RowsSoFar(file, time, n + 1, next)
<1> DEFINE next == ReadRow(r, file[n + 1])
           u == time[n + 1]
           p == r.previous
           kept == file[n + 1].date /\ file[n + 1].fields
<1>1. Fits(p, ts[n + 1], u, file[n + 1].wall, lag)
  BY NextFits
<1>2. u \in Nat /\ u <= ts[n + 1] /\ (p # None => p <= u) /\ (ts[n + 1] < Spring + lag => u <= Spring)
  BY <1>1 DEF Fits
<1>3. file[n + 1].date \in BOOLEAN /\ file[n + 1].fields \in BOOLEAN
  BY DEF Written
<1>4. p = None \/ p \in Nat
  BY DEF ReadSoFar
<1>5. ~(p # None /\ u < p)
  BY <1>2, <1>4
<1>6. r.outOfOrder = 0
  BY DEF ReadSoFar
<1>7. /\ IsReport(next) /\ next.outOfOrder = 0
      /\ kept => /\ next.rows = Append(r.rows, [ts |-> u, state |-> file[n + 1].state])
                 /\ next.previous = (IF u > p THEN u ELSE p)
                 /\ next.skipped = r.skipped
      /\ ~kept => /\ next.rows = r.rows /\ next.previous = p
                  /\ next.skipped = r.skipped + 1
  BY <1>3, <1>5, <1>6, ReadRowIs
<1>8. /\ kept => Kept(file, n + 1) = Kept(file, n) \cup {n + 1}
      /\ ~kept => Kept(file, n + 1) = Kept(file, n)
      /\ n + 1 \notin Kept(file, n) /\ IsFiniteSet(Kept(file, n))
  BY KeptNext
<1>9. Cardinality(Kept(file, n)) \in Nat
      /\ (kept => Cardinality(Kept(file, n + 1)) = Cardinality(Kept(file, n)) + 1)
  BY <1>8, FS_CardinalityType, FS_AddElement
<1>10. /\ r.rows \in Seq([ts : Nat, state : {"online"}])
       /\ Len(r.rows) = Cardinality(Kept(file, n))
       /\ r.skipped = n - Cardinality(Kept(file, n))
       /\ \A i \in Kept(file, n) : r.rows[Cardinality(Kept(file, i))].ts = time[i]
  BY DEF RowsSoFar
<1> DEFINE row == [ts |-> u, state |-> file[n + 1].state]
<1>11. row \in [ts : Nat, state : {"online"}] /\ row.ts = u
  BY <1>2
<1> HIDE DEF next, u, p, row, kept
<1>12. CASE kept
  <2>1. next.rows = Append(r.rows, row) /\ next.skipped = r.skipped
    BY <1>7, <1>12 DEF row
  <2>2. next.previous = u
    BY <1>2, <1>4, <1>7, <1>12 DEF None
  <2>3. ReadSoFar(ts, lag, file, time, n + 1, next)
    <3>1. Kept(file, n + 1) = Kept(file, n) \cup {n + 1}
      BY <1>8, <1>12
    <3>2. u # None /\ u = time[n + 1]
      BY <1>2 DEF None, u
    <3>3. \A j \in Kept(file, n) : time[j] \in Nat /\ time[j] <= u /\ time[j] <= ts[j]
                                   /\ (ts[j] < Spring + lag => time[j] <= Spring)
      <4> SUFFICES ASSUME NEW j \in Kept(file, n)
                   PROVE  time[j] \in Nat /\ time[j] <= u /\ time[j] <= ts[j]
                          /\ (ts[j] < Spring + lag => time[j] <= Spring)
        OBVIOUS
      <4>1. p # None /\ time[j] \in Nat /\ time[j] <= p /\ time[j] <= ts[j]
            /\ (ts[j] < Spring + lag => time[j] <= Spring)
        BY DEF ReadSoFar, p
      <4> QED
        BY <1>2, <1>4, <4>1
    <3> QED
      BY <1>2, <1>7, <2>2, <3>1, <3>2, <3>3 DEF ReadSoFar
  <2>4. RowsSoFar(file, time, n + 1, next)
    <3>1. /\ next.rows \in Seq([ts : Nat, state : {"online"}])
          /\ Len(next.rows) = Cardinality(Kept(file, n + 1))
      BY <1>9, <1>10, <1>11, <1>12, <2>1
    <3>2. next.skipped = (n + 1) - Cardinality(Kept(file, n + 1))
      BY <1>9, <1>10, <1>12, <2>1
    <3>3. ASSUME NEW i \in Kept(file, n)
          PROVE  next.rows[Cardinality(Kept(file, i))].ts = time[i]
      <4>1. Cardinality(Kept(file, i)) \in 1 .. Len(r.rows)
        BY <1>10, KeptCount
      <4>2. next.rows[Cardinality(Kept(file, i))] = r.rows[Cardinality(Kept(file, i))]
        BY <1>10, <2>1, <4>1
      <4> QED
        BY <1>10, <4>2
    <3>4. next.rows[Cardinality(Kept(file, n + 1))].ts = time[n + 1]
      <4>1. next.rows[Len(r.rows) + 1] = row
        BY <1>10, <2>1
      <4> QED
        BY <1>9, <1>10, <1>11, <1>12, <4>1 DEF u
    <3> QED
      BY <1>8, <1>12, <3>1, <3>2, <3>3, <3>4 DEF RowsSoFar
  <2> QED
    BY <1>7, <2>3, <2>4 DEF next
<1>13. CASE ~kept
  <2>1. next.rows = r.rows /\ next.previous = p /\ next.skipped = r.skipped + 1
        /\ Kept(file, n + 1) = Kept(file, n)
    BY <1>7, <1>8, <1>13
  <2>2. ReadSoFar(ts, lag, file, time, n + 1, next)
    BY <1>7, <2>1 DEF ReadSoFar, p
  <2>3. RowsSoFar(file, time, n + 1, next)
    BY <1>9, <1>10, <2>1 DEF RowsSoFar
  <2> QED
    BY <1>7, <2>2, <2>3 DEF next
<1> QED
  BY <1>12, <1>13

LEMMA FileImportsInOrder ==
    ASSUME NEW N \in Nat, NEW lag \in 0 .. Hour, NEW ts, NEW file,
           DOMAIN ts = 1 .. N, DOMAIN file = 1 .. N, Written(ts, lag, file),
           \A i \in 1 .. N : file[i].state = "online"
    PROVE  LeastTimes(ts, file, ReadRows(file))
<1>1. PICK st : /\ st[0] = NothingRead
                /\ \A n \in 0 .. N :
                      st[n + 1] = IF n \in DOMAIN file THEN ReadRow(st[n], file[n]) ELSE st[n]
                /\ st[N + 1] = ReadRows(file)
  <2>1. DOMAIN file \in SUBSET (0 .. N)
    OBVIOUS
  <2>2. PICK st : /\ st[0] = StartOf("file")
                  /\ \A n \in 0 .. N :
                        st[n + 1] = IF n \in DOMAIN file THEN Turn("file", file, n, st[n]) ELSE st[n]
                  /\ st[N + 1] = Read("file", file)
    BY <2>1, ReadStates
  <2>3. StartOf("file") = NothingRead /\ \A n : Turn("file", file, n, st[n]) = ReadRow(st[n], file[n])
    BY DEF StartOf, Turn
  <2> QED
    BY <2>2, <2>3, ReadRowsIs
<1> DEFINE time == [i \in 1 .. N |-> ToUtc(file[i].wall, st[i].previous)]
           Good(n) == /\ IsReport(st[n + 1])
                      /\ ReadSoFar(ts, lag, file, time, n, st[n + 1])
                      /\ RowsSoFar(file, time, n, st[n + 1])
           T == {n \in Nat : Good(n)}
<1>2. \A i \in 1 .. N : time[i] = ToUtc(file[i].wall, st[i].previous)
  OBVIOUS
<1> HIDE DEF time
<1>3. 0 \in T
  <2>1. st[1] = NothingRead
    <3>1. 0 \in 0 .. N /\ 0 \notin DOMAIN file /\ 0 + 1 = 1
      OBVIOUS
    <3> QED
      BY <1>1, <3>1
  <2>2. Kept(file, 0) = {}
    BY DEF Kept
  <2>3. IsReport(NothingRead) /\ ReadSoFar(ts, lag, file, time, 0, NothingRead)
    BY <2>2 DEF IsReport, NothingRead, ReadSoFar
  <2>4. RowsSoFar(file, time, 0, NothingRead)
    <3>1. Cardinality({}) = 0
      BY FS_EmptySet
    <3>2. NothingRead.rows = <<>> /\ NothingRead.skipped = 0
      BY DEF NothingRead
    <3>3. \A S : <<>> \in Seq(S) /\ Len(<<>>) = 0
      BY EmptySeq
    <3>4. NothingRead.rows \in Seq([ts : Nat, state : {"online"}]) /\ Len(NothingRead.rows) = 0
      BY <3>2, <3>3
    <3>5. Cardinality(Kept(file, 0)) = 0 /\ 0 = 0 - 0
      BY <2>2, <3>1
    <3> QED
      BY <2>2, <3>2, <3>4, <3>5 DEF RowsSoFar
  <2> QED
    BY <2>1, <2>3, <2>4
<1>4. \A n \in Nat : n < N /\ n \in T => n + 1 \in T
  <2> SUFFICES ASSUME NEW n \in Nat, n < N, Good(n) PROVE Good(n + 1)
    OBVIOUS
  <2>1. n + 1 \in 1 .. N /\ 1 .. n \subseteq 1 .. N /\ n + 1 \in 0 .. N
    OBVIOUS
  <2>2. st[(n + 1) + 1] = ReadRow(st[n + 1], file[n + 1])
    BY <1>1, <2>1
  <2>3. time[n + 1] = ToUtc(file[n + 1].wall, st[n + 1].previous)
    BY <1>2, <2>1
  <2> QED
    BY <2>1, <2>2, <2>3, ReadNext
<1> HIDE DEF T
<1>5. \A n \in 0 .. N : n \in T
  BY <1>3, <1>4, Reaches
<1>6. \A n \in 0 .. N : Good(n)
  BY <1>5 DEF T
<1> HIDE DEF Good
<1>7. ASSUME NEW i \in 1 .. N
      PROVE  Fits(st[i].previous, ts[i], time[i], file[i].wall, lag)
  <2>1. PICK n \in Nat : n + 1 = i /\ n \in 0 .. N
    <3>1. i - 1 \in Nat /\ (i - 1) + 1 = i /\ i - 1 \in 0 .. N
      OBVIOUS
    <3> QED
      BY <3>1
  <2>2. ReadSoFar(ts, lag, file, time, n, st[n + 1])
    BY <1>6, <2>1 DEF Good
  <2>3. n + 1 \in DOMAIN ts /\ 1 .. n \subseteq DOMAIN ts
    BY <2>1
  <2>4. time[n + 1] = ToUtc(file[n + 1].wall, st[n + 1].previous)
    BY <1>2, <2>1
  <2>5. Fits(st[n + 1].previous, ts[n + 1], time[n + 1], file[n + 1].wall, lag)
    BY <2>2, <2>3, <2>4, NextFits
  <2> QED
    BY <2>1, <2>5
<1> DEFINE kept == {i \in DOMAIN ts : file[i].date /\ file[i].fields}
           report == ReadRows(file)
<1>8. kept = Kept(file, N) /\ \A i \in kept : {j \in kept : j <= i} = Kept(file, i)
  BY DEF Kept
<1>9. ReadSoFar(ts, lag, file, time, N, report) /\ RowsSoFar(file, time, N, report)
  <2>1. N \in 0 .. N
    OBVIOUS
  <2> QED
    BY <1>1, <1>6, <2>1 DEF Good
<1>10. \A i \in kept : report.rows[Cardinality({j \in kept : j <= i})].ts = time[i]
  BY <1>8, <1>9 DEF RowsSoFar
<1>11. /\ Len(report.rows) = Cardinality(kept) /\ report.outOfOrder = 0
       /\ report.skipped = Len(ts) - Cardinality(kept)
  <2>1. Len(ts) = N
    OBVIOUS
  <2> QED
    BY <1>8, <1>9, <2>1 DEF RowsSoFar, ReadSoFar
<1>12. ASSUME NEW i \in kept
       PROVE  /\ time[i] \in Meanings(file[i].wall)
              /\ time[i] <= ts[i]
              /\ \A j \in kept : j < i => time[j] <= time[i]
              /\ \A t \in Meanings(file[i].wall) : t < time[i] => \E j \in kept : j < i /\ t < time[j]
  <2>1. i \in 1 .. N
    OBVIOUS
  <2>2. Fits(st[i].previous, ts[i], time[i], file[i].wall, lag)
    BY <1>7, <2>1
  <2>3. PICK n \in Nat : n + 1 = i /\ n \in 0 .. N
    <3>1. i - 1 \in Nat /\ (i - 1) + 1 = i /\ i - 1 \in 0 .. N
      BY <2>1
    <3> QED
      BY <3>1
  <2>4. ReadSoFar(ts, lag, file, time, n, st[i])
    BY <1>6, <2>3 DEF Good
  <2>5. \A j : j \in Kept(file, n) <=> j \in kept /\ j < i
    BY <2>1, <2>3 DEF Kept
  <2> DEFINE p == st[i].previous
  <2>6. \A j \in kept : j < i => p # None /\ time[j] <= p /\ p \in Nat /\ time[j] \in Nat
    <3> SUFFICES ASSUME NEW j \in kept, j < i
                 PROVE  p # None /\ time[j] <= p /\ p \in Nat /\ time[j] \in Nat
      OBVIOUS
    <3>1. j \in Kept(file, n)
      BY <2>5
    <3>2. PICK k \in Kept(file, n) : p = time[k] /\ time[k] # None
      BY <2>4, <3>1 DEF ReadSoFar
    <3> QED
      BY <2>4, <3>1, <3>2 DEF ReadSoFar
  <2>7. p # None => \E j \in kept : j < i /\ p = time[j]
    <3> SUFFICES ASSUME p # None PROVE \E j \in kept : j < i /\ p = time[j]
      OBVIOUS
    <3>1. PICK k \in Kept(file, n) : p = time[k]
      BY <2>4 DEF ReadSoFar
    <3> QED
      BY <2>5, <3>1
  <2> HIDE DEF kept, p
  <2>8. /\ time[i] \in Nat /\ time[i] \in Meanings(file[i].wall) /\ time[i] <= ts[i]
        /\ p # None => p <= time[i]
        /\ \A t \in Meanings(file[i].wall) : t < time[i] => p # None /\ t < p
    BY <2>2 DEF Fits, p
  <2>9. \A j \in kept : j < i => time[j] <= time[i]
    BY <2>6, <2>8
  <2>10. \A t \in Meanings(file[i].wall) : t < time[i] => \E j \in kept : j < i /\ t < time[j]
    BY <2>7, <2>8
  <2> QED
    BY <2>8, <2>9, <2>10
<1> HIDE DEF report
<1>13. ASSUME NEW i \in kept
       PROVE  LET possible == Meanings(file[i].wall)
                  at(k) == report.rows[Cardinality({j \in kept : j <= k})].ts
              IN  /\ at(i) \in possible
                  /\ at(i) <= ts[i]
                  /\ \A j \in kept : j < i => at(j) <= at(i)
                  /\ \A t \in possible : t < at(i) => \E j \in kept : j < i /\ t < at(j)
  <2> DEFINE at(k) == report.rows[Cardinality({j \in kept : j <= k})].ts
  <2>1. \A k \in kept : at(k) = time[k]
    BY <1>10
  <2> HIDE DEF at, kept
  <2> SUFFICES /\ at(i) \in Meanings(file[i].wall)
               /\ at(i) <= ts[i]
               /\ \A j \in kept : j < i => at(j) <= at(i)
               /\ \A t \in Meanings(file[i].wall) : t < at(i) => \E j \in kept : j < i /\ t < at(j)
    BY DEF at
  <2> QED
    BY <1>12, <2>1
<1> QED
  BY <1>11, <1>13 DEF LeastTimes, report

LEMMA AskImportedInOrder == AskTimes => ImportedInOrder'
<1> SUFFICES ASSUME AskTimes PROVE ImportedInOrder'
  OBVIOUS
<1>1. PICK ts \in Instants, lag \in 0 .. Hour, bad \in {"date", "fields"} :
          \E at \in 0 .. Len(ts) :
              LET file == [i \in DOMAIN ts |->
                              CsvRow(ts[i], lag, "online", IF i = at THEN bad ELSE "none")]
              IN  answer' = [of |-> "times", ts |-> ts, file |-> file, report |-> ReadRows(file)]
  BY DEF AskTimes
<1>2. PICK at \in 0 .. Len(ts) :
          LET file == [i \in DOMAIN ts |->
                          CsvRow(ts[i], lag, "online", IF i = at THEN bad ELSE "none")]
          IN  answer' = [of |-> "times", ts |-> ts, file |-> file, report |-> ReadRows(file)]
  BY <1>1
<1> DEFINE file == [i \in DOMAIN ts |->
                       CsvRow(ts[i], lag, "online", IF i = at THEN bad ELSE "none")]
<1>3. answer'.ts = ts /\ answer'.file = file /\ answer'.report = ReadRows(file)
  BY <1>2
<1>4. PICK N \in Nat : ts \in [1 .. N -> 0 .. LastInstant]
  BY HistoryAssumption DEF Instants
<1>5. /\ DOMAIN ts = 1 .. N /\ DOMAIN file = 1 .. N
      /\ \A i \in 1 .. N : ts[i] \in Nat
      /\ \A i, j \in DOMAIN ts : i < j => ts[i] < ts[j]
  BY <1>4, HistoryAssumption DEF Instants
<1>6. \A i \in 1 .. N : file[i] = CsvRow(ts[i], lag, "online", IF i = at THEN bad ELSE "none")
  BY <1>5
<1> HIDE DEF file
<1>7. Written(ts, lag, file) /\ \A i \in 1 .. N : file[i].state = "online"
  <2>1. \A i \in 1 .. N : /\ file[i].wall = ClockOf(ts[i], lag) /\ file[i].state = "online"
                          /\ file[i].date \in BOOLEAN /\ file[i].fields \in BOOLEAN
    <3>1. \A t, l, s, b : /\ CsvRow(t, l, s, b).wall = ClockOf(t, l)
                           /\ CsvRow(t, l, s, b).state = s
      BY DEF CsvRow
    <3>2. \A t, l, s, b : CsvRow(t, l, s, b).date \in BOOLEAN
      BY Zenon DEF CsvRow
    <3>3. \A t, l, s, b : CsvRow(t, l, s, b).fields \in BOOLEAN
      BY Zenon DEF CsvRow
    <3> QED
      BY <1>6, <3>1, <3>2, <3>3
  <2> QED
    BY <1>5, <2>1 DEF Written
<1>8. LeastTimes(ts, file, ReadRows(file))
  BY <1>5, <1>7, FileImportsInOrder
<1> QED
  BY <1>3, <1>8 DEF ImportedInOrder

\* Every imported row gets the least instant that its wall clock can stand for and
\* that keeps the order of the file, none later than it was written, whatever rows
\* are left out: for every zone with one change of each kind, every clock that is
\* set late, and files of any length (to_utc, _offset_change_instant, read_rows).
THEOREM ImportedInOrderAlways == Spec => []ImportedInOrder
<1>1. Init => ImportedInOrder
  BY DEF Init, ImportedInOrder
<1>2. ImportedInOrder /\ [Next]_answer => ImportedInOrder'
  <2> SUFFICES ASSUME ImportedInOrder, [Next]_answer
               PROVE  ImportedInOrder'
    OBVIOUS
  <2>1. CASE AskTimes
    BY <2>1, AskImportedInOrder
  <2>2. CASE AskFiles \/ AskCost \/ AskReports \/ AskMap \/ AskDrives \/ AskTelemetry
    <3>1. answer'.of # "times"
      BY <2>2, AnswersNamed
    <3> QED
      BY <3>1 DEF ImportedInOrder
  <2>3. CASE UNCHANGED answer
    BY <2>3 DEF ImportedInOrder
  <2> QED
    BY <2>1, <2>2, <2>3 DEF Next
<1> QED
  BY <1>1, <1>2, PTL DEF Spec

-----------------------------------------------------------------------------
(* Maps: the points of a line.                                             *)

\* Every step-th of n points: how many they are, and where the last one is.
LEMMA StepIs ==
    ASSUME NEW n \in Nat \ {0}
    PROVE  \E step \in Nat \ {0}, count \in Nat \ {0} :
               /\ Step(n) = step /\ (n + step - 1) \div step = count
               /\ count <= MaxPoints
               /\ (count - 1) * step + 1 <= n
<1>1. MaxPoints \in Nat \ {0}
  BY ReportAssumption
<1>2. PICK step \in Nat \ {0} : Step(n) = step /\ n <= step * MaxPoints
  <2>1. CASE n > MaxPoints
    <3>1. PICK q \in Int, r \in 0 .. MaxPoints - 1 :
              /\ (n + MaxPoints - 1) \div MaxPoints = q
              /\ n + MaxPoints - 1 = MaxPoints * q + r
      BY <1>1, DivMod
    <3>2. n <= MaxPoints * q /\ MaxPoints * q = q * MaxPoints /\ q * MaxPoints \in Int
      BY <1>1, <3>1
    <3>3. q > 0
      <4>1. SUFFICES ASSUME q <= 0 PROVE FALSE
        BY <3>1
      <4>2. q * MaxPoints <= 0 * MaxPoints
        BY <1>1, <4>1, Rows
      <4> QED
        BY <1>1, <3>2, <4>2
    <3>4. Step(n) = q
      BY <2>1, <3>1 DEF Step
    <3> QED
      BY <3>2, <3>3, <3>4
  <2>2. CASE ~(n > MaxPoints)
    BY <1>1, <2>2 DEF Step
  <2> QED
    BY <2>1, <2>2
<1>3. PICK count \in Int, r \in 0 .. step - 1 :
          (n + step - 1) \div step = count /\ n + step - 1 = step * count + r
  BY DivMod
<1>4. step * count \in Int /\ step * count = count * step /\ n <= step * count /\ step * count <= n + step - 1
  BY <1>3
<1>5. count > 0
  <2>1. SUFFICES ASSUME count <= 0 PROVE FALSE
    BY <1>3
  <2>2. count * step <= 0 * step
    BY <2>1, Rows
  <2> QED
    BY <1>4, <2>2
<1>6. (count - 1) * step = step * count - step
  BY <1>3
<1>7. count <= MaxPoints
  <2>1. SUFFICES ASSUME count >= MaxPoints + 1 PROVE FALSE
    BY <1>1, <1>3
  <2>2. (MaxPoints + 1) * step <= count * step
    BY <1>1, <2>1, Rows
  <2>3. (MaxPoints + 1) * step = step * MaxPoints + step /\ step * MaxPoints \in Int
    BY <1>1
  <2> QED
    BY <1>2, <1>4, <2>2, <2>3
<1>8. (count - 1) * step + 1 <= n
  BY <1>4, <1>6
<1> QED
  BY <1>2, <1>3, <1>5, <1>7, <1>8

Growing(p) == \A i, j \in 1 .. Len(p) : i < j => p[i] < p[j]

\* thin keeps the first and the last point, and no more than one too many, which is the last.
LEMMA ThinnedIs ==
    ASSUME NEW p \in Seq(Int), p # <<>>, Growing(p)
    PROVE  LET q == Thinned(p)
           IN  /\ Len(q) \in 1 .. MaxPoints + 1 /\ FewPoints(q, p)
               /\ q \in Seq(Int) /\ DOMAIN q = 1 .. Len(q)
               /\ \A k \in 1 .. Len(q) : \E m \in 1 .. Len(p) : q[k] = p[m]
               /\ \A k \in 1 .. Len(q) - 1 : q[k] < q[k + 1]
               /\ q[1] = p[1] /\ q[Len(q)] = p[Len(p)]
<1> DEFINE n == Len(p)
<1>1. n \in Nat \ {0} /\ DOMAIN p = 1 .. n /\ \A i \in 1 .. n : p[i] \in Int
  BY EmptySeq
<1>2. PICK step \in Nat \ {0}, count \in Nat \ {0} :
          /\ Step(n) = step /\ (n + step - 1) \div step = count
          /\ count <= MaxPoints
          /\ (count - 1) * step + 1 <= n
  BY <1>1, StepIs
<1> DEFINE at(k) == (k - 1) * step + 1
           kept == [k \in 1 .. count |-> p[at(k)]]
<1>3. \A k, l \in 1 .. count : k < l => at(k) < at(l)
  <2> SUFFICES ASSUME NEW k \in 1 .. count, NEW l \in 1 .. count, k < l PROVE at(k) < at(l)
    OBVIOUS
  <2>1. (k - 1) + 1 <= l - 1 /\ k - 1 \in Int /\ l - 1 \in Int
    OBVIOUS
  <2>2. (k - 1) * step + step <= (l - 1) * step
    BY <2>1, Rows
  <2>3. (k - 1) * step \in Int /\ (l - 1) * step \in Int
    OBVIOUS
  <2> QED
    BY <2>2, <2>3
<1>4. \A k \in 1 .. count : at(k) \in 1 .. n
  <2> SUFFICES ASSUME NEW k \in 1 .. count PROVE at(k) \in 1 .. n
    OBVIOUS
  <2>1. 0 * step <= (k - 1) * step /\ (k - 1) * step <= (count - 1) * step
    <3>1. (0 = k - 1 \/ 0 + 1 <= k - 1) /\ (k - 1 = count - 1 \/ (k - 1) + 1 <= count - 1)
          /\ k - 1 \in Int /\ count - 1 \in Int
      OBVIOUS
    <3>2. \A a, b \in Int : a = b \/ a + 1 <= b => a * step <= b * step
      <4> SUFFICES ASSUME NEW a \in Int, NEW b \in Int, a + 1 <= b PROVE a * step <= b * step
        OBVIOUS
      <4>1. a <= b
        OBVIOUS
      <4> QED
        BY <4>1, Rows
    <3> QED
      BY <3>1, <3>2
  <2>2. PICK u, v \in Int : u = (k - 1) * step /\ v = (count - 1) * step
    OBVIOUS
  <2>3. 0 * step = 0 /\ 0 <= u /\ u <= v /\ v + 1 <= n
    BY <1>2, <2>1, <2>2
  <2>4. u + 1 \in 1 .. n
    BY <1>1, <2>3
  <2> QED
    BY <2>2, <2>4
<1>5. at(1) = 1
  OBVIOUS
<1> HIDE DEF at, n
<1>6. Thinned(p) = IF kept[count] = p[n] THEN kept ELSE Append(kept, p[n])
  <2>1. Len(kept) = count
    BY <1>2
  <2>2. Thinned(p) = LET k == [k \in 1 .. count |-> p[at(k)]]
                     IN  IF p = <<>> \/ k[Len(k)] = p[n] THEN k ELSE Append(k, p[n])
    BY <1>2 DEF Thinned, at, n
  <2> QED
    BY <2>1, <2>2
<1>7. /\ kept \in Seq(Int) /\ Len(kept) = count
      /\ \A k \in 1 .. count : kept[k] = p[at(k)]
  BY <1>1, <1>4
<1>8. 1 \in 1 .. count /\ count \in 1 .. count
  OBVIOUS
<1>9. \A k, l \in 1 .. count : k < l => kept[k] < kept[l]
  BY <1>3, <1>4, <1>7 DEF Growing, n
<1>10. kept[1] = p[1]
  BY <1>5, <1>7, <1>8
<1>11. \A k \in 1 .. count : \E m \in 1 .. n : kept[k] = p[m]
  BY <1>4, <1>7
<1> HIDE DEF kept
<1>12. MaxPoints \in Nat
  BY ReportAssumption
<1>13. CASE kept[count] = p[n]
  <2>1. Thinned(p) = kept /\ Len(kept) = count /\ count \in 1 .. MaxPoints + 1
    BY <1>2, <1>6, <1>7, <1>12, <1>13
  <2>2. \A k \in 1 .. count - 1 : kept[k] < kept[k + 1]
    BY <1>9
  <2>3. kept \in Seq(Int) /\ DOMAIN kept = 1 .. Len(kept)
    BY <1>7
  <2>4. kept[Len(kept)] = p[n]
    BY <1>13, <2>1
  <2>5. /\ Len(kept) \in 1 .. MaxPoints + 1 /\ FewPoints(kept, p)
        /\ \A k \in 1 .. Len(kept) : \E m \in 1 .. n : kept[k] = p[m]
        /\ \A k \in 1 .. Len(kept) - 1 : kept[k] < kept[k + 1]
    BY <1>2, <1>11, <2>1, <2>2 DEF FewPoints
  <2> QED
    BY <1>10, <2>1, <2>3, <2>4, <2>5 DEF n
<1>14. CASE kept[count] # p[n]
  <2> DEFINE q == Append(kept, p[n])
  <2>1. p[n] \in Int
    BY <1>1
  <2>2. /\ Thinned(p) = q /\ q \in Seq(Int) /\ Len(q) = count + 1
        /\ \A k \in 1 .. count : q[k] = kept[k]
        /\ q[count + 1] = p[n]
    BY <1>6, <1>7, <1>14, <2>1
  <2>3. kept[count] < p[n]
    <3>1. at(count) \in 1 .. n /\ at(count) # n
      BY <1>4, <1>7, <1>8, <1>14
    <3>2. at(count) < n /\ n \in 1 .. n
      BY <1>1, <3>1
    <3> QED
      BY <1>7, <1>8, <3>1, <3>2 DEF Growing, n
  <2> HIDE DEF q
  <2>4. ASSUME NEW k \in 1 .. count PROVE q[k] < q[k + 1]
    <3>1. CASE k = count
      BY <1>8, <2>2, <2>3, <3>1
    <3>2. CASE k # count
      <4>1. k + 1 \in 1 .. count /\ k < k + 1
        BY <3>2
      <4> QED
        BY <1>9, <2>2, <4>1
    <3> QED
      BY <3>1, <3>2
  <2>5. \A k \in 1 .. count + 1 : \E m \in 1 .. n : q[k] = p[m]
    <3>1. n \in 1 .. n
      BY <1>1
    <3>2. \A k \in 1 .. count + 1 : k = count + 1 \/ k \in 1 .. count
      OBVIOUS
    <3> QED
      BY <1>11, <2>2, <3>1, <3>2
  <2>6. Len(q) \in 1 .. MaxPoints + 1 /\ Len(q) - 1 = count /\ DOMAIN q = 1 .. Len(q)
    BY <1>2, <1>12, <2>2
  <2>7. FewPoints(q, p)
    <3>1. CASE count = MaxPoints
      <4>1. n # (MaxPoints - 1) * step + 1
        BY <1>7, <1>8, <1>14, <3>1 DEF at
      <4> QED
        BY <1>2, <2>2, <3>1, <4>1 DEF FewPoints, n
    <3>2. CASE count # MaxPoints
      BY <1>2, <1>12, <2>2, <3>2 DEF FewPoints
    <3> QED
      BY <3>1, <3>2
  <2> QED
    BY <1>8, <1>10, <2>2, <2>4, <2>5, <2>6, <2>7 DEF n
<1> QED
  BY <1>13, <1>14

LEMMA MinIs ==
    ASSUME NEW S \in SUBSET Nat, S # {}
    PROVE  Min(S) \in S /\ \A x \in S : Min(S) <= x
<1>1. PICK x \in S : \A y \in S : x <= y
  BY LeastExists
<1> QED
  BY <1>1 DEF Min

\* Where the loops of tracks stop.
LEMMA LoopsStop ==
    ASSUME NEW samples \in Seq(Int), Growing(samples), NEW i \in 1 .. Len(samples) + 1, NEW time \in Int
    PROVE  /\ NotBefore(samples, i, time) \in i .. Len(samples) + 1
           /\ \A k \in i .. NotBefore(samples, i, time) - 1 : samples[k] < time
           /\ \A k \in NotBefore(samples, i, time) .. Len(samples) : samples[k] >= time
           /\ After(samples, i, time) \in i .. Len(samples) + 1
           /\ \A k \in i .. After(samples, i, time) - 1 : samples[k] <= time
           /\ \A k \in After(samples, i, time) .. Len(samples) : samples[k] > time
<1> DEFINE n == Len(samples)
           S == {k \in i .. n + 1 : k = n + 1 \/ samples[k] >= time}
           R == {k \in i .. n + 1 : k = n + 1 \/ samples[k] > time}
<1>1. n \in Nat /\ i \in 1 .. n + 1 /\ \A k \in 1 .. n : samples[k] \in Int
  BY EmptySeq
<1>2. \A k, l \in 1 .. n : k <= l => samples[k] <= samples[l]
  <2> SUFFICES ASSUME NEW k \in 1 .. n, NEW l \in 1 .. n, k <= l PROVE samples[k] <= samples[l]
    OBVIOUS
  <2>1. k = l \/ k < l
    BY <1>1
  <2>2. k < l => samples[k] < samples[l]
    BY DEF Growing
  <2> QED
    BY <1>1, <2>1, <2>2
<1>3. NotBefore(samples, i, time) = Min(S) /\ After(samples, i, time) = Min(R)
  BY DEF NotBefore, After
<1>4. S \in SUBSET Nat /\ S # {} /\ R \in SUBSET Nat /\ R # {}
  <2>1. n + 1 \in S /\ n + 1 \in R /\ i .. n + 1 \in SUBSET Nat
    BY <1>1
  <2> QED
    BY <2>1
<1>5. Min(S) \in S /\ (\A x \in S : Min(S) <= x) /\ Min(R) \in R /\ (\A x \in R : Min(R) <= x)
  BY <1>4, MinIs
<1> HIDE DEF n
<1>6. ASSUME NEW m \in S, \A x \in S : m <= x
      PROVE  /\ m \in i .. n + 1
             /\ \A k \in i .. m - 1 : samples[k] < time
             /\ \A k \in m .. n : samples[k] >= time
  <2>1. m \in i .. n + 1
    OBVIOUS
  <2>2. ASSUME NEW k \in i .. m - 1 PROVE samples[k] < time
    <3>1. k \in i .. n + 1 /\ k \in 1 .. n /\ ~(m <= k)
      BY <1>1, <2>1
    <3>2. k \notin S
      BY <1>6, <3>1
    <3> QED
      BY <1>1, <3>1, <3>2
  <2>3. ASSUME NEW k \in m .. n PROVE samples[k] >= time
    <3>1. m \in 1 .. n /\ k \in 1 .. n /\ m <= k
      BY <1>1, <2>1
    <3>2. samples[m] >= time
      BY <1>1, <3>1
    <3> QED
      BY <1>1, <1>2, <3>1, <3>2
  <2> QED
    BY <2>1, <2>2, <2>3
<1>7. ASSUME NEW m \in R, \A x \in R : m <= x
      PROVE  /\ m \in i .. n + 1
             /\ \A k \in i .. m - 1 : samples[k] <= time
             /\ \A k \in m .. n : samples[k] > time
  <2>1. m \in i .. n + 1
    OBVIOUS
  <2>2. ASSUME NEW k \in i .. m - 1 PROVE samples[k] <= time
    <3>1. k \in i .. n + 1 /\ k \in 1 .. n /\ ~(m <= k)
      BY <1>1, <2>1
    <3>2. k \notin R
      BY <1>7, <3>1
    <3> QED
      BY <1>1, <3>1, <3>2
  <2>3. ASSUME NEW k \in m .. n PROVE samples[k] > time
    <3>1. m \in 1 .. n /\ k \in 1 .. n /\ m <= k
      BY <1>1, <2>1
    <3>2. samples[m] > time
      BY <1>1, <3>1
    <3> QED
      BY <1>1, <1>2, <3>1, <3>2
  <2> QED
    BY <2>1, <2>2, <2>3
<1> HIDE DEF S, R
<1> QED
  BY <1>3, <1>5, <1>6, <1>7 DEF n

EndOf(drive) == IF drive.end = Running THEN drive.start ELSE drive.end

Inside(samples, d) == {t \in Times(samples) : d.start < t /\ t <= d.end}

MapLines == [start : Nat, all : Seq(Int), points : Seq(Int)]

LineOf(line, d, samples) ==
    /\ line \in MapLines /\ line.start = d.start
    /\ Times(line.points) \subseteq Times(line.all)
    /\ {Head(line.all), Last(line.all)} \subseteq Times(line.points)
    /\ \A k \in 1 .. Len(line.points) - 1 : line.points[k] < line.points[k + 1]
    /\ FewPoints(line.points, line.all)
    /\ Inside(samples, d) \subseteq Times(line.all)
    /\ \A t \in Times(line.all) : d.start <= t /\ t <= d.end

\* The line of a drive whose samples are those from i to before j.
LEMMA LineIs ==
    ASSUME NEW samples \in Seq(Int), Growing(samples),
           NEW i \in 1 .. Len(samples) + 1, NEW j \in 1 .. Len(samples) + 1, i + 2 <= j,
           NEW d, d.start \in Nat,
           \A k \in i .. j - 1 : d.start <= samples[k] /\ samples[k] <= d.end,
           \A k \in 1 .. Len(samples) : (d.start < samples[k] /\ samples[k] <= d.end) => k \in i .. j - 1,
           NEW points, points = SubSeq(samples, i, j - 1)
    PROVE  /\ LineOf([start |-> d.start, all |-> points, points |-> Thinned(points)], d, samples)
           /\ Times(points) = {samples[k] : k \in i .. j - 1}
           /\ Len(points) = j - i
<1> DEFINE n == Len(samples)
<1>1. n \in Nat /\ \A k \in 1 .. n : samples[k] \in Int
  BY EmptySeq
<1>2. /\ points \in Seq(Int) /\ Len(points) = j - i /\ DOMAIN points = 1 .. j - i
      /\ \A k \in 1 .. j - i : points[k] = samples[i + k - 1]
  <2>1. i \in Int /\ j - 1 \in Int /\ i <= j - 1 /\ (j - 1) - i + 1 = j - i
    BY <1>1
  <2>2. \A k \in i .. j - 1 : samples[k] \in Int
    BY <1>1
  <2>3. /\ points \in Seq(Int)
        /\ Len(points) = IF i <= j - 1 THEN (j - 1) - i + 1 ELSE 0
        /\ \A k \in 1 .. (j - 1) - i + 1 : points[k] = samples[i + k - 1]
    BY <2>1, <2>2, SubSeqProperties
  <2> QED
    BY <2>1, <2>3
<1>3. \A k \in 1 .. j - i : i + k - 1 \in 1 .. n /\ i + k - 1 \in i .. j - 1
  BY <1>1
<1>4. Growing(points)
  <2> SUFFICES ASSUME NEW k \in 1 .. j - i, NEW l \in 1 .. j - i, k < l PROVE points[k] < points[l]
    BY <1>2 DEF Growing
  <2>1. i + k - 1 < i + l - 1
    BY <1>1
  <2> QED
    BY <1>2, <1>3, <2>1 DEF Growing
<1>5. Times(points) = {samples[k] : k \in i .. j - 1}
  <2>1. ASSUME NEW k \in i .. j - 1 PROVE samples[k] \in Times(points)
    <3>1. k - i + 1 \in 1 .. j - i /\ i + (k - i + 1) - 1 = k
      BY <1>1
    <3>2. points[k - i + 1] = samples[k]
      BY <1>2, <3>1
    <3> QED
      BY <1>2, <3>1, <3>2 DEF Times
  <2>2. ASSUME NEW k \in 1 .. j - i PROVE points[k] \in {samples[l] : l \in i .. j - 1}
    BY <1>2, <1>3
  <2> QED
    BY <1>2, <2>1, <2>2 DEF Times
<1>6. points # <<>>
  <2>1. j - i # 0
    BY <1>1
  <2> QED
    BY <1>2, <2>1, EmptySeq
<1> DEFINE q == Thinned(points)
<1>7. /\ Len(q) \in 1 .. MaxPoints + 1 /\ FewPoints(q, points)
      /\ q \in Seq(Int) /\ DOMAIN q = 1 .. Len(q)
      /\ \A k \in 1 .. Len(q) : \E m \in 1 .. Len(points) : q[k] = points[m]
      /\ \A k \in 1 .. Len(q) - 1 : q[k] < q[k + 1]
      /\ q[1] = points[1] /\ q[Len(q)] = points[Len(points)]
  BY <1>2, <1>4, <1>6, ThinnedIs
<1> HIDE DEF q
<1>8. Times(q) \subseteq Times(points)
  <2>1. \A k \in DOMAIN q : \E m \in DOMAIN points : q[k] = points[m]
    BY <1>2, <1>7
  <2> SUFFICES ASSUME NEW t \in Times(q) PROVE t \in Times(points)
    OBVIOUS
  <2>2. PICK k \in DOMAIN q : t = q[k]
    BY DEF Times
  <2>3. PICK m \in DOMAIN points : q[k] = points[m]
    BY <2>1
  <2> QED
    BY <2>2, <2>3 DEF Times
<1>9. Head(points) = points[1] /\ Last(points) = points[Len(points)]
  BY <1>2, <1>6 DEF Last
<1>10. {Head(points), Last(points)} \subseteq Times(q)
  <2>1. 1 \in DOMAIN q /\ Len(q) \in DOMAIN q
    BY <1>7, ReportAssumption
  <2> QED
    BY <1>7, <1>9, <2>1 DEF Times
<1>11. Inside(samples, d) \subseteq Times(points)
  <2>1. DOMAIN samples = 1 .. n
    BY EmptySeq
  <2> QED
    BY <1>5, <2>1 DEF Inside, Times
<1>12. \A t \in Times(points) : d.start <= t /\ t <= d.end
  BY <1>5
<1>13. FewPoints(q, points)
  BY <1>7
<1> DEFINE line == [start |-> d.start, all |-> points, points |-> q]
<1>14. line \in MapLines /\ line.start = d.start /\ line.all = points /\ line.points = q
  BY <1>2, <1>7 DEF MapLines
<1> HIDE DEF line
<1>15. LineOf(line, d, samples)
  BY <1>7, <1>8, <1>10, <1>11, <1>12, <1>13, <1>14 DEF LineOf
<1> QED
  BY <1>2, <1>5, <1>15 DEF line, q

\* What the drive d takes of the samples, and leaves to the drives after it.
TakenLine(d, samples, state, new, line) ==
    /\ new.tracks = Append(state.tracks, line)
    /\ LineOf(line, d, samples)
    /\ \A t \in Times(line.all) : \E k \in state.next .. new.next - 1 : t = samples[k]

Takes(d, samples, state, new) ==
    /\ new.next \in state.next .. Len(samples) + 1
    /\ \A k \in 1 .. new.next - 1 : samples[k] <= EndOf(d)
    /\ \/ new.tracks = state.tracks /\ ~(Cardinality(Inside(samples, d)) >= 2)
       \/ \E line : TakenLine(d, samples, state, new, line)

LEMMA TrackIs ==
    ASSUME NEW samples \in Seq(Int), Growing(samples),
           NEW state, state.next \in 1 .. Len(samples) + 1,
           NEW d, d.start \in Nat, d.end = Running \/ (d.end \in Nat /\ d.start <= d.end),
           \A k \in 1 .. state.next - 1 : samples[k] <= d.start
    PROVE  Takes(d, samples, state, Track(samples, state, d))
<1> DEFINE n == Len(samples)
           end == EndOf(d)
           i == NotBefore(samples, state.next, d.start)
           j == After(samples, i, end)
           points == SubSeq(samples, i, j - 1)
           line == [start |-> d.start, all |-> points, points |-> Thinned(points)]
           new == Track(samples, state, d)
<1>1. n \in Nat /\ (\A k \in 1 .. n : samples[k] \in Int) /\ DOMAIN samples = 1 .. n
  BY EmptySeq
<1>2. end \in Nat /\ d.start <= end /\ (d.end # Running => end = d.end) /\ (d.end = Running => end = d.start)
  BY DEF EndOf
<1>3. new.next = j /\ new.tracks = IF Len(points) < 2 THEN state.tracks ELSE Append(state.tracks, line)
  BY DEF Track, EndOf
<1>15. ASSUME NEW m \in 1 .. n + 1, NEW t \in Int
       PROVE  /\ NotBefore(samples, m, t) \in m .. n + 1
              /\ \A k \in m .. NotBefore(samples, m, t) - 1 : samples[k] < t
              /\ \A k \in NotBefore(samples, m, t) .. n : samples[k] >= t
              /\ After(samples, m, t) \in m .. n + 1
              /\ \A k \in m .. After(samples, m, t) - 1 : samples[k] <= t
              /\ \A k \in After(samples, m, t) .. n : samples[k] > t
  BY LoopsStop
<1> HIDE DEF n
<1>4. /\ i \in state.next .. n + 1
      /\ \A k \in state.next .. i - 1 : samples[k] < d.start
      /\ \A k \in i .. n : samples[k] >= d.start
  <2>1. state.next \in 1 .. n + 1 /\ d.start \in Int
    BY DEF n
  <2> QED
    BY <1>15, <2>1
<1>5. i \in 1 .. n + 1
  BY <1>1, <1>4
<1> HIDE DEF i, end
<1>6. /\ j \in i .. n + 1
      /\ \A k \in i .. j - 1 : samples[k] <= end
      /\ \A k \in j .. n : samples[k] > end
  <2>1. end \in Int
    BY <1>2
  <2> QED
    BY <1>5, <1>15, <2>1
<1> USE DEF n
<1> HIDE DEF j, new
<1>7. new.next \in state.next .. n + 1
  BY <1>1, <1>3, <1>4, <1>6
<1>8. \A k \in 1 .. j - 1 : samples[k] <= end
  <2> SUFFICES ASSUME NEW k \in 1 .. j - 1 PROVE samples[k] <= end
    OBVIOUS
  <2>1. k \in 1 .. n /\ (k \in 1 .. state.next - 1 \/ k \in state.next .. i - 1 \/ k \in i .. j - 1)
    BY <1>1, <1>4, <1>6
  <2>2. samples[k] \in Int /\ (samples[k] <= d.start \/ samples[k] < d.start \/ samples[k] <= end)
    BY <1>1, <1>4, <1>6, <2>1
  <2> QED
    BY <1>2, <2>2
<1>9. \A k \in i .. j - 1 : k \in 1 .. n /\ samples[k] \in Int /\ d.start <= samples[k] /\ samples[k] <= end
  <2> SUFFICES ASSUME NEW k \in i .. j - 1
               PROVE  k \in 1 .. n /\ samples[k] \in Int /\ d.start <= samples[k] /\ samples[k] <= end
    OBVIOUS
  <2>1. k \in 1 .. n /\ k \in i .. n
    BY <1>1, <1>5, <1>6
  <2> QED
    BY <1>1, <1>4, <1>6, <2>1
<1>10. \A k \in 1 .. n : (d.start < samples[k] /\ samples[k] <= d.end) => k \in i .. j - 1
  <2> SUFFICES ASSUME NEW k \in 1 .. n, d.start < samples[k], samples[k] <= d.end
               PROVE  k \in i .. j - 1
    OBVIOUS
  <2>1. d.end # Running
    BY <1>1, <1>2 DEF Running
  <2>2. k \notin 1 .. state.next - 1 /\ k \notin state.next .. i - 1 /\ k \notin j .. n
    <3>1. k \in 1 .. state.next - 1 => samples[k] <= d.start
      OBVIOUS
    <3>2. samples[k] \in Int
      BY <1>1
    <3> QED
      BY <1>2, <1>4, <1>6, <2>1, <3>1, <3>2
  <2> QED
    BY <1>1, <1>4, <1>6, <2>2
<1>11. j - i \in Nat /\ i \in Int /\ j \in Int /\ j \in 1 .. n + 1
  BY <1>1, <1>5, <1>6
<1>12. Len(points) = j - i
  <2>1. i <= j - 1 \/ j - 1 < i
    BY <1>11
  <2>2. \A k \in i .. j - 1 : samples[k] \in Int
    BY <1>9
  <2>3. Len(points) = IF i <= j - 1 THEN (j - 1) - i + 1 ELSE 0
    BY <1>11, <2>2, SubSeqProperties
  <2> QED
    BY <1>11, <2>3
<1>13. CASE j - i < 2
  <2>1. new.tracks = state.tracks
    BY <1>3, <1>12, <1>13
  <2>2. ~(Cardinality(Inside(samples, d)) >= 2)
    <3>1. Inside(samples, d) \subseteq {samples[i]}
      <4> SUFFICES ASSUME NEW t \in Inside(samples, d) PROVE t = samples[i]
        OBVIOUS
      <4>1. PICK k \in 1 .. n : t = samples[k] /\ d.start < samples[k] /\ samples[k] <= d.end
        BY <1>1 DEF Inside, Times
      <4>2. k = i
        BY <1>10, <1>11, <1>13, <4>1
      <4> QED
        BY <4>1, <4>2
    <3>2. IsFiniteSet({samples[i]}) /\ Cardinality({samples[i]}) = 1
      BY FS_Singleton
    <3>3. Cardinality(Inside(samples, d)) <= 1 /\ Cardinality(Inside(samples, d)) \in Nat
      BY <3>1, <3>2, FS_Subset, FS_CardinalityType
    <3> QED
      BY <3>3
  <2> QED
    BY <1>3, <1>7, <1>8, <2>1, <2>2 DEF new, end, Takes
<1>14. CASE ~(j - i < 2)
  <2>1. d.end # Running
    <3>1. SUFFICES ASSUME d.end = Running PROVE FALSE
      OBVIOUS
    <3>2. i \in i .. j - 1 /\ i + 1 \in i .. j - 1 /\ i < i + 1
      BY <1>11, <1>14
    <3>3. samples[i] < samples[i + 1]
      BY <1>9, <3>2 DEF Growing
    <3>4. samples[i] = d.start /\ samples[i + 1] = d.start
      BY <1>2, <1>9, <3>1, <3>2
    <3> QED
      BY <3>3, <3>4
  <2>2. \A k \in i .. j - 1 : d.start <= samples[k] /\ samples[k] <= d.end
    BY <1>2, <1>9, <2>1
  <2>3. i + 2 <= j
    BY <1>11, <1>14
  <2> HIDE DEF points
  <2>4. LineOf(line, d, samples) /\ Times(points) = {samples[k] : k \in i .. j - 1}
    <3>1. \A k \in i .. j - 1 : d.start <= samples[k] /\ samples[k] <= d.end
      BY <2>2
    <3>2. \A k \in 1 .. Len(samples) : (d.start < samples[k] /\ samples[k] <= d.end) => k \in i .. j - 1
      BY <1>10
    <3>3. i \in 1 .. Len(samples) + 1 /\ j \in 1 .. Len(samples) + 1 /\ points = SubSeq(samples, i, j - 1)
      BY <1>5, <1>11 DEF points
    <3> HIDE DEF n
    <3> QED
      BY <2>3, <3>1, <3>2, <3>3, LineIs
  <2>5. new.tracks = Append(state.tracks, line) /\ line.all = points
    BY <1>3, <1>12, <1>14
  <2> HIDE DEF line
  <2>6. \A t \in Times(line.all) : \E k \in state.next .. j - 1 : t = samples[k]
    <3>1. \A k \in i .. j - 1 : k \in state.next .. j - 1
      BY <1>4, <1>11
    <3> QED
      BY <2>4, <2>5, <3>1
  <2> QED
    <3>1. TakenLine(d, samples, state, new, line)
      BY <1>3, <2>4, <2>5, <2>6 DEF TakenLine
    <3> QED
      BY <1>3, <1>7, <1>8, <3>1 DEF new, end, Takes
<1> QED
  BY <1>13, <1>14, <1>11

\* The drives of a map, in their order.
InOrderOfStart(rows) ==
    /\ DOMAIN rows = 1 .. Len(rows) /\ Len(rows) \in Nat
    /\ \A i \in DOMAIN rows :
          /\ rows[i].start \in Nat
          /\ rows[i].end = Running \/ (rows[i].end \in Nat /\ rows[i].start <= rows[i].end)
    /\ \A i, j \in DOMAIN rows :
          i < j => EndOf(rows[i]) <= rows[j].start /\ rows[i].start < rows[j].start

MapStart == [next |-> 1, tracks |-> <<>>]

MapStep(rows, samples, m, it) ==
    [i \in 0 .. m |->
        IF i = 0 THEN MapStart
        ELSE IF i \in Drives(rows) THEN Track(samples, it[i - 1], rows[i]) ELSE it[i - 1]]

LEMMA MapStates ==
    ASSUME NEW rows, NEW samples, Len(rows) \in Nat
    PROVE  \E st : /\ st[0] = MapStart
                   /\ \A i \in 1 .. Len(rows) :
                         st[i] = IF i \in Drives(rows) THEN Track(samples, st[i - 1], rows[i])
                                 ELSE st[i - 1]
                   /\ Tracks(rows, samples) = st[Len(rows)].tracks
<1> DEFINE N == Len(rows)
           Good(n, it) == it = MapStep(rows, samples, n, it)
           T == {n \in Nat : \E it : Good(n, it)}
           it == CHOOSE it : it = MapStep(rows, samples, N, it)
<1>1. 0 \in T
  <2> DEFINE f == [i \in 0 .. 0 |-> MapStart]
  <2>1. Good(0, f)
    <3>1. \A i \in 0 .. 0 : i = 0
      OBVIOUS
    <3> QED
      BY <3>1 DEF MapStep
  <2> QED
    BY <2>1
<1>2. \A n \in Nat : n \in T => n + 1 \in T
  <2> SUFFICES ASSUME NEW n \in Nat, n \in T PROVE n + 1 \in T
    OBVIOUS
  <2> PICK f : Good(n, f)
    OBVIOUS
  <2> DEFINE next == MapStep(rows, samples, n + 1, f)
  <2>1. \A i \in 0 .. n : i \in 0 .. n + 1
    OBVIOUS
  <2>2. \A i \in 0 .. n : next[i] = f[i]
    BY <2>1 DEF MapStep
  <2>3. \A i \in 0 .. n + 1 : i # 0 => i - 1 \in 0 .. n
    OBVIOUS
  <2>4. \A i \in 0 .. n + 1 : i # 0 => next[i - 1] = f[i - 1]
    BY <2>2, <2>3
  <2> HIDE DEF next
  <2>5. MapStep(rows, samples, n + 1, f) = MapStep(rows, samples, n + 1, next)
    BY <2>4 DEF MapStep
  <2>6. Good(n + 1, next)
    BY <2>5 DEF next
  <2> QED
    BY <2>6
<1> HIDE DEF T
<1>3. \A n \in Nat : n \in T
  BY <1>1, <1>2, ReachesAll
<1>4. it = MapStep(rows, samples, N, it)
  BY <1>3 DEF T
<1>5. Tracks(rows, samples) = it[N].tracks
  BY DEF Tracks, MapStep, MapStart
<1> HIDE DEF it
<1>6. \A i \in 0 .. N :
          it[i] = IF i = 0 THEN MapStart
                  ELSE IF i \in Drives(rows) THEN Track(samples, it[i - 1], rows[i]) ELSE it[i - 1]
  BY <1>4 DEF MapStep
<1>7. 0 \in 0 .. N /\ \A i \in 1 .. N : i \in 0 .. N /\ i # 0
  OBVIOUS
<1> QED
  BY <1>5, <1>6, <1>7

\* What the first k rows have made of the samples.
Mapped(rows, samples, k, st) ==
    /\ st.next \in 1 .. Len(samples) + 1
    /\ st.tracks \in Seq(MapLines)
    /\ \A q \in 1 .. st.next - 1 : \A i \in DOMAIN rows : k < i => samples[q] <= rows[i].start
    /\ \A a \in DOMAIN st.tracks :
          /\ \E i \in Drives(rows) : i <= k /\ LineOf(st.tracks[a], rows[i], samples)
          /\ \A t \in Times(st.tracks[a].all) : \E q \in 1 .. st.next - 1 : t = samples[q]
    /\ \A a, b \in DOMAIN st.tracks :
          a # b => Times(st.tracks[a].all) \cap Times(st.tracks[b].all) = {}
    /\ \A i \in Drives(rows) : i <= k /\ Cardinality(Inside(samples, rows[i])) >= 2 =>
          \E a \in DOMAIN st.tracks : st.tracks[a].start = rows[i].start

LEMMA MappedNext ==
    ASSUME NEW samples \in Seq(Int), Growing(samples), NEW rows, InOrderOfStart(rows),
           NEW k \in Nat, k + 1 \in DOMAIN rows, NEW st, Mapped(rows, samples, k, st)
    PROVE  Mapped(rows, samples, k + 1,
                  IF k + 1 \in Drives(rows) THEN Track(samples, st, rows[k + 1]) ELSE st)
<1> DEFINE n == Len(samples)
           d == rows[k + 1]
           new == Track(samples, st, d)
<1>1. /\ st.next \in 1 .. n + 1 /\ st.tracks \in Seq(MapLines)
      /\ \A q \in 1 .. st.next - 1 : \A i \in DOMAIN rows : k < i => samples[q] <= rows[i].start
      /\ \A a \in DOMAIN st.tracks :
            /\ \E i \in Drives(rows) : i <= k /\ LineOf(st.tracks[a], rows[i], samples)
            /\ \A t \in Times(st.tracks[a].all) : \E q \in 1 .. st.next - 1 : t = samples[q]
      /\ \A a, b \in DOMAIN st.tracks :
            a # b => Times(st.tracks[a].all) \cap Times(st.tracks[b].all) = {}
      /\ \A i \in Drives(rows) : i <= k /\ Cardinality(Inside(samples, rows[i])) >= 2 =>
            \E a \in DOMAIN st.tracks : st.tracks[a].start = rows[i].start
  BY DEF Mapped
<1>2. n \in Nat /\ \A q \in 1 .. n : samples[q] \in Int
  BY EmptySeq
<1>3. \A i \in Drives(rows) : i \in DOMAIN rows /\ i \in Nat /\ (i <= k + 1 <=> i <= k \/ i = k + 1)
      /\ (k + 1 < i => k < i)
  BY DEF Drives, InOrderOfStart
<1>4. \A i \in DOMAIN rows : i \in Nat /\ (k + 1 < i => k < i)
  BY DEF InOrderOfStart
<1>45. ASSUME NEW e, e.start \in Nat, e.end = Running \/ (e.end \in Nat /\ e.start <= e.end),
              \A q \in 1 .. st.next - 1 : samples[q] <= e.start
       PROVE  Takes(e, samples, st, Track(samples, st, e))
  <2>1. st.next \in 1 .. Len(samples) + 1
    BY <1>1
  <2> QED
    BY <1>45, <2>1, TrackIs
<1>5. CASE k + 1 \notin Drives(rows)
  <2>1. \A q \in 1 .. st.next - 1 : \A i \in DOMAIN rows : k + 1 < i => samples[q] <= rows[i].start
    BY <1>1, <1>4
  <2>2. \A i \in Drives(rows) : i <= k + 1 <=> i <= k
    BY <1>3, <1>5
  <2> QED
    BY <1>1, <1>5, <2>1, <2>2 DEF Mapped
<1>6. CASE k + 1 \in Drives(rows)
  <2>1. /\ d.start \in Nat /\ (d.end = Running \/ (d.end \in Nat /\ d.start <= d.end))
        /\ \A i \in DOMAIN rows : k + 1 < i => EndOf(d) <= rows[i].start /\ rows[i].start \in Nat
    BY DEF InOrderOfStart
  <2>2. \A q \in 1 .. st.next - 1 : samples[q] <= d.start
    <3>1. k < k + 1
      OBVIOUS
    <3> QED
      BY <1>1, <3>1
  <2> HIDE DEF d
  <2>23. Takes(d, samples, st, new)
    BY <1>45, <2>1, <2>2
  <2> HIDE DEF new
  <2>3. /\ new.next \in st.next .. n + 1
        /\ \A q \in 1 .. new.next - 1 : samples[q] <= EndOf(d)
        /\ \/ new.tracks = st.tracks /\ ~(Cardinality(Inside(samples, d)) >= 2)
           \/ \E line : TakenLine(d, samples, st, new, line)
    BY <2>23 DEF Takes
  <2>4. new.next \in 1 .. n + 1 /\ st.next <= new.next
        /\ \A q \in 1 .. st.next - 1 : q \in 1 .. new.next - 1
    BY <1>1, <1>2, <2>3
  <2>5. \A q \in 1 .. new.next - 1 : \A i \in DOMAIN rows : k + 1 < i => samples[q] <= rows[i].start
    <3> SUFFICES ASSUME NEW q \in 1 .. new.next - 1, NEW i \in DOMAIN rows, k + 1 < i
                 PROVE  samples[q] <= rows[i].start
      OBVIOUS
    <3>1. samples[q] \in Int /\ samples[q] <= EndOf(d) /\ EndOf(d) <= rows[i].start
      BY <1>2, <2>1, <2>3, <2>4
    <3>2. EndOf(d) \in Int /\ rows[i].start \in Int
      BY <2>1 DEF EndOf
    <3> QED
      BY <3>1, <3>2
  <2> HIDE DEF n
  <2> SUFFICES Mapped(rows, samples, k + 1, new)
    BY <1>6 DEF new, d
  <2>6. CASE new.tracks = st.tracks /\ ~(Cardinality(Inside(samples, d)) >= 2)
    <3>1. \A a \in DOMAIN st.tracks :
              /\ \E i \in Drives(rows) : i <= k + 1 /\ LineOf(st.tracks[a], rows[i], samples)
              /\ \A t \in Times(st.tracks[a].all) : \E q \in 1 .. new.next - 1 : t = samples[q]
      BY <1>1, <1>3, <2>4
    <3>2. \A i \in Drives(rows) : i <= k + 1 /\ Cardinality(Inside(samples, rows[i])) >= 2 =>
              \E a \in DOMAIN st.tracks : st.tracks[a].start = rows[i].start
      BY <1>1, <1>3, <2>6 DEF d
    <3>3. new.tracks \in Seq(MapLines)
      BY <1>1, <2>6
    <3>4. /\ \A a \in DOMAIN new.tracks :
                /\ \E i \in Drives(rows) : i <= k + 1 /\ LineOf(new.tracks[a], rows[i], samples)
                /\ \A t \in Times(new.tracks[a].all) : \E q \in 1 .. new.next - 1 : t = samples[q]
          /\ \A i \in Drives(rows) : i <= k + 1 /\ Cardinality(Inside(samples, rows[i])) >= 2 =>
                \E a \in DOMAIN new.tracks : new.tracks[a].start = rows[i].start
      BY <2>6, <3>1, <3>2
    <3>5. \A a, b \in DOMAIN new.tracks :
              a # b => Times(new.tracks[a].all) \cap Times(new.tracks[b].all) = {}
      BY <1>1, <2>6
    <3> QED
      BY <2>4, <2>5, <3>3, <3>4, <3>5 DEF Mapped, n
  <2>7. CASE \E line : TakenLine(d, samples, st, new, line)
    <3>1. PICK line : /\ new.tracks = Append(st.tracks, line)
                      /\ LineOf(line, d, samples)
                      /\ \A t \in Times(line.all) : \E q \in st.next .. new.next - 1 : t = samples[q]
      BY <2>7 DEF TakenLine
    <3>2. line \in MapLines /\ line.start = d.start
      BY <3>1 DEF LineOf
    <3> DEFINE L == Len(st.tracks)
    <3>3. /\ L \in Nat /\ DOMAIN st.tracks = 1 .. L
          /\ new.tracks \in Seq(MapLines) /\ DOMAIN new.tracks = 1 .. L + 1
          /\ \A a \in 1 .. L : new.tracks[a] = st.tracks[a]
          /\ new.tracks[L + 1] = line
      BY <1>1, <3>1, <3>2
    <3> HIDE DEF L
    <3>4. \A a \in 1 .. L + 1 : a \in 1 .. L \/ a = L + 1
      BY <3>3
    <3>5. \A a \in 1 .. L + 1 :
              /\ \E i \in Drives(rows) : i <= k + 1 /\ LineOf(new.tracks[a], rows[i], samples)
              /\ \A t \in Times(new.tracks[a].all) : \E q \in 1 .. new.next - 1 : t = samples[q]
      <4>1. ASSUME NEW a \in 1 .. L
            PROVE  /\ \E i \in Drives(rows) : i <= k + 1 /\ LineOf(new.tracks[a], rows[i], samples)
                   /\ \A t \in Times(new.tracks[a].all) : \E q \in 1 .. new.next - 1 : t = samples[q]
        <5>1. new.tracks[a] = st.tracks[a] /\ a \in DOMAIN st.tracks
          BY <3>3
        <5>2. PICK i \in Drives(rows) : i <= k /\ LineOf(st.tracks[a], rows[i], samples)
          BY <1>1, <5>1
        <5>3. i <= k + 1
          BY <1>3, <5>2
        <5>4. \A t \in Times(st.tracks[a].all) : \E q \in 1 .. st.next - 1 : t = samples[q]
          BY <1>1, <5>1
        <5> QED
          BY <2>4, <5>1, <5>2, <5>3, <5>4
      <4>2. /\ \E i \in Drives(rows) : i <= k + 1 /\ LineOf(line, rows[i], samples)
            /\ \A t \in Times(line.all) : \E q \in 1 .. new.next - 1 : t = samples[q]
        <5>1. \A q \in st.next .. new.next - 1 : q \in 1 .. new.next - 1
          BY <1>1, <1>2, <2>4
        <5> QED
          BY <1>3, <1>6, <3>1, <5>1 DEF d
      <4> QED
        BY <3>3, <3>4, <4>1, <4>2
    <3>6. ASSUME NEW a \in 1 .. L
          PROVE  Times(new.tracks[a].all) \cap Times(line.all) = {}
      <4> SUFFICES ASSUME NEW t \in Times(st.tracks[a].all), t \in Times(line.all) PROVE FALSE
        BY <3>3
      <4>5. a \in DOMAIN st.tracks
        BY <3>3
      <4>1. PICK q \in 1 .. st.next - 1 : t = samples[q]
        BY <1>1, <4>5
      <4>2. PICK r \in st.next .. new.next - 1 : t = samples[r]
        BY <3>1
      <4>3. q \in 1 .. n /\ r \in 1 .. n /\ q < r
        <5>1. PICK x, y \in Nat : x = st.next /\ y = new.next /\ x \in 1 .. n + 1 /\ y \in 1 .. n + 1
          BY <1>1, <1>2, <2>4
        <5>2. q \in 1 .. x - 1 /\ r \in x .. y - 1
          BY <5>1
        <5>3. q \in Nat /\ r \in Nat /\ 1 <= q /\ q < x /\ x <= r /\ r < y
          BY <5>1, <5>2
        <5>4. x <= n + 1 /\ y <= n + 1 /\ n \in Nat
          BY <1>2, <5>1
        <5> HIDE DEF n
        <5> QED
          BY <5>1, <5>3, <5>4
      <4>4. samples[q] < samples[r] /\ samples[q] \in Int
        BY <1>2, <4>3 DEF Growing, n
      <4> QED
        BY <4>1, <4>2, <4>4
    <3>7. ASSUME NEW a \in 1 .. L + 1, NEW b \in 1 .. L + 1, a # b
          PROVE  Times(new.tracks[a].all) \cap Times(new.tracks[b].all) = {}
      <4>1. CASE a \in 1 .. L /\ b \in 1 .. L
        BY <1>1, <3>3, <3>7, <4>1
      <4>2. CASE a = L + 1 \/ b = L + 1
        BY <3>3, <3>4, <3>6, <3>7, <4>2
      <4> QED
        BY <3>4, <4>1, <4>2
    <3>8. \A i \in Drives(rows) : i <= k + 1 /\ Cardinality(Inside(samples, rows[i])) >= 2 =>
              \E a \in 1 .. L + 1 : new.tracks[a].start = rows[i].start
      <4> SUFFICES ASSUME NEW i \in Drives(rows), i <= k + 1, Cardinality(Inside(samples, rows[i])) >= 2
                   PROVE  \E a \in 1 .. L + 1 : new.tracks[a].start = rows[i].start
        OBVIOUS
      <4>1. CASE i = k + 1
        <5>1. L + 1 \in 1 .. L + 1
          BY <3>3
        <5> QED
          BY <3>2, <3>3, <4>1, <5>1 DEF d
      <4>2. CASE i <= k
        <5>1. PICK a \in 1 .. L : st.tracks[a].start = rows[i].start
          BY <1>1, <3>3, <4>2
        <5>2. a \in 1 .. L + 1
          BY <3>3
        <5> QED
          BY <3>3, <5>1, <5>2
      <4> QED
        BY <1>3, <4>1, <4>2
    <3>9. \A a, b \in DOMAIN new.tracks :
              a # b => Times(new.tracks[a].all) \cap Times(new.tracks[b].all) = {}
      BY <3>3, <3>7
    <3>10. /\ \A a \in DOMAIN new.tracks :
                 /\ \E i \in Drives(rows) : i <= k + 1 /\ LineOf(new.tracks[a], rows[i], samples)
                 /\ \A t \in Times(new.tracks[a].all) : \E q \in 1 .. new.next - 1 : t = samples[q]
           /\ \A i \in Drives(rows) : i <= k + 1 /\ Cardinality(Inside(samples, rows[i])) >= 2 =>
                 \E a \in DOMAIN new.tracks : new.tracks[a].start = rows[i].start
      BY <3>3, <3>5, <3>8
    <3>11. new.tracks \in Seq(MapLines)
      BY <3>3
    <3> QED
      BY <2>4, <2>5, <3>9, <3>10, <3>11 DEF Mapped, n
  <2> QED
    BY <2>3, <2>6, <2>7
<1> QED
  BY <1>5, <1>6

LEMMA MapIsLines ==
    ASSUME NEW samples \in Seq(Int), Growing(samples), NEW rows, InOrderOfStart(rows)
    PROVE  \E st : Tracks(rows, samples) = st.tracks /\ Mapped(rows, samples, Len(rows), st)
<1> DEFINE N == Len(rows)
<1>1. N \in Nat /\ DOMAIN rows = 1 .. N
  BY DEF InOrderOfStart
<1>2. PICK st : /\ st[0] = MapStart
                /\ \A i \in 1 .. N :
                      st[i] = IF i \in Drives(rows) THEN Track(samples, st[i - 1], rows[i])
                              ELSE st[i - 1]
                /\ Tracks(rows, samples) = st[N].tracks
  BY <1>1, MapStates
<1> HIDE DEF N
<1> DEFINE T == {k \in Nat : k \in 0 .. N => Mapped(rows, samples, k, st[k])}
<1>3. 0 \in T
  <2>1. MapStart.next = 1 /\ MapStart.tracks = <<>>
    BY DEF MapStart
  <2>2. Len(samples) \in Nat /\ 1 \in 1 .. Len(samples) + 1
    BY EmptySeq
  <2>3. <<>> \in Seq(MapLines) /\ DOMAIN <<>> = {}
    OBVIOUS
  <2>4. \A i \in Drives(rows) : ~(i <= 0)
    BY <1>1 DEF Drives
  <2>5. \A q \in 1 .. 1 - 1 : FALSE
    OBVIOUS
  <2>6. Mapped(rows, samples, 0, MapStart)
    BY <2>1, <2>2, <2>3, <2>4, <2>5 DEF Mapped
  <2> QED
    BY <1>2, <2>6
<1>4. \A k \in Nat : k \in T => k + 1 \in T
  <2> SUFFICES ASSUME NEW k \in Nat, k \in T, k + 1 \in 0 .. N
               PROVE  Mapped(rows, samples, k + 1, st[k + 1])
    OBVIOUS
  <2>1. k \in 0 .. N /\ k + 1 \in 1 .. N /\ (k + 1) - 1 = k
    BY <1>1
  <2>2. Mapped(rows, samples, k, st[k])
    BY <2>1
  <2>3. st[k + 1] = IF k + 1 \in Drives(rows) THEN Track(samples, st[k], rows[k + 1]) ELSE st[k]
    BY <1>2, <2>1
  <2>4. k + 1 \in DOMAIN rows
    BY <1>1, <2>1
  <2> QED
    BY <2>2, <2>3, <2>4, MappedNext
<1> HIDE DEF T
<1>5. \A k \in Nat : k \in T
  BY <1>3, <1>4, ReachesAll
<1>6. N \in 0 .. N
  BY <1>1
<1>7. Mapped(rows, samples, N, st[N])
  BY <1>1, <1>5, <1>6 DEF T
<1> QED
  BY <1>2, <1>7 DEF N

\* What LinesAreDrives says of the map a.
Lined(a) ==
    /\ \A x, y \in DOMAIN a.tracks : x # y => Times(a.tracks[x].all) \cap Times(a.tracks[y].all) = {}
    /\ \A x \in DOMAIN a.tracks :
          LET p == a.tracks[x].points
              d == a.rows[CHOOSE i \in DOMAIN a.rows : a.rows[i].start = a.tracks[x].start]
          IN  /\ Times(p) \subseteq Times(a.tracks[x].all)
              /\ {Head(a.tracks[x].all), Last(a.tracks[x].all)} \subseteq Times(p)
              /\ \A k \in 1 .. Len(p) - 1 : p[k] < p[k + 1]
              /\ FewPoints(p, a.tracks[x].all)
              /\ Inside(a.samples, d) \subseteq Times(a.tracks[x].all)
              /\ \A t \in Times(a.tracks[x].all) : d.start <= t /\ t <= d.end
    /\ \A i \in Drives(a.rows) :
          Cardinality(Inside(a.samples, a.rows[i])) >= 2 =>
              \E x \in DOMAIN a.tracks : a.tracks[x].start = a.rows[i].start

LEMMA LinedIs ==
    /\ LinesAreDrives <=> (answer.of = "map" => Lined(answer))
    /\ LinesAreDrives' <=> (answer'.of = "map" => Lined(answer'))
<1>1. LinesAreDrives <=> (answer.of = "map" => Lined(answer))
  BY DEF LinesAreDrives, Lined, Inside
<1>2. LinesAreDrives' <=> (answer'.of = "map" => Lined(answer'))
  BY DEF LinesAreDrives, Lined, Inside
<1> QED
  BY <1>1, <1>2

LEMMA MapIsLined ==
    ASSUME NEW samples \in Seq(Int), Growing(samples), NEW rows, InOrderOfStart(rows),
           NEW a, a.rows = rows, a.samples = samples, a.tracks = Tracks(rows, samples)
    PROVE  Lined(a)
<1>1. PICK st : a.tracks = st.tracks /\ Mapped(rows, samples, Len(rows), st)
  BY MapIsLines
<1> DEFINE lines == st.tracks
<1>2. /\ \A x \in DOMAIN lines : \E i \in Drives(rows) : LineOf(lines[x], rows[i], samples)
      /\ \A x, y \in DOMAIN lines : x # y => Times(lines[x].all) \cap Times(lines[y].all) = {}
      /\ \A i \in Drives(rows) : Cardinality(Inside(samples, rows[i])) >= 2 =>
            \E x \in DOMAIN lines : lines[x].start = rows[i].start
  <2>1. \A i \in Drives(rows) : i <= Len(rows)
    BY DEF InOrderOfStart, Drives
  <2> QED
    BY <1>1, <2>1 DEF Mapped
<1>3. ASSUME NEW x \in DOMAIN lines
      PROVE  LET d == rows[CHOOSE i \in DOMAIN rows : rows[i].start = lines[x].start]
             IN  LineOf(lines[x], d, samples)
  <2>1. PICK r \in Drives(rows) : LineOf(lines[x], rows[r], samples)
    BY <1>2
  <2>2. r \in DOMAIN rows /\ rows[r].start = lines[x].start
    BY <2>1 DEF LineOf, Drives
  <2> DEFINE j == CHOOSE i \in DOMAIN rows : rows[i].start = lines[x].start
  <2>3. j \in DOMAIN rows /\ rows[j].start = lines[x].start
    BY <2>2
  <2> HIDE DEF j
  <2>4. r \in Int /\ j \in Int /\ rows[r].start \in Int /\ (r < j \/ j < r \/ r = j)
    BY <2>2, <2>3 DEF InOrderOfStart
  <2>5. r = j
    <3>1. r < j => rows[r].start < rows[j].start
      BY <2>2, <2>3 DEF InOrderOfStart
    <3>2. j < r => rows[j].start < rows[r].start
      BY <2>2, <2>3 DEF InOrderOfStart
    <3> QED
      BY <2>2, <2>3, <2>4, <3>1, <3>2
  <2> QED
    BY <2>1, <2>5 DEF j
<1> HIDE DEF lines
<1>4. a.tracks = lines
  BY <1>1 DEF lines
<1>5. ASSUME NEW x \in DOMAIN a.tracks
      PROVE  LET p == a.tracks[x].points
                 d == a.rows[CHOOSE i \in DOMAIN a.rows : a.rows[i].start = a.tracks[x].start]
             IN  /\ Times(p) \subseteq Times(a.tracks[x].all)
                 /\ {Head(a.tracks[x].all), Last(a.tracks[x].all)} \subseteq Times(p)
                 /\ \A k \in 1 .. Len(p) - 1 : p[k] < p[k + 1]
                 /\ FewPoints(p, a.tracks[x].all)
                 /\ Inside(a.samples, d) \subseteq Times(a.tracks[x].all)
                 /\ \A t \in Times(a.tracks[x].all) : d.start <= t /\ t <= d.end
  <2> DEFINE d == rows[CHOOSE i \in DOMAIN rows : rows[i].start = lines[x].start]
  <2>1. LineOf(lines[x], d, samples)
    BY <1>3, <1>4
  <2>2. d = a.rows[CHOOSE i \in DOMAIN a.rows : a.rows[i].start = a.tracks[x].start]
    BY <1>4
  <2> HIDE DEF d
  <2>3. a.samples = samples /\ a.tracks[x] = lines[x]
    BY <1>4
  <2> QED
    BY <2>1, <2>2, <2>3 DEF LineOf
<1>6. \A x, y \in DOMAIN a.tracks : x # y => Times(a.tracks[x].all) \cap Times(a.tracks[y].all) = {}
  BY <1>2, <1>4
<1>7. \A i \in Drives(a.rows) :
          Cardinality(Inside(a.samples, a.rows[i])) >= 2 =>
              \E x \in DOMAIN a.tracks : a.tracks[x].start = a.rows[i].start
  BY <1>2, <1>4
<1> QED
  BY <1>5, <1>6, <1>7 DEF Lined

LEMMA AskLinesAreDrives == AskMap => LinesAreDrives'
<1> SUFFICES ASSUME AskMap PROVE LinesAreDrives'
  OBVIOUS
<1> DEFINE Seen(n, from) == [k \in 1 .. n |-> from + k]
           Answered(rows, samples) ==
               answer' = [of |-> "map", rows |-> rows, samples |-> samples,
                          tracks |-> Tracks(rows, samples)]
<1>1. PICK x \in Shapes, y \in Shapes, s \in Spans, n \in 0 .. MaxSamples, from \in {0, Day} :
          Answered(<<Session(x, s[1], s[2]), Session(y, s[3], s[4])>>, Seen(n, from))
  BY DEF AskMap
<1> DEFINE rows == <<Session(x, s[1], s[2]), Session(y, s[3], s[4])>>
           samples == Seen(n, from)
<1>2. /\ s[1] \in Nat /\ s[2] \in Nat /\ s[1] < s[2] /\ s[3] \in Nat /\ s[2] <= s[3]
      /\ s[4] = Running \/ (s[4] \in Nat /\ s[4] > s[3])
  BY SpansAre
<1>3. samples \in Seq(Int) /\ Growing(samples)
  <2>1. n \in Nat /\ from \in Nat
    BY CalculationAssumption, TariffAssumption
  <2>2. Len(samples) = n /\ (\A k \in 1 .. n : samples[k] = from + k /\ samples[k] \in Int)
        /\ samples \in Seq(Int)
    BY <2>1
  <2> HIDE DEF samples
  <2>3. \A i, j \in 1 .. n : i < j => samples[i] < samples[j]
    BY <2>1, <2>2
  <2> QED
    BY <2>2, <2>3 DEF Growing
<1>4. InOrderOfStart(rows)
  <2>1. DOMAIN rows = 1 .. 2 /\ Len(rows) = 2
        /\ rows[1] = Session(x, s[1], s[2]) /\ rows[2] = Session(y, s[3], s[4])
    OBVIOUS
  <2> HIDE DEF rows
  <2>2. \A z, a, b : Session(z, a, b).start = a /\ Session(z, a, b).end = b
    BY DEF Session, Charge
  <2>3. rows[1].start = s[1] /\ rows[1].end = s[2] /\ rows[2].start = s[3] /\ rows[2].end = s[4]
    BY <2>1, <2>2
  <2>4. EndOf(rows[1]) = s[2]
    BY <1>2, <2>3 DEF EndOf, Running
  <2>5. \A i \in 1 .. 2 : i = 1 \/ i = 2
    OBVIOUS
  <2>6. \A i \in DOMAIN rows :
            /\ rows[i].start \in Nat
            /\ rows[i].end = Running \/ (rows[i].end \in Nat /\ rows[i].start <= rows[i].end)
    BY <1>2, <2>1, <2>3, <2>5
  <2>7. \A i, j \in DOMAIN rows :
            i < j => EndOf(rows[i]) <= rows[j].start /\ rows[i].start < rows[j].start
    <3> SUFFICES ASSUME NEW i \in DOMAIN rows, NEW j \in DOMAIN rows, i < j
                 PROVE  EndOf(rows[i]) <= rows[j].start /\ rows[i].start < rows[j].start
      OBVIOUS
    <3>1. i = 1 /\ j = 2
      BY <2>1, <2>5
    <3> QED
      BY <1>2, <2>3, <2>4, <3>1
  <2> QED
    BY <2>1, <2>6, <2>7 DEF InOrderOfStart
<1>5. answer'.rows = rows /\ answer'.samples = samples /\ answer'.tracks = Tracks(rows, samples)
  BY <1>1
<1> HIDE DEF rows, samples
<1>6. Lined(answer')
  BY <1>3, <1>4, <1>5, MapIsLined
<1> QED
  BY <1>6, LinedIs

\* A sample is on at most one line of a map and lies within the drive of that line; a
\* line has the first and the last sample of its drive, in their order, and exceeds
\* max_points only by a last one between two steps; and no drive that two samples lie
\* strictly inside of is left out: for any number of samples and any bound on the points of a line
\* (tracks, thin).
THEOREM LinesAreDrivesAlways == Spec => []LinesAreDrives
<1>1. Init => LinesAreDrives
  BY DEF Init, LinesAreDrives
<1>2. LinesAreDrives /\ [Next]_answer => LinesAreDrives'
  <2> SUFFICES ASSUME LinesAreDrives, [Next]_answer
               PROVE  LinesAreDrives'
    OBVIOUS
  <2>1. CASE AskMap
    BY <2>1, AskLinesAreDrives
  <2>2. CASE AskTimes \/ AskFiles \/ AskCost \/ AskReports \/ AskDrives \/ AskTelemetry
    <3>1. answer'.of # "map"
      BY <2>2, AnswersNamed
    <3> QED
      BY <3>1, LinedIs
  <2>3. CASE UNCHANGED answer
    <3>1. answer' = answer
      BY <2>3
    <3> QED
      BY <3>1, LinedIs
  <2> QED
    BY <2>1, <2>2, <2>3 DEF Next
<1> QED
  BY <1>1, <1>2, PTL DEF Spec

-----------------------------------------------------------------------------
(* The gates: what the drives tell of the movements.                       *)

LEMMA SumNat ==
    ASSUME NEW f, NEW S, IsFiniteSet(S), \A x \in S : f[x] \in Nat
    PROVE  SumOf(f, S) \in Nat
<1> DEFINE Has(n) == \A R : IsFiniteSet(R) /\ (\A x \in R : f[x] \in Nat) /\ Cardinality(R) = n =>
                                SumOf(f, R) \in Nat
           T == {n \in Nat : Has(n)}
<1>1. 0 \in T
  <2> SUFFICES ASSUME NEW R, IsFiniteSet(R), Cardinality(R) = 0 PROVE SumOf(f, R) \in Nat
    OBVIOUS
  <2>1. R = {}
    BY FS_EmptySet
  <2> QED
    BY <2>1, SumEmpty
<1>2. \A n \in Nat : n \in T => n + 1 \in T
  <2> HIDE DEF Has
  <2> SUFFICES ASSUME NEW n \in Nat, Has(n) PROVE Has(n + 1)
    OBVIOUS
  <2> USE DEF Has
  <2> SUFFICES ASSUME NEW R, IsFiniteSet(R), \A x \in R : f[x] \in Nat, Cardinality(R) = n + 1
               PROVE  SumOf(f, R) \in Nat
    OBVIOUS
  <2>1. PICK x \in R : TRUE
    BY FS_EmptySet
  <2>2. IsFiniteSet(R \ {x}) /\ Cardinality(R \ {x}) = n
    BY Removed
  <2>3. SumOf(f, R \ {x}) \in Nat
    BY <2>2
  <2>4. SumOf(f, R) = f[x] + SumOf(f, R \ {x})
    BY SumSplit DEF Values
  <2> QED
    BY <2>3, <2>4
<1> HIDE DEF T
<1>3. \A n \in Nat : n \in T
  BY <1>1, <1>2, ReachesAll
<1> QED
  BY <1>3, FS_CardinalityType DEF T

\* What the movements of a car can be.
AreMoves(moves) ==
    /\ DOMAIN moves = 1 .. Len(moves) /\ Len(moves) \in Nat \ {0}
    /\ \A k \in DOMAIN moves : moves[k].miles \in Nat /\ moves[k].as \in Recordings

Lengths(moves) == [k \in DOMAIN moves |-> moves[k].miles]

LEMMA MilesSum ==
    ASSUME NEW moves, NEW S \in SUBSET DOMAIN moves
    PROVE  MapThenSumSet(LAMBDA j : moves[j].miles, S) = SumOf(Lengths(moves), S)
<1> DEFINE f == Lengths(moves)
           Body(it) == [s \in SUBSET S |->
                           IF s = {} THEN 0 ELSE moves[Picked(s)].miles + it[s \ {Picked(s)}]]
<1>1. MapThenSumSet(LAMBDA j : moves[j].miles, S) = (CHOOSE it : it = Body(it))[S]
  BY DEF MapThenSumSet, MapThenFoldSet, Picked
<1>2. \A it : Body(it) = Adder(f, S, it)
  BY PickedIs DEF Adder, Lengths
<1> HIDE DEF Body, f
<1>3. (CHOOSE it : it = Body(it)) = (CHOOSE it : it = Adder(f, S, it))
  BY <1>2, Zenon
<1> QED
  BY <1>1, <1>3, SumIs DEF f

Driven(drives) == [k \in DOMAIN drives |-> drives[k].to - drives[k].from]

LEMMA DrivenSum == \A drives : Miles(drives) = SumOf(Driven(drives), Readings(drives))
<1> TAKE drives
<1> DEFINE S == Readings(drives)
           f == Driven(drives)
           Body(it) == [s \in SUBSET S |->
                           IF s = {} THEN 0
                           ELSE (drives[Picked(s)].to - drives[Picked(s)].from) + it[s \ {Picked(s)}]]
<1>1. Miles(drives) = (CHOOSE it : it = Body(it))[S]
  BY DEF Miles, MapThenSumSet, MapThenFoldSet, Picked
<1>2. \A it : Body(it) = Adder(f, S, it)
  BY PickedIs DEF Adder, Driven, Readings
<1> HIDE DEF Body, f
<1>3. (CHOOSE it : it = Body(it)) = (CHOOSE it : it = Adder(f, S, it))
  BY <1>2, Zenon
<1> QED
  BY <1>1, <1>3, SumIs DEF f

\* The odometer after k movements, and how far the car has moved from a to b.
LEMMA OdometerIs ==
    ASSUME NEW moves, AreMoves(moves)
    PROVE  /\ \A S \in SUBSET DOMAIN moves :
                 Values(Lengths(moves), S) /\ SumOf(Lengths(moves), S) \in Nat
           /\ \A k \in 0 .. Len(moves) : Odometer(moves, k) = SumOf(Lengths(moves), 1 .. k)
                                         /\ Odometer(moves, k) \in Nat
           /\ \A a \in 1 .. Len(moves), b \in 0 .. Len(moves) :
                 a <= b + 1 => Odometer(moves, b) = Odometer(moves, a - 1) + SumOf(Lengths(moves), a .. b)
<1> DEFINE n == Len(moves)
           f == Lengths(moves)
<1>1. n \in Nat /\ DOMAIN moves = 1 .. n /\ IsFiniteSet(1 .. n) /\ \A k \in 1 .. n : f[k] \in Nat
  <2>1. n \in Nat /\ DOMAIN moves = 1 .. n /\ \A k \in 1 .. n : f[k] \in Nat
    BY DEF AreMoves, Lengths
  <2> QED
    BY <2>1, FS_Interval
<1> HIDE DEF f, n
<1>2. ASSUME NEW S \in SUBSET (1 .. n)
      PROVE  Values(f, S) /\ SumOf(f, S) \in Nat
  <2>1. IsFiniteSet(S) /\ \A x \in S : f[x] \in Nat
    BY <1>1, FS_Subset
  <2>2. SumOf(f, S) \in Nat
    BY <2>1, SumNat
  <2> QED
    BY <2>1, <2>2 DEF Values
<1>3. ASSUME NEW k \in 0 .. n
      PROVE  Odometer(moves, k) = SumOf(f, 1 .. k) /\ Odometer(moves, k) \in Nat
  <2> DEFINE S == {j \in DOMAIN moves : j <= k}
  <2>1. S = 1 .. k /\ S \in SUBSET (1 .. n) /\ S \in SUBSET DOMAIN moves
    BY <1>1
  <2>2. Odometer(moves, k) = MapThenSumSet(LAMBDA j : moves[j].miles, S)
    BY DEF Odometer
  <2> HIDE DEF S
  <2>3. Odometer(moves, k) = SumOf(f, S)
    BY <2>1, <2>2, MilesSum DEF f
  <2> QED
    BY <1>2, <2>1, <2>3
<1>4. ASSUME NEW a \in 1 .. n, NEW b \in 0 .. n, a <= b + 1
      PROVE  Odometer(moves, b) = Odometer(moves, a - 1) + SumOf(f, a .. b)
  <2> DEFINE S == 1 .. a - 1
             R == a .. b
  <2>1. S \cup R = 1 .. b /\ S \cap R = {} /\ S \in SUBSET (1 .. n) /\ R \in SUBSET (1 .. n)
        /\ a - 1 \in 0 .. n
    BY <1>1, <1>4
  <2> HIDE DEF S, R
  <2>2. SumOf(f, S \cup R) = SumOf(f, S) + SumOf(f, R)
    BY <1>2, <2>1, SumUnion
  <2>3. Odometer(moves, a - 1) = SumOf(f, S)
    BY <1>3, <2>1 DEF S
  <2>4. Odometer(moves, b) = SumOf(f, S \cup R)
    BY <1>3, <2>1
  <2> QED
    BY <2>2, <2>3, <2>4 DEF R
<1> QED
  BY <1>1, <1>2, <1>3, <1>4 DEF f, n

\* What is recorded, and read, of the movements.
LEMMA RecordedIs ==
    ASSUME NEW moves, AreMoves(moves)
    PROVE  LET drives == Recorded(moves)
               whole == Whole(moves)
           IN  /\ DOMAIN drives = {k \in DOMAIN moves : moves[k].as # "lost"}
               /\ Readings(drives) = whole
               /\ whole \in SUBSET DOMAIN drives /\ whole \in SUBSET DOMAIN moves
               /\ \A k \in whole : drives[k].from = Odometer(moves, k - 1)
                                   /\ drives[k].to = Odometer(moves, k)
               /\ Miles(drives) = SumOf(Lengths(moves), whole)
<1> DEFINE n == Len(moves)
           drives == Recorded(moves)
           whole == Whole(moves)
<1>1. n \in Nat /\ DOMAIN moves = 1 .. n
      /\ \A k \in 1 .. n : moves[k].miles \in Nat /\ moves[k].as \in {"drive", "lost", "noStart", "noEnd"}
  BY DEF AreMoves, Recordings
<1>2. DOMAIN drives = {k \in DOMAIN moves : moves[k].as # "lost"}
  BY DEF Recorded
<1>3. \A k \in DOMAIN drives :
          /\ drives[k].from = IF moves[k].as = "noStart" THEN NoReading ELSE Odometer(moves, k - 1)
          /\ drives[k].to = IF moves[k].as = "noEnd" THEN NoReading ELSE Odometer(moves, k)
  BY DEF Recorded
<1>4. \A k \in 1 .. n : Odometer(moves, k - 1) # NoReading /\ Odometer(moves, k) # NoReading
  <2> TAKE k \in 1 .. n
  <2>1. k - 1 \in 0 .. n /\ k \in 0 .. n
    BY <1>1
  <2> QED
    BY <2>1, OdometerIs DEF NoReading
<1> HIDE DEF drives
<1>5. whole \in SUBSET DOMAIN drives /\ whole \in SUBSET DOMAIN moves
      /\ \A k \in DOMAIN drives : k \in whole <=> moves[k].as = "drive"
  BY <1>2 DEF Whole
<1>6. \A k \in DOMAIN drives :
          k \in whole <=> drives[k].from # NoReading /\ drives[k].to # NoReading
  <2> TAKE k \in DOMAIN drives
  <2>1. k \in 1 .. n /\ moves[k].as \in {"drive", "noStart", "noEnd"}
    BY <1>1, <1>2
  <2>2. /\ moves[k].as = "drive" => drives[k].from # NoReading /\ drives[k].to # NoReading
        /\ moves[k].as = "noStart" => drives[k].from = NoReading
        /\ moves[k].as = "noEnd" => drives[k].to = NoReading
    BY <1>3, <1>4, <2>1
  <2> QED
    BY <1>5, <2>1, <2>2
<1>7. Readings(drives) = whole
  BY <1>5, <1>6 DEF Readings
<1>8. \A k \in whole : drives[k].from = Odometer(moves, k - 1) /\ drives[k].to = Odometer(moves, k)
  BY <1>3, <1>5
<1>9. Miles(drives) = SumOf(Lengths(moves), whole)
  <2>1. ASSUME NEW k \in whole PROVE Driven(drives)[k] = Lengths(moves)[k]
    <3>1. k \in 1 .. n /\ k - 1 \in 0 .. n /\ k \in 0 .. n /\ k <= k + 1
      BY <1>1, <1>5
    <3>2. Odometer(moves, k) = Odometer(moves, k - 1) + SumOf(Lengths(moves), k .. k)
      BY <3>1, OdometerIs
    <3>3. SumOf(Lengths(moves), k .. k) = moves[k].miles
      <4>1. k .. k = {} \cup {k} /\ k \notin {} /\ {k} \in SUBSET DOMAIN moves
        BY <1>1, <3>1
      <4>2. Values(Lengths(moves), {} \cup {k})
        BY <4>1, OdometerIs
      <4>3. SumOf(Lengths(moves), {} \cup {k}) = Lengths(moves)[k] + SumOf(Lengths(moves), {})
        BY <4>1, <4>2, SumAdds
      <4> QED
        BY <1>1, <3>1, <4>1, <4>3, SumEmpty DEF Lengths
    <3>4. Driven(drives)[k] = drives[k].to - drives[k].from
      BY <1>5 DEF Driven
    <3>5. Odometer(moves, k - 1) \in Nat /\ moves[k].miles \in Nat
      BY <1>1, <3>1, OdometerIs
    <3>6. Lengths(moves)[k] = moves[k].miles
      BY <1>1, <3>1 DEF Lengths
    <3> QED
      BY <1>8, <3>2, <3>3, <3>4, <3>5, <3>6
  <2>2. SumOf(Driven(drives), whole) = SumOf(Lengths(moves), whole)
    BY <2>1, SumSame
  <2> QED
    BY <1>7, <2>2, DrivenSum
<1> QED
  BY <1>2, <1>5, <1>7, <1>8, <1>9 DEF drives

\* The movement from a to b is that of the drives and what they miss.
LEMMA MissingIs ==
    ASSUME NEW moves, AreMoves(moves), NEW a \in 1 .. Len(moves), NEW b \in 1 .. Len(moves), a <= b
    PROVE  /\ Missing(moves, a, b) = SumOf(Lengths(moves), (a .. b) \ Whole(moves))
           /\ Missing(moves, a, b) \in Nat
           /\ Odometer(moves, b) - Odometer(moves, a - 1)
                = SumOf(Lengths(moves), (a .. b) \cap Whole(moves)) + Missing(moves, a, b)
<1> DEFINE S == (a .. b) \cap Whole(moves)
           R == (a .. b) \ Whole(moves)
           f == Lengths(moves)
<1>1. S \in SUBSET DOMAIN moves /\ R \in SUBSET DOMAIN moves /\ S \cap R = {} /\ S \cup R = a .. b
  BY DEF AreMoves
<1>2. Missing(moves, a, b) = SumOf(f, R)
  <2>1. Missing(moves, a, b) = MapThenSumSet(LAMBDA j : moves[j].miles, R)
    BY DEF Missing
  <2> HIDE DEF R
  <2> QED
    BY <1>1, <2>1, MilesSum
<1> HIDE DEF S, R, f
<1>3. Values(f, S) /\ Values(f, R) /\ SumOf(f, S) \in Nat /\ SumOf(f, R) \in Nat
  BY <1>1, OdometerIs DEF f
<1>4. SumOf(f, a .. b) = SumOf(f, S) + SumOf(f, R)
  <2>1. SumOf(f, S \cup R) = SumOf(f, S) + SumOf(f, R)
    BY <1>1, <1>3, SumUnion
  <2> QED
    BY <1>1, <2>1
<1>5. /\ Odometer(moves, b) = Odometer(moves, a - 1) + SumOf(f, a .. b)
      /\ Odometer(moves, a - 1) \in Nat
  <2>1. b \in 0 .. Len(moves) /\ a <= b + 1 /\ a - 1 \in 0 .. Len(moves)
    BY DEF AreMoves
  <2> QED
    BY <2>1, OdometerIs DEF f
<1>6. Odometer(moves, b) - Odometer(moves, a - 1) = SumOf(f, S) + SumOf(f, R)
  BY <1>3, <1>4, <1>5
<1> QED
  BY <1>2, <1>3, <1>6 DEF S, R, f

\* What the live gate looks at.
LEMMA OdometerCheckIs ==
    ASSUME NEW moves, AreMoves(moves)
    PROVE  LET whole == Whole(moves)
               first == Min(whole)
               last == Max(whole)
               moved == Odometer(moves, last) - Odometer(moves, first - 1)
               gone == Missing(moves, first, last)
           IN  CheckOdometer(Recorded(moves)) <=>
                   /\ whole # {}
                   /\ gone <= OdometerSlack \/ gone * OdometerShare <= moved
<1> DEFINE n == Len(moves)
           drives == Recorded(moves)
           whole == Whole(moves)
           first == Min(whole)
           last == Max(whole)
           moved == Odometer(moves, last) - Odometer(moves, first - 1)
           gone == Missing(moves, first, last)
<1>1. Readings(drives) = whole /\ whole \in SUBSET (1 .. n) /\ n \in Nat
      /\ Miles(drives) = SumOf(Lengths(moves), whole)
      /\ \A k \in whole : drives[k].from = Odometer(moves, k - 1) /\ drives[k].to = Odometer(moves, k)
  BY RecordedIs DEF AreMoves
<1>2. CASE whole = {}
  BY <1>1, <1>2 DEF CheckOdometer
<1>3. CASE whole # {}
  <2>1. first \in whole /\ last \in whole /\ \A k \in whole : first <= k /\ k <= last
    <3>1. whole \in SUBSET Nat
      BY <1>1
    <3>2. whole \in SUBSET (0 .. n)
      BY <1>1
    <3> QED
      BY <1>1, <1>3, <3>1, <3>2, MinIs, MaxIs
  <2> HIDE DEF whole, drives, first, last
  <2>2. first \in 1 .. n /\ last \in 1 .. n /\ first <= last
    BY <1>1, <2>1
  <2>3. (first .. last) \cap whole = whole
    <3>1. \A k \in whole : k \in 1 .. n /\ k \in first .. last
      BY <1>1, <2>1, <2>2
    <3> QED
      BY <3>1
  <2>4. PICK g, m \in Nat : gone = g /\ Miles(drives) = m /\ moved = m + g
    <3>1. /\ Missing(moves, first, last) \in Nat
          /\ Odometer(moves, last) - Odometer(moves, first - 1)
                = SumOf(Lengths(moves), (first .. last) \cap whole) + Missing(moves, first, last)
      BY <2>2, MissingIs DEF n, whole
    <3>2. SumOf(Lengths(moves), whole) \in Nat
      BY <1>1, OdometerIs DEF AreMoves, n
    <3> QED
      BY <1>1, <2>3, <3>1, <3>2
  <2>5. CheckOdometer(drives) <=> moved <= 0 \/ OdometerFits(Miles(drives), moved)
    BY <1>1, <1>3, <2>1 DEF CheckOdometer, first, last
  <2> HIDE DEF gone, moved
  <2>6. Abs(m - (m + g)) = g
    BY DEF Abs
  <2>7. OdometerFits(m, m + g) <=> g <= OdometerSlack \/ g * OdometerShare <= m + g
    BY <2>6 DEF OdometerFits
  <2>8. m + g <= 0 => g <= OdometerSlack
    BY GateAssumption
  <2>9. CheckOdometer(drives) <=> gone <= OdometerSlack \/ gone * OdometerShare <= moved
    BY <2>4, <2>5, <2>7, <2>8
  <2> QED
    BY <1>3, <2>9 DEF whole, drives, first, last, gone, moved
<1> QED
  BY <1>2, <1>3

LEMMA ContinuityCheckIs ==
    ASSUME NEW moves, AreMoves(moves)
    PROVE  LET whole == Whole(moves)
           IN  CheckContinuity(Recorded(moves)) <=>
                   \A a, b \in whole : (a < b /\ (a + 1 .. b - 1) \cap whole = {}) =>
                       Missing(moves, a, b) <= MaxUnlogged
<1> DEFINE n == Len(moves)
           drives == Recorded(moves)
           whole == Whole(moves)
           Near(a, b) == a < b /\ (a + 1 .. b - 1) \cap whole = {}
<1>1. Readings(drives) = whole /\ whole \in SUBSET (1 .. n) /\ n \in Nat
      /\ \A k \in whole : drives[k].from = Odometer(moves, k - 1) /\ drives[k].to = Odometer(moves, k)
  BY RecordedIs DEF AreMoves
<1> HIDE DEF n, drives, whole
<1>2. ASSUME NEW a \in whole, NEW b \in whole, Near(a, b)
      PROVE  drives[b].from - drives[a].to = Missing(moves, a, b)
  <2>1. a \in 1 .. n /\ b \in 1 .. n /\ a <= b
    BY <1>1, <1>2
  <2>2. PICK u, v \in Nat : u = Odometer(moves, b - 1) /\ v = Odometer(moves, a)
    <3>1. b - 1 \in 0 .. n /\ a \in 0 .. n
      BY <1>1, <2>1
    <3> QED
      BY <3>1, OdometerIs DEF n
  <2>3. u = v + SumOf(Lengths(moves), a + 1 .. b - 1)
    <3>1. a + 1 \in 1 .. n /\ b - 1 \in 0 .. n /\ a + 1 <= (b - 1) + 1
      BY <1>1, <1>2, <2>1
    <3>2. Odometer(moves, b - 1)
            = Odometer(moves, (a + 1) - 1) + SumOf(Lengths(moves), a + 1 .. b - 1)
      BY <3>1, OdometerIs DEF n
    <3>3. (a + 1) - 1 = a
      BY <1>1, <2>1
    <3> QED
      BY <2>2, <3>2, <3>3
  <2>4. (a .. b) \ whole = a + 1 .. b - 1
    <3>1. \A k : k \in a .. b <=> k = a \/ k = b \/ k \in a + 1 .. b - 1
      BY <1>1, <1>2, <2>1
    <3>2. ~(a \in a + 1 .. b - 1) /\ ~(b \in a + 1 .. b - 1)
      BY <1>1, <2>1
    <3> QED
      BY <1>2, <3>1, <3>2
  <2>5. Missing(moves, a, b) = SumOf(Lengths(moves), a + 1 .. b - 1) /\ Missing(moves, a, b) \in Nat
    <3>1. /\ Missing(moves, a, b) = SumOf(Lengths(moves), (a .. b) \ Whole(moves))
          /\ Missing(moves, a, b) \in Nat
      <4>1. a \in 1 .. Len(moves) /\ b \in 1 .. Len(moves)
        BY <2>1 DEF n
      <4> QED
        BY <2>1, <4>1, MissingIs
    <3> QED
      BY <2>4, <3>1 DEF whole
  <2> QED
    BY <1>1, <2>2, <2>3, <2>5
<1>3. CheckContinuity(drives) <=> \A p \in Pairs(whole) : drives[p[2]].from - drives[p[1]].to <= MaxUnlogged
  BY <1>1 DEF CheckContinuity, Continuous
<1>4. CheckContinuity(drives) <=>
          \A a, b \in whole : Near(a, b) => drives[b].from - drives[a].to <= MaxUnlogged
  <2>1. ASSUME \A p \in Pairs(whole) : drives[p[2]].from - drives[p[1]].to <= MaxUnlogged,
               NEW a \in whole, NEW b \in whole, Near(a, b)
        PROVE  drives[b].from - drives[a].to <= MaxUnlogged
    <3>1. <<a, b>> \in Pairs(whole)
      BY <2>1 DEF Pairs
    <3> QED
      BY <2>1, <3>1
  <2>2. ASSUME \A a, b \in whole : Near(a, b) => drives[b].from - drives[a].to <= MaxUnlogged,
               NEW p \in Pairs(whole)
        PROVE  drives[p[2]].from - drives[p[1]].to <= MaxUnlogged
    <3>1. p[1] \in whole /\ p[2] \in whole /\ Near(p[1], p[2])
      BY DEF Pairs
    <3> QED
      BY <2>2, <3>1
  <2> QED
    BY <1>3, <2>1, <2>2
<1>5. CheckContinuity(drives) <=> \A a, b \in whole : Near(a, b) => Missing(moves, a, b) <= MaxUnlogged
  BY <1>2, <1>4
<1> QED
  BY <1>5 DEF drives, whole

LEMMA NoTelemetryNoGaps == CheckGaps(<<>>, {}, 0) = {}
<1>1. LinkOf(<<>>, 0)
  BY DEF LinkOf
<1>2. {} \in SUBSET (0 .. 0) /\ 0 \in Nat
  OBVIOUS
<1>3. CheckGaps(<<>>, {}, 0) \subseteq SilentStretches(<<>>, {}, 0)
  BY <1>1, <1>2, GapsAreSilent
<1>4. SilentStretches(<<>>, {}, 0) = {}
  <2> SUFFICES ASSUME NEW s \in SilentStretches(<<>>, {}, 0) PROVE FALSE
    OBVIOUS
  <2>1. s[1] \in 0 .. 0 /\ s[2] \in 0 .. 0 /\ s[2] - s[1] > MaxTelemetryGap
    BY DEF SilentStretches
  <2> QED
    BY <2>1, GateAssumption
<1> QED
  BY <1>3, <1>4

LEMMA CountTo == \A n \in Nat : IsFiniteSet(1 .. n) /\ Cardinality(1 .. n) = n
<1> TAKE n \in Nat
<1>1. IsFiniteSet(1 .. n) /\ Cardinality(1 .. n) = IF 1 > n THEN 0 ELSE n - 1 + 1
  BY FS_Interval
<1>2. (1 > n => n = 0) /\ (~(1 > n) => n - 1 + 1 = n)
  OBVIOUS
<1> QED
  BY <1>1, <1>2

\* Some of n are lost.
LEMMA CountsFit ==
    ASSUME NEW n \in Nat, NEW lost \in SUBSET (1 .. n), NEW had, had = (1 .. n) \ lost
    PROVE  /\ Cardinality(lost) \in Nat /\ Cardinality(had) = n - Cardinality(lost)
           /\ MetricFits(Cardinality(had), n, 1) =>
                  Cardinality(lost) <= 1 \/ Cardinality(lost) * MetricShare <= n
           /\ lost = {} => MetricFits(Cardinality(had), n, 1)
<1> DEFINE l == Cardinality(lost)
<1>1. IsFiniteSet(1 .. n) /\ Cardinality(1 .. n) = n
  BY CountTo
<1>2. IsFiniteSet(lost) /\ l \in Nat
  BY <1>1, FS_Subset, FS_CardinalityType
<1>3. Cardinality(had) = n - l
  <2>1. Cardinality((1 .. n) \ lost) = n - Cardinality((1 .. n) \cap lost)
    BY <1>1, FS_Difference
  <2>2. (1 .. n) \cap lost = lost
    OBVIOUS
  <2> QED
    BY <2>1, <2>2
<1>4. lost = {} => l = 0
  BY FS_EmptySet
<1> HIDE DEF l
<1>5. Abs((n - l) - n) = l
  BY <1>2 DEF Abs
<1>6. MetricFits(n - l, n, 1) <=> l <= 1 \/ l * MetricShare <= n
  BY <1>5 DEF MetricFits
<1> QED
  BY <1>2, <1>3, <1>4, <1>6 DEF l

\* Of a sum a part is missing.
LEMMA AmountsFit ==
    ASSUME NEW m \in Nat, NEW t \in Nat, m <= t
    PROVE  /\ MetricFits(m, t, 0) => (t - m) * MetricShare <= t
           /\ m = t => MetricFits(m, t, 0)
<1>1. Abs(m - t) = t - m
  BY DEF Abs
<1>2. MetricFits(m, t, 0) => t - m <= 0 \/ (t - m) * MetricShare <= t
  BY <1>1 DEF MetricFits
<1>3. t - m <= 0 => t - m = 0
  OBVIOUS
<1>4. 0 * MetricShare <= t
  BY GateAssumption
<1>5. m = t => MetricFits(m, t, 0)
  BY <1>1 DEF MetricFits
<1> QED
  BY <1>2, <1>3, <1>4, <1>5

\* What a car can have been charged with.
ArePlugged(plugged) ==
    /\ DOMAIN plugged = 1 .. Len(plugged) /\ Len(plugged) \in Nat
    /\ \A k \in DOMAIN plugged : plugged[k].kwh \in Nat /\ plugged[k].as \in ChargeRecordings

Added(plugged) == [k \in DOMAIN plugged |-> plugged[k].kwh]

LEMMA KwhSum ==
    ASSUME NEW plugged, NEW S \in SUBSET DOMAIN plugged
    PROVE  Kwh(plugged, S) = SumOf(Added(plugged), S)
<1> DEFINE f == Added(plugged)
           Body(it) == [s \in SUBSET S |->
                           IF s = {} THEN 0 ELSE plugged[Picked(s)].kwh + it[s \ {Picked(s)}]]
<1>1. Kwh(plugged, S) = (CHOOSE it : it = Body(it))[S]
  BY DEF Kwh, MapThenSumSet, MapThenFoldSet, Picked
<1>2. \A it : Body(it) = Adder(f, S, it)
  BY PickedIs DEF Adder, Added
<1> HIDE DEF Body, f
<1>3. (CHOOSE it : it = Body(it)) = (CHOOSE it : it = Adder(f, S, it))
  BY <1>2, Zenon
<1> QED
  BY <1>1, <1>3, SumIs DEF f

\* What the history gate looks at of the charges, when TeslaFi has all of them.
LEMMA ChargesCheckIs ==
    ASSUME NEW plugged, ArePlugged(plugged)
    PROVE  LET charges == RecordedCharges(plugged)
               n == Len(plugged)
               all == Kwh(plugged, DOMAIN plugged)
               lost == Cardinality({k \in DOMAIN plugged : plugged[k].as = "lost"})
           IN  /\ MetricFits(Cardinality(DOMAIN charges), n, 1) => lost <= 1 \/ lost * MetricShare <= n
               /\ MetricFits(KwhAdded(charges), all, 0) =>
                      Kwh(plugged, DOMAIN plugged \ Measured(plugged)) * MetricShare <= all
               /\ Measured(plugged) = DOMAIN plugged =>
                      /\ MetricFits(Cardinality(DOMAIN charges), n, 1)
                      /\ MetricFits(KwhAdded(charges), all, 0)
<1> DEFINE n == Len(plugged)
           charges == RecordedCharges(plugged)
           lost == {k \in DOMAIN plugged : plugged[k].as = "lost"}
           had == Measured(plugged)
           rest == DOMAIN plugged \ had
           f == Added(plugged)
           kwh == [k \in DOMAIN charges |-> IF charges[k] = NoReading THEN 0 ELSE charges[k]]
<1>1. n \in Nat /\ DOMAIN plugged = 1 .. n /\ IsFiniteSet(1 .. n) /\ lost \in SUBSET (1 .. n)
  BY CountTo DEF ArePlugged
<1>2. had \in SUBSET (1 .. n) /\ rest \in SUBSET (1 .. n) /\ had \cup rest = 1 .. n /\ had \cap rest = {}
  BY <1>1 DEF Measured
<1>3. DOMAIN charges = (1 .. n) \ lost
  BY <1>1 DEF RecordedCharges
<1>4. had \in SUBSET DOMAIN charges /\ (had = 1 .. n => lost = {})
  BY <1>1, <1>3 DEF Measured
<1>5. \A k \in 1 .. n : f[k] \in Nat
  BY <1>1 DEF ArePlugged, Added
<1>6. \A k \in DOMAIN charges : kwh[k] = IF k \in had THEN f[k] ELSE 0
  <2> TAKE k \in DOMAIN charges
  <2>1. /\ k \in DOMAIN plugged /\ plugged[k].as \in {"charge", "noEnergy"}
        /\ charges[k] = IF plugged[k].as = "noEnergy" THEN NoReading ELSE plugged[k].kwh
    BY <1>1, <1>3 DEF RecordedCharges, ArePlugged, ChargeRecordings
  <2>2. plugged[k].kwh \in Nat /\ plugged[k].kwh # NoReading /\ f[k] = plugged[k].kwh
    BY <2>1 DEF ArePlugged, Added, NoReading
  <2>3. k \in had <=> plugged[k].as = "charge"
    BY <2>1 DEF Measured
  <2> HIDE DEF charges, had, f
  <2> QED
    BY <2>1, <2>2, <2>3
<1>7. KwhAdded(charges) = SumOf(kwh, DOMAIN charges)
  BY DEF KwhAdded, SumOf
<1> HIDE DEF n, charges, lost, had, rest, f, kwh
<1>8. \A S \in SUBSET (1 .. n) : Values(f, S) /\ SumOf(f, S) \in Nat
  <2> TAKE S \in SUBSET (1 .. n)
  <2>1. IsFiniteSet(S) /\ \A x \in S : f[x] \in Nat
    BY <1>1, <1>5, FS_Subset
  <2>2. Values(f, S)
    BY <2>1 DEF Values
  <2>3. SumOf(f, S) \in Nat
    BY <2>1, SumNat, Zenon
  <2> QED
    BY <2>2, <2>3
<1>9. SumOf(kwh, DOMAIN charges) = SumOf(f, had)
  <2>1. IsFiniteSet(DOMAIN charges)
    BY <1>1, <1>3, FS_Subset
  <2>2. \A k \in DOMAIN charges : kwh[k] \in Nat
    BY <1>2, <1>5, <1>6
  <2>3. Values(kwh, DOMAIN charges)
    BY <2>1, <2>2 DEF Values
  <2>4. SumOf(kwh, DOMAIN charges) = SumOf(kwh, had)
    BY <1>4, <1>6, <2>3, SumWithout
  <2>5. SumOf(kwh, had) = SumOf(f, had)
    BY <1>4, <1>6, SumSame
  <2> QED
    BY <2>4, <2>5
<1>10. PICK m, u, t \in Nat : /\ m = KwhAdded(charges) /\ t = Kwh(plugged, DOMAIN plugged)
                             /\ u = Kwh(plugged, rest) /\ t = m + u /\ (had = 1 .. n => m = t)
  <2>1. SumOf(f, had \cup rest) = SumOf(f, had) + SumOf(f, rest)
    BY <1>2, <1>8, SumUnion
  <2>2. Kwh(plugged, DOMAIN plugged) = SumOf(f, 1 .. n) /\ Kwh(plugged, rest) = SumOf(f, rest)
    BY <1>1, <1>2, KwhSum DEF f
  <2>3. SumOf(f, had) \in Nat /\ SumOf(f, rest) \in Nat /\ SumOf(f, 1 .. n) \in Nat
    BY <1>2, <1>8
  <2> QED
    BY <1>2, <1>7, <1>9, <2>1, <2>2, <2>3
<1>11. m <= t /\ t - m = u
  BY <1>10
<1>12. /\ MetricFits(m, t, 0) => u * MetricShare <= t
       /\ m = t => MetricFits(m, t, 0)
  BY <1>11, AmountsFit
<1>13. /\ MetricFits(Cardinality(DOMAIN charges), n, 1) =>
              Cardinality(lost) <= 1 \/ Cardinality(lost) * MetricShare <= n
       /\ lost = {} => MetricFits(Cardinality(DOMAIN charges), n, 1)
  BY <1>1, <1>3, CountsFit
<1>14. had = DOMAIN plugged => MetricFits(Cardinality(DOMAIN charges), n, 1) /\ MetricFits(m, t, 0)
  BY <1>1, <1>4, <1>10, <1>12, <1>13
<1>15. MetricFits(KwhAdded(charges), Kwh(plugged, DOMAIN plugged), 0) =>
           Kwh(plugged, rest) * MetricShare <= Kwh(plugged, DOMAIN plugged)
  BY <1>10, <1>12
<1>16. had = DOMAIN plugged => /\ MetricFits(Cardinality(DOMAIN charges), n, 1)
                               /\ MetricFits(KwhAdded(charges), Kwh(plugged, DOMAIN plugged), 0)
  BY <1>10, <1>14
<1> QED
  BY <1>13, <1>15, <1>16 DEF n, charges, lost, had, rest

\* What the history gate looks at, when TeslaFi has all movements and charges.
LEMMA MonthCheckIs ==
    ASSUME NEW moves, AreMoves(moves), NEW plugged, ArePlugged(plugged)
    PROVE  LET n == Len(moves)
               all == Odometer(moves, n)
               missed == Missing(moves, 1, n)
               energy == Kwh(plugged, DOMAIN plugged)
               unmetered == Kwh(plugged, DOMAIN plugged \ Measured(plugged))
               lost(list) == Cardinality({k \in DOMAIN list : list[k].as = "lost"})
               month == MonthOk(Recorded(moves), RecordedCharges(plugged), TeslaFiAnswer(moves, plugged))
           IN  /\ month => /\ missed * MetricShare <= all
                           /\ lost(moves) <= 1 \/ lost(moves) * MetricShare <= n
                           /\ unmetered * MetricShare <= energy
                           /\ lost(plugged) <= 1 \/ lost(plugged) * MetricShare <= Len(plugged)
               /\ Whole(moves) = DOMAIN moves /\ Measured(plugged) = DOMAIN plugged => month
<1> DEFINE charges == RecordedCharges(plugged)
           c == Len(plugged)
           energy == Kwh(plugged, DOMAIN plugged)
           unmetered == Kwh(plugged, DOMAIN plugged \ Measured(plugged))
           unlisted == Cardinality({k \in DOMAIN plugged : plugged[k].as = "lost"})
           ChargesFit == MetricFits(Cardinality(DOMAIN charges), c, 1) /\ MetricFits(KwhAdded(charges), energy, 0)
<1>0. /\ ChargesFit => /\ unmetered * MetricShare <= energy
                       /\ unlisted <= 1 \/ unlisted * MetricShare <= c
      /\ Measured(plugged) = DOMAIN plugged => ChargesFit
  BY ChargesCheckIs
<1> DEFINE n == Len(moves)
           all == Odometer(moves, n)
           drives == Recorded(moves)
           whole == Whole(moves)
           miles == Miles(drives)
           lost == {k \in DOMAIN moves : moves[k].as = "lost"}
           delta == OdometerDelta(drives)
<1>1. n \in Nat \ {0} /\ DOMAIN moves = 1 .. n
  BY DEF AreMoves
<1>2. /\ DOMAIN drives = DOMAIN moves \ lost /\ whole \in SUBSET DOMAIN moves
      /\ miles = SumOf(Lengths(moves), whole)
      /\ whole \in SUBSET DOMAIN drives
      /\ \A k \in whole : drives[k].from = Odometer(moves, k - 1) /\ drives[k].to = Odometer(moves, k)
  BY RecordedIs
<1>3. lost \in SUBSET (1 .. n)
  BY <1>1
<1> HIDE DEF drives, lost, whole, n
<1>4. /\ Cardinality(lost) \in Nat /\ Cardinality(DOMAIN drives) = n - Cardinality(lost)
      /\ MetricFits(Cardinality(DOMAIN drives), n, 1) =>
             Cardinality(lost) <= 1 \/ Cardinality(lost) * MetricShare <= n
  BY <1>1, <1>2, <1>3, CountsFit
<1> HIDE DEF charges, c, energy, unmetered, unlisted
<1>5. PICK t, m, l \in Nat : /\ t = all /\ m = miles /\ l = Cardinality(lost) /\ m <= t
                             /\ Missing(moves, 1, n) = t - m
  <2>1. n \in 1 .. n /\ 1 \in 1 .. n /\ 1 <= n /\ n \in 0 .. n /\ 0 \in 0 .. n
    BY <1>1
  <2>2. Odometer(moves, n) - Odometer(moves, 1 - 1)
          = SumOf(Lengths(moves), (1 .. n) \cap whole) + Missing(moves, 1, n)
        /\ Missing(moves, 1, n) \in Nat
    BY <2>1, MissingIs DEF n, whole
  <2>3. Odometer(moves, 0) = 0
    <3>1. Odometer(moves, 0) = SumOf(Lengths(moves), 1 .. 0) /\ 1 .. 0 = {}
      BY <2>1, OdometerIs DEF n
    <3> QED
      BY <3>1, SumEmpty
  <2>4. (1 .. n) \cap whole = whole
    BY <1>1, <1>2
  <2>5. Odometer(moves, n) \in Nat /\ SumOf(Lengths(moves), whole) \in Nat
    BY <1>2, <2>1, OdometerIs DEF n
  <2>6. /\ all = miles + Missing(moves, 1, n) /\ all \in Nat /\ miles \in Nat
        /\ Missing(moves, 1, n) \in Nat
    <3>1. SumOf(Lengths(moves), (1 .. n) \cap whole) = miles
      BY <1>2, <2>4
    <3>2. Odometer(moves, 1 - 1) = 0
      BY <2>3
    <3>3. all - 0 = miles + Missing(moves, 1, n)
      BY <2>2, <3>1, <3>2
    <3>4. all \in Nat /\ miles \in Nat
      BY <1>2, <2>5
    <3> HIDE DEF all, miles
    <3> QED
      BY <2>2, <3>3, <3>4
  <2> HIDE DEF all, miles
  <2>7. miles <= all /\ Missing(moves, 1, n) = all - miles
    BY <2>6
  <2> QED
    BY <1>4, <2>6, <2>7
<1> DEFINE month == MonthOk(drives, charges, TeslaFiAnswer(moves, plugged))
<1>6. month <=> /\ MetricFits(n - l, n, 1)
                /\ MetricFits(m, t, 0)
                /\ ChargesFit
                /\ delta > 0 => OdometerFits(m, delta)
  <2> DEFINE theirs == TeslaFiAnswer(moves, plugged)
  <2>1. theirs.drives = n /\ theirs.miles = t /\ theirs.charges = c /\ theirs.kwh = energy
    BY <1>5 DEF TeslaFiAnswer, n, c, energy
  <2> HIDE DEF theirs
  <2>2. theirs # NoAnswer
    BY <1>1, <2>1 DEF NoAnswer, NoReading
  <2> HIDE DEF all, miles, delta
  <2> QED
    BY <1>4, <1>5, <2>1, <2>2 DEF MonthOk, miles, delta, theirs
<1> HIDE DEF ChargesFit
<1>7. Abs((n - l) - n) = l /\ Abs(m - t) = t - m
  BY <1>1, <1>5 DEF Abs
<1>8. month => /\ (t - m) * MetricShare <= t
               /\ l <= 1 \/ l * MetricShare <= n
               /\ unmetered * MetricShare <= energy
               /\ unlisted <= 1 \/ unlisted * MetricShare <= c
  <2>1. MetricFits(n - l, n, 1) => l <= 1 \/ l * MetricShare <= n
    BY <1>4, <1>5
  <2>2. MetricFits(m, t, 0) => (t - m) * MetricShare <= t
    BY <1>5, AmountsFit
  <2> HIDE DEF month
  <2> QED
    BY <1>0, <1>6, <2>1, <2>2
<1>9. ASSUME whole = DOMAIN moves, Measured(plugged) = DOMAIN plugged PROVE month
  <2>1. DOMAIN drives = 1 .. n
    BY <1>1, <1>2, <1>9
  <2>2. l = 0
    <3>1. lost = {}
      BY <1>1, <1>2, <1>3, <2>1
    <3> QED
      BY <1>5, <3>1, FS_EmptySet
  <2>3. m = t
    <3>1. n \in 0 .. n
      BY <1>1
    <3> QED
      BY <1>1, <1>2, <1>5, <1>9, <3>1, OdometerIs DEF n
  <2>4. delta = t
    <3>1. \A k \in 1 .. n : /\ drives[k].from = Odometer(moves, k - 1) /\ drives[k].to = Odometer(moves, k)
                            /\ Odometer(moves, k - 1) \in Nat /\ Odometer(moves, k) \in Nat
      <4> TAKE k \in 1 .. n
      <4>1. k - 1 \in 0 .. n /\ k \in 0 .. n
        BY <1>1
      <4> QED
        BY <1>1, <1>2, <1>9, <4>1, OdometerIs DEF n
    <3>2. {k \in DOMAIN drives : drives[k].from # NoReading} = 1 .. n
          /\ {k \in DOMAIN drives : drives[k].to # NoReading} = 1 .. n
      BY <2>1, <3>1 DEF NoReading
    <3>3. Min(1 .. n) = 1 /\ Max(1 .. n) = n
      <4>1. 1 .. n \in SUBSET Nat /\ 1 .. n \in SUBSET (0 .. n) /\ 1 .. n # {} /\ 1 \in 1 .. n /\ n \in 1 .. n
        BY <1>1
      <4>2. Min(1 .. n) \in 1 .. n /\ (\A x \in 1 .. n : Min(1 .. n) <= x)
            /\ Max(1 .. n) \in 1 .. n /\ (\A x \in 1 .. n : x <= Max(1 .. n))
        BY <1>1, <4>1, MinIs, MaxIs
      <4>3. \A x \in 1 .. n : x \in Int /\ 1 <= x /\ x <= n
        BY <1>1
      <4>4. Min(1 .. n) <= 1 /\ n <= Max(1 .. n)
        BY <4>1, <4>2
      <4> QED
        BY <1>1, <4>2, <4>3, <4>4
    <3>4. 1 \in 1 .. n /\ n \in 1 .. n
      BY <1>1
    <3>5. OdometerStart(drives) = Odometer(moves, 1 - 1) /\ OdometerEnd(drives) = Odometer(moves, n)
      BY <3>1, <3>2, <3>3, <3>4 DEF OdometerStart, OdometerEnd
    <3>6. Odometer(moves, 1 - 1) = 0
      <4>1. 0 \in 0 .. n /\ 1 .. 0 = {}
        BY <1>1
      <4>2. Odometer(moves, 0) = SumOf(Lengths(moves), 1 .. 0)
        BY <4>1, OdometerIs DEF n
      <4> QED
        BY <4>1, <4>2, SumEmpty
    <3> QED
      BY <1>5, <3>5, <3>6 DEF OdometerDelta, NoReading
  <2>5. MetricFits(n - l, n, 1) /\ MetricFits(m, t, 0)
    BY <1>7, <2>2, <2>3 DEF MetricFits
  <2>6. OdometerFits(m, t)
    BY <1>7, <2>3, GateAssumption DEF OdometerFits
  <2> HIDE DEF month
  <2> QED
    BY <1>0, <1>6, <1>9, <2>4, <2>5, <2>6
<1> HIDE DEF month
<1>10. /\ month => /\ Missing(moves, 1, n) * MetricShare <= all
                    /\ (Cardinality(lost) <= 1 \/ Cardinality(lost) * MetricShare <= n)
                    /\ unmetered * MetricShare <= energy
                    /\ (unlisted <= 1 \/ unlisted * MetricShare <= c)
       /\ whole = DOMAIN moves /\ Measured(plugged) = DOMAIN plugged => month
  BY <1>2, <1>5, <1>8, <1>9
<1> QED
  BY <1>10 DEF month, drives, charges, whole, lost, n, c, energy, unmetered, unlisted

\* What LostDrivesShow says of the movements and the two answers.
LostShows(moves, plugged, live, month) ==
    LET whole == Whole(moves)
        first == Min(whole)
        last == Max(whole)
        moved == Odometer(moves, last) - Odometer(moves, first - 1)
        gone == Missing(moves, first, last)
        missed == Missing(moves, 1, Len(moves))
        unmetered == Kwh(plugged, DOMAIN plugged \ Measured(plugged))
        lost(list) == Cardinality({k \in DOMAIN list : list[k].as = "lost"})
    IN  /\ live <=>
              /\ whole # {}
              /\ \A a, b \in whole : (a < b /\ (a + 1 .. b - 1) \cap whole = {}) =>
                    Missing(moves, a, b) <= MaxUnlogged
              /\ gone <= OdometerSlack \/ gone * OdometerShare <= moved
        /\ month =>
              /\ missed * MetricShare <= Odometer(moves, Len(moves))
              /\ lost(moves) <= 1 \/ lost(moves) * MetricShare <= Len(moves)
              /\ unmetered * MetricShare <= Kwh(plugged, DOMAIN plugged)
              /\ lost(plugged) <= 1 \/ lost(plugged) * MetricShare <= Len(plugged)
        /\ whole = DOMAIN moves /\ Measured(plugged) = DOMAIN plugged => month

LEMMA LostShowsIs ==
    /\ LostDrivesShow <=> (answer.of = "drives" => LostShows(answer.moves, answer.plugged, answer.live, answer.month))
    /\ LostDrivesShow' <=> (answer'.of = "drives" => LostShows(answer'.moves, answer'.plugged, answer'.live, answer'.month))
<1>1. LostDrivesShow <=> (answer.of = "drives" => LostShows(answer.moves, answer.plugged, answer.live, answer.month))
  BY DEF LostDrivesShow, LostShows
<1>2. LostDrivesShow' <=> (answer'.of = "drives" => LostShows(answer'.moves, answer'.plugged, answer'.live, answer'.month))
  BY DEF LostDrivesShow, LostShows
<1> QED
  BY <1>1, <1>2

LEMMA AskLostDrivesShow == AskDrives => LostDrivesShow'
<1> SUFFICES ASSUME AskDrives PROVE LostDrivesShow'
  OBVIOUS
<1> DEFINE Verdict(moves, plugged) ==
               MonthOk(Recorded(moves), RecordedCharges(plugged), TeslaFiAnswer(moves, plugged))
           Answered(moves, plugged) ==
               answer' = [of |-> "drives", moves |-> moves, plugged |-> plugged,
                          live |-> LivePassed(Recorded(moves), <<>>, {}, 0),
                          month |-> Verdict(moves, plugged)]
<1>1. PICK N \in 1 .. MaxMoves : \E M \in 0 .. MaxMoves - N :
          \E moves \in [1 .. N -> [miles : MoveMiles, as : Recordings]],
             plugged \in [1 .. M -> [kwh : ChargeKwh, as : ChargeRecordings]] : Answered(moves, plugged)
  BY DEF AskDrives
<1>2. PICK M \in 0 .. MaxMoves - N :
          \E moves \in [1 .. N -> [miles : MoveMiles, as : Recordings]],
             plugged \in [1 .. M -> [kwh : ChargeKwh, as : ChargeRecordings]] : Answered(moves, plugged)
  BY <1>1
<1>3. PICK moves \in [1 .. N -> [miles : MoveMiles, as : Recordings]],
           plugged \in [1 .. M -> [kwh : ChargeKwh, as : ChargeRecordings]] : Answered(moves, plugged)
  BY <1>2
<1>4. answer'.moves = moves /\ answer'.plugged = plugged
  BY <1>3
<1>5. answer'.live = LivePassed(Recorded(moves), <<>>, {}, 0)
  BY <1>3, Zenon
<1>6. answer'.month = Verdict(moves, plugged)
  BY <1>3, Zenon
<1>7. ArePlugged(plugged)
  <2>1. M \in Nat
    BY CalculationAssumption
  <2>2. DOMAIN plugged = 1 .. M /\ Len(plugged) = M
    BY <2>1
  <2> QED
    BY <2>1, <2>2, CalculationAssumption DEF ArePlugged
<1>8. AreMoves(moves)
  <2>1. N \in Nat \ {0}
    BY CalculationAssumption
  <2>2. DOMAIN moves = 1 .. N /\ Len(moves) = N
    BY <2>1
  <2> QED
    BY <2>1, <2>2, CalculationAssumption DEF AreMoves
<1> HIDE DEF Answered
<1> DEFINE whole == Whole(moves)
           first == Min(whole)
           last == Max(whole)
           moved == Odometer(moves, last) - Odometer(moves, first - 1)
           gone == Missing(moves, first, last)
           missed == Missing(moves, 1, Len(moves))
           unmetered == Kwh(plugged, DOMAIN plugged \ Measured(plugged))
           lost(list) == Cardinality({k \in DOMAIN list : list[k].as = "lost"})
<1> DEFINE Near == /\ whole # {}
                   /\ \A a, b \in whole : (a < b /\ (a + 1 .. b - 1) \cap whole = {}) =>
                         Missing(moves, a, b) <= MaxUnlogged
                   /\ gone <= OdometerSlack \/ gone * OdometerShare <= moved
           Few == /\ missed * MetricShare <= Odometer(moves, Len(moves))
                  /\ lost(moves) <= 1 \/ lost(moves) * MetricShare <= Len(moves)
                  /\ unmetered * MetricShare <= Kwh(plugged, DOMAIN plugged)
                  /\ lost(plugged) <= 1 \/ lost(plugged) * MetricShare <= Len(plugged)
           All == whole = DOMAIN moves /\ Measured(plugged) = DOMAIN plugged
<1>9. LivePassed(Recorded(moves), <<>>, {}, 0) <=> Near
  <2>1. CheckOdometer(Recorded(moves)) <=>
            whole # {} /\ (gone <= OdometerSlack \/ gone * OdometerShare <= moved)
    BY <1>8, OdometerCheckIs
  <2>2. CheckContinuity(Recorded(moves)) <=>
            \A a, b \in whole : (a < b /\ (a + 1 .. b - 1) \cap whole = {}) =>
                Missing(moves, a, b) <= MaxUnlogged
    BY <1>8, ContinuityCheckIs
  <2>3. LivePassed(Recorded(moves), <<>>, {}, 0) <=>
            CheckOdometer(Recorded(moves)) /\ CheckContinuity(Recorded(moves))
    BY NoTelemetryNoGaps DEF LivePassed
  <2> HIDE DEF whole, gone, moved
  <2> QED
    BY <2>1, <2>2, <2>3
<1>10. (Verdict(moves, plugged) => Few) /\ (All => Verdict(moves, plugged))
  BY <1>8, <1>7, MonthCheckIs
<1>11. LostShows(moves, plugged, answer'.live, answer'.month) <=>
           (answer'.live <=> Near) /\ (answer'.month => Few) /\ (All => answer'.month)
  BY Zenon DEF LostShows
<1> HIDE DEF Verdict, Near, Few, All
<1>12. LostShows(moves, plugged, answer'.live, answer'.month)
  <2>1. answer'.live <=> Near
    BY <1>5, <1>9, Zenon
  <2>2. (answer'.month => Few) /\ (All => answer'.month)
    BY <1>6, <1>10, Zenon
  <2> QED
    BY <1>11, <2>1, <2>2, Zenon
<1> QED
  BY <1>4, <1>12, LostShowsIs

\* A car passes the live gate exactly if the stretches between its drives, each and all
\* together, are within the tolerances; a month that passes lacks one drive and one
\* charge, or the given part of them, and the given part of the miles and of the
\* energy; and nothing is stopped when all is there: for every number of movements
\* and charges of any length, recorded or lost in any way (check_odometer,
\* check_continuity, compare).
THEOREM LostDrivesShowAlways == Spec => []LostDrivesShow
<1>1. Init => LostDrivesShow
  BY DEF Init, LostDrivesShow
<1>2. LostDrivesShow /\ [Next]_answer => LostDrivesShow'
  <2> SUFFICES ASSUME LostDrivesShow, [Next]_answer
               PROVE  LostDrivesShow'
    OBVIOUS
  <2>1. CASE AskDrives
    BY <2>1, AskLostDrivesShow
  <2>2. CASE AskTimes \/ AskFiles \/ AskCost \/ AskReports \/ AskMap \/ AskTelemetry
    <3>1. answer'.of # "drives"
      BY <2>2, AnswersNamed
    <3> QED
      BY <3>1, LostShowsIs
  <2>3. CASE UNCHANGED answer
    <3>1. answer' = answer
      BY <2>3
    <3> QED
      BY <3>1, LostShowsIs
  <2> QED
    BY <2>1, <2>2, <2>3 DEF Next
<1> QED
  BY <1>1, <1>2, PTL DEF Spec

-----------------------------------------------------------------------------
(* Import: files without a bad row.                                        *)

\* Rows as they are written, at increasing times, by a clock that is set in time.
Clean(ts, file, n) ==
    /\ DOMAIN ts = 1 .. n /\ DOMAIN file = 1 .. n
    /\ \A i \in 1 .. n : /\ ts[i] \in Nat /\ file[i].wall = ClockOf(ts[i], 0)
                         /\ file[i].date = TRUE /\ file[i].fields = TRUE
                         /\ file[i].state \in RowStates
    /\ \A i, j \in 1 .. n : i < j => ts[i] < ts[j]

\* The instants that its rows get one after the other.
Timed(file, time, n) ==
    \A i \in 1 .. n : time[i] = ToUtc(file[i].wall, IF i = 1 THEN None ELSE time[i - 1])

Grows(ts, time, n) ==
    /\ \A i \in 1 .. n : time[i] \in Nat /\ time[i] <= ts[i]
    /\ \A i \in 1 .. n : i > 1 => time[i - 1] <= time[i]

\* The report on the first n rows.
Reported(file, time, n, r) ==
    /\ IsReport(r) /\ r.outOfOrder = 0
    /\ r.rows = [k \in 1 .. n |-> [ts |-> time[k], state |-> file[k].state]]
    /\ r.previous = IF n = 0 THEN None ELSE time[n]
    /\ r.first = IF n = 0 THEN None ELSE time[1]
    /\ r.last = IF n = 0 THEN None ELSE time[n]

\* A clean row gets an instant no later than it was written and no earlier than the
\* row before; and whatever that one is, unless the clock shows it twice.
LEMMA CleanUtc ==
    ASSUME NEW t \in Nat, NEW p, p = None \/ (p \in Nat /\ p < t)
    PROVE  LET w == ClockOf(t, 0)
           IN  /\ ToUtc(w, p) \in Nat /\ ToUtc(w, p) <= t
               /\ p # None => p <= ToUtc(w, p)
               /\ ~Repeated(w) => \A q : ToUtc(w, q) = t
<1> DEFINE w == ClockOf(t, 0)
<1>1. 0 \in 0 .. Hour /\ Spring + 0 = Spring /\ Spring \in Nat /\ Hour \in Nat \ {0}
  BY ZoneAssumption
<1>2. Fits(p, t, ToUtc(w, p), w, 0)
  <2>1. \/ p = None
        \/ p \in Nat /\ p < t /\ (t < Spring + 0 => p <= Spring)
    BY <1>1
  <2> QED
    BY <1>1, <2>1, UtcFits
<1>3. \/ \A q : ToUtc(w, q) = t
      \/ w \in Nat /\ \A q : Meanings(w) = {w, w - Hour}
  <2>1. ~(Spring <= t /\ t < Spring + 0)
    BY <1>1
  <2> QED
    BY <1>1, <2>1, ClockCases
<1> HIDE DEF w
<1>4. ASSUME w \in Nat, \A q : Meanings(w) = {w, w - Hour} PROVE Repeated(w)
  <2>1. w # w - Hour
    BY <1>1, <1>4
  <2>2. Shown(w) = {w, w - Hour}
    BY <1>4, <2>1 DEF Meanings
  <2>3. IsFiniteSet({w}) /\ Cardinality({w}) = 1
    BY FS_Singleton
  <2>4. Cardinality({w} \cup {w - Hour}) = Cardinality({w}) + 1
    BY <2>1, <2>3, FS_AddElement
  <2>5. {w} \cup {w - Hour} = {w, w - Hour}
    OBVIOUS
  <2> QED
    BY <2>2, <2>3, <2>4, <2>5 DEF Repeated
<1> QED
  BY <1>2, <1>3, <1>4 DEF Fits, w

\* What a good row adds to a report.
LEMMA GoodRow ==
    ASSUME NEW r, IsReport(r), r.outOfOrder = 0, NEW row, row.date = TRUE, row.fields = TRUE,
           NEW u, u = ToUtc(row.wall, r.previous), u \in Nat,
           r.previous = None \/ (r.previous \in Nat /\ r.previous <= u)
    PROVE  LET next == ReadRow(r, row)
           IN  /\ IsReport(next) /\ next.outOfOrder = 0
               /\ next.rows = Append(r.rows, [ts |-> u, state |-> row.state])
               /\ next.previous = u /\ next.last = u
               /\ next.first = IF r.first = None THEN u ELSE r.first
<1> DEFINE seen == [r EXCEPT !.outOfOrder = @ + IF r.previous # None /\ u < r.previous THEN 1 ELSE 0]
<1>1. seen = r
  <2>1. ~(r.previous # None /\ u < r.previous)
    OBVIOUS
  <2> QED
    BY <2>1 DEF IsReport
<1>2. ReadRow(r, row)
        = [r EXCEPT !.rows = Append(@, [ts |-> u, state |-> row.state]),
                    !.previous = IF u > @ THEN u ELSE @,
                    !.first = IF @ = None THEN u ELSE @,
                    !.last = u]
  BY <1>1 DEF ReadRow
<1>3. (IF u > r.previous THEN u ELSE r.previous) = u
  BY DEF None
<1> QED
  BY <1>2, <1>3 DEF IsReport

LEMMA ReadCleanRow ==
    ASSUME NEW file, NEW time, NEW n \in Nat, NEW r, Reported(file, time, n, r),
           \A k \in 1 .. n : time[k] \in Nat,
           time[n + 1] \in Nat, n > 0 => time[n] <= time[n + 1],
           time[n + 1] = ToUtc(file[n + 1].wall, r.previous),
           file[n + 1].date = TRUE, file[n + 1].fields = TRUE
    PROVE  Reported(file, time, n + 1, ReadRow(r, file[n + 1]))
<1> DEFINE next == ReadRow(r, file[n + 1])
           row(k) == [ts |-> time[k], state |-> file[k].state]
           u == time[n + 1]
<1>1. n \in Nat /\ (n > 0 => n \in 1 .. n)
  OBVIOUS
<1>2. r.previous = None \/ (r.previous \in Nat /\ r.previous <= u)
  BY <1>1 DEF Reported
<1>3. /\ IsReport(next) /\ next.outOfOrder = 0
      /\ next.rows = Append(r.rows, row(n + 1))
      /\ next.previous = u /\ next.last = u
      /\ next.first = IF r.first = None THEN u ELSE r.first
  BY <1>2, GoodRow, ZenonT(40) DEF Reported
<1> HIDE DEF next, row
<1>4. r.rows = [k \in 1 .. n |-> row(k)]
  BY DEF Reported, row
<1>5. next.rows = [k \in 1 .. n + 1 |-> row(k)]
  <2> DEFINE S == {row(k) : k \in 1 .. n + 1}
  <2>1. \A k \in 1 .. n + 1 : row(k) \in S
    OBVIOUS
  <2>2. \A k \in 1 .. n : k \in 1 .. n + 1
    OBVIOUS
  <2> HIDE DEF S
  <2>3. r.rows \in Seq(S) /\ Len(r.rows) = n /\ row(n + 1) \in S
    BY <1>1, <1>4, <2>1, <2>2
  <2>4. /\ Len(next.rows) = n + 1 /\ next.rows \in Seq(S)
        /\ \A k \in 1 .. n : next.rows[k] = r.rows[k]
        /\ next.rows[n + 1] = row(n + 1)
    BY <1>3, <2>3
  <2>5. \A k \in 1 .. n + 1 : next.rows[k] = row(k)
    <3>1. \A k \in 1 .. n + 1 : k \in 1 .. n \/ k = n + 1
      OBVIOUS
    <3> QED
      BY <1>4, <2>4, <3>1
  <2>6. next.rows = [k \in DOMAIN next.rows |-> next.rows[k]] /\ DOMAIN next.rows = 1 .. n + 1
    BY <2>4
  <2> QED
    BY <2>5, <2>6
<1>6. (IF r.first = None THEN u ELSE r.first) = time[1]
  <2>1. CASE n = 0
    BY <2>1 DEF Reported
  <2>2. CASE n > 0
    <3>1. r.first = time[1] /\ 1 \in 1 .. n
      BY <2>2 DEF Reported
    <3> QED
      BY <3>1 DEF None
  <2> QED
    BY <2>1, <2>2
<1>7. n + 1 # 0
  OBVIOUS
<1> QED
  BY <1>3, <1>5, <1>6, <1>7 DEF Reported, next, row

\* The states of the loop over the rows.
LEMMA FileStates ==
    ASSUME NEW N \in Nat, NEW file, DOMAIN file = 1 .. N
    PROVE  \E st : /\ st[1] = NothingRead
                   /\ \A n \in 1 .. N : st[n + 1] = ReadRow(st[n], file[n])
                   /\ st[N + 1] = ReadRows(file)
<1>1. DOMAIN file \in SUBSET (0 .. N)
  OBVIOUS
<1>2. PICK st : /\ st[0] = StartOf("file")
                /\ \A n \in 0 .. N :
                      st[n + 1] = IF n \in DOMAIN file THEN Turn("file", file, n, st[n]) ELSE st[n]
                /\ st[N + 1] = Read("file", file)
  BY <1>1, ReadStates
<1>3. StartOf("file") = NothingRead /\ \A n : Turn("file", file, n, st[n]) = ReadRow(st[n], file[n])
  BY DEF StartOf, Turn
<1>4. 0 \in 0 .. N /\ 0 \notin DOMAIN file /\ 0 + 1 = 1 /\ \A n \in 1 .. N : n \in 0 .. N
  OBVIOUS
<1> QED
  BY <1>2, <1>3, <1>4, ReadRowsIs

\* The rows of a clean file get instants in order, and the report has them all.
LEMMA CleanFile ==
    ASSUME NEW N \in Nat, NEW ts, NEW file, Clean(ts, file, N)
    PROVE  \E time : /\ time \in [1 .. N -> Nat]
                     /\ Timed(file, time, N) /\ Grows(ts, time, N)
                     /\ Reported(file, time, N, ReadRows(file))
<1>1. DOMAIN file = 1 .. N
  BY DEF Clean
<1>2. PICK st : /\ st[1] = NothingRead
                /\ \A n \in 1 .. N : st[n + 1] = ReadRow(st[n], file[n])
                /\ st[N + 1] = ReadRows(file)
  BY <1>1, FileStates
<1> DEFINE time == [i \in 1 .. N |-> ToUtc(file[i].wall, st[i].previous)]
           Good(n) == /\ Reported(file, time, n, st[n + 1])
                      /\ \A k \in 1 .. n : time[k] \in Nat /\ time[k] <= ts[k]
                      /\ \A k \in 1 .. n : k > 1 => time[k - 1] <= time[k]
                      /\ \A k \in 1 .. n : time[k] = ToUtc(file[k].wall, IF k = 1 THEN None ELSE time[k - 1])
           T == {n \in Nat : Good(n)}
<1>3. \A i \in 1 .. N : time[i] = ToUtc(file[i].wall, st[i].previous)
  OBVIOUS
<1>4. DOMAIN time = 1 .. N /\ time = [i \in 1 .. N |-> time[i]]
  OBVIOUS
<1> HIDE DEF time
<1>5. 0 \in T
  <2>1. Reported(file, time, 0, NothingRead)
    <3>1. NothingRead.rows = [k \in 1 .. 0 |-> [ts |-> time[k], state |-> file[k].state]]
      <4>1. NothingRead.rows = <<>> /\ 1 .. 0 = {}
        BY DEF NothingRead
      <4> QED
        BY <4>1
    <3> QED
      BY <3>1 DEF Reported, NothingRead, IsReport
  <2>2. 0 + 1 = 1 /\ \A k \in 1 .. 0 : FALSE
    OBVIOUS
  <2> QED
    BY <1>2, <2>1, <2>2
<1>6. \A n \in Nat : n < N /\ n \in T => n + 1 \in T
  <2> SUFFICES ASSUME NEW n \in Nat, n < N, Good(n) PROVE Good(n + 1)
    OBVIOUS
  <2> DEFINE r == st[n + 1]
             u == time[n + 1]
             p == r.previous
  <2>1. n + 1 \in 1 .. N /\ (n > 0 => n \in 1 .. n /\ n \in 1 .. N /\ n < n + 1)
    OBVIOUS
  <2>2. u = ToUtc(file[n + 1].wall, p) /\ st[(n + 1) + 1] = ReadRow(r, file[n + 1])
    BY <1>2, <1>3, <2>1
  <2>3. p = IF n = 0 THEN None ELSE time[n]
    BY DEF Reported
  <2>4. /\ ts[n + 1] \in Nat /\ file[n + 1].wall = ClockOf(ts[n + 1], 0)
        /\ file[n + 1].date = TRUE /\ file[n + 1].fields = TRUE
        /\ n > 0 => ts[n] \in Nat /\ ts[n] < ts[n + 1]
    BY <2>1 DEF Clean
  <2>5. p = None \/ (p \in Nat /\ p < ts[n + 1])
    <3>1. CASE n = 0
      BY <2>3, <3>1
    <3>2. CASE n > 0
      <4>1. time[n] \in Nat /\ time[n] <= ts[n]
        BY <2>1, <3>2
      <4> QED
        BY <2>3, <2>4, <3>2, <4>1
    <3> QED
      BY <3>1, <3>2
  <2> HIDE DEF r, u, p
  <2>6. u \in Nat /\ u <= ts[n + 1] /\ (p # None => p <= u)
    BY <2>2, <2>4, <2>5, CleanUtc
  <2>7. n > 0 => time[n] \in Nat /\ time[n] <= u
    <3>1. n > 0 => time[n] \in Nat /\ p = time[n] /\ time[n] # None
      BY <2>1, <2>3 DEF None
    <3> QED
      BY <2>6, <3>1
  <2>8. Reported(file, time, n + 1, st[(n + 1) + 1])
    BY <2>2, <2>4, <2>6, <2>7, ReadCleanRow DEF r, u, p
  <2>9. \A k \in 1 .. n + 1 : k \in 1 .. n \/ k = n + 1
    OBVIOUS
  <2>10. (n + 1 = 1 <=> n = 0) /\ (n + 1) - 1 = n
    OBVIOUS
  <2>11. u = ToUtc(file[n + 1].wall, IF n + 1 = 1 THEN None ELSE time[(n + 1) - 1])
    BY <2>2, <2>3, <2>10
  <2>12. n + 1 > 1 => time[(n + 1) - 1] <= time[n + 1]
    BY <2>7, <2>10 DEF u
  <2>13. /\ \A k \in 1 .. n + 1 : time[k] \in Nat /\ time[k] <= ts[k]
         /\ \A k \in 1 .. n + 1 : k > 1 => time[k - 1] <= time[k]
    BY <2>6, <2>9, <2>12 DEF u
  <2>14. \A k \in 1 .. n + 1 : time[k] = ToUtc(file[k].wall, IF k = 1 THEN None ELSE time[k - 1])
    BY <2>9, <2>11 DEF u
  <2> QED
    BY <2>8, <2>13, <2>14
<1> HIDE DEF T
<1>7. \A n \in 0 .. N : n \in T
  BY <1>5, <1>6, Reaches
<1>8. Good(N)
  <2>1. N \in 0 .. N
    OBVIOUS
  <2> QED
    BY <1>7, <2>1 DEF T
<1>9. time \in [1 .. N -> Nat]
  BY <1>4, <1>8
<1> QED
  BY <1>2, <1>8, <1>9 DEF Timed, Grows

Piece(x, from, n) == [k \in 1 .. n |-> x[from + k]]

Agrees(x, y, from, n) == \A k \in 1 .. n : x[k] = y[from + k]

LEMMA PieceIs ==
    ASSUME NEW N \in Nat, NEW x, DOMAIN x = 1 .. N, NEW from \in Nat, NEW upTo \in Nat,
           from <= upTo, upTo <= N, NEW first, first = from + 1, NEW n, n = upTo - from
    PROVE  SubSeq(x, first, upTo) = Piece(x, from, n)
<1> DEFINE S == {x[k] : k \in 1 .. N}
           part == SubSeq(x, from + 1, upTo)
<1>1. \A i \in from + 1 .. upTo : x[i] \in S
  <2> TAKE i \in from + 1 .. upTo
  <2>1. i \in 1 .. N
    OBVIOUS
  <2> QED
    BY <2>1
<1> HIDE DEF S
<1>2. from + 1 \in Int /\ upTo \in Int
  OBVIOUS
<1>3. /\ part \in Seq(S)
      /\ Len(part) = IF from + 1 <= upTo THEN upTo - (from + 1) + 1 ELSE 0
      /\ \A i \in 1 .. upTo - (from + 1) + 1 : part[i] = x[(from + 1) + i - 1]
  BY <1>1, <1>2, SubSeqProperties
<1>4. Len(part) = upTo - from
  BY <1>3
<1>5. DOMAIN part = 1 .. upTo - from /\ part = [i \in DOMAIN part |-> part[i]]
  BY <1>3, <1>4, LenProperties
<1>6. \A i \in 1 .. upTo - from : part[i] = x[from + i]
  <2> TAKE i \in 1 .. upTo - from
  <2>1. i \in 1 .. upTo - (from + 1) + 1 /\ (from + 1) + i - 1 = from + i
    OBVIOUS
  <2> QED
    BY <1>3, <2>1
<1> QED
  BY <1>5, <1>6 DEF Piece

LEMMA HeadIs ==
    ASSUME NEW N \in Nat, NEW x, DOMAIN x = 1 .. N, NEW upTo \in 0 .. N
    PROVE  SubSeq(x, 1, upTo) = Piece(x, 0, upTo)
<1> DEFINE S == {x[k] : k \in 1 .. N}
           part == SubSeq(x, 1, upTo)
<1>1. \A i \in 1 .. upTo : x[i] \in S
  <2> TAKE i \in 1 .. upTo
  <2>1. i \in 1 .. N
    OBVIOUS
  <2> QED
    BY <2>1
<1> HIDE DEF S
<1>2. 1 \in Int /\ upTo \in Int
  OBVIOUS
<1>3. /\ part \in Seq(S)
      /\ Len(part) = IF 1 <= upTo THEN upTo - 1 + 1 ELSE 0
      /\ \A i \in 1 .. upTo - 1 + 1 : part[i] = x[1 + i - 1]
  BY <1>1, <1>2, SubSeqProperties
<1>4. Len(part) = upTo
  BY <1>3
<1>5. DOMAIN part = 1 .. upTo /\ part = [i \in DOMAIN part |-> part[i]]
  BY <1>3, <1>4, LenProperties
<1>6. \A i \in 1 .. upTo : part[i] = x[0 + i]
  <2> TAKE i \in 1 .. upTo
  <2>1. i \in 1 .. upTo - 1 + 1 /\ 1 + i - 1 = 0 + i
    OBVIOUS
  <2> QED
    BY <1>3, <2>1
<1> QED
  BY <1>5, <1>6 DEF Piece

LEMMA PieceClean ==
    ASSUME NEW N \in Nat, NEW ts, NEW file, Clean(ts, file, N),
           NEW from \in Nat, NEW n \in Nat, from + n <= N
    PROVE  Clean(Piece(ts, from, n), Piece(file, from, n), n)
<1>1. \A k \in 1 .. n : from + k \in 1 .. N
  OBVIOUS
<1>2. \A k \in 1 .. n : Piece(ts, from, n)[k] = ts[from + k] /\ Piece(file, from, n)[k] = file[from + k]
  BY DEF Piece
<1>3. DOMAIN Piece(ts, from, n) = 1 .. n /\ DOMAIN Piece(file, from, n) = 1 .. n
  BY DEF Piece
<1>4. ASSUME NEW i \in 1 .. n, NEW j \in 1 .. n, i < j PROVE ts[from + i] < ts[from + j]
  <2>1. from + i \in 1 .. N /\ from + j \in 1 .. N /\ from + i < from + j
    BY <1>1, <1>4
  <2> QED
    BY <2>1 DEF Clean
<1>5. ASSUME NEW i \in 1 .. n
      PROVE  /\ ts[from + i] \in Nat /\ file[from + i].wall = ClockOf(ts[from + i], 0)
             /\ file[from + i].date = TRUE /\ file[from + i].fields = TRUE
             /\ file[from + i].state \in RowStates
  BY <1>1 DEF Clean
<1> QED
  BY <1>2, <1>3, <1>4, <1>5 DEF Clean

\* A part of a file gets the times that it has in the file, once its first row does.
LEMMA SameTimes ==
    ASSUME NEW N \in Nat, NEW file, NEW time, Timed(file, time, N),
           NEW from \in Nat, NEW n \in Nat, from + n <= N,
           NEW part, Timed(Piece(file, from, n), part, n),
           n > 0 => part[1] = time[from + 1]
    PROVE  Agrees(part, time, from, n)
<1> DEFINE T == {k \in Nat : k \in 1 .. n => part[k] = time[from + k]}
<1>1. 0 \in T
  OBVIOUS
<1>2. ASSUME NEW k \in Nat, k < n, k \in T PROVE k + 1 \in T
  <2>1. CASE k = 0
    BY <1>2, <2>1
  <2>2. CASE k > 0
    <3>1. k \in 1 .. n /\ k + 1 \in 1 .. n /\ k + 1 # 1 /\ (k + 1) - 1 = k
      BY <1>2, <2>2
    <3>2. /\ from + (k + 1) \in 1 .. N /\ from + (k + 1) # 1
          /\ (from + (k + 1)) - 1 = from + k
      BY <1>2, <2>2
    <3>3. part[k] = time[from + k]
      BY <1>2, <3>1
    <3>4. part[k + 1] = ToUtc(Piece(file, from, n)[k + 1].wall, part[k])
      BY <3>1 DEF Timed
    <3>5. time[from + (k + 1)] = ToUtc(file[from + (k + 1)].wall, time[from + k])
      BY <3>2 DEF Timed
    <3>6. Piece(file, from, n)[k + 1] = file[from + (k + 1)]
      BY <3>1 DEF Piece
    <3> QED
      BY <3>3, <3>4, <3>5, <3>6
  <2> QED
    BY <2>1, <2>2
<1> HIDE DEF T
<1>3. \A k \in 0 .. n : k \in T
  BY <1>1, <1>2, Reaches
<1>4. \A k \in 1 .. n : k \in T
  BY <1>3
<1> QED
  BY <1>4 DEF T, Agrees

\* The first row of the second part, unless the clock shows it twice.
LEMMA FirstTimes ==
    ASSUME NEW N \in Nat, NEW ts, NEW file, Clean(ts, file, N),
           NEW time, Timed(file, time, N), Grows(ts, time, N),
           NEW from \in Nat, NEW n \in Nat, n > 0, from + n <= N,
           NEW part, Timed(Piece(file, from, n), part, n)
    PROVE  /\ from = 0 => part[1] = time[from + 1]
           /\ ~Repeated(file[from + 1].wall) =>
                  part[1] = ts[from + 1] /\ part[1] = time[from + 1]
<1>1. 1 \in 1 .. n /\ from + 1 \in 1 .. N /\ (from > 0 => from \in 1 .. N /\ from < from + 1)
  OBVIOUS
<1>2. part[1] = ToUtc(file[from + 1].wall, None)
  BY <1>1 DEF Timed, Piece
<1>3. time[from + 1] = ToUtc(file[from + 1].wall, IF from = 0 THEN None ELSE time[from])
  <2>1. (from + 1 = 1 <=> from = 0) /\ (from + 1) - 1 = from
    OBVIOUS
  <2> QED
    BY <1>1, <2>1 DEF Timed
<1>4. ts[from + 1] \in Nat /\ file[from + 1].wall = ClockOf(ts[from + 1], 0)
  BY <1>1 DEF Clean
<1>5. ~Repeated(file[from + 1].wall) => \A q : ToUtc(file[from + 1].wall, q) = ts[from + 1]
  BY <1>4, CleanUtc
<1> QED
  BY <1>2, <1>3, <1>5

-----------------------------------------------------------------------------
(* Link rows: where the state changes.                                     *)

HistoryRow == [ts : Nat, state : RowStates]
LinkRow == [ts : Nat, state : RowStates \ {"other"}]

Ordered(rows, n) ==
    /\ \A k \in 1 .. n : rows[k] \in HistoryRow
    /\ \A i, j \in 1 .. n : i <= j => rows[i].ts <= rows[j].ts

\* The rows of the first n that tell a state at t.
ToldBy(rows, n, t) == {k \in 1 .. n : rows[k].ts <= t /\ rows[k].state # "other"}

StateBy(rows, n, t) ==
    IF ToldBy(rows, n, t) = {} THEN "other" ELSE rows[Max(ToldBy(rows, n, t))].state

LEMMA MaxOf ==
    ASSUME NEW n \in Nat, NEW S \in SUBSET (0 .. n), NEW x \in S, \A y \in S : y <= x
    PROVE  Max(S) = x
<1>1. Max(S) \in S /\ x <= Max(S)
  BY MaxIs
<1>2. \A y \in S : y \in Nat
  OBVIOUS
<1>3. Max(S) <= x /\ Max(S) \in Nat /\ x \in Nat
  BY <1>1, <1>2
<1> QED
  BY <1>1, <1>3

\* A row that tells a state is the last to tell one from its time on.
LEMMA StateNext ==
    ASSUME NEW rows, NEW n \in Nat, Ordered(rows, n + 1), NEW t \in Nat
    PROVE  StateBy(rows, n + 1, t) = IF rows[n + 1].ts <= t /\ rows[n + 1].state # "other"
                                     THEN rows[n + 1].state ELSE StateBy(rows, n, t)
<1>1. \A k \in 1 .. n + 1 : k \in 1 .. n \/ k = n + 1
  OBVIOUS
<1>2. \A k \in 1 .. n : k \in 1 .. n + 1
  OBVIOUS
<1>3. CASE rows[n + 1].ts <= t /\ rows[n + 1].state # "other"
  <2> DEFINE S == ToldBy(rows, n + 1, t)
  <2>1. n + 1 \in S /\ \A y \in S : y <= n + 1
    BY <1>3 DEF ToldBy
  <2>2. S \in SUBSET (0 .. n + 1)
    BY DEF ToldBy
  <2> HIDE DEF S
  <2>3. Max(S) = n + 1
    <3>1. n + 1 \in Nat
      OBVIOUS
    <3> QED
      BY <2>1, <2>2, <3>1, MaxOf
  <2> QED
    BY <1>3, <2>1, <2>3 DEF StateBy, S
<1>4. CASE ~(rows[n + 1].ts <= t /\ rows[n + 1].state # "other")
  <2>1. ToldBy(rows, n + 1, t) = ToldBy(rows, n, t)
    BY <1>1, <1>2, <1>4 DEF ToldBy
  <2> QED
    BY <1>4, <2>1 DEF StateBy
<1> QED
  BY <1>3, <1>4

LEMMA StateAtIs == \A rows, n, t : DOMAIN rows = 1 .. n => StateAt(rows, t) = StateBy(rows, n, t)
  BY DEF StateAt, StateBy, ToldBy

\* What the links taken from the first n rows say.
LinksOf(rows, n, links) ==
    /\ links \in Seq(LinkRow)
    /\ \A k \in 1 .. Len(links) - 1 : links[k].state # links[k + 1].state
    /\ \A k \in 1 .. Len(links) : n > 0 /\ links[k].ts <= rows[n].ts
    /\ \A i, j \in 1 .. Len(links) : i <= j => links[i].ts <= links[j].ts
    /\ \A t \in Nat : StateBy(links, Len(links), t) = StateBy(rows, n, t)

LEMMA LinksNext ==
    ASSUME NEW rows, NEW n \in Nat, Ordered(rows, n + 1),
           NEW links, LinksOf(rows, n, links)
    PROVE  LinksOf(rows, n + 1, AddLink(links, rows[n + 1]))
<1> DEFINE row == rows[n + 1]
           m == Len(links)
           last == IF links = <<>> THEN "other" ELSE Last(links).state
<1>1. n + 1 \in 1 .. n + 1 /\ (n > 0 => n \in 1 .. n + 1 /\ n <= n + 1)
  OBVIOUS
<1>2. row \in HistoryRow /\ row.ts \in Nat /\ row.state \in RowStates
  BY <1>1 DEF Ordered, HistoryRow
<1>3. m \in Nat /\ DOMAIN links = 1 .. m /\ links \in [1 .. m -> LinkRow] /\ (links = <<>> <=> m = 0)
  BY LenProperties, EmptySeq DEF LinksOf
<1>4. \A k \in 1 .. m : links[k].ts \in Nat /\ links[k].ts <= row.ts /\ links[k].state # "other"
  <2> TAKE k \in 1 .. m
  <2>1. links[k] \in LinkRow /\ n > 0 /\ links[k].ts <= rows[n].ts
    BY <1>3 DEF LinksOf
  <2>2. rows[n].ts <= row.ts /\ rows[n].ts \in Nat
    BY <1>1, <2>1 DEF Ordered, HistoryRow
  <2> QED
    BY <1>2, <2>1, <2>2 DEF LinkRow
<1>5. last = IF m = 0 THEN "other" ELSE links[m].state
  BY <1>3 DEF Last
<1>6. AddLink(links, row) = IF row.state \notin {"other", last} THEN Append(links, row) ELSE links
  BY DEF AddLink
<1>7. \A t \in Nat : StateBy(rows, n + 1, t) = IF row.ts <= t /\ row.state # "other"
                                               THEN row.state ELSE StateBy(links, m, t)
  BY StateNext DEF LinksOf
<1>8. \A i, j \in 1 .. m : i <= j => links[i].ts <= links[j].ts
  BY DEF LinksOf
<1>9. links \in Seq(LinkRow) /\ \A k \in 1 .. m - 1 : links[k].state # links[k + 1].state
  BY DEF LinksOf
<1> HIDE DEF row, m, last
<1>10. CASE row.state \notin {"other", last}
  <2> DEFINE next == Append(links, row)
  <2>1. row \in LinkRow
    BY <1>2, <1>10 DEF HistoryRow, LinkRow
  <2>2. /\ next \in Seq(LinkRow) /\ Len(next) = m + 1
        /\ \A k \in 1 .. m : next[k] = links[k]
        /\ next[m + 1] = row
    BY <1>9, <2>1 DEF m
  <2> HIDE DEF next
  <2>3. \A k \in 1 .. m + 1 : k \in 1 .. m \/ k = m + 1
    BY <1>3
  <2>4. \A k \in 1 .. (m + 1) - 1 : next[k].state # next[k + 1].state
    <3> TAKE k \in 1 .. (m + 1) - 1
    <3>1. k \in 1 .. m
      BY <1>3
    <3>2. CASE k = m
      BY <1>5, <1>10, <2>2, <3>1, <3>2
    <3>3. CASE k # m
      <4>1. k \in 1 .. m - 1 /\ k + 1 \in 1 .. m
        BY <1>3, <3>1, <3>3
      <4> QED
        BY <1>9, <2>2, <3>1, <4>1
    <3> QED
      BY <3>2, <3>3
  <2>5. \A k \in 1 .. m + 1 : n + 1 > 0 /\ next[k].ts <= row.ts
    BY <1>2, <1>4, <2>2, <2>3
  <2>6. \A i, j \in 1 .. m + 1 : i <= j => next[i].ts <= next[j].ts
    <3> SUFFICES ASSUME NEW i \in 1 .. m + 1, NEW j \in 1 .. m + 1, i <= j
                 PROVE  next[i].ts <= next[j].ts
      OBVIOUS
    <3>1. CASE j = m + 1
      BY <2>2, <2>5, <3>1
    <3>2. CASE j # m + 1
      <4>1. i \in 1 .. m /\ j \in 1 .. m
        BY <1>3, <3>2
      <4> QED
        BY <1>8, <2>2, <4>1
    <3> QED
      BY <3>1, <3>2
  <2>7. Ordered(next, m + 1)
    <3>1. \A k \in 1 .. m + 1 : next[k] \in HistoryRow
      <4>1. \A k \in 1 .. Len(next) : next[k] \in LinkRow
        BY <2>2, ElementOfSeq
      <4> QED
        BY <2>2, <4>1 DEF LinkRow, HistoryRow
    <3> QED
      BY <2>6, <3>1 DEF Ordered
  <2>8. \A t : StateBy(next, m, t) = StateBy(links, m, t)
    <3> TAKE t
    <3>1. ToldBy(next, m, t) = ToldBy(links, m, t)
      BY <2>2 DEF ToldBy
    <3>2. ToldBy(links, m, t) \in SUBSET (0 .. m)
      BY DEF ToldBy
    <3>3. ToldBy(links, m, t) # {} => Max(ToldBy(links, m, t)) \in ToldBy(links, m, t)
      BY <1>3, <3>2, MaxIs
    <3>4. \A k \in ToldBy(links, m, t) : next[k] = links[k]
      BY <2>2 DEF ToldBy
    <3> QED
      BY <3>1, <3>3, <3>4 DEF StateBy
  <2>9. \A t \in Nat : StateBy(next, m + 1, t) = StateBy(rows, n + 1, t)
    <3> TAKE t \in Nat
    <3>1. StateBy(next, m + 1, t) = IF row.ts <= t /\ row.state # "other"
                                    THEN row.state ELSE StateBy(next, m, t)
      BY <1>3, <2>2, <2>7, StateNext
    <3> QED
      BY <1>7, <2>8, <3>1
  <2> QED
    BY <1>6, <1>10, <2>2, <2>4, <2>5, <2>6, <2>9 DEF LinksOf, row, next
<1>11. CASE row.state \in {"other", last}
  <2>1. AddLink(links, row) = links
    BY <1>6, <1>11
  <2>2. \A k \in 1 .. m : n + 1 > 0 /\ links[k].ts <= row.ts
    BY <1>4
  <2>3. \A t \in Nat : StateBy(links, m, t) = StateBy(rows, n + 1, t)
    <3> TAKE t \in Nat
    <3>1. CASE ~(row.ts <= t /\ row.state # "other")
      BY <1>7, <3>1
    <3>2. CASE row.ts <= t /\ row.state # "other"
      <4>1. m > 0 /\ row.state = links[m].state
        BY <1>3, <1>5, <1>11, <3>2
      <4>2. m \in ToldBy(links, m, t) /\ \A y \in ToldBy(links, m, t) : y <= m
        <5>1. m \in 1 .. m
          BY <1>3, <4>1
        <5>2. links[m].ts <= t
          BY <1>2, <1>4, <3>2, <5>1
        <5> QED
          BY <1>4, <5>1, <5>2 DEF ToldBy
      <4>3. ToldBy(links, m, t) \in SUBSET (0 .. m)
        BY DEF ToldBy
      <4>4. Max(ToldBy(links, m, t)) = m
        BY <1>3, <4>2, <4>3, MaxOf
      <4> QED
        BY <1>7, <3>2, <4>1, <4>2, <4>4 DEF StateBy
    <3> QED
      BY <3>1, <3>2
  <2> QED
    BY <1>8, <1>9, <2>1, <2>2, <2>3 DEF LinksOf, row, m
<1> QED
  BY <1>10, <1>11

LinksTaken(rows, it) ==
    [s \in SUBSET DOMAIN rows |->
        IF s = {} THEN <<>> ELSE AddLink(it[s \ {Max(s)}], rows[Max(s)])]

LEMMA ConnectivityIs == \A rows : Connectivity(rows) = Read("rows", rows)
<1>1. StartOf("rows") = <<>> /\ \A x, t, state : Turn("rows", x, t, state) = AddLink(state, x[t])
  BY DEF StartOf, Turn
<1>2. \A rows, it : Reader("rows", rows, DOMAIN rows, it) = LinksTaken(rows, it)
  BY <1>1 DEF Reader, LinksTaken
<1>3. ASSUME NEW rows
      PROVE  Read("rows", rows) = (CHOOSE it : it = LinksTaken(rows, it))[DOMAIN rows]
  <2>1. \A it : Reader("rows", rows, DOMAIN rows, it) = LinksTaken(rows, it)
    BY <1>2
  <2>2. (CHOOSE it : it = Reader("rows", rows, DOMAIN rows, it)) = (CHOOSE it : it = LinksTaken(rows, it))
    BY <2>1, Zenon
  <2> QED
    BY <2>2 DEF Read
<1>4. \A rows : Connectivity(rows) = (CHOOSE it : it = LinksTaken(rows, it))[DOMAIN rows]
  BY DEF Connectivity, FoldLeft, MapThenFoldSet, LinksTaken
<1> QED
  BY <1>3, <1>4

\* The links taken from rows, row by row.
LEMMA LinkStates ==
    ASSUME NEW N \in Nat, NEW rows, DOMAIN rows = 1 .. N
    PROVE  \E st : /\ st[1] = <<>> /\ st[N + 1] = Connectivity(rows)
                   /\ \A n \in 1 .. N : st[n + 1] = AddLink(st[n], rows[n])
<1>1. DOMAIN rows \in SUBSET (0 .. N)
  OBVIOUS
<1>2. PICK st : /\ st[0] = StartOf("rows")
                /\ \A n \in 0 .. N :
                      st[n + 1] = IF n \in DOMAIN rows THEN Turn("rows", rows, n, st[n]) ELSE st[n]
                /\ st[N + 1] = Read("rows", rows)
  BY <1>1, ReadStates
<1>3. StartOf("rows") = <<>> /\ \A n : Turn("rows", rows, n, st[n]) = AddLink(st[n], rows[n])
  BY DEF StartOf, Turn
<1>4. st[1] = <<>> /\ \A n \in 1 .. N : st[n + 1] = AddLink(st[n], rows[n])
  <2>1. 0 \in 0 .. N /\ 0 \notin DOMAIN rows /\ 0 + 1 = 1 /\ \A n \in 1 .. N : n \in 0 .. N
    OBVIOUS
  <2> QED
    BY <1>2, <1>3, <2>1
<1> QED
  BY <1>2, <1>4, ConnectivityIs

\* The link rows tell what the rows tell, at any time.
LEMMA LinksTell ==
    ASSUME NEW N \in Nat, NEW rows, DOMAIN rows = 1 .. N, Ordered(rows, N)
    PROVE  LinksTellStates(rows, Connectivity(rows))
<1>4. PICK st : /\ st[1] = <<>> /\ st[N + 1] = Connectivity(rows)
                /\ \A n \in 1 .. N : st[n + 1] = AddLink(st[n], rows[n])
  BY LinkStates
<1> DEFINE T == {n \in Nat : LinksOf(rows, n, st[n + 1])}
<1>5. 0 \in T
  <2>1. <<>> \in Seq(LinkRow) /\ Len(<<>>) = 0
    BY EmptySeq
  <2>2. 1 .. 0 = {} /\ 1 .. 0 - 1 = {}
    OBVIOUS
  <2>3. \A t \in Nat : StateBy(<<>>, 0, t) = StateBy(rows, 0, t)
    <3>1. \A list, t : ToldBy(list, 0, t) = {}
      BY <2>2 DEF ToldBy
    <3> QED
      BY <3>1 DEF StateBy
  <2>4. LinksOf(rows, 0, <<>>)
    BY <2>1, <2>2, <2>3 DEF LinksOf
  <2> QED
    BY <1>4, <2>4
<1>6. \A n \in Nat : n < N /\ n \in T => n + 1 \in T
  <2> SUFFICES ASSUME NEW n \in Nat, n < N, LinksOf(rows, n, st[n + 1])
               PROVE  LinksOf(rows, n + 1, st[(n + 1) + 1])
    OBVIOUS
  <2>1. n + 1 \in 1 .. N /\ \A k \in 1 .. n + 1 : k \in 1 .. N
    OBVIOUS
  <2>2. Ordered(rows, n + 1)
    BY <2>1 DEF Ordered
  <2>3. st[(n + 1) + 1] = AddLink(st[n + 1], rows[n + 1])
    BY <1>4, <2>1
  <2> QED
    BY <2>2, <2>3, LinksNext
<1> HIDE DEF T
<1>7. \A n \in 0 .. N : n \in T
  BY <1>5, <1>6, Reaches
<1> DEFINE links == Connectivity(rows)
<1>8. LinksOf(rows, N, links)
  <2>1. N \in 0 .. N
    OBVIOUS
  <2> QED
    BY <1>4, <1>7, <2>1 DEF T
<1> HIDE DEF links
<1>9. DOMAIN links = 1 .. Len(links) /\ Len(links) \in Nat
  BY <1>8, LenProperties DEF LinksOf
<1>10. \A k \in DOMAIN rows : rows[k].ts \in Nat
  BY DEF Ordered, HistoryRow
<1>11. \A k \in DOMAIN rows : StateAt(links, rows[k].ts) = StateAt(rows, rows[k].ts)
  <2> TAKE k \in DOMAIN rows
  <2>1. StateBy(links, Len(links), rows[k].ts) = StateBy(rows, N, rows[k].ts)
    BY <1>8, <1>10 DEF LinksOf
  <2> QED
    BY <1>9, <2>1, StateAtIs
<1> QED
  BY <1>8, <1>11 DEF LinksTellStates, LinksOf, links

-----------------------------------------------------------------------------
(* Links that are taken from one file after the other.                     *)

LEMMA AddLinkIs ==
    ASSUME NEW links \in Seq(LinkRow), NEW row \in HistoryRow
    PROVE  \/ /\ AddLink(links, row) = links
              /\ row.state = "other" \/ (links # <<>> /\ Last(links).state = row.state)
           \/ /\ AddLink(links, row) = Append(links, row) /\ row \in LinkRow
              /\ links = <<>> \/ Last(links).state # row.state
<1> DEFINE last == IF links = <<>> THEN "other" ELSE Last(links).state
<1>1. AddLink(links, row) = IF row.state \notin {"other", last} THEN Append(links, row) ELSE links
  BY DEF AddLink
<1>2. row.state # "other" => row \in LinkRow
  BY DEF HistoryRow, LinkRow
<1>3. (links = <<>> => last = "other") /\ (links # <<>> => last = Last(links).state)
  OBVIOUS
<1> HIDE DEF last
<1> QED
  BY <1>1, <1>2, <1>3

LEMMA LinkAppended ==
    ASSUME NEW links \in Seq(LinkRow), NEW row \in LinkRow
    PROVE  /\ Append(links, row) \in Seq(LinkRow) /\ Append(links, row) # <<>>
           /\ Last(Append(links, row)) = row /\ Len(Append(links, row)) = Len(links) + 1
           /\ Len(links) \in Nat
<1> DEFINE next == Append(links, row)
<1>1. /\ next \in Seq(LinkRow) /\ next # <<>> /\ Len(next) = Len(links) + 1
      /\ next[Len(links) + 1] = row
  BY AppendProperties
<1> HIDE DEF next
<1>2. Last(next) = row /\ Len(links) \in Nat
  BY <1>1, LenProperties DEF Last
<1> QED
  BY <1>1, <1>2 DEF next

LEMMA LinkRowIs == \A row \in LinkRow : row \in HistoryRow /\ row.state # "other"
BY DEF LinkRow, HistoryRow

LEMMA NoLinks == Connectivity(<<>>) = <<>>
<1> DEFINE e == <<>>
<1>1. DOMAIN e = 1 .. 0 /\ 0 \in Nat
  OBVIOUS
<1>2. PICK st : st[1] = <<>> /\ st[0 + 1] = Connectivity(e)
  BY <1>1, LinkStates
<1> QED
  BY <1>2

\* A row more, a link more or none.
LEMMA LinksAfter ==
    ASSUME NEW s \in Seq(HistoryRow), NEW x \in HistoryRow
    PROVE  Connectivity(Append(s, x)) = AddLink(Connectivity(s), x)
<1> DEFINE N == Len(s)
           next == Append(s, x)
<1>1. N \in Nat /\ DOMAIN s = 1 .. N
  BY LenProperties
<1>2. /\ DOMAIN next = 1 .. N + 1 /\ next[N + 1] = x /\ N + 1 \in Nat
      /\ \A n \in 1 .. N : next[n] = s[n]
  <2>1. /\ next \in Seq(HistoryRow) /\ Len(next) = N + 1
        /\ \A i \in 1 .. N : next[i] = s[i]
        /\ next[N + 1] = x
    BY AppendProperties
  <2> HIDE DEF next, N
  <2> QED
    BY <1>1, <2>1, LenProperties
<1> HIDE DEF N, next
<1>3. PICK u : /\ u[1] = <<>> /\ u[N + 1] = Connectivity(s)
               /\ \A n \in 1 .. N : u[n + 1] = AddLink(u[n], s[n])
  BY <1>1, LinkStates
<1>4. PICK v : /\ v[1] = <<>> /\ v[(N + 1) + 1] = Connectivity(next)
               /\ \A n \in 1 .. N + 1 : v[n + 1] = AddLink(v[n], next[n])
  BY <1>2, LinkStates
<1> DEFINE T == {n \in Nat : v[n + 1] = u[n + 1]}
<1>5. 0 \in T
  BY <1>3, <1>4
<1>6. \A n \in Nat : n < N /\ n \in T => n + 1 \in T
  <2> SUFFICES ASSUME NEW n \in Nat, n < N, v[n + 1] = u[n + 1]
               PROVE  v[(n + 1) + 1] = u[(n + 1) + 1]
    OBVIOUS
  <2>1. n + 1 \in 1 .. N /\ n + 1 \in 1 .. N + 1
    BY <1>1
  <2> QED
    BY <1>2, <1>3, <1>4, <2>1
<1> HIDE DEF T
<1>7. N \in T
  <2>1. \A n \in 0 .. N : n \in T
    BY <1>1, <1>5, <1>6, Reaches
  <2> QED
    BY <1>1, <2>1
<1>8. v[N + 1] = u[N + 1] /\ N + 1 \in 1 .. N + 1
  BY <1>1, <1>7 DEF T
<1>9. v[(N + 1) + 1] = AddLink(v[N + 1], next[N + 1])
  BY <1>4, <1>8
<1>10. Connectivity(next) = AddLink(Connectivity(s), x)
  BY <1>2, <1>3, <1>4, <1>8, <1>9
<1> QED
  BY <1>10 DEF next

\* The links of links are the links.
LEMMA LinksOnce ==
    \A s \in Seq(HistoryRow) :
        Connectivity(s) \in Seq(LinkRow) /\ Connectivity(Connectivity(s)) = Connectivity(s)
<1> DEFINE Good(s) == Connectivity(s) \in Seq(LinkRow) /\ Connectivity(Connectivity(s)) = Connectivity(s)
           T == {n \in Nat : \A s \in Seq(HistoryRow) : Len(s) = n => Good(s)}
<1>1. Good(<<>>)
  BY NoLinks, EmptySeq
<1>2. ASSUME NEW f \in Seq(HistoryRow), Good(f), NEW x \in HistoryRow PROVE Good(Append(f, x))
  <2> DEFINE F == Connectivity(f)
  <2>1. F \in Seq(LinkRow) /\ Connectivity(F) = F
    BY <1>2
  <2>2. Connectivity(Append(f, x)) = AddLink(F, x)
    BY LinksAfter
  <2> HIDE DEF F
  <2>3. CASE AddLink(F, x) = F
    BY <2>1, <2>2, <2>3
  <2>4. CASE AddLink(F, x) = Append(F, x) /\ x \in LinkRow
    <3>1. F \in Seq(HistoryRow)
      <4>1. LinkRow \subseteq HistoryRow
        BY LinkRowIs
      <4> QED
        BY <2>1, <4>1, SeqMonotonic
    <3>2. Connectivity(Append(F, x)) = AddLink(Connectivity(F), x)
      BY <3>1, LinksAfter
    <3>3. Append(F, x) \in Seq(LinkRow)
      BY <2>1, <2>4, LinkAppended
    <3> QED
      BY <2>1, <2>2, <2>4, <3>2, <3>3
  <2> QED
    BY <2>1, <2>3, <2>4, AddLinkIs
<1> HIDE DEF Good
<1>3. 0 \in T
  <2> SUFFICES ASSUME NEW s \in Seq(HistoryRow), Len(s) = 0 PROVE Good(s)
    OBVIOUS
  <2>1. s = <<>>
    BY EmptySeq
  <2> QED
    BY <1>1, <2>1
<1>4. \A n \in Nat : n \in T => n + 1 \in T
  <2> SUFFICES ASSUME NEW n \in Nat, n \in T, NEW s \in Seq(HistoryRow), Len(s) = n + 1
               PROVE  Good(s)
    OBVIOUS
  <2>1. s # <<>>
    <3>1. n + 1 # 0
      OBVIOUS
    <3> QED
      BY <3>1, EmptySeq
  <2>2. PICK f \in Seq(HistoryRow), x \in HistoryRow : s = Append(f, x)
    BY <2>1, SequenceEmptyOrAppend
  <2>3. Len(f) = n
    <3>1. Len(s) = Len(f) + 1 /\ Len(f) \in Nat
      BY <2>2, AppendProperties, LenProperties
    <3> QED
      BY <3>1
  <2>4. Good(f)
    BY <2>3
  <2> QED
    BY <1>2, <2>2, <2>4
<1> HIDE DEF T
<1>5. \A n \in Nat : n \in T
  BY <1>3, <1>4, ReachesAll
<1>6. \A s \in Seq(HistoryRow) : Good(s)
  <2> TAKE s \in Seq(HistoryRow)
  <2>1. Len(s) \in Nat
    BY LenProperties
  <2> QED
    BY <1>5, <2>1 DEF T
<1> QED
  BY <1>6 DEF Good

\* What is taken of links tells the last state that they tell.
LEMMA LinksLast ==
    ASSUME NEW s \in Seq(LinkRow), s # <<>>
    PROVE  Connectivity(s) # <<>> /\ Last(Connectivity(s)).state = Last(s).state
<1>1. PICK f \in Seq(LinkRow), x \in LinkRow : s = Append(f, x)
  BY SequenceEmptyOrAppend
<1>2. x \in HistoryRow /\ x.state # "other" /\ f \in Seq(HistoryRow)
  <2>1. LinkRow \subseteq HistoryRow
    BY LinkRowIs
  <2> QED
    BY <2>1, LinkRowIs, SeqMonotonic
<1>3. Connectivity(s) = AddLink(Connectivity(f), x) /\ Connectivity(f) \in Seq(LinkRow)
  BY <1>1, <1>2, LinksAfter, LinksOnce
<1>4. Last(s) = x
  BY <1>1, LinkAppended
<1>5. CASE Connectivity(s) = Append(Connectivity(f), x)
  <2>1. Append(Connectivity(f), x) # <<>> /\ Last(Append(Connectivity(f), x)) = x
    BY <1>3, LinkAppended
  <2> QED
    BY <1>4, <1>5, <2>1
<1>6. CASE Connectivity(s) # Append(Connectivity(f), x)
  <2>1. /\ AddLink(Connectivity(f), x) = Connectivity(f)
        /\ Connectivity(f) # <<>> /\ Last(Connectivity(f)).state = x.state
    BY <1>2, <1>3, <1>6, AddLinkIs
  <2> QED
    BY <1>3, <1>4, <2>1
<1> QED
  BY <1>5, <1>6

\* Of the links of two files in a row the builder takes those of the rows of
\* both; only the first of the second file may be one too many.
LinksFit(h, t) ==
    /\ Connectivity(Connectivity(h) \o Connectivity(t)) = Connectivity(h \o t)
    /\ Len(Connectivity(h)) + Len(Connectivity(t)) <= Len(Connectivity(h \o t)) + 1
    /\ Connectivity(t) = <<>> => Connectivity(h \o t) = Connectivity(h)

LEMMA LinksJoinNext ==
    ASSUME NEW h \in Seq(HistoryRow), NEW f \in Seq(HistoryRow), LinksFit(h, f), NEW x \in HistoryRow
    PROVE  LinksFit(h, Append(f, x))
<1> DEFINE H == Connectivity(h)
           F == Connectivity(f)
           W == Connectivity(h \o f)
           t == Append(f, x)
<1>1. h \o f \in Seq(HistoryRow) /\ H \in Seq(LinkRow) /\ F \in Seq(LinkRow) /\ W \in Seq(LinkRow)
  <2>1. h \o f \in Seq(HistoryRow)
    BY ConcatProperties
  <2> QED
    BY <2>1, LinksOnce
<1>2. Connectivity(t) = AddLink(F, x)
  BY LinksAfter
<1>3. Connectivity(h \o t) = AddLink(W, x)
  <2>1. h \o t = Append(h \o f, x)
    OBVIOUS
  <2> QED
    BY <1>1, <2>1, LinksAfter
<1>4. /\ Connectivity(H \o F) = W /\ Len(H) + Len(F) <= Len(W) + 1
      /\ F = <<>> => W = H
  BY DEF LinksFit
<1> HIDE DEF H, F, W, t
<1>5. Len(H) \in Nat /\ Len(F) \in Nat /\ Len(W) \in Nat
  BY <1>1, LenProperties
<1>6. H \o F \in Seq(LinkRow) /\ LinkRow \subseteq HistoryRow /\ H \o F \in Seq(HistoryRow)
  <2>1. H \o F \in Seq(LinkRow)
    BY <1>1, ConcatProperties
  <2>2. LinkRow \subseteq HistoryRow
    BY LinkRowIs
  <2> QED
    BY <2>1, <2>2, SeqMonotonic
<1>7. F # <<>> => W # <<>> /\ Last(W).state = Last(F).state
  <2> HAVE F # <<>>
  <2> DEFINE all == H \o F
  <2>1. /\ Len(all) = Len(H) + Len(F)
        /\ \A i \in 1 .. Len(H) + Len(F) : all[i] = IF i <= Len(H) THEN H[i] ELSE F[i - Len(H)]
    BY <1>1, ConcatProperties, Zenon
  <2> HIDE DEF all
  <2>2. Len(F) > 0
    BY <1>1, <1>5, EmptySeq
  <2>3. all # <<>> /\ Last(all) = F[Len(F)]
    <3>1. Len(H) + Len(F) \in 1 .. Len(H) + Len(F) /\ ~(Len(H) + Len(F) <= Len(H))
          /\ (Len(H) + Len(F)) - Len(H) = Len(F)
      BY <1>5, <2>2
    <3>2. all[Len(H) + Len(F)] = F[Len(F)]
      BY <2>1, <3>1
    <3>3. Len(all) # 0
      BY <1>5, <2>1, <2>2
    <3> QED
      BY <2>1, <3>2, <3>3, EmptySeq DEF Last
  <2>4. Last(F) = F[Len(F)]
    BY DEF Last
  <2> QED
    BY <1>4, <1>6, <2>3, <2>4, LinksLast DEF all
<1>8. CASE AddLink(F, x) = F /\ (x.state = "other" \/ (F # <<>> /\ Last(F).state = x.state))
  <2>1. AddLink(W, x) = W
    <3>1. x.state = "other" \/ (W # <<>> /\ Last(W).state = x.state)
      BY <1>7, <1>8
    <3> QED
      BY <3>1 DEF AddLink
  <2> QED
    BY <1>2, <1>3, <1>4, <1>8, <2>1 DEF LinksFit, H, t
<1>9. CASE /\ AddLink(F, x) = Append(F, x) /\ x \in LinkRow
           /\ F = <<>> \/ Last(F).state # x.state
  <2>1. H \o Append(F, x) = Append(H \o F, x)
    BY <1>1
  <2>2. Connectivity(Append(H \o F, x)) = AddLink(W, x)
    BY <1>4, <1>6, LinksAfter
  <2>3. Append(F, x) # <<>> /\ Len(Append(F, x)) = Len(F) + 1
    BY <1>1, <1>9, LinkAppended
  <2>4. \/ AddLink(W, x) = W
        \/ AddLink(W, x) = Append(W, x) /\ Len(Append(W, x)) = Len(W) + 1
    BY <1>1, <1>9, AddLinkIs, LinkAppended
  <2>5. F # <<>> => AddLink(W, x) # W
    <3> HAVE F # <<>>
    <3>1. W # <<>> /\ Last(W).state # x.state /\ x.state # "other"
      BY <1>7, <1>9, LinkRowIs
    <3>2. AddLink(W, x) = Append(W, x)
      BY <3>1 DEF AddLink
    <3>3. Len(Append(W, x)) # Len(W)
      <4>1. Len(Append(W, x)) = Len(W) + 1
        BY <1>1, <1>9, LinkAppended
      <4> QED
        BY <1>5, <4>1
    <3> QED
      BY <3>2, <3>3
  <2>6. Len(H) + Len(Append(F, x)) <= Len(AddLink(W, x)) + 1
    <3>1. CASE F = <<>>
      <4>1. Len(F) = 0 /\ W = H
        BY <1>4, <3>1
      <4> QED
        BY <1>5, <2>3, <2>4, <4>1
    <3>2. CASE F # <<>>
      BY <1>4, <1>5, <2>3, <2>4, <2>5, <3>2
    <3> QED
      BY <3>1, <3>2
  <2>7. Connectivity(t) = Append(F, x) /\ Connectivity(h \o t) = AddLink(W, x)
    BY <1>2, <1>3, <1>9
  <2>8. Connectivity(H \o Connectivity(t)) = Connectivity(h \o t)
    BY <2>1, <2>2, <2>7
  <2>9. Len(H) + Len(Connectivity(t)) <= Len(Connectivity(h \o t)) + 1
    BY <2>6, <2>7
  <2> HIDE DEF t
  <2>10. Connectivity(t) # <<>>
    BY <2>3, <2>7
  <2>11. LinksFit(h, t)
    BY <2>8, <2>9, <2>10 DEF LinksFit, H
  <2> QED
    BY <2>11 DEF t
<1> QED
  BY <1>1, <1>8, <1>9, AddLinkIs

LEMMA LinksJoin == \A h, t \in Seq(HistoryRow) : LinksFit(h, t)
<1> TAKE h \in Seq(HistoryRow)
<1> DEFINE T == {n \in Nat : \A t \in Seq(HistoryRow) : Len(t) = n => LinksFit(h, t)}
<1>1. 0 \in T
  <2> SUFFICES ASSUME NEW t \in Seq(HistoryRow), Len(t) = 0 PROVE LinksFit(h, t)
    OBVIOUS
  <2>1. t = <<>> /\ h \o <<>> = h /\ Connectivity(t) = <<>>
    BY EmptySeq, ConcatEmptySeq, NoLinks
  <2>2. Connectivity(h) \in Seq(LinkRow) /\ Connectivity(Connectivity(h)) = Connectivity(h)
    BY LinksOnce
  <2>3. Connectivity(h) \o <<>> = Connectivity(h) /\ Len(<<>>) = 0 /\ Len(Connectivity(h)) \in Nat
    BY <2>2, ConcatEmptySeq, LenProperties
  <2>4. Connectivity(h \o t) = Connectivity(h)
    BY <2>1
  <2>5. Connectivity(Connectivity(h) \o Connectivity(t)) = Connectivity(h \o t)
    BY <2>1, <2>2, <2>3, <2>4
  <2>6. Len(Connectivity(h)) + Len(Connectivity(t)) <= Len(Connectivity(h \o t)) + 1
    BY <2>1, <2>3, <2>4
  <2> QED
    BY <2>4, <2>5, <2>6 DEF LinksFit
<1>2. \A n \in Nat : n \in T => n + 1 \in T
  <2> SUFFICES ASSUME NEW n \in Nat, n \in T, NEW t \in Seq(HistoryRow), Len(t) = n + 1
               PROVE  LinksFit(h, t)
    OBVIOUS
  <2>1. t # <<>>
    <3>1. n + 1 # 0
      OBVIOUS
    <3> QED
      BY <3>1, EmptySeq
  <2>2. PICK f \in Seq(HistoryRow), x \in HistoryRow : t = Append(f, x)
    BY <2>1, SequenceEmptyOrAppend
  <2>3. Len(f) = n
    <3>1. Len(t) = Len(f) + 1 /\ Len(f) \in Nat
      BY <2>2, AppendProperties, LenProperties
    <3> QED
      BY <3>1
  <2>4. LinksFit(h, f)
    BY <2>3
  <2> QED
    BY <2>2, <2>4, LinksJoinNext
<1> HIDE DEF T
<1>3. \A n \in Nat : n \in T
  BY <1>1, <1>2, ReachesAll
<1> TAKE t \in Seq(HistoryRow)
<1>4. Len(t) \in Nat
  BY LenProperties
<1> QED
  BY <1>3, <1>4 DEF T

-----------------------------------------------------------------------------
(* Import of two files, in the order of their first rows.                  *)

Importer(files, it) ==
    [s \in SUBSET DOMAIN files |->
        IF s = {} THEN NothingImported ELSE ImportFile(it[s \ {Max(s)}], files[Max(s)])]

ImportOf(files) == Read("files", files)

LEMMA ImportIs == \A files : Import(files) = ImportOf(InOrder(files))
<1>1. /\ StartOf("files") = NothingImported
      /\ \A x, t, state : Turn("files", x, t, state) = ImportFile(state, x[t])
  BY DEF StartOf, Turn
<1>2. \A files, it : Reader("files", files, DOMAIN files, it) = Importer(files, it)
  BY <1>1 DEF Reader, Importer
<1>3. ASSUME NEW files
      PROVE  ImportOf(files) = (CHOOSE it : it = Importer(files, it))[DOMAIN files]
  <2>1. \A it : Reader("files", files, DOMAIN files, it) = Importer(files, it)
    BY <1>2
  <2>2. (CHOOSE it : it = Reader("files", files, DOMAIN files, it)) = (CHOOSE it : it = Importer(files, it))
    BY <2>1, Zenon
  <2> QED
    BY <2>2 DEF Read, ImportOf
<1>4. \A files : Import(files)
                   = (CHOOSE it : it = Importer(InOrder(files), it))[DOMAIN InOrder(files)]
  BY DEF Import, FoldLeft, MapThenFoldSet, Importer
<1> QED
  BY <1>3, <1>4

LEMMA ImportOne == \A f : ImportOf(<<f>>) = ImportFile(NothingImported, f)
<1> TAKE f
<1> DEFINE x == <<f>>
<1>1. DOMAIN x = {1} /\ x[1] = f /\ DOMAIN x \in SUBSET (0 .. 1)
  OBVIOUS
<1> HIDE DEF x
<1>2. 1 \in Nat
  OBVIOUS
<1>3. PICK st : /\ st[0] = StartOf("files")
                /\ \A n \in 0 .. 1 :
                      st[n + 1] = IF n \in DOMAIN x THEN Turn("files", x, n, st[n]) ELSE st[n]
                /\ st[1 + 1] = Read("files", x)
  BY <1>1, <1>2, ReadStates
<1>4. /\ StartOf("files") = NothingImported
      /\ \A t, state : Turn("files", x, t, state) = ImportFile(state, x[t])
  BY DEF StartOf, Turn
<1>5. st[0 + 1] = st[0] /\ st[1 + 1] = ImportFile(st[1], f)
  BY <1>1, <1>3, <1>4
<1> QED
  BY <1>3, <1>4, <1>5 DEF ImportOf, x

LEMMA ImportTwo == \A f, g : ImportOf(<<f, g>>) = ImportFile(ImportFile(NothingImported, f), g)
<1> TAKE f, g
<1> DEFINE x == <<f, g>>
<1>1. DOMAIN x = {1, 2} /\ x[1] = f /\ x[2] = g /\ DOMAIN x \in SUBSET (0 .. 2)
  OBVIOUS
<1> HIDE DEF x
<1>2. 2 \in Nat
  OBVIOUS
<1>3. PICK st : /\ st[0] = StartOf("files")
                /\ \A n \in 0 .. 2 :
                      st[n + 1] = IF n \in DOMAIN x THEN Turn("files", x, n, st[n]) ELSE st[n]
                /\ st[2 + 1] = Read("files", x)
  BY <1>1, <1>2, ReadStates
<1>4. /\ StartOf("files") = NothingImported
      /\ \A t, state : Turn("files", x, t, state) = ImportFile(state, x[t])
  BY DEF StartOf, Turn
<1>5. st[0 + 1] = st[0] /\ st[1 + 1] = ImportFile(st[1], f) /\ st[2 + 1] = ImportFile(st[2], g)
  BY <1>1, <1>3, <1>4
<1>6. 0 + 1 = 1 /\ 1 + 1 = 2
  OBVIOUS
<1> QED
  BY <1>3, <1>4, <1>5, <1>6 DEF ImportOf, x

Firsts(files) == [i \in DOMAIN files |-> ReadRows(files[i]).first]
Used(files) == {i \in DOMAIN files : Firsts(files)[i] # None}
UpTo(files, i) ==
    {j \in Used(files) : \/ Firsts(files)[j] < Firsts(files)[i]
                         \/ Firsts(files)[j] = Firsts(files)[i] /\ j <= i}
Placed(files, k) == CHOOSE i \in Used(files) : Cardinality(UpTo(files, i)) = k

LEMMA InOrderIs ==
    \A files : InOrder(files) = [k \in 1 .. Cardinality(Used(files)) |-> files[Placed(files, k)]]
  BY DEF InOrder, Placed, UpTo, Used, Firsts

LEMMA Counts ==
    /\ \A x : IsFiniteSet({x}) /\ Cardinality({x}) = 1
    /\ Cardinality({1, 2}) = 2
<1>1. \A x : IsFiniteSet({x}) /\ Cardinality({x}) = 1
  BY FS_Singleton
<1>2. 2 \notin {1} /\ {1} \cup {2} = {1, 2}
  OBVIOUS
<1>3. Cardinality({1} \cup {2}) = Cardinality({1}) + 1
  BY <1>1, <1>2, FS_AddElement
<1>4. Cardinality({1, 2}) = 1 + 1
  BY <1>1, <1>2, <1>3
<1>5. Cardinality({1, 2}) = 2
  BY <1>4
<1> QED
  BY <1>1, <1>5

LEMMA OrderIs ==
    ASSUME NEW f, NEW g, NEW F, F = ReadRows(f).first, F \in Nat \cup {None},
           NEW G, G = ReadRows(g).first, G \in Nat \cup {None}
    PROVE  /\ F # None /\ G = None => InOrder(<<f, g>>) = <<f>>
           /\ F = None /\ G # None => InOrder(<<f, g>>) = <<g>>
           /\ F # None /\ G # None /\ F <= G => InOrder(<<f, g>>) = <<f, g>>
           /\ F # None /\ G # None /\ G < F => InOrder(<<f, g>>) = <<g, f>>
<1> DEFINE x == <<f, g>>
           n == Cardinality(Used(x))
<1>1. DOMAIN x = {1, 2} /\ x[1] = f /\ x[2] = g
  OBVIOUS
<1> HIDE DEF x
<1>2. Firsts(x)[1] = F /\ Firsts(x)[2] = G
  BY <1>1 DEF Firsts
<1>3. \A i : i \in Used(x) <=> (i = 1 /\ F # None) \/ (i = 2 /\ G # None)
  BY <1>1, <1>2 DEF Used
<1>4. InOrder(x) = [k \in 1 .. n |-> x[Placed(x, k)]]
  BY InOrderIs
<1>5. ASSUME NEW i, NEW k, Used(x) = {i}, Cardinality(UpTo(x, i)) = k PROVE Placed(x, k) = i
  BY <1>5, Zenon DEF Placed
<1>6. ASSUME F # None, G = None PROVE InOrder(x) = <<f>>
  <2>1. Used(x) = {1}
    BY <1>3, <1>6
  <2>2. UpTo(x, 1) = {1}
    BY <1>2, <2>1 DEF UpTo
  <2>3. n = 1 /\ Placed(x, 1) = 1
    BY <1>5, <2>1, <2>2, Counts
  <2>4. InOrder(x) = [k \in 1 .. 1 |-> x[Placed(x, k)]]
    BY <1>4, <2>3
  <2> QED
    BY <1>1, <2>3, <2>4
<1>7. ASSUME F = None, G # None PROVE InOrder(x) = <<g>>
  <2>1. Used(x) = {2}
    BY <1>3, <1>7
  <2>2. UpTo(x, 2) = {2}
    BY <1>2, <2>1 DEF UpTo
  <2>3. n = 1 /\ Placed(x, 1) = 2
    BY <1>5, <2>1, <2>2, Counts
  <2>4. InOrder(x) = [k \in 1 .. 1 |-> x[Placed(x, k)]]
    BY <1>4, <2>3
  <2> QED
    BY <1>1, <2>3, <2>4
<1>8. ASSUME NEW a, NEW b, Used(x) = {a, b}, a # b, n = 2,
             Cardinality(UpTo(x, a)) = 1, Cardinality(UpTo(x, b)) = 2
      PROVE  InOrder(x) = <<x[a], x[b]>>
  <2>1. \E i \in Used(x) : Cardinality(UpTo(x, i)) = 1
    BY <1>8
  <2>2. Placed(x, 1) \in Used(x) /\ Cardinality(UpTo(x, Placed(x, 1))) = 1
    BY <2>1, Zenon DEF Placed
  <2>3. Placed(x, 1) = a
    BY <1>8, <2>2
  <2>4. \E i \in Used(x) : Cardinality(UpTo(x, i)) = 2
    BY <1>8
  <2>5. Placed(x, 2) \in Used(x) /\ Cardinality(UpTo(x, Placed(x, 2))) = 2
    BY <2>4, Zenon DEF Placed
  <2>6. Placed(x, 2) = b
    BY <1>8, <2>5
  <2>7. InOrder(x) = [k \in 1 .. 2 |-> x[Placed(x, k)]]
    BY <1>4, <1>8
  <2> QED
    BY <2>3, <2>6, <2>7
<1>9. ASSUME F # None, G # None, F <= G PROVE InOrder(x) = <<f, g>>
  <2>1. Used(x) = {1, 2} /\ F \in Nat /\ G \in Nat
    BY <1>3, <1>9
  <2>2. UpTo(x, 1) = {1} /\ UpTo(x, 2) = {1, 2}
    BY <1>2, <1>9, <2>1 DEF UpTo
  <2>3. n = 2 /\ Cardinality(UpTo(x, 1)) = 1 /\ Cardinality(UpTo(x, 2)) = 2
    BY <2>1, <2>2, Counts
  <2> QED
    BY <1>1, <1>8, <2>1, <2>3
<1>10. ASSUME F # None, G # None, G < F PROVE InOrder(x) = <<g, f>>
  <2>1. Used(x) = {1, 2} /\ F \in Nat /\ G \in Nat
    BY <1>3, <1>10
  <2>2. UpTo(x, 2) = {2} /\ UpTo(x, 1) = {1, 2}
    BY <1>2, <1>10, <2>1 DEF UpTo
  <2>3. n = 2 /\ Cardinality(UpTo(x, 2)) = 1 /\ Cardinality(UpTo(x, 1)) = 2
    BY <2>1, <2>2, Counts
  <2>4. Used(x) = {2, 1} /\ 2 # 1
    BY <2>1
  <2> QED
    BY <1>1, <1>8, <2>3, <2>4
<1> QED
  BY <1>6, <1>7, <1>9, <1>10 DEF x

-----------------------------------------------------------------------------
(* What the import of a history has, however it was cut.                   *)

\* Rows, at least one, that lie within the span of a report or of a result.
Spanning(x) ==
    /\ x.rows \in Seq(HistoryRow)
    /\ x.first \in Nat /\ x.last \in Nat
    /\ \A k \in 1 .. Len(x.rows) : x.first <= x.rows[k].ts /\ x.rows[k].ts <= x.last

LEMMA ImportFirst ==
    ASSUME NEW file, Spanning(ReadRows(file))
    PROVE  LET result == ImportFile(NothingImported, file)
           IN  /\ Spanning(result) /\ result.rows = ReadRows(file).rows
               /\ result.links = Connectivity(ReadRows(file).rows)
<1> DEFINE report == ReadRows(file)
           result == ImportFile(NothingImported, file)
<1>1. result = [rows |-> NothingImported.rows \o report.rows,
                links |-> NothingImported.links \o Connectivity(report.rows),
                first |-> IF NothingImported.first = None \/ report.first < NothingImported.first
                          THEN report.first ELSE NothingImported.first,
                last |-> IF report.last > NothingImported.last
                         THEN report.last ELSE NothingImported.last]
  BY DEF ImportFile
<1> HIDE DEF report, result
<1>2. Spanning(report)
  BY DEF report
<1>3. /\ NothingImported.rows = <<>> /\ NothingImported.links = <<>>
      /\ NothingImported.first = None /\ NothingImported.last = None
  BY DEF NothingImported
<1>4. /\ <<>> \o report.rows = report.rows
      /\ <<>> \o Connectivity(report.rows) = Connectivity(report.rows)
  <2>1. report.rows \in Seq(HistoryRow)
    BY <1>2 DEF Spanning
  <2>2. Connectivity(report.rows) \in Seq(LinkRow)
    BY <2>1, LinksOnce
  <2> QED
    BY <2>1, <2>2, ConcatEmptySeq
<1>5. report.last > None
  BY <1>2 DEF Spanning, None
<1>6. /\ result.rows = report.rows /\ result.links = Connectivity(report.rows)
      /\ result.first = report.first /\ result.last = report.last
  BY <1>1, <1>3, <1>4, <1>5
<1>7. Spanning(result)
  BY <1>2, <1>6 DEF Spanning
<1> QED
  BY <1>6, <1>7 DEF result, report

LEMMA ImportSecond ==
    ASSUME NEW before, Spanning(before), NEW file, Spanning(ReadRows(file))
    PROVE  LET result == ImportFile(before, file)
           IN  /\ Spanning(result) /\ result.rows = before.rows \o ReadRows(file).rows
               /\ result.links = before.links \o Connectivity(ReadRows(file).rows)
<1> DEFINE report == ReadRows(file)
           result == ImportFile(before, file)
           m == Len(before.rows)
           n == Len(report.rows)
<1>1. result = [rows |-> before.rows \o report.rows,
                links |-> before.links \o Connectivity(report.rows),
                first |-> IF before.first = None \/ report.first < before.first
                          THEN report.first ELSE before.first,
                last |-> IF report.last > before.last THEN report.last ELSE before.last]
  BY DEF ImportFile
<1> HIDE DEF report, result
<1>2. Spanning(report)
  BY DEF report
<1>3. before.first # None
  BY DEF Spanning, None
<1>4. /\ result.rows = before.rows \o report.rows
      /\ result.links = before.links \o Connectivity(report.rows)
      /\ result.first = IF report.first < before.first THEN report.first ELSE before.first
      /\ result.last = IF report.last > before.last THEN report.last ELSE before.last
  BY <1>1, <1>3
<1>5. /\ result.first \in Nat /\ result.first <= before.first /\ result.first <= report.first
      /\ result.last \in Nat /\ before.last <= result.last /\ report.last <= result.last
  BY <1>2, <1>4 DEF Spanning
<1>6. /\ result.rows \in Seq(HistoryRow) /\ Len(result.rows) = m + n
      /\ \A i \in 1 .. m + n : result.rows[i] = IF i <= m THEN before.rows[i] ELSE report.rows[i - m]
  <2>1. before.rows \in Seq(HistoryRow) /\ report.rows \in Seq(HistoryRow)
    BY <1>2 DEF Spanning
  <2> DEFINE all == before.rows \o report.rows
  <2>2. /\ all \in Seq(HistoryRow) /\ Len(all) = m + n
        /\ \A i \in 1 .. m + n : all[i] = IF i <= m THEN before.rows[i] ELSE report.rows[i - m]
    BY <2>1, ConcatProperties, Zenon
  <2>3. result.rows = all
    BY <1>4
  <2> HIDE DEF all
  <2> QED
    BY <2>2, <2>3, Zenon
<1>7. m \in Nat /\ n \in Nat
  BY <1>2, LenProperties DEF Spanning
<1>8. \A k \in 1 .. m : before.first <= before.rows[k].ts /\ before.rows[k].ts <= before.last
                        /\ before.rows[k].ts \in Nat
  <2>1. \A k \in 1 .. m : before.rows[k] \in HistoryRow
    BY ElementOfSeq DEF Spanning
  <2> QED
    BY <2>1 DEF Spanning, HistoryRow
<1>9. \A k \in 1 .. n : report.first <= report.rows[k].ts /\ report.rows[k].ts <= report.last
                        /\ report.rows[k].ts \in Nat
  <2>1. \A k \in 1 .. n : report.rows[k] \in HistoryRow
    BY <1>2, ElementOfSeq DEF Spanning
  <2> QED
    BY <1>2, <2>1 DEF Spanning, HistoryRow
<1>10. before.first \in Nat /\ before.last \in Nat /\ report.first \in Nat /\ report.last \in Nat
  BY <1>2 DEF Spanning
<1> HIDE DEF m, n
<1>11. \A k \in 1 .. m + n : result.first <= result.rows[k].ts /\ result.rows[k].ts <= result.last
  <2> TAKE k \in 1 .. m + n
  <2>1. CASE k <= m
    <3>1. k \in 1 .. m /\ result.rows[k] = before.rows[k]
      BY <1>6, <1>7, <2>1
    <3>2. /\ before.first <= before.rows[k].ts /\ before.rows[k].ts <= before.last
          /\ before.rows[k].ts \in Nat
      BY <1>8, <3>1
    <3> QED
      BY <1>5, <1>10, <3>1, <3>2
  <2>2. CASE ~(k <= m)
    <3>1. k - m \in 1 .. n /\ result.rows[k] = report.rows[k - m]
      BY <1>6, <1>7, <2>2
    <3>2. /\ report.first <= report.rows[k - m].ts /\ report.rows[k - m].ts <= report.last
          /\ report.rows[k - m].ts \in Nat
      BY <1>9, <3>1
    <3> QED
      BY <1>5, <1>10, <3>1, <3>2
  <2> QED
    BY <2>1, <2>2
<1>12. Spanning(result)
  BY <1>5, <1>6, <1>11 DEF Spanning
<1> QED
  BY <1>4, <1>12 DEF result, report

LEMMA Climbs ==
    ASSUME NEW n \in Nat, NEW time, \A i \in 1 .. n : time[i] \in Nat,
           \A i \in 1 .. n : i > 1 => time[i - 1] <= time[i]
    PROVE  \A i, j \in 1 .. n : i <= j => time[i] <= time[j]
<1> DEFINE T == {d \in Nat : \A i \in 1 .. n : i + d <= n => time[i] <= time[i + d]}
<1>1. 0 \in T
  BY DEF T
<1>2. ASSUME NEW d \in Nat, d \in T PROVE d + 1 \in T
  <2> SUFFICES ASSUME NEW i \in 1 .. n, i + (d + 1) <= n PROVE time[i] <= time[i + (d + 1)]
    OBVIOUS
  <2>1. i + d \in 1 .. n /\ i + (d + 1) \in 1 .. n /\ i + (d + 1) > 1 /\ (i + (d + 1)) - 1 = i + d
    OBVIOUS
  <2>2. time[i] <= time[i + d]
    BY <1>2, <2>1
  <2>3. time[i + d] <= time[i + (d + 1)]
    BY <2>1
  <2>4. time[i] \in Nat /\ time[i + d] \in Nat /\ time[i + (d + 1)] \in Nat
    BY <2>1
  <2> QED
    BY <2>2, <2>3, <2>4
<1> HIDE DEF T
<1>3. \A d \in Nat : d \in T
  BY <1>1, <1>2, ReachesAll
<1> TAKE i \in 1 .. n, j \in 1 .. n
<1> HAVE i <= j
<1>4. j - i \in Nat /\ i + (j - i) = j /\ j <= n
  OBVIOUS
<1>5. j - i \in T
  BY <1>3, <1>4
<1>6. time[i] <= time[i + (j - i)]
  BY <1>4, <1>5 DEF T
<1> QED
  BY <1>4, <1>6

\* The report on a clean file that has a row.
LEMMA CleanReport ==
    ASSUME NEW N \in Nat, NEW ts, NEW file, Clean(ts, file, N),
           NEW time, Grows(ts, time, N), NEW r, Reported(file, time, N, r)
    PROVE  /\ DOMAIN r.rows = 1 .. N /\ Ordered(r.rows, N) /\ r.rows \in Seq(HistoryRow)
           /\ N = 0 => r.first = None
           /\ N > 0 => Spanning(r) /\ r.first = time[1]
<1>1. \A i \in 1 .. N : time[i] \in Nat
  BY DEF Grows
<1>2. \A i, j \in 1 .. N : i <= j => time[i] <= time[j]
  BY <1>1, Climbs DEF Grows
<1>3. DOMAIN r.rows = 1 .. N
  BY DEF Reported
<1>4. \A k \in 1 .. N : r.rows[k] = [ts |-> time[k], state |-> file[k].state]
  BY DEF Reported
<1>5. \A k \in 1 .. N : r.rows[k] \in HistoryRow /\ r.rows[k].ts = time[k]
  <2> TAKE k \in 1 .. N
  <2>1. file[k].state \in RowStates /\ time[k] \in Nat
    BY <1>1 DEF Clean
  <2>2. [ts |-> time[k], state |-> file[k].state] \in HistoryRow
    BY <2>1 DEF HistoryRow
  <2> QED
    BY <1>4, <2>2
<1>6. Ordered(r.rows, N)
  BY <1>2, <1>5 DEF Ordered
<1>7. r.rows \in Seq(HistoryRow) /\ Len(r.rows) = N
  <2>1. r.rows = [k \in 1 .. N |-> r.rows[k]]
    BY <1>3 DEF Reported
  <2>2. r.rows \in [1 .. N -> HistoryRow]
    BY <1>5, <2>1
  <2> QED
    BY <2>2
<1>8. N = 0 => r.first = None
  BY DEF Reported
<1>9. ASSUME N > 0 PROVE Spanning(r) /\ r.first = time[1]
  <2>1. r.first = time[1] /\ r.last = time[N]
    BY <1>9 DEF Reported
  <2>2. 1 \in 1 .. N /\ N \in 1 .. N
    BY <1>9
  <2>3. \A k \in 1 .. N : time[1] <= time[k] /\ time[k] <= time[N]
    BY <1>2, <2>2
  <2>4. \A k \in 1 .. N : r.first <= r.rows[k].ts /\ r.rows[k].ts <= r.last
    BY <1>5, <2>1, <2>3
  <2>5. r.first \in Nat /\ r.last \in Nat
    BY <1>1, <2>1, <2>2
  <2> QED
    BY <1>7, <2>1, <2>4, <2>5 DEF Spanning
<1> QED
  BY <1>3, <1>6, <1>7, <1>8, <1>9

LEMMA PieceRows ==
    ASSUME NEW N \in Nat, NEW file, NEW time, NEW w, Reported(file, time, N, w),
           NEW from \in Nat, NEW n \in Nat, from + n <= N,
           NEW part, NEW r, Reported(Piece(file, from, n), part, n, r),
           Agrees(part, time, from, n)
    PROVE  Agrees(r.rows, w.rows, from, n)
<1>1. r.rows = [k \in 1 .. n |-> [ts |-> part[k], state |-> Piece(file, from, n)[k].state]]
  BY DEF Reported
<1>2. w.rows = [k \in 1 .. N |-> [ts |-> time[k], state |-> file[k].state]]
  BY DEF Reported
<1>3. ASSUME NEW k \in 1 .. n PROVE r.rows[k] = w.rows[from + k]
  <2>1. from + k \in 1 .. N
    OBVIOUS
  <2>2. part[k] = time[from + k] /\ Piece(file, from, n)[k] = file[from + k]
    BY DEF Piece, Agrees
  <2>3. w.rows[from + k] = [ts |-> time[from + k], state |-> file[from + k].state]
    BY <1>2, <2>1
  <2>4. r.rows[k] = [ts |-> part[k], state |-> Piece(file, from, n)[k].state]
    BY <1>1
  <2> QED
    BY <2>2, <2>3, <2>4
<1> QED
  BY <1>3 DEF Agrees

LEMMA LenIs == \A S : \A s \in Seq(S) : \A n \in Nat : DOMAIN s = 1 .. n => Len(s) = n
<1> TAKE S
<1> TAKE s \in Seq(S)
<1> TAKE n \in Nat
<1> HAVE DOMAIN s = 1 .. n
<1>1. 1 .. Len(s) = 1 .. n /\ Len(s) \in Nat
  BY LenProperties
<1>2. Len(s) \in 1 .. n \/ Len(s) = 0
  BY <1>1
<1>3. n \in 1 .. Len(s) \/ n = 0
  BY <1>1
<1> QED
  BY <1>1, <1>2, <1>3

LEMMA RowsJoin ==
    ASSUME NEW N \in Nat, NEW cut \in 0 .. N,
           NEW w \in Seq(HistoryRow), DOMAIN w = 1 .. N,
           NEW h \in Seq(HistoryRow), DOMAIN h = 1 .. cut, Agrees(h, w, 0, cut),
           NEW t \in Seq(HistoryRow), DOMAIN t = 1 .. N - cut,
           Agrees(t, w, cut, N - cut)
    PROVE  h \o t = w
<1> DEFINE all == h \o t
<1>1. Len(w) = N /\ Len(h) = cut /\ Len(t) = N - cut
  <2>1. N - cut \in Nat /\ cut \in Nat
    OBVIOUS
  <2> QED
    BY <2>1, LenIs
<1>2. /\ all \in Seq(HistoryRow) /\ Len(all) = Len(h) + Len(t)
      /\ \A i \in 1 .. Len(h) + Len(t) : all[i] = IF i <= Len(h) THEN h[i] ELSE t[i - Len(h)]
  BY ConcatProperties, Zenon
<1> HIDE DEF all
<1>3. Len(h) + Len(t) = N
  BY <1>1
<1>4. \A i \in 1 .. N : all[i] = w[i]
  <2> TAKE i \in 1 .. N
  <2>1. all[i] = IF i <= cut THEN h[i] ELSE t[i - cut]
    BY <1>1, <1>2, <1>3
  <2>2. CASE i <= cut
    <3>1. i \in 1 .. cut /\ 0 + i = i
      BY <2>2
    <3> QED
      BY <2>1, <2>2, <3>1 DEF Agrees
  <2>3. CASE ~(i <= cut)
    <3>1. i - cut \in 1 .. N - cut /\ cut + (i - cut) = i
      BY <2>3
    <3> QED
      BY <2>1, <2>3, <3>1 DEF Agrees
  <2> QED
    BY <2>2, <2>3
<1>5. DOMAIN all = 1 .. N /\ all = [i \in DOMAIN all |-> all[i]] /\ w = [i \in DOMAIN w |-> w[i]]
  BY <1>2, <1>3
<1>6. all = w
  BY <1>4, <1>5
<1> QED
  BY <1>6 DEF all

\* Two files of which the one has all rows.
LEMMA ImportOfOne ==
    ASSUME NEW f, NEW g, ReadRows(f).first = None, Spanning(ReadRows(g)),
           NEW files \in {<<f, g>>, <<g, f>>}
    PROVE  /\ Spanning(Import(files)) /\ Import(files).rows = ReadRows(g).rows
           /\ Import(files).links = Connectivity(ReadRows(g).rows)
<1>1. ReadRows(g).first \in Nat /\ ReadRows(g).first # None
  BY DEF Spanning, None
<1>2. InOrder(<<f, g>>) = <<g>> /\ InOrder(<<g, f>>) = <<g>>
  BY <1>1, OrderIs
<1>3. Import(files) = ImportFile(NothingImported, g)
  BY <1>2, ImportIs, ImportOne
<1> QED
  BY <1>3, ImportFirst

\* Two files with rows each.
LEMMA ImportOfTwo ==
    ASSUME NEW f, NEW g, Spanning(ReadRows(f)), Spanning(ReadRows(g)),
           NEW files \in {<<f, g>>, <<g, f>>}
    PROVE  /\ Spanning(Import(files))
           /\ ReadRows(f).first < ReadRows(g).first =>
                  /\ Import(files).rows = ReadRows(f).rows \o ReadRows(g).rows
                  /\ Import(files).links
                       = Connectivity(ReadRows(f).rows) \o Connectivity(ReadRows(g).rows)
<1> DEFINE F == ReadRows(f).first
           G == ReadRows(g).first
<1>1. F \in Nat /\ G \in Nat /\ F # None /\ G # None
  BY DEF Spanning, None
<1>2. /\ F <= G => InOrder(<<f, g>>) = <<f, g>>
      /\ G < F => InOrder(<<f, g>>) = <<g, f>>
  BY <1>1, OrderIs
<1>3. /\ G <= F => InOrder(<<g, f>>) = <<g, f>>
      /\ F < G => InOrder(<<g, f>>) = <<f, g>>
  BY <1>1, OrderIs
<1>4. \/ F <= G /\ Import(files) = ImportFile(ImportFile(NothingImported, f), g)
      \/ G <= F /\ Import(files) = ImportFile(ImportFile(NothingImported, g), f)
  <2>1. \A a, b : InOrder(files) = <<a, b>> =>
                      Import(files) = ImportFile(ImportFile(NothingImported, a), b)
    BY ImportIs, ImportTwo
  <2>2. CASE files = <<f, g>>
    <3>1. F <= G \/ G < F
      BY <1>1
    <3>2. G < F => G <= F
      BY <1>1
    <3> QED
      BY <1>2, <2>1, <2>2, <3>1, <3>2, Zenon
  <2>3. CASE files = <<g, f>>
    <3>1. G <= F \/ F < G
      BY <1>1
    <3>2. F < G => F <= G
      BY <1>1
    <3> QED
      BY <1>3, <2>1, <2>3, <3>1, <3>2, Zenon
  <2> QED
    BY <2>2, <2>3
<1> DEFINE Both(a, b, result) ==
               /\ Spanning(result) /\ result.rows = ReadRows(a).rows \o ReadRows(b).rows
               /\ result.links = Connectivity(ReadRows(a).rows) \o Connectivity(ReadRows(b).rows)
<1>5. \A a, b : Spanning(ReadRows(a)) /\ Spanning(ReadRows(b)) =>
          Both(a, b, ImportFile(ImportFile(NothingImported, a), b))
  <2> SUFFICES ASSUME NEW a, NEW b, Spanning(ReadRows(a)), Spanning(ReadRows(b))
               PROVE  Both(a, b, ImportFile(ImportFile(NothingImported, a), b))
    OBVIOUS
  <2> DEFINE before == ImportFile(NothingImported, a)
  <2>1. /\ Spanning(before) /\ before.rows = ReadRows(a).rows
        /\ before.links = Connectivity(ReadRows(a).rows)
    BY ImportFirst
  <2> HIDE DEF before
  <2>2. /\ Spanning(ImportFile(before, b))
        /\ ImportFile(before, b).rows = before.rows \o ReadRows(b).rows
        /\ ImportFile(before, b).links = before.links \o Connectivity(ReadRows(b).rows)
    BY <2>1, ImportSecond
  <2>3. Both(a, b, ImportFile(before, b))
    BY <2>1, <2>2
  <2> QED
    BY <2>3 DEF before
<1>6. Spanning(Import(files))
  BY <1>4, <1>5
<1>7. ~(F < G /\ G <= F)
  BY <1>1
<1> QED
  BY <1>4, <1>5, <1>6, <1>7

\* Of the links the builder takes those of the rows; one may be repeated.
Taken(links, rows) ==
    /\ TakenLinks(links) = Connectivity(rows)
    /\ Len(links) <= Len(Connectivity(rows)) + 1

LEMMA TakenIs == \A links : TakenLinks(links) = Connectivity(links)
BY DEF TakenLinks, Connectivity

LEMMA LinksOfOne ==
    ASSUME NEW rows \in Seq(HistoryRow)
    PROVE  Taken(Connectivity(rows), rows)
<1> DEFINE links == Connectivity(rows)
<1>1. links \in Seq(LinkRow) /\ Connectivity(links) = links
  BY LinksOnce
<1>2. TakenLinks(links) = links
  BY <1>1, TakenIs
<1> HIDE DEF links
<1>3. Len(links) <= Len(links) + 1
  BY <1>1, LenProperties
<1> QED
  BY <1>2, <1>3 DEF Taken, links

LEMMA LinksOfTwo ==
    ASSUME NEW h \in Seq(HistoryRow), NEW t \in Seq(HistoryRow)
    PROVE  Taken(Connectivity(h) \o Connectivity(t), h \o t)
<1> DEFINE F == Connectivity(h)
           G == Connectivity(t)
<1>1. Connectivity(F \o G) = Connectivity(h \o t) /\ Len(F) + Len(G) <= Len(Connectivity(h \o t)) + 1
  BY LinksJoin DEF LinksFit
<1>2. F \in Seq(LinkRow) /\ G \in Seq(LinkRow)
  BY LinksOnce
<1> HIDE DEF F, G
<1>3. Len(F \o G) = Len(F) + Len(G)
  BY <1>2, ConcatProperties
<1>4. TakenLinks(F \o G) = Connectivity(h \o t)
  BY <1>1, TakenIs
<1>5. Taken(F \o G, h \o t)
  BY <1>1, <1>3, <1>4 DEF Taken
<1> QED
  BY <1>5 DEF F, G

\* A file, and the two files it was cut into, given in either order.
OneHistory(file, files, tail, whole, result) ==
    /\ \/ tail # <<>> /\ Repeated(tail[1].wall)
       \/ result.rows = whole.rows /\ Taken(result.links, whole.rows)
    /\ Spanning(result)
    /\ LinksTellStates(whole.rows, Connectivity(whole.rows))

LEMMA CutHistory ==
    ASSUME NEW N \in Nat, N > 0, NEW ts, NEW file, Clean(ts, file, N), NEW cut \in 0 .. N,
           NEW head, head = Piece(file, 0, cut), NEW tail, tail = Piece(file, cut, N - cut),
           NEW files \in {<<head, tail>>, <<tail, head>>}
    PROVE  OneHistory(file, files, tail, ReadRows(file), Import(files))
<1> DEFINE whole == ReadRows(file)
           H == ReadRows(head)
           T == ReadRows(tail)
           n == N - cut
<1>1. cut \in Nat /\ n \in Nat /\ 0 + cut <= N /\ cut + n = N /\ cut + n <= N /\ 0 \in Nat
  OBVIOUS
<1> HIDE DEF n
<1>2. PICK time : /\ time \in [1 .. N -> Nat]
                  /\ Timed(file, time, N) /\ Grows(ts, time, N)
                  /\ Reported(file, time, N, whole)
  BY CleanFile
<1>3. Clean(Piece(ts, 0, cut), head, cut) /\ Clean(Piece(ts, cut, n), tail, n)
  <2>1. Clean(Piece(ts, 0, cut), Piece(file, 0, cut), cut)
    BY <1>1, PieceClean
  <2>2. Clean(Piece(ts, cut, n), Piece(file, cut, n), n)
    BY <1>1, PieceClean
  <2> QED
    BY <2>1, <2>2 DEF n
<1>4. PICK htime : /\ htime \in [1 .. cut -> Nat]
                   /\ Timed(head, htime, cut) /\ Grows(Piece(ts, 0, cut), htime, cut)
                   /\ Reported(head, htime, cut, H)
  BY <1>1, <1>3, CleanFile
<1>5. PICK ttime : /\ ttime \in [1 .. n -> Nat]
                   /\ Timed(tail, ttime, n) /\ Grows(Piece(ts, cut, n), ttime, n)
                   /\ Reported(tail, ttime, n, T)
  BY <1>1, <1>3, CleanFile
<1> HIDE DEF whole, H, T
<1>6. DOMAIN whole.rows = 1 .. N /\ Ordered(whole.rows, N) /\ whole.rows \in Seq(HistoryRow)
  BY <1>2, CleanReport
<1>7. /\ DOMAIN H.rows = 1 .. cut /\ H.rows \in Seq(HistoryRow)
      /\ cut = 0 => H.first = None
      /\ cut > 0 => Spanning(H) /\ H.first = htime[1]
  BY <1>1, <1>3, <1>4, CleanReport
<1>8. /\ DOMAIN T.rows = 1 .. n /\ T.rows \in Seq(HistoryRow)
      /\ n = 0 => T.first = None
      /\ n > 0 => Spanning(T) /\ T.first = ttime[1]
  BY <1>1, <1>3, <1>5, CleanReport
<1>9. LinksTellStates(whole.rows, Connectivity(whole.rows))
  BY <1>6, LinksTell
<1>10. Timed(Piece(file, 0, cut), htime, cut) /\ Timed(Piece(file, cut, n), ttime, n)
  BY <1>4, <1>5 DEF n
<1>11. cut > 0 => htime[1] = time[0 + 1]
  <2> HAVE cut > 0
  <2> QED
    BY <1>1, <1>2, <1>10, FirstTimes
<1>12. Agrees(htime, time, 0, cut)
  <2>1. 0 \in Nat /\ cut \in Nat /\ N \in Nat /\ 0 + cut <= N
    BY <1>1
  <2> QED
    BY <1>2, <1>10, <1>11, <2>1, SameTimes
<1>13. n > 0 => /\ cut = 0 => ttime[1] = time[cut + 1]
                /\ ~Repeated(file[cut + 1].wall) =>
                       ttime[1] = ts[cut + 1] /\ ttime[1] = time[cut + 1]
  <2> HAVE n > 0
  <2> QED
    BY <1>1, <1>2, <1>10, FirstTimes
<1>14. (n > 0 => ttime[1] = time[cut + 1]) => Agrees(ttime, time, cut, n)
  <2> HAVE n > 0 => ttime[1] = time[cut + 1]
  <2>1. cut \in Nat /\ n \in Nat /\ N \in Nat /\ cut + n <= N
    BY <1>1
  <2> QED
    BY <1>2, <1>10, <2>1, SameTimes
<1>15. Reported(Piece(file, 0, cut), htime, cut, H) /\ Reported(Piece(file, cut, n), ttime, n, T)
  BY <1>4, <1>5 DEF n
<1>16. Agrees(H.rows, whole.rows, 0, cut)
  BY <1>1, <1>2, <1>12, <1>15, PieceRows
<1>17. (Agrees(ttime, time, cut, n)) =>
           Agrees(T.rows, whole.rows, cut, n)
  <2> HAVE Agrees(ttime, time, cut, n)
  <2>1. cut \in Nat /\ n \in Nat /\ N \in Nat /\ cut + n <= N
    BY <1>1
  <2> QED
    BY <1>2, <1>15, <2>1, PieceRows
<1>18. (Agrees(ttime, time, cut, n)) => H.rows \o T.rows = whole.rows
  <2> HAVE Agrees(ttime, time, cut, n)
  <2>1. Agrees(T.rows, whole.rows, cut, n)
    BY <1>17
  <2> QED
    BY <1>6, <1>7, <1>8, <1>16, <2>1, RowsJoin DEF n
<1>19. CASE cut = 0
  <2>1. n > 0
    BY <1>1, <1>19
  <2>2. H.first = None /\ Spanning(T)
    BY <1>7, <1>8, <1>19, <2>1
  <2>3. /\ Spanning(Import(files)) /\ Import(files).rows = T.rows
        /\ Import(files).links = Connectivity(T.rows)
    BY <2>2, ImportOfOne DEF H, T
  <2>4. H.rows \o T.rows = whole.rows
    BY <1>13, <1>14, <1>18, <1>19, <2>1
  <2>5. H.rows = <<>>
    <3>1. Len(H.rows) = 0
      BY <1>1, <1>7, <1>19, LenIs
    <3> QED
      BY <1>7, <3>1, EmptySeq
  <2>6. H.rows \o T.rows = T.rows
    BY <1>8, <2>5, ConcatEmptySeq
  <2>7. T.rows = whole.rows /\ Taken(Connectivity(T.rows), T.rows)
    BY <1>8, <2>4, <2>6, LinksOfOne
  <2> QED
    BY <1>9, <2>3, <2>7 DEF OneHistory, whole
<1>20. CASE n = 0
  <2>1. cut > 0
    BY <1>1, <1>20
  <2>2. T.first = None /\ Spanning(H)
    BY <1>7, <1>8, <1>20, <2>1
  <2>3. /\ Spanning(Import(files)) /\ Import(files).rows = H.rows
        /\ Import(files).links = Connectivity(H.rows)
    BY <2>2, ImportOfOne DEF H, T
  <2>4. H.rows \o T.rows = whole.rows
    <3>1. ~(n > 0)
      BY <1>20
    <3> QED
      BY <1>14, <1>18, <3>1
  <2>5. T.rows = <<>>
    <3>1. Len(T.rows) = 0
      BY <1>1, <1>8, <1>20, LenIs
    <3> QED
      BY <1>8, <3>1, EmptySeq
  <2>6. H.rows \o T.rows = H.rows
    BY <1>7, <2>5, ConcatEmptySeq
  <2>7. H.rows = whole.rows /\ Taken(Connectivity(H.rows), H.rows)
    BY <1>7, <2>4, <2>6, LinksOfOne
  <2> QED
    BY <1>9, <2>3, <2>7 DEF OneHistory, whole
<1>21. CASE cut > 0 /\ n > 0
  <2>1. Spanning(H) /\ Spanning(T) /\ H.first = htime[1] /\ T.first = ttime[1]
    BY <1>7, <1>8, <1>21
  <2>2. /\ Spanning(Import(files))
        /\ H.first < T.first =>
               /\ Import(files).rows = H.rows \o T.rows
               /\ Import(files).links = Connectivity(H.rows) \o Connectivity(T.rows)
    BY <2>1, ImportOfTwo DEF H, T
  <2>3. ASSUME ~Repeated(file[cut + 1].wall)
        PROVE  Import(files).rows = whole.rows /\ Taken(Import(files).links, whole.rows)
    <3>1. ttime[1] = ts[cut + 1] /\ ttime[1] = time[cut + 1]
      BY <1>13, <1>21, <2>3
    <3>2. H.rows \o T.rows = whole.rows
      BY <1>14, <1>18, <3>1
    <3>3. htime[1] = time[1]
      BY <1>11, <1>21
    <3>4. 1 \in 1 .. N /\ cut + 1 \in 1 .. N /\ 1 < cut + 1
      BY <1>1, <1>21
    <3>5. time[1] \in Nat /\ time[1] <= ts[1]
      BY <1>2, <3>4 DEF Grows
    <3>6. ts[1] \in Nat /\ ts[cut + 1] \in Nat /\ ts[1] < ts[cut + 1]
      BY <3>4 DEF Clean
    <3>7. H.first < T.first
      BY <2>1, <3>1, <3>3, <3>5, <3>6
    <3>8. Taken(Connectivity(H.rows) \o Connectivity(T.rows), H.rows \o T.rows)
      BY <1>7, <1>8, LinksOfTwo
    <3> QED
      BY <2>2, <3>2, <3>7, <3>8
  <2>4. tail # <<>> /\ tail[1] = file[cut + 1]
    <3>1. 1 \in 1 .. n
      BY <1>1, <1>21
    <3>2. DOMAIN tail = 1 .. n /\ tail[1] = file[cut + 1]
      BY <3>1 DEF Piece, n
    <3>3. DOMAIN <<>> = {}
      OBVIOUS
    <3> QED
      BY <3>1, <3>2, <3>3
  <2> QED
    BY <1>9, <2>2, <2>3, <2>4 DEF OneHistory, whole
<1> QED
  BY <1>1, <1>19, <1>20, <1>21

\* The span that --write replaces has every row that is imported.
LEMMA SpanReplaced ==
    ASSUME NEW files, Spanning(Import(files))
    PROVE  \A k \in DOMAIN Import(files).rows : Replaces(files, Import(files).rows[k].ts)
<1> DEFINE x == Import(files)
<1>1. Spanning(x)
  OBVIOUS
<1>2. \A ts : Replaces(files, ts) <=> x.first <= ts /\ ts < x.last + 1
  BY DEF Replaces
<1> HIDE DEF x
<1>3. DOMAIN x.rows = 1 .. Len(x.rows) /\ \A k \in 1 .. Len(x.rows) : x.rows[k] \in HistoryRow
  BY <1>1, LenProperties, ElementOfSeq DEF Spanning
<1>4. \A k \in 1 .. Len(x.rows) : x.first <= x.rows[k].ts /\ x.rows[k].ts < x.last + 1
  <2> TAKE k \in 1 .. Len(x.rows)
  <2>1. x.rows[k].ts \in Nat /\ x.last \in Nat
    BY <1>1, <1>3 DEF Spanning, HistoryRow
  <2>2. x.first <= x.rows[k].ts /\ x.rows[k].ts <= x.last
    BY <1>1 DEF Spanning
  <2> QED
    BY <2>1, <2>2
<1> QED
  BY <1>2, <1>3, <1>4 DEF x

HistoryFits(a) ==
    /\ \/ a.tail # <<>> /\ Repeated(a.tail[1].wall)
       \/ a.result.rows = a.whole.rows /\ Taken(a.result.links, a.whole.rows)
    /\ \A k \in DOMAIN a.result.rows : Replaces(a.files, a.result.rows[k].ts)
    /\ LinksTellStates(a.whole.rows, Connectivity(a.whole.rows))

LEMMA AskFilesFit == AskFiles => FilesMakeOneHistory'
<1> SUFFICES ASSUME AskFiles PROVE FilesMakeOneHistory'
  OBVIOUS
<1>1. PICK ts \in {ts \in Instants : Len(ts) < MaxRows} :
        \E states \in [DOMAIN ts -> RowStates], cut \in 0 .. Len(ts), swapped \in BOOLEAN :
            LET file == [i \in DOMAIN ts |-> CsvRow(ts[i], 0, states[i], "none")]
                head == SubSeq(file, 1, cut)
                tail == SubSeq(file, cut + 1, Len(file))
                files == IF swapped THEN <<tail, head>> ELSE <<head, tail>>
            IN  answer' = [of |-> "files", file |-> file, files |-> files, tail |-> tail,
                           whole |-> ReadRows(file), result |-> Import(files)]
  BY DEF AskFiles
<1>2. PICK states \in [DOMAIN ts -> RowStates], cut \in 0 .. Len(ts), swapped \in BOOLEAN :
            LET file == [i \in DOMAIN ts |-> CsvRow(ts[i], 0, states[i], "none")]
                head == SubSeq(file, 1, cut)
                tail == SubSeq(file, cut + 1, Len(file))
                files == IF swapped THEN <<tail, head>> ELSE <<head, tail>>
            IN  answer' = [of |-> "files", file |-> file, files |-> files, tail |-> tail,
                           whole |-> ReadRows(file), result |-> Import(files)]
  BY <1>1
<1> DEFINE file == [i \in DOMAIN ts |-> CsvRow(ts[i], 0, states[i], "none")]
           head == SubSeq(file, 1, cut)
           tail == SubSeq(file, cut + 1, Len(file))
           files == IF swapped THEN <<tail, head>> ELSE <<head, tail>>
<1>3. answer' = [of |-> "files", file |-> file, files |-> files, tail |-> tail,
                 whole |-> ReadRows(file), result |-> Import(files)]
  BY <1>2
<1>4. PICK N \in Nat \ {0} : DOMAIN ts = 1 .. N /\ Len(ts) = N /\ (\A i \in 1 .. N : ts[i] \in Nat)
                             /\ \A i, j \in 1 .. N : i < j => ts[i] < ts[j]
  <2>1. PICK N \in 1 .. MaxRows : ts \in [1 .. N -> 0 .. LastInstant]
    BY DEF Instants
  <2>2. N \in Nat \ {0} /\ Len(ts) = N /\ DOMAIN ts = 1 .. N
    BY <2>1, HistoryAssumption
  <2>3. \A i \in 1 .. N : ts[i] \in Nat
    BY <2>1, HistoryAssumption
  <2>4. \A i, j \in 1 .. N : i < j => ts[i] < ts[j]
    BY <2>2 DEF Instants
  <2> QED
    BY <2>2, <2>3, <2>4
<1>5. /\ DOMAIN file = 1 .. N
      /\ \A i \in 1 .. N : /\ file[i].wall = ClockOf(ts[i], 0) /\ file[i].date = TRUE
                           /\ file[i].fields = TRUE /\ file[i].state \in RowStates
  <2>1. DOMAIN file = 1 .. N
    BY <1>4
  <2>2. ASSUME NEW i \in 1 .. N
        PROVE  /\ file[i].wall = ClockOf(ts[i], 0) /\ file[i].date = TRUE
               /\ file[i].fields = TRUE /\ file[i].state \in RowStates
    <3>1. file[i] = CsvRow(ts[i], 0, states[i], "none") /\ states[i] \in RowStates
      BY <1>4
    <3>2. "none" # "date" /\ "none" # "fields"
      OBVIOUS
    <3>3. CsvRow(ts[i], 0, states[i], "none")
            = [date |-> TRUE, wall |-> ClockOf(ts[i], 0), fields |-> TRUE, state |-> states[i]]
      BY <3>2 DEF CsvRow
    <3> QED
      BY <3>1, <3>3
  <2> QED
    BY <2>1, <2>2
<1>6. Clean(ts, file, N)
  BY <1>4, <1>5 DEF Clean
<1>7. Len(file) = N
  <2>1. file = [i \in 1 .. N |-> CsvRow(ts[i], 0, states[i], "none")]
    BY <1>4
  <2> QED
    BY <2>1
<1> HIDE DEF file
<1>8. cut \in 0 .. N /\ N > 0
  BY <1>4
<1>9. head = Piece(file, 0, cut) /\ tail = Piece(file, cut, N - cut)
  <2>1. /\ N \in Nat /\ cut \in Nat /\ 0 \in Nat /\ 0 <= cut /\ cut <= N /\ N <= N
        /\ DOMAIN file = 1 .. N
    BY <1>5, <1>8
  <2>2. head = Piece(file, 0, cut)
    BY <1>8, <2>1, HeadIs
  <2>3. SubSeq(file, cut + 1, N) = Piece(file, cut, N - cut)
    <3>1. cut + 1 = cut + 1 /\ N - cut = N - cut
      OBVIOUS
    <3> QED
      BY <2>1, <3>1, PieceIs
  <2> QED
    BY <1>7, <2>2, <2>3
<1>10. files \in {<<head, tail>>, <<tail, head>>}
  OBVIOUS
<1> HIDE DEF head, tail, files
<1>11. OneHistory(file, files, tail, ReadRows(file), Import(files))
  BY <1>6, <1>8, <1>9, <1>10, CutHistory
<1>12. \A k \in DOMAIN Import(files).rows : Replaces(files, Import(files).rows[k].ts)
  BY <1>11, SpanReplaced DEF OneHistory
<1>13. /\ answer'.tail = tail /\ answer'.files = files
       /\ answer'.whole = ReadRows(file) /\ answer'.result = Import(files)
  BY <1>3
<1>14. HistoryFits(answer')
  BY <1>11, <1>12, <1>13 DEF HistoryFits, OneHistory
<1>15. FilesMakeOneHistory' = (answer'.of = "files" => HistoryFits(answer'))
  BY DEF FilesMakeOneHistory, HistoryFits, Taken
<1> QED
  BY <1>14, <1>15

\* A history that is cut into files, unless within the repeated hour, imports as
\* the whole one does, whatever order the files are given in: the same rows, and
\* of the links that are made file by file, the second of which may repeat one,
\* the builder takes those of the whole history, which tell what its rows tell.
\* The span that --write replaces holds every row.  For every change of the
\* clocks and every length of the history (to_utc, read_rows, to_events,
\* import_teslafi, _connectivity, import_teslafi_cmd).
THEOREM FilesMakeOneHistoryAlways == Spec => []FilesMakeOneHistory
<1>1. Init => FilesMakeOneHistory
  BY DEF Init, FilesMakeOneHistory
<1>2. FilesMakeOneHistory /\ [Next]_answer => FilesMakeOneHistory'
  <2> SUFFICES ASSUME FilesMakeOneHistory, [Next]_answer
               PROVE  FilesMakeOneHistory'
    OBVIOUS
  <2>1. CASE AskFiles
    BY <2>1, AskFilesFit
  <2>2. CASE AskTimes \/ AskCost \/ AskReports \/ AskMap \/ AskDrives \/ AskTelemetry
    <3>1. answer'.of # "files"
      BY <2>2, AnswersNamed
    <3> QED
      BY <3>1 DEF FilesMakeOneHistory
  <2>3. CASE UNCHANGED answer
    <3>1. FilesMakeOneHistory = (answer.of = "files" => HistoryFits(answer))
      BY DEF FilesMakeOneHistory, HistoryFits, Taken
    <3>2. FilesMakeOneHistory' = (answer'.of = "files" => HistoryFits(answer'))
      BY DEF FilesMakeOneHistory, HistoryFits, Taken
    <3>3. answer' = answer
      BY <2>3
    <3> QED
      BY <3>1, <3>2, <3>3
  <2> QED
    BY <2>1, <2>2, <2>3 DEF Next
<1> QED
  BY <1>1, <1>2, PTL DEF Spec

===============================================================================
