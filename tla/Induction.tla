----------------------------- MODULE Induction -----------------------------
(***************************************************************************)
(* Induction without a predicate as a parameter: a set of numbers that is  *)
(* not empty has a least member, so a set with 0 that is closed under the  *)
(* successor has them all, and so has a set of finite sets that has {} and *)
(* is closed under adding one element.  The set collects the numbers, or   *)
(* the sets, of which the claim holds.                                     *)
(***************************************************************************)
EXTENDS Integers, FiniteSets, WellFoundedInduction, FiniteSetTheorems, TLAPS

LEMMA Least ==
  ASSUME NEW T \in SUBSET Nat, T # {}
  PROVE  \E x \in T : \A y \in T : x <= y
<1> DEFINE R == {ss \in Nat \X Nat : ss[1] < ss[2]}
<1>1. IsWellFoundedOn(R, Nat)
  BY NatLessThanWellFounded, Zenon DEF OpToRel
<1>2. PICK x \in T : \A y \in T : ~(<<y, x>> \in R)
  <2> HIDE DEF R
  <2>1. QED
    BY <1>1, WFMin
<1>3. ASSUME NEW y \in T PROVE x <= y
  <2>1. <<y, x>> \notin R
    BY <1>2
  <2>2. ~(y < x)
    BY <2>1
  <2>3. x \in Nat /\ y \in Nat
    OBVIOUS
  <2>4. QED
    BY <2>2, <2>3
<1>4. QED
  BY <1>3

LEMMA NatSet ==
  ASSUME NEW T \in SUBSET Nat, 0 \in T, \A n \in T : n + 1 \in T
  PROVE  T = Nat
<1> SUFFICES ASSUME Nat \ T # {} PROVE FALSE
  OBVIOUS
<1>1. PICK x \in Nat \ T : \A y \in Nat \ T : x <= y
  BY Least
<1>2. x # 0 /\ x - 1 \in Nat
  OBVIOUS
<1>3. x - 1 \in T
  BY <1>1, <1>2
<1>4. QED
  BY <1>1, <1>2, <1>3

\* A family of finite subsets of S that has {} and grows by any element of S.
LEMMA FiniteSetFamily ==
  ASSUME NEW S, NEW F \in SUBSET SUBSET S, {} \in F,
         \A X \in F : \A s \in S \ X : IsFiniteSet(X) => X \cup {s} \in F
  PROVE  \A X \in SUBSET S : IsFiniteSet(X) => X \in F
<1> DEFINE T == {n \in Nat : \A X \in SUBSET S :
                    IsFiniteSet(X) /\ Cardinality(X) = n => X \in F}
<1>1. 0 \in T
  BY FS_EmptySet
<1>2. ASSUME NEW n \in T PROVE n + 1 \in T
  <2> SUFFICES ASSUME NEW X \in SUBSET S, IsFiniteSet(X), Cardinality(X) = n + 1
               PROVE  X \in F
    OBVIOUS
  <2>1. X # {}
    BY FS_EmptySet
  <2>2. PICK s \in X : TRUE
    BY <2>1
  <2>3. IsFiniteSet(X \ {s}) /\ Cardinality(X \ {s}) = n
    <3>1. IsFiniteSet(X \ {s}) /\ Cardinality(X \ {s}) = Cardinality(X) - 1
      BY <2>2, FS_RemoveElement
    <3>2. QED
      BY <3>1
  <2>4. X \ {s} \in F
    BY <2>3
  <2>5. s \in S \ (X \ {s}) /\ X \ {s} \in SUBSET S /\ (X \ {s}) \cup {s} = X
    BY <2>2
  <2>6. QED
    BY <2>3, <2>4, <2>5
<1>3. T = Nat
  <2> HIDE DEF T
  <2>1. T \in SUBSET Nat
    BY DEF T
  <2>2. QED
    BY <1>1, <1>2, <2>1, NatSet
<1>4. QED
  <2> SUFFICES ASSUME NEW X \in SUBSET S, IsFiniteSet(X) PROVE X \in F
    OBVIOUS
  <2>1. Cardinality(X) \in T
    BY <1>3, FS_CardinalityType
  <2>2. QED
    BY <2>1

\* A set that has 0, and with a number below N its successor, has all up to N.
LEMMA UpToSet ==
  ASSUME NEW N \in Nat, NEW T, 0 \in T, \A n \in 0..(N - 1) : n \in T => n + 1 \in T
  PROVE  \A n \in 0..N : n \in T
<1> DEFINE U == {n \in Nat : n <= N => n \in T}
<1>1. U \in SUBSET Nat /\ 0 \in U
  OBVIOUS
<1>2. \A n \in U : n + 1 \in U
  OBVIOUS
<1>3. U = Nat
  <2> HIDE DEF U
  <2>1. QED
    BY <1>1, <1>2, NatSet
<1>4. QED
  BY <1>3

\* A function defined by recursion on its argument exists: it starts at base,
\* and every value comes of the one before by the step of its place.
LEMMA RecursiveFunction ==
  ASSUME NEW S, NEW base \in S, NEW N \in Nat, NEW step \in [1..N -> [S -> S]]
  PROVE  \E g \in [0..N -> S] : /\ g[0] = base
                                /\ \A n \in 1..N : g[n] = step[n][g[n - 1]]
<1> DEFINE Upto(n, g) == g \in [0..n -> S] /\ g[0] = base /\ \A k \in 1..n : g[k] = step[k][g[k - 1]]
           T == {n \in 0..N : \E g : Upto(n, g)}
<1>1. 0 \in T
  <2>1. Upto(0, [k \in 0..0 |-> base])
    OBVIOUS
  <2>2. \E g : Upto(0, g)
    <3> HIDE DEF Upto
    <3>1. QED
      BY <2>1
  <2>3. 0 \in 0..N
    OBVIOUS
  <2>4. QED
    BY <2>2, <2>3
<1>2. ASSUME NEW n \in 0..(N - 1), n \in T PROVE n + 1 \in T
  <2>1. PICK g : Upto(n, g)
    BY <1>2
  <2> DEFINE h == [k \in 0..(n + 1) |-> IF k = n + 1 THEN step[n + 1][g[n]] ELSE g[k]]
  <2>2. n + 1 \in 1..N /\ step[n + 1] \in [S -> S] /\ g[n] \in S
    BY <2>1
  <2>3. h \in [0..(n + 1) -> S] /\ h[0] = base
    BY <2>1, <2>2
  <2>4. ASSUME NEW k \in 1..(n + 1) PROVE h[k] = step[k][h[k - 1]]
    <3>1. CASE k = n + 1
      <4>1. h[k] = step[k][g[k - 1]] /\ k - 1 \in 0..(n + 1) /\ k - 1 # n + 1
        BY <3>1
      <4>2. h[k - 1] = g[k - 1]
        BY <4>1
      <4>3. QED
        BY <4>1, <4>2
    <3>2. CASE k # n + 1
      <4>1. k \in 1..n /\ k - 1 \in 0..n
        BY <3>2
      <4>2. h[k] = g[k] /\ h[k - 1] = g[k - 1]
        BY <4>1
      <4>3. QED
        BY <2>1, <4>1, <4>2
    <3>3. QED
      BY <3>1, <3>2
  <2>5. Upto(n + 1, h)
    <3> HIDE DEF h
    <3>1. QED
      BY <2>3, <2>4
  <2>6. n + 1 \in 0..N
    OBVIOUS
  <2>7. QED
    BY <2>5, <2>6
<1>3. N \in T
  <2> HIDE DEF T
  <2>1. \A n \in 0..N : n \in T
    BY <1>1, <1>2, UpToSet
  <2>2. QED
    BY <2>1
<1>4. QED
  BY <1>3
=============================================================================
