------------------------- MODULE CollectionTheorems -------------------------
(***************************************************************************)
(* What the models' sums and lists do, for any data.                       *)
(*                                                                         *)
(* Sums of a function over a finite set (SumFunctionOnSet): what they are  *)
(* when a member joins, leaves or changes its value, when the set is split *)
(* or sorted into classes, and that they are monotone.  Lists: the         *)
(* selections and sorts of Arrangements, and where each item of a          *)
(* flattened or concatenated list comes from.                              *)
(*                                                                         *)
(* A sum is a recursion over subsets, and no induction principle takes an  *)
(* operator here; the induction is a set N of the sizes for which the      *)
(* claim holds, which is all of Nat because Nat is well ordered (Induct).  *)
(* Flattening recurs over the list of lists and is treated alike.          *)
(***************************************************************************)
EXTENDS Arrangements, SequencesExt, FiniteSetTheorems, FunctionTheorems,
        SequenceTheorems, WellFoundedInduction, TLAPS

-----------------------------------------------------------------------------
(* Sums.                                                                    *)

(* Multiplication of naturals is monotone.                                  *)
LEMMA Times ==
  ASSUME NEW a \in Nat, NEW b \in Nat, NEW c \in Nat, NEW d \in Nat, a <= c, b <= d
  PROVE  a * b \in Nat /\ a * b <= c * d
<1>1. PICK x \in Nat : c = a + x
  <2>1. c = a + (c - a) /\ c - a \in Nat
    OBVIOUS
  <2> QED BY <2>1
<1>2. PICK y \in Nat : d = b + y
  <2>1. d = b + (d - b) /\ d - b \in Nat
    OBVIOUS
  <2> QED BY <2>1
<1>3. c * d = a * b + a * y + x * b + x * y
  BY <1>1, <1>2
<1>4. a * b \in Nat /\ a * y \in Nat /\ x * b \in Nat /\ x * y \in Nat
  OBVIOUS
<1> QED BY <1>3, <1>4

(* Division by a positive number.                                           *)
LEMMA Division ==
  ASSUME NEW a \in Nat, NEW d \in Nat \ {0}
  PROVE  /\ a \div d \in Nat /\ a \div d <= a
         /\ d * (a \div d) \in Nat /\ d * (a \div d) <= a /\ a < d * (a \div d) + d
<1>1. a \div d \in Nat /\ a \div d <= a
  OBVIOUS
<1>2. d * (a \div d) <= a
  OBVIOUS
<1>3. a < d * (a \div d) + d
  BY SMTT(60)
<1>4. d * (a \div d) \in Nat
  BY <1>1, Times
<1> QED BY <1>1, <1>2, <1>3, <1>4

(* A later number is in no earlier interval.                                *)
LEMMA DivisionMonotone ==
  ASSUME NEW a \in Nat, NEW b \in Nat, NEW d \in Nat \ {0}, a <= b
  PROVE  a \div d <= b \div d
<1> DEFINE p == a \div d
           q == b \div d
<1>1. p \in Nat /\ q \in Nat /\ d * p <= a /\ b < d * q + d /\ d * p \in Nat /\ d * q \in Nat
  BY Division
<1> HIDE DEF p, q
<1>2. CASE q + 1 <= p
  <2>1. d * (q + 1) <= d * p
    BY <1>1, <1>2, Times
  <2>2. d * (q + 1) = d * q + d
    BY <1>1
  <2> QED BY <1>1, <2>1, <2>2
<1> QED BY <1>1, <1>2 DEF p, q

(* A nonempty set of naturals has a least member.                           *)
LEMMA Least ==
  ASSUME NEW S, S \subseteq Nat, S # {}
  PROVE \E m \in S : \A n \in S : m <= n
<1> DEFINE R == OpToRel(<, Nat)
<1>1. \A x, y \in Nat : <<x, y>> \in R <=> x < y
  BY DEF OpToRel
<1>2. IsWellFoundedOn(R, Nat)
  BY NatLessThanWellFounded
<1> HIDE DEF R
<1>3. PICK m \in S : \A n \in S : ~ (<<n, m>> \in R)
  BY <1>2, WFMin
<1>4. ASSUME NEW n \in S PROVE m <= n
  <2>1. m \in Nat /\ n \in Nat
    OBVIOUS
  <2>2. ~ n < m
    BY <1>1, <1>3, <2>1
  <2> QED BY <2>1, <2>2
<1> QED BY <1>4

(* Induction, for a set of naturals.                                        *)
LEMMA Induct ==
  ASSUME NEW S, 0 \in S, \A n \in S \cap Nat : n + 1 \in S
  PROVE Nat \subseteq S
<1> SUFFICES ASSUME NEW x \in Nat, x \notin S PROVE FALSE
  OBVIOUS
<1> DEFINE T == Nat \ S
<1>1. T \subseteq Nat /\ T # {}
  OBVIOUS
<1> HIDE DEF T
<1>2. PICK m \in T : \A n \in T : m <= n
  BY <1>1, Least
<1> USE DEF T
<1>3. m # 0 /\ m \in Nat /\ m - 1 \in Nat
  BY <1>2
<1>4. m - 1 \in S
  BY <1>2, <1>3
<1>5. m - 1 + 1 = m
  BY <1>3
<1> QED BY <1>4, <1>5, <1>2

Pick(s) == CHOOSE x \in s : TRUE

(* The recursion of SumFunctionOnSet, over a family of sets.                *)
Adds(f, F, g) ==
  g = [s \in F |-> IF s = {} THEN 0 ELSE f[Pick(s)] + g[s \ {Pick(s)}]]

Totals(f, S) == CHOOSE g : Adds(f, SUBSET S, g)

(* The sum, by its recursion.                                               *)
LEMMA SumUnfolds ==
  ASSUME NEW f, NEW S
  PROVE SumFunctionOnSet(f, S) = Totals(f, S)[S]
BY DEF SumFunctionOnSet, FoldFunctionOnSet, MapThenFoldSet, Totals, Adds, Pick

(* Without the member picked, a finite set is one smaller.                  *)
LEMMA FewerLeft ==
  ASSUME NEW R, IsFiniteSet(R), NEW s \in SUBSET R, s # {}
  PROVE /\ Pick(s) \in s
        /\ s \ {Pick(s)} \in SUBSET R
        /\ Cardinality(s) \in Nat \ {0}
        /\ Cardinality(s \ {Pick(s)}) = Cardinality(s) - 1
<1>1. Pick(s) \in s
  BY DEF Pick
<1>2. IsFiniteSet(s)
  BY FS_Subset
<1>3. Cardinality(s) \in Nat /\ Cardinality(s) # 0
  BY <1>2, FS_CardinalityType, FS_EmptySet
<1>4. Cardinality(s \ {Pick(s)}) = Cardinality(s) - 1
  BY <1>1, <1>2, FS_RemoveElement
<1> QED BY <1>1, <1>3, <1>4

UpTo(R, n) == {s \in SUBSET R : Cardinality(s) <= n}

(* Only the empty set has no members.                                       *)
LEMMA SmallestIsEmpty ==
  ASSUME NEW R, IsFiniteSet(R), NEW s \in UpTo(R, 0)
  PROVE s = {}
<1>1. IsFiniteSet(s) /\ Cardinality(s) \in Nat
  BY FS_Subset, FS_CardinalityType DEF UpTo
<1> QED BY <1>1, FS_EmptySet DEF UpTo

(* The recursion has a solution on every finite set.                        *)
LEMMA SumExists ==
  ASSUME NEW f, NEW R, IsFiniteSet(R)
  PROVE Adds(f, SUBSET R, Totals(f, R))
<1> DEFINE N == {n \in Nat : \E g : Adds(f, UpTo(R, n), g)}
<1>1. 0 \in N
  <2> DEFINE g == [s \in UpTo(R, 0) |-> 0]
  <2>1. ASSUME NEW s \in UpTo(R, 0) PROVE s = {}
    BY SmallestIsEmpty
  <2>2. Adds(f, UpTo(R, 0), g)
    BY <2>1 DEF Adds
  <2> QED BY <2>2
<1>2. ASSUME NEW n \in N PROVE n + 1 \in N
  <2>1. PICK g : Adds(f, UpTo(R, n), g)
    OBVIOUS
  <2> DEFINE h == [s \in UpTo(R, n + 1) |-> IF s = {} THEN 0 ELSE f[Pick(s)] + g[s \ {Pick(s)}]]
  <2>2. ASSUME NEW s \in UpTo(R, n) PROVE g[s] = h[s]
    <3>1. s \in UpTo(R, n + 1)
      BY FS_Subset, FS_CardinalityType DEF UpTo
    <3>2. g[s] = IF s = {} THEN 0 ELSE f[Pick(s)] + g[s \ {Pick(s)}]
      BY <2>1 DEF Adds
    <3> QED BY <3>1, <3>2
  <2>3. ASSUME NEW s \in UpTo(R, n + 1), s # {} PROVE s \ {Pick(s)} \in UpTo(R, n)
    BY <2>3, FewerLeft DEF UpTo
  <2>4. Adds(f, UpTo(R, n + 1), h)
    <3>1. ASSUME NEW s \in UpTo(R, n + 1)
          PROVE h[s] = IF s = {} THEN 0 ELSE f[Pick(s)] + h[s \ {Pick(s)}]
      <4>1. s # {} => g[s \ {Pick(s)}] = h[s \ {Pick(s)}]
        <5> HIDE DEF h
        <5> QED BY <2>2, <2>3
      <4>2. h[s] = IF s = {} THEN 0 ELSE f[Pick(s)] + g[s \ {Pick(s)}]
        OBVIOUS
      <4> HIDE DEF h
      <4> QED BY <4>1, <4>2
    <3>2. h = [s \in UpTo(R, n + 1) |-> h[s]]
      OBVIOUS
    <3> HIDE DEF h
    <3>3. [s \in UpTo(R, n + 1) |-> h[s]]
            = [s \in UpTo(R, n + 1) |-> IF s = {} THEN 0 ELSE f[Pick(s)] + h[s \ {Pick(s)}]]
      BY <3>1
    <3> QED BY <3>2, <3>3 DEF Adds
  <2> HIDE DEF h
  <2>5. n + 1 \in Nat
    OBVIOUS
  <2> QED BY <2>4, <2>5
<1> HIDE DEF N
<1>3. Nat \subseteq N
  BY <1>1, <1>2, Induct
<1>4. Cardinality(R) \in Nat
  BY FS_CardinalityType
<1>5. UpTo(R, Cardinality(R)) = SUBSET R
  BY FS_Subset DEF UpTo
<1>6. Cardinality(R) \in N
  BY <1>3, <1>4
<1> QED BY <1>5, <1>6 DEF N, Totals

(* Two solutions agree on a set whose members have the same values.         *)
LEMMA SumUnique ==
  ASSUME NEW f, NEW R, NEW e, NEW T,
         IsFiniteSet(R), T \in SUBSET R, \A x \in T : f[x] = e[x]
  PROVE Totals(f, R)[T] = Totals(e, T)[T]
<1> DEFINE g == Totals(f, R)
           h == Totals(e, T)
<1>6. IsFiniteSet(T)
  BY FS_Subset
<1>7. Adds(f, SUBSET R, g) /\ Adds(e, SUBSET T, h)
  BY <1>6, SumExists
<1> HIDE DEF g, h
<1> DEFINE N == {n \in Nat : \A s \in UpTo(T, n) : g[s] = h[s]}
<1>0. \A s \in SUBSET T : /\ g[s] = IF s = {} THEN 0 ELSE f[Pick(s)] + g[s \ {Pick(s)}]
                          /\ h[s] = IF s = {} THEN 0 ELSE e[Pick(s)] + h[s \ {Pick(s)}]
  BY <1>7 DEF Adds
<1>1. 0 \in N
  <2>1. ASSUME NEW s \in UpTo(T, 0) PROVE s = {}
    <3>1. IsFiniteSet(s) /\ Cardinality(s) \in Nat
      BY FS_Subset, FS_CardinalityType DEF UpTo
    <3> QED BY <3>1, FS_EmptySet DEF UpTo
  <2> QED BY <2>1, <1>0
<1>2. ASSUME NEW n \in N PROVE n + 1 \in N
  <2>1. ASSUME NEW s \in UpTo(T, n + 1) PROVE g[s] = h[s]
    <3>1. s \in SUBSET T
      BY DEF UpTo
    <3>2. CASE s = {}
      BY <1>0, <3>1, <3>2
    <3>3. CASE s # {}
      <4>1. s \ {Pick(s)} \in UpTo(T, n) /\ Pick(s) \in T
        BY <3>1, <3>3, <1>6, FewerLeft DEF UpTo
      <4>2. g[s \ {Pick(s)}] = h[s \ {Pick(s)}] /\ f[Pick(s)] = e[Pick(s)]
        BY <4>1
      <4> QED BY <1>0, <3>1, <3>3, <4>2
    <3> QED BY <3>2, <3>3
  <2>2. n + 1 \in Nat
    OBVIOUS
  <2> QED BY <2>1, <2>2
<1> HIDE DEF N, g, h
<1>3. Nat \subseteq N
  BY <1>1, <1>2, Induct
<1>4. Cardinality(T) \in N
  BY <1>3, <1>6, FS_CardinalityType
<1>5. T \in UpTo(T, Cardinality(T))
  BY <1>6, FS_CardinalityType DEF UpTo
<1> QED BY <1>4, <1>5 DEF N, g, h

(* A sum depends on nothing but the values it adds.                         *)
THEOREM SumSame ==
  ASSUME NEW f, NEW e, NEW S, IsFiniteSet(S), \A x \in S : f[x] = e[x]
  PROVE SumFunctionOnSet(f, S) = SumFunctionOnSet(e, S)
<1>1. S \in SUBSET S
  OBVIOUS
<1>2. Totals(f, S)[S] = Totals(e, S)[S]
  BY <1>1, SumUnique
<1> QED BY <1>2, SumUnfolds

(* The sum over a nonempty set, by the member the recursion picks.          *)
LEMMA SumStep ==
  ASSUME NEW f, NEW S, IsFiniteSet(S)
  PROVE SumFunctionOnSet(f, S) =
          IF S = {} THEN 0 ELSE f[Pick(S)] + SumFunctionOnSet(f, S \ {Pick(S)})
<1> DEFINE g == Totals(f, S)
<1>1. Adds(f, SUBSET S, g)
  BY SumExists
<1>2. \A T \in SUBSET S : g[T] = SumFunctionOnSet(f, T)
  BY SumUnique, SumUnfolds
<1> HIDE DEF g
<1>3. g[S] = IF S = {} THEN 0 ELSE f[Pick(S)] + g[S \ {Pick(S)}]
  BY <1>1 DEF Adds
<1>4. S \ {Pick(S)} \in SUBSET S /\ S \in SUBSET S
  OBVIOUS
<1> QED BY <1>2, <1>3, <1>4

(* An empty sum is zero.                                                    *)
THEOREM SumEmpty ==
  ASSUME NEW f
  PROVE SumFunctionOnSet(f, {}) = 0
<1>1. IsFiniteSet({})
  BY FS_EmptySet
<1> QED BY <1>1, SumStep

(* Any member may be taken first, and a sum of integers is one.             *)
LEMMA SumOrder ==
  ASSUME NEW R, IsFiniteSet(R), NEW f, \A x \in R : f[x] \in Int
  PROVE \A S \in SUBSET R :
          /\ SumFunctionOnSet(f, S) \in Int
          /\ \A x \in S : SumFunctionOnSet(f, S) = f[x] + SumFunctionOnSet(f, S \ {x})
<1> DEFINE Good(S) == /\ SumFunctionOnSet(f, S) \in Int
                      /\ \A x \in S : SumFunctionOnSet(f, S) = f[x] + SumFunctionOnSet(f, S \ {x})
           N == {n \in Nat : \A S \in UpTo(R, n) : Good(S)}
<1>1. 0 \in N
  <2>1. ASSUME NEW s \in UpTo(R, 0) PROVE s = {}
    BY SmallestIsEmpty
  <2>2. Good({})
    BY SumEmpty
  <2> QED BY <2>1, <2>2
<1>2. ASSUME NEW n \in N PROVE n + 1 \in N
  <2>1. ASSUME NEW S \in UpTo(R, n + 1) PROVE Good(S)
    <3>1. S \in SUBSET R /\ IsFiniteSet(S)
      BY FS_Subset DEF UpTo
    <3>2. CASE S = {}
      BY <3>2, SumEmpty
    <3>3. CASE S # {}
      <4> DEFINE y == Pick(S)
      <4>1. y \in S /\ S \ {y} \in UpTo(R, n) /\ f[y] \in Int
        BY <3>1, <3>3, FewerLeft DEF UpTo
      <4>2. SumFunctionOnSet(f, S) = f[y] + SumFunctionOnSet(f, S \ {y})
        BY <3>1, <3>3, SumStep
      <4>3. Good(S \ {y})
        BY <4>1
      <4> HIDE DEF y
      <4>4. ASSUME NEW x \in S, x # y
            PROVE SumFunctionOnSet(f, S) = f[x] + SumFunctionOnSet(f, S \ {x})
        <5>1. S \ {x} \in UpTo(R, n)
          <6>1. Cardinality(S \ {x}) = Cardinality(S) - 1 /\ Cardinality(S) \in Nat
            BY <3>1, FS_RemoveElement, FS_CardinalityType
          <6> QED BY <3>1, <6>1 DEF UpTo
        <5>2. Good(S \ {x})
          BY <5>1
        <5>3. (S \ {x}) \ {y} = (S \ {y}) \ {x}
          OBVIOUS
        <5>4. SumFunctionOnSet(f, S \ {y}) = f[x] + SumFunctionOnSet(f, (S \ {y}) \ {x})
          BY <4>3, <4>4
        <5>5. SumFunctionOnSet(f, S \ {x}) = f[y] + SumFunctionOnSet(f, (S \ {x}) \ {y})
          BY <4>1, <5>2, <4>4
        <5>6. (S \ {y}) \ {x} \in UpTo(R, n)
          <6>1. IsFiniteSet(S \ {y})
            BY <3>1, FS_RemoveElement
          <6>2. Cardinality((S \ {y}) \ {x}) <= Cardinality(S \ {y}) /\ Cardinality((S \ {y}) \ {x}) \in Nat /\ Cardinality(S \ {y}) \in Nat
            BY <6>1, FS_RemoveElement, FS_Subset, FS_CardinalityType
          <6> QED BY <4>1, <6>2 DEF UpTo
        <5>7. SumFunctionOnSet(f, (S \ {y}) \ {x}) \in Int
          BY <5>6
        <5>8. f[x] \in Int
          BY <3>1
        <5>9. SumFunctionOnSet(f, S) = f[y] + (f[x] + SumFunctionOnSet(f, (S \ {x}) \ {y}))
          BY <4>2, <5>3, <5>4
        <5> DEFINE rest == SumFunctionOnSet(f, (S \ {x}) \ {y})
        <5>10. rest \in Int
          BY <5>3, <5>7
        <5> HIDE DEF rest, Good
        <5>11. f[y] + (f[x] + rest) = f[x] + (f[y] + rest)
          BY <4>1, <5>8, <5>10
        <5> QED BY <5>5, <5>9, <5>11 DEF rest
      <4>5. SumFunctionOnSet(f, S) \in Int
        BY <4>1, <4>2, <4>3
      <4> QED BY <4>2, <4>4, <4>5
    <3> HIDE DEF Good
    <3> QED BY <3>2, <3>3
  <2>2. n + 1 \in Nat
    OBVIOUS
  <2> HIDE DEF Good
  <2> QED BY <2>1, <2>2
<1> HIDE DEF N
<1>3. Nat \subseteq N
  BY <1>1, <1>2, Induct
<1>4. Cardinality(R) \in N
  BY <1>3, FS_CardinalityType
<1>5. \A S \in SUBSET R : S \in UpTo(R, Cardinality(R))
  BY FS_Subset DEF UpTo
<1>6. \A S \in SUBSET R : Good(S)
  <2> HIDE DEF Good
  <2> QED BY <1>4, <1>5 DEF N
<1> QED BY <1>6

(* A sum of integers is an integer.                                         *)
THEOREM SumType ==
  ASSUME NEW S, IsFiniteSet(S), NEW f, \A x \in S : f[x] \in Int
  PROVE SumFunctionOnSet(f, S) \in Int
BY SumOrder

(* A sum by any one of its members.                                         *)
THEOREM SumRemove ==
  ASSUME NEW S, IsFiniteSet(S), NEW f, \A x \in S : f[x] \in Int, NEW x \in S
  PROVE SumFunctionOnSet(f, S) = f[x] + SumFunctionOnSet(f, S \ {x})
BY SumOrder

(* One more member adds its value.                                          *)
THEOREM SumAdd ==
  ASSUME NEW S, IsFiniteSet(S), NEW f, NEW x, x \notin S, \A y \in S \cup {x} : f[y] \in Int
  PROVE SumFunctionOnSet(f, S \cup {x}) = f[x] + SumFunctionOnSet(f, S)
<1>1. (S \cup {x}) \ {x} = S
  OBVIOUS
<1>2. IsFiniteSet(S \cup {x})
  BY FS_AddElement
<1> QED BY <1>1, <1>2, SumRemove

(* Smaller values of fewer members add up to less.                          *)
THEOREM SumMonotone ==
  ASSUME NEW R, IsFiniteSet(R), NEW Q \in SUBSET R, NEW f, NEW e,
         \A x \in R : e[x] \in Nat, \A x \in Q : f[x] \in Nat /\ f[x] <= e[x]
  PROVE SumFunctionOnSet(f, Q) <= SumFunctionOnSet(e, R)
<1> DEFINE Good(S) == \A T \in SUBSET (S \cap Q) : SumFunctionOnSet(f, T) <= SumFunctionOnSet(e, S)
           N == {n \in Nat : \A S \in UpTo(R, n) : Good(S)}
<1>0. ASSUME NEW S \in SUBSET R
      PROVE  SumFunctionOnSet(e, S) \in Int /\ (S \in SUBSET Q => SumFunctionOnSet(f, S) \in Int)
  <2>1. IsFiniteSet(S)
    BY FS_Subset
  <2>2. \A x \in S : e[x] \in Int /\ (x \in Q => f[x] \in Int)
    OBVIOUS
  <2> QED BY <2>1, <2>2, SumType
<1>1. 0 \in N
  <2>1. ASSUME NEW s \in UpTo(R, 0) PROVE s = {}
    BY SmallestIsEmpty
  <2>2. Good({})
    BY SumEmpty
  <2> QED BY <2>1, <2>2
<1>2. ASSUME NEW n \in N PROVE n + 1 \in N
  <2>1. ASSUME NEW S \in UpTo(R, n + 1) PROVE Good(S)
    <3>1. S \in SUBSET R /\ IsFiniteSet(S)
      BY FS_Subset DEF UpTo
    <3>2. CASE S = {}
      <4>1. \A T \in SUBSET (S \cap Q) : T = {}
        BY <3>2
      <4>2. SumFunctionOnSet(f, {}) <= SumFunctionOnSet(e, {})
        BY SumEmpty
      <4>3. ASSUME NEW T \in SUBSET (S \cap Q)
            PROVE  SumFunctionOnSet(f, T) <= SumFunctionOnSet(e, S)
        <5>1. T = {} /\ S = {}
          BY <3>2, <4>1
        <5> QED BY <4>2, <5>1
      <4> QED BY <4>3
    <3>3. CASE S # {}
      <4>1. PICK y \in S : S \ {y} \in UpTo(R, n)
        BY <3>1, <3>3, FewerLeft DEF UpTo
      <4>2. SumFunctionOnSet(e, S) = e[y] + SumFunctionOnSet(e, S \ {y})
        BY <3>1, SumRemove
      <4>3. Good(S \ {y})
        BY <4>1
      <4>4. e[y] \in Nat /\ (y \in Q => f[y] \in Nat /\ f[y] <= e[y])
        BY <3>1
      <4>5. SumFunctionOnSet(e, S) \in Int /\ SumFunctionOnSet(e, S \ {y}) \in Int
        BY <1>0, <3>1, S \ {y} \in SUBSET R
      <4>6. ASSUME NEW T \in SUBSET (S \cap Q) PROVE SumFunctionOnSet(f, T) <= SumFunctionOnSet(e, S)
        <5>1. SumFunctionOnSet(f, T) \in Int /\ SumFunctionOnSet(f, T \ {y}) \in Int
          BY <1>0, <3>1, T \in SUBSET R, T \ {y} \in SUBSET R, T \in SUBSET Q, T \ {y} \in SUBSET Q
        <5>2. CASE y \in T
          <6>1. SumFunctionOnSet(f, T) = f[y] + SumFunctionOnSet(f, T \ {y})
            <7>1. IsFiniteSet(T) /\ \A x \in T : f[x] \in Int
              BY <3>1, FS_Subset
            <7> QED BY <5>2, <7>1, SumRemove
          <6>2. SumFunctionOnSet(f, T \ {y}) <= SumFunctionOnSet(e, S \ {y})
            BY <4>3, T \ {y} \in SUBSET ((S \ {y}) \cap Q)
          <6>3. f[y] \in Nat /\ f[y] <= e[y]
            BY <4>4, <5>2
          <6> QED BY <4>2, <4>4, <4>5, <5>1, <6>1, <6>2, <6>3
        <5>3. CASE y \notin T
          <6>1. SumFunctionOnSet(f, T) <= SumFunctionOnSet(e, S \ {y})
            BY <4>3, <5>3
          <6> QED BY <4>2, <4>4, <4>5, <5>1, <6>1
        <5> QED BY <5>2, <5>3
      <4> QED BY <4>6
    <3> HIDE DEF Good
    <3> QED BY <3>2, <3>3
  <2>2. n + 1 \in Nat
    OBVIOUS
  <2> HIDE DEF Good
  <2> QED BY <2>1, <2>2
<1>3. ASSUME NEW S \in SUBSET R PROVE Good(S)
  <2> HIDE DEF N, Good
  <2>1. Cardinality(R) \in N /\ S \in UpTo(R, Cardinality(R))
    BY <1>1, <1>2, Induct, FS_CardinalityType, FS_Subset DEF UpTo
  <2> QED BY <2>1 DEF N
<1> QED BY <1>3, R \in SUBSET R, Q \in SUBSET (R \cap Q)

(* A sum of naturals is a natural.                                          *)
THEOREM SumNat ==
  ASSUME NEW S, IsFiniteSet(S), NEW f, \A x \in S : f[x] \in Nat
  PROVE SumFunctionOnSet(f, S) \in Nat
<1>1. SumFunctionOnSet(f, {}) <= SumFunctionOnSet(f, S)
  <2>1. {} \in SUBSET S
    OBVIOUS
  <2>2. \A x \in {} : f[x] \in Nat /\ f[x] <= f[x]
    OBVIOUS
  <2> QED BY <2>1, <2>2, SumMonotone
<1> QED BY <1>1, SumEmpty, SumType

(* Disjoint sets add up.                                                    *)
THEOREM SumUnion ==
  ASSUME NEW S, NEW R, IsFiniteSet(S), IsFiniteSet(R), S \cap R = {},
         NEW f, \A x \in S \cup R : f[x] \in Int
  PROVE SumFunctionOnSet(f, S \cup R) = SumFunctionOnSet(f, S) + SumFunctionOnSet(f, R)
<1> DEFINE Good(T) == SumFunctionOnSet(f, S \cup T) = SumFunctionOnSet(f, S) + SumFunctionOnSet(f, T)
           N == {n \in Nat : \A T \in UpTo(R, n) : Good(T)}
<1>0. SumFunctionOnSet(f, S) \in Int
  BY SumType
<1>1. 0 \in N
  <2>1. ASSUME NEW s \in UpTo(R, 0) PROVE s = {}
    BY SmallestIsEmpty
  <2>2. Good({})
    BY <1>0, SumEmpty, S \cup {} = S
  <2> QED BY <2>1, <2>2
<1>2. ASSUME NEW n \in N PROVE n + 1 \in N
  <2>1. ASSUME NEW T \in UpTo(R, n + 1) PROVE Good(T)
    <3>1. T \in SUBSET R /\ IsFiniteSet(T)
      BY FS_Subset DEF UpTo
    <3>2. CASE T = {}
      BY <1>0, <3>2, SumEmpty, S \cup {} = S
    <3>3. CASE T # {}
      <4>1. PICK y \in T : T \ {y} \in UpTo(R, n)
        BY <3>1, <3>3, FewerLeft DEF UpTo
      <4>2. SumFunctionOnSet(f, T) = f[y] + SumFunctionOnSet(f, T \ {y})
        BY <3>1, SumRemove
      <4>3. Good(T \ {y})
        BY <4>1
      <4>4. IsFiniteSet(S \cup T) /\ \A x \in S \cup T : f[x] \in Int
        BY <3>1, FS_Union
      <4>5. SumFunctionOnSet(f, S \cup T) = f[y] + SumFunctionOnSet(f, (S \cup T) \ {y})
        BY <4>4, SumRemove
      <4>6. (S \cup T) \ {y} = S \cup (T \ {y})
        BY <3>1
      <4>7. SumFunctionOnSet(f, T \ {y}) \in Int /\ f[y] \in Int
        BY <3>1, FS_RemoveElement, SumType
      <4> DEFINE s == SumFunctionOnSet(f, S)
                 t == SumFunctionOnSet(f, T \ {y})
      <4>8. s \in Int /\ t \in Int /\ f[y] \in Int
        BY <1>0, <4>7
      <4>9. f[y] + (s + t) = s + (f[y] + t)
        <5> HIDE DEF s, t
        <5> QED BY <4>8
      <4> QED BY <4>2, <4>3, <4>5, <4>6, <4>9
    <3> QED BY <3>2, <3>3
  <2>2. n + 1 \in Nat
    OBVIOUS
  <2> HIDE DEF Good
  <2> QED BY <2>1, <2>2
<1>3. Good(R)
  <2> HIDE DEF N, Good
  <2>1. Cardinality(R) \in N /\ R \in UpTo(R, Cardinality(R))
    BY <1>1, <1>2, Induct, FS_CardinalityType DEF UpTo
  <2> QED BY <2>1 DEF N
<1> QED BY <1>3

(* A sum by parts: g holds the sum of each of the disjoint parts of Q.      *)
THEOREM SumParts ==
  ASSUME NEW Q, IsFiniteSet(Q), NEW R, IsFiniteSet(R), NEW f, NEW part, NEW g,
         \A q \in Q : f[q] \in Int,
         \A m \in R : part[m] \in SUBSET Q /\ g[m] = SumFunctionOnSet(f, part[m]),
         \A m, n \in R : m # n => part[m] \cap part[n] = {}
  PROVE SumFunctionOnSet(g, R) = SumFunctionOnSet(f, UNION {part[m] : m \in R})
<1> DEFINE Among(M) == UNION {part[m] : m \in M}
           Good(M) == SumFunctionOnSet(g, M) = SumFunctionOnSet(f, Among(M))
           N == {n \in Nat : \A M \in UpTo(R, n) : Good(M)}
<1>1. 0 \in N
  <2>1. ASSUME NEW s \in UpTo(R, 0) PROVE s = {}
    BY SmallestIsEmpty
  <2>2. Good({})
    BY SumEmpty, Among({}) = {}
  <2> QED BY <2>1, <2>2
<1>2. ASSUME NEW n \in N PROVE n + 1 \in N
  <2>1. ASSUME NEW M \in UpTo(R, n + 1) PROVE Good(M)
    <3>1. M \in SUBSET R /\ IsFiniteSet(M)
      BY FS_Subset DEF UpTo
    <3>2. CASE M = {}
      BY <3>2, SumEmpty, Among({}) = {}
    <3>3. CASE M # {}
      <4>1. PICK y \in M : M \ {y} \in UpTo(R, n)
        BY <3>1, <3>3, FewerLeft DEF UpTo
      <4> DEFINE C == part[y]
      <4>2. g[y] = SumFunctionOnSet(f, C)
        BY <3>1
      <4>3. IsFiniteSet(C) /\ IsFiniteSet(Among(M \ {y}))
        BY <3>1, FS_Subset, C \in SUBSET Q, Among(M \ {y}) \in SUBSET Q
      <4>4. \A m \in M : g[m] \in Int
        <5>1. ASSUME NEW m \in M PROVE g[m] \in Int
          <6>1. IsFiniteSet(part[m])
            BY <3>1, FS_Subset
          <6>2. SumFunctionOnSet(f, part[m]) \in Int
            BY <3>1, <6>1, SumType
          <6> QED BY <3>1, <6>2
        <5> QED BY <5>1
      <4>5. SumFunctionOnSet(g, M) = g[y] + SumFunctionOnSet(g, M \ {y})
        BY <3>1, <4>4, SumRemove
      <4>6. Good(M \ {y})
        BY <4>1
      <4>7. Among(M) = C \cup Among(M \ {y}) /\ C \cap Among(M \ {y}) = {}
        BY <3>1
      <4>8. \A x \in C \cup Among(M \ {y}) : f[x] \in Int
        BY <3>1
      <4> HIDE DEF C, Among
      <4> DEFINE D == Among(M \ {y})
      <4>9. SumFunctionOnSet(f, C \cup D) = SumFunctionOnSet(f, C) + SumFunctionOnSet(f, D)
        <5>1. IsFiniteSet(C) /\ IsFiniteSet(D) /\ C \cap D = {} /\ \A x \in C \cup D : f[x] \in Int
          BY <4>3, <4>7, <4>8
        <5> HIDE DEF D
        <5> QED BY <5>1, SumUnion
      <4> QED BY <4>2, <4>5, <4>6, <4>7, <4>9
    <3> HIDE DEF Good
    <3> QED BY <3>2, <3>3
  <2>2. n + 1 \in Nat
    OBVIOUS
  <2> HIDE DEF Good
  <2> QED BY <2>1, <2>2
<1>3. Good(R)
  <2> HIDE DEF N, Good
  <2>1. Cardinality(R) \in N /\ R \in UpTo(R, Cardinality(R))
    BY <1>1, <1>2, Induct, FS_CardinalityType DEF UpTo
  <2> QED BY <2>1 DEF N
<1> QED BY <1>3

(* One value changes: the sum changes by as much.                           *)
THEOREM SumUpdate ==
  ASSUME NEW S, IsFiniteSet(S), NEW x \in S, NEW f, NEW g,
         \A y \in S : f[y] \in Int /\ g[y] \in Int,
         \A y \in S \ {x} : f[y] = g[y]
  PROVE SumFunctionOnSet(g, S) = (SumFunctionOnSet(f, S) - f[x]) + g[x]
<1> DEFINE rest == SumFunctionOnSet(f, S \ {x})
<1>1. IsFiniteSet(S \ {x})
  BY FS_RemoveElement
<1>2. SumFunctionOnSet(g, S \ {x}) = rest /\ rest \in Int
  BY <1>1, SumSame, SumType
<1> HIDE DEF rest
<1>3. SumFunctionOnSet(f, S) = f[x] + rest
  BY SumRemove DEF rest
<1>4. SumFunctionOnSet(g, S) = g[x] + rest
  BY <1>2, SumRemove
<1>5. (f[x] + rest) - f[x] + g[x] = g[x] + rest
  BY <1>2
<1> QED BY <1>3, <1>4, <1>5

(* Nothing adds up to nothing.                                              *)
THEOREM SumZero ==
  ASSUME NEW S, IsFiniteSet(S), NEW f, \A x \in S : f[x] = 0
  PROVE SumFunctionOnSet(f, S) = 0
<1> DEFINE N == {n \in Nat : \A T \in UpTo(S, n) : SumFunctionOnSet(f, T) = 0}
<1>1. 0 \in N
  BY SmallestIsEmpty, SumEmpty
<1>2. ASSUME NEW n \in N PROVE n + 1 \in N
  <2>1. ASSUME NEW T \in UpTo(S, n + 1) PROVE SumFunctionOnSet(f, T) = 0
    <3>1. T \in SUBSET S /\ IsFiniteSet(T)
      BY FS_Subset DEF UpTo
    <3>2. CASE T # {}
      <4>1. Pick(T) \in T /\ T \ {Pick(T)} \in UpTo(S, n)
        BY <3>1, <3>2, FewerLeft DEF UpTo
      <4>2. SumFunctionOnSet(f, T) = f[Pick(T)] + SumFunctionOnSet(f, T \ {Pick(T)})
        BY <3>1, <3>2, SumStep
      <4> QED BY <3>1, <4>1, <4>2
    <3> QED BY <3>2, SumEmpty
  <2>2. n + 1 \in Nat
    OBVIOUS
  <2> QED BY <2>1, <2>2
<1>3. S \in UpTo(S, Cardinality(S)) /\ Cardinality(S) \in N
  <2> HIDE DEF N
  <2> QED BY <1>1, <1>2, Induct, FS_CardinalityType DEF UpTo
<1> QED BY <1>3


-----------------------------------------------------------------------------
(* Arrangements: selections and sorts.                                      *)

(* R orders the members of P strictly and totally.                          *)
StrictlyOrders(R, P) ==
  /\ \A p \in P : <<p, p>> \notin R
  /\ \A p, q \in P : p # q => <<p, q>> \in R \/ <<q, p>> \in R
  /\ \A p, q, r \in P : <<p, q>> \in R /\ <<q, r>> \in R => <<p, r>> \in R

(* An arrangement of P by R: every member once, in the order.               *)
Arranges(at, P, R) ==
  /\ at \in [1..Cardinality(P) -> P]
  /\ \A i, j \in 1..Cardinality(P) : i < j => <<at[i], at[j]>> \in R
  /\ \A p \in P : \E i \in 1..Cardinality(P) : at[i] = p

(* The number of members below one tells its place: of two, the one that    *)
(* comes first has fewer below it, and so every place is taken.             *)
LEMMA Arranged ==
  ASSUME NEW P, IsFiniteSet(P), NEW R, StrictlyOrders(R, P)
  PROVE  Cardinality(P) \in Nat /\ Arranges(Arrange(P, R), P, R)
<1> DEFINE n == Cardinality(P)
           Below(p) == {q \in P : <<q, p>> \in R}
           rank == [p \in P |-> Cardinality(Below(p))]
<1>n. n \in Nat
  BY FS_CardinalityType
<1>r. \A p \in P : rank[p] = Cardinality(Below(p))
  OBVIOUS
<1> HIDE DEF rank
<1>1. ASSUME NEW p \in P PROVE IsFiniteSet(Below(p)) /\ rank[p] \in Nat /\ rank[p] <= n - 1
  <2>1. Below(p) \in SUBSET (P \ {p})
    BY DEF StrictlyOrders
  <2>2. IsFiniteSet(P \ {p}) /\ Cardinality(P \ {p}) = n - 1
    BY FS_RemoveElement
  <2> HIDE DEF Below, n
  <2>3. IsFiniteSet(Below(p)) /\ Cardinality(Below(p)) <= n - 1
    <3>1. IsFiniteSet(Below(p)) /\ Cardinality(Below(p)) <= Cardinality(P \ {p})
      BY <2>1, <2>2, FS_Subset
    <3> QED BY <2>2, <3>1
  <2>4. Cardinality(Below(p)) \in Nat
    BY <2>3, FS_CardinalityType
  <2> QED BY <1>r, <2>3, <2>4
<1>q. \A p \in P : rank[p] \in 0..(n - 1) /\ rank[p] \in Nat /\ rank[p] + 1 \in 1..n
  <2>1. \A p \in P : rank[p] \in Nat /\ rank[p] <= n - 1
    BY <1>1
  <2> HIDE DEF n
  <2> QED BY <1>n, <2>1
<1>2. ASSUME NEW p \in P, NEW q \in P, <<p, q>> \in R PROVE rank[p] < rank[q]
  <2>1. p \notin Below(p) /\ Below(p) \cup {p} \in SUBSET Below(q)
    BY <1>2 DEF StrictlyOrders
  <2>2. Cardinality(Below(p) \cup {p}) = Cardinality(Below(p)) + 1
    BY <1>1, <2>1, FS_AddElement
  <2>3. Cardinality(Below(p) \cup {p}) <= Cardinality(Below(q))
    BY <1>1, <2>1, FS_Subset
  <2>4. rank[p] \in Nat /\ rank[q] \in Nat
    BY <1>1
  <2> HIDE DEF Below
  <2> QED BY <1>r, <2>2, <2>3, <2>4
<1>3. rank \in Injection(P, 0..(n - 1))
  <2>1. rank \in [P -> 0..(n - 1)]
    <3>1. rank = [p \in P |-> rank[p]]
      BY DEF rank
    <3>2. \A p \in P : rank[p] \in 0..(n - 1)
      BY <1>q
    <3> QED BY <3>1, <3>2
  <2>2. ASSUME NEW p \in P, NEW q \in P, p # q PROVE rank[p] # rank[q]
    <3>1. rank[p] < rank[q] \/ rank[q] < rank[p]
      BY <1>2, <2>2 DEF StrictlyOrders
    <3>2. rank[p] \in Nat /\ rank[q] \in Nat
      BY <1>1
    <3> QED BY <3>1, <3>2
  <2> QED BY <2>1, <2>2, Fun_IsInj
<1>4. IsFiniteSet(0..(n - 1)) /\ Cardinality(0..(n - 1)) = n
  <2> HIDE DEF n
  <2> QED BY <1>n, FS_Interval
<1>5. rank \in Surjection(P, 0..(n - 1))
  BY <1>3, <1>4, FS_Injection
<1> DEFINE pick(k) == CHOOSE p \in P : Cardinality(Below(p)) = k - 1
           at == Arrange(P, R)
<1>6. at = [k \in 1..n |-> pick(k)]
  BY DEF Arrange
<1> HIDE DEF at, n
<1>s. \A m \in 0..(n - 1) : \E p \in P : rank[p] = m
  BY <1>5 DEF Surjection
<1>7. ASSUME NEW k \in 1..n PROVE pick(k) \in P /\ rank[pick(k)] = k - 1
  <2>1. k - 1 \in 0..(n - 1)
    BY <1>n
  <2>2. PICK p \in P : rank[p] = k - 1
    BY <1>s, <2>1
  <2>3. Cardinality(Below(p)) = k - 1
    BY <1>r, <2>2
  <2> HIDE DEF Below
  <2>4. pick(k) \in P /\ Cardinality(Below(pick(k))) = k - 1
    BY <2>3
  <2> QED BY <1>r, <2>4
<1> HIDE DEF pick
<1>8. \A k \in 1..n : at[k] \in P /\ rank[at[k]] = k - 1
  BY <1>6, <1>7
<1>9. at \in [1..n -> P]
  BY <1>6, <1>8
<1>10. ASSUME NEW i \in 1..n, NEW j \in 1..n, i < j PROVE <<at[i], at[j]>> \in R
  <2>1. /\ at[i] \in P /\ at[j] \in P
        /\ rank[at[i]] = i - 1 /\ rank[at[j]] = j - 1
    BY <1>8
  <2>2. at[i] # at[j]
    BY <1>10, <2>1
  <2>3. CASE <<at[j], at[i]>> \in R
    <3>1. rank[at[j]] < rank[at[i]]
      BY <1>2, <2>1, <2>3
    <3> QED BY <1>10, <2>1, <3>1
  <2> QED BY <2>1, <2>2, <2>3 DEF StrictlyOrders
<1>11. ASSUME NEW p \in P PROVE \E i \in 1..n : at[i] = p
  <2> DEFINE i == rank[p] + 1
  <2>1. i \in 1..n /\ i - 1 = rank[p]
    BY <1>q
  <2>2. at[i] \in P /\ rank[at[i]] = rank[p]
    BY <1>8, <2>1
  <2>3. at[i] = p
    BY <1>3, <2>2, Fun_InjectionProperties
  <2> QED BY <2>1, <2>3
<1> QED BY <1>n, <1>9, <1>10, <1>11 DEF Arranges, at, n

(* The positions of a sequence are the numbers up to its length, and as     *)
(* many.                                                                    *)
LEMMA Positions ==
  ASSUME NEW T, NEW s \in Seq(T)
  PROVE  /\ Len(s) \in Nat /\ DOMAIN s = 1..Len(s) /\ DOMAIN s \subseteq Nat
         /\ IsFiniteSet(DOMAIN s) /\ Cardinality(DOMAIN s) = Len(s)
<1>1. Len(s) \in Nat /\ DOMAIN s = 1..Len(s)
  OBVIOUS
<1> DEFINE n == Len(s)
<1> HIDE DEF n
<1>2. n \in Nat
  BY <1>1 DEF n
<1>3. IsFiniteSet(1..n) /\ Cardinality(1..n) = n
  BY <1>2, FS_Interval
<1>4. IsFiniteSet(1..Len(s)) /\ Cardinality(1..Len(s)) = Len(s)
  BY <1>3 DEF n
<1> QED BY <1>1, <1>4

(* Numbers in order: each once, increasing.                                 *)
Increases(f) == \A i, j \in DOMAIN f : i < j => f[i] < f[j]

(* InOrder lists every number of a finite set, increasing.                  *)
LEMMA Ascending ==
  ASSUME NEW S \in SUBSET Nat, IsFiniteSet(S)
  PROVE  /\ Cardinality(S) \in Nat
         /\ InOrder(S) \in [1..Cardinality(S) -> S]
         /\ Increases(InOrder(S))
         /\ \A x \in S : \E i \in 1..Cardinality(S) : InOrder(S)[i] = x
<1> DEFINE R == {pair \in S \X S : pair[1] < pair[2]}
<1>1. \A x, y \in S : <<x, y>> \in R <=> x < y
  OBVIOUS
<1>2. InOrder(S) = Arrange(S, R)
  BY DEF InOrder
<1> HIDE DEF R
<1>3. StrictlyOrders(R, S)
  BY <1>1 DEF StrictlyOrders
<1>4. Cardinality(S) \in Nat /\ Arranges(InOrder(S), S, R)
  BY <1>2, <1>3, Arranged
<1>5. InOrder(S) \in [1..Cardinality(S) -> S]
  BY <1>4 DEF Arranges
<1>6. ASSUME NEW i \in 1..Cardinality(S), NEW j \in 1..Cardinality(S), i < j
      PROVE  InOrder(S)[i] < InOrder(S)[j]
  <2>1. <<InOrder(S)[i], InOrder(S)[j]>> \in R
    BY <1>4, <1>6 DEF Arranges
  <2>2. InOrder(S)[i] \in S /\ InOrder(S)[j] \in S
    BY <1>5
  <2> QED BY <1>1, <2>1, <2>2
<1>7. DOMAIN InOrder(S) = 1..Cardinality(S)
  BY <1>5
<1> QED BY <1>4, <1>5, <1>6, <1>7 DEF Arranges, Increases

(* The positions picked, in their order, and what is picked there.          *)
PickedBy(at, s, P) ==
  /\ at \in [DOMAIN Picked(s, P) -> P] /\ Increases(at)
  /\ \A p \in P : \E k \in DOMAIN at : at[k] = p
  /\ \A k \in DOMAIN at : Picked(s, P)[k] = s[at[k]]

(* What is picked: the items at the positions, in their order, and all.     *)
LEMMA PicksAt ==
  ASSUME NEW T, NEW s \in Seq(T), NEW P \in SUBSET DOMAIN s
  PROVE  Picked(s, P) \in Seq(T) /\ \E at : PickedBy(at, s, P)
<1>1. P \in SUBSET Nat /\ DOMAIN s = 1..Len(s) /\ Len(s) \in Nat
  OBVIOUS
<1>2. IsFiniteSet(P)
  BY Positions, FS_Subset
<1> DEFINE at == InOrder(P)
           n == Cardinality(P)
<1>3. /\ n \in Nat /\ at \in [1..n -> P] /\ Increases(at)
      /\ \A x \in P : \E i \in 1..n : at[i] = x
  BY <1>1, <1>2, Ascending
<1>4. Picked(s, P) = [k \in DOMAIN at |-> s[at[k]]]
  BY DEF Picked
<1> HIDE DEF at, n
<1>5. DOMAIN at = 1..n /\ DOMAIN Picked(s, P) = 1..n
  BY <1>3, <1>4
<1>6. \A k \in 1..n : Picked(s, P)[k] = s[at[k]] /\ Picked(s, P)[k] \in T
  BY <1>3, <1>4, <1>5
<1>7. Picked(s, P) \in Seq(T)
  BY <1>3, <1>4, <1>5, <1>6
<1>8. PickedBy(at, s, P)
  BY <1>3, <1>5, <1>6 DEF PickedBy
<1> QED BY <1>7, <1>8

(* The same, for positions of a set.                                        *)
LEMMA Picks ==
  ASSUME NEW T, NEW s \in Seq(T), NEW P \in SUBSET DOMAIN s
  PROVE  /\ Picked(s, P) \in Seq(T)
         /\ \E at \in [DOMAIN Picked(s, P) -> P] :
              /\ Increases(at)
              /\ \A p \in P : \E k \in DOMAIN at : at[k] = p
              /\ \A k \in DOMAIN at : Picked(s, P)[k] = s[at[k]]
<1>1. Picked(s, P) \in Seq(T) /\ \E at : PickedBy(at, s, P)
  BY PicksAt
<1> QED BY <1>1 DEF PickedBy

(* An order of all positions of s, those of larger keys first, and those of *)
(* one key as they came.                                                    *)
Downs(at, s, key) ==
  /\ at \in [DOMAIN s -> DOMAIN s]
  /\ \A p \in DOMAIN s : \E k \in DOMAIN s : at[k] = p
  /\ \A i, j \in DOMAIN s :
       i < j => key[at[i]] > key[at[j]] \/ (key[at[i]] = key[at[j]] /\ at[i] < at[j])

(* A stable sort: the items of s in such an order.                          *)
LEMMA Sorts ==
  ASSUME NEW T, NEW s \in Seq(T), NEW key \in [DOMAIN s -> Int]
  PROVE  /\ Descending(s, key) \in Seq(T) /\ DOMAIN Descending(s, key) = DOMAIN s
         /\ \E at : Downs(at, s, key) /\ \A k \in DOMAIN s : Descending(s, key)[k] = s[at[k]]
<1> DEFINE P == DOMAIN s
           R == {pair \in P \X P : \/ key[pair[1]] > key[pair[2]]
                                   \/ key[pair[1]] = key[pair[2]] /\ pair[1] < pair[2]}
           n == Len(s)
<1>1. P = 1..n /\ n \in Nat
  OBVIOUS
<1>2. \A p, q \in P : <<p, q>> \in R <=> key[p] > key[q] \/ (key[p] = key[q] /\ p < q)
  OBVIOUS
<1>3. Downward(s, key) = Arrange(P, R)
  BY DEF Downward
<1>4. IsFiniteSet(P) /\ Cardinality(P) = n
  BY Positions
<1> HIDE DEF R, n
<1>5. StrictlyOrders(R, P)
  <2>1. \A p \in P : key[p] \in Int /\ p \in Int
    BY <1>1
  <2> HIDE DEF P
  <2>2. \A p \in P : <<p, p>> \notin R
    BY <1>2, <2>1
  <2>3. ASSUME NEW p \in P, NEW q \in P, p # q PROVE <<p, q>> \in R \/ <<q, p>> \in R
    <3>1. key[p] > key[q] \/ key[q] > key[p] \/ (key[p] = key[q] /\ (p < q \/ q < p))
      BY <2>1, <2>3
    <3> QED BY <1>2, <3>1
  <2>4. ASSUME NEW p \in P, NEW q \in P, NEW r \in P, <<p, q>> \in R, <<q, r>> \in R
        PROVE  <<p, r>> \in R
    <3>1. key[p] > key[q] \/ (key[p] = key[q] /\ p < q)
      BY <1>2, <2>4
    <3>2. key[q] > key[r] \/ (key[q] = key[r] /\ q < r)
      BY <1>2, <2>4
    <3>3. key[p] > key[r] \/ (key[p] = key[r] /\ p < r)
      BY <2>1, <3>1, <3>2
    <3> QED BY <1>2, <3>3
  <2> QED BY <2>2, <2>3, <2>4 DEF StrictlyOrders
<1> DEFINE at == Downward(s, key)
<1>6. Arranges(at, P, R)
  BY <1>3, <1>4, <1>5, Arranged
<1>7. Descending(s, key) = [k \in P |-> s[at[k]]]
  BY DEF Descending
<1> HIDE DEF at
<1>8. at \in [P -> P] /\ \A p \in P : \E k \in P : at[k] = p
  BY <1>1, <1>4, <1>6 DEF Arranges
<1>9. \A i, j \in P : i < j => <<at[i], at[j]>> \in R
  BY <1>1, <1>4, <1>6 DEF Arranges
<1>10. ASSUME NEW i \in P, NEW j \in P, i < j
       PROVE  key[at[i]] > key[at[j]] \/ (key[at[i]] = key[at[j]] /\ at[i] < at[j])
  <2>1. at[i] \in P /\ at[j] \in P
    BY <1>8
  <2>2. <<at[i], at[j]>> \in R
    BY <1>9, <1>10
  <2> HIDE DEF P
  <2> QED BY <1>2, <2>1, <2>2
<1>11. \A k \in P : Descending(s, key)[k] = s[at[k]] /\ Descending(s, key)[k] \in T
  <2>1. \A k \in P : at[k] \in P
    BY <1>8
  <2>2. \A k \in P : s[k] \in T
    BY <1>1, ElementOfSeq
  <2> HIDE DEF P
  <2> QED BY <1>7, <2>1, <2>2
<1>12. Descending(s, key) \in Seq(T) /\ DOMAIN Descending(s, key) = P
  BY <1>1, <1>7, <1>11
<1>13. Downs(at, s, key)
  BY <1>8, <1>10 DEF Downs
<1> QED BY <1>11, <1>12, <1>13

-----------------------------------------------------------------------------
(* Sequences of sequences.                                                  *)

Regrouped(a, b, c) == (a \o b) \o c = a \o (b \o c)

(* Concatenation is associative.                                            *)
LEMMA Regroups ==
  ASSUME NEW S, NEW a \in Seq(S), NEW b \in Seq(S), NEW c \in Seq(S)
  PROVE  Regrouped(a, b, c)
BY ConcatAssociative, SMTT(20) DEF Regrouped

(* Where the elements of two sequences stand in their concatenation.        *)
Joined(a, b, c, S) ==
  /\ c \in Seq(S) /\ Len(c) = Len(a) + Len(b)
  /\ \A i \in 1..Len(a) : c[i] = a[i]
  /\ \A i \in 1..Len(b) : c[Len(a) + i] = b[i]

(* What a concatenation is made of.                                         *)
LEMMA JoinedIs ==
  ASSUME NEW S, NEW a \in Seq(S), NEW b \in Seq(S)
  PROVE  Joined(a, b, a \o b, S)
<1> DEFINE c == a \o b
<1>1. /\ c \in Seq(S) /\ Len(c) = Len(a) + Len(b)
      /\ \A i \in 1..Len(a) : c[i] = a[i]
      /\ \A i \in 1..Len(b) : c[Len(a) + i] = b[i]
  BY ConcatProperties
<1> HIDE DEF c
<1> QED BY <1>1 DEF Joined, c

(* The recursion of FlattenSeq.                                             *)
Joins(s, f) == f = [i \in 1..Len(s) |-> IF i = 1 THEN s[i] ELSE f[i - 1] \o s[i]]

(* It has a solution.                                                       *)
LEMMA JoinsExists ==
  ASSUME NEW s
  PROVE  \A n \in Nat : Len(s) = n => \E f : Joins(s, f)
<1> DEFINE Up(f, n) == f = [i \in 1..n |-> IF i = 1 THEN s[i] ELSE f[i - 1] \o s[i]]
           N == {n \in Nat : \E f : Up(f, n)}
<1>1. 0 \in N
  <2>1. Up([i \in {} |-> i], 0)
    OBVIOUS
  <2> QED BY <2>1
<1>2. ASSUME NEW n \in N \cap Nat PROVE n + 1 \in N
  <2>1. PICK f : Up(f, n)
    OBVIOUS
  <2>2. \A i \in 1..n : f[i] = IF i = 1 THEN s[i] ELSE f[i - 1] \o s[i]
    BY <2>1
  <2> DEFINE g == [i \in 1..(n + 1) |->
                     IF i <= n THEN f[i] ELSE IF i = 1 THEN s[i] ELSE f[i - 1] \o s[i]]
  <2>7. n + 1 \in 1..(n + 1) /\ ~ n + 1 <= n /\ n + 1 - 1 = n
    OBVIOUS
  <2>8. \A i \in 1..n : i \in 1..(n + 1) /\ i <= n
    OBVIOUS
  <2>9. \A i \in 1..n : g[i] = f[i]
    BY <2>8
  <2>10. g[n + 1] = IF n + 1 = 1 THEN s[n + 1] ELSE f[n + 1 - 1] \o s[n + 1]
    BY <2>7
  <2>6. /\ \A i \in 1..n : g[i] = f[i] /\ i \in 1..(n + 1)
        /\ g[n + 1] = IF n + 1 = 1 THEN s[n + 1] ELSE f[n] \o s[n + 1]
    BY <2>7, <2>8, <2>9, <2>10
  <2>4. g = [i \in 1..(n + 1) |-> g[i]]
    OBVIOUS
  <2> HIDE DEF g
  <2>3. ASSUME NEW i \in 1..(n + 1)
        PROVE  g[i] = IF i = 1 THEN s[i] ELSE g[i - 1] \o s[i]
    <3>1. CASE i = 1
      BY <2>2, <2>6, <3>1
    <3>2. CASE i # 1 /\ i <= n
      <4>1. i \in 1..n /\ i - 1 \in 1..n
        BY <3>2
      <4> QED BY <2>2, <2>6, <3>2, <4>1
    <3>3. CASE i # 1 /\ i = n + 1
      <4>1. i - 1 \in 1..n /\ i - 1 = n
        BY <3>3
      <4> QED BY <2>6, <3>3, <4>1
    <3> QED BY <3>1, <3>2, <3>3
  <2>5. Up(g, n + 1)
    BY <2>3, <2>4
  <2> HIDE DEF Up
  <2> QED BY <2>5
<1> HIDE DEF N
<1>3. Nat \subseteq N
  BY <1>1, <1>2, Induct
<1> QED BY <1>3 DEF N, Joins

(* Two solutions for lists that start alike agree as far.                   *)
LEMMA JoinsAgree ==
  ASSUME NEW s, NEW t, NEW f, NEW g, Joins(s, f), Joins(t, g),
         Len(s) \in Nat, Len(t) \in Nat, Len(s) <= Len(t), \A i \in 1..Len(s) : s[i] = t[i]
  PROVE  \A i \in 1..Len(s) : f[i] = g[i]
<1> DEFINE N == {n \in Nat : n \in 1..Len(s) => f[n] = g[n]}
<1>1. /\ \A i \in 1..Len(s) : f[i] = IF i = 1 THEN s[i] ELSE f[i - 1] \o s[i]
      /\ \A i \in 1..Len(t) : g[i] = IF i = 1 THEN t[i] ELSE g[i - 1] \o t[i]
  BY DEF Joins
<1>2. Len(s) \in Nat /\ Len(t) \in Nat
  OBVIOUS
<1>3. 0 \in N
  BY <1>2
<1>4. ASSUME NEW n \in N \cap Nat PROVE n + 1 \in N
  <2> SUFFICES ASSUME n + 1 \in 1..Len(s) PROVE f[n + 1] = g[n + 1]
    OBVIOUS
  <2>1. n + 1 \in 1..Len(t) /\ s[n + 1] = t[n + 1]
    BY <1>2
  <2>2. CASE n = 0
    BY <1>1, <2>1, <2>2
  <2>3. CASE n # 0
    <3>1. n \in 1..Len(s) /\ n + 1 - 1 = n /\ n + 1 # 1
      BY <1>2, <2>3
    <3>2. f[n] = g[n]
      BY <3>1
    <3> QED BY <1>1, <2>1, <3>1, <3>2
  <2> QED BY <2>2, <2>3
<1> HIDE DEF N
<1>5. Nat \subseteq N
  BY <1>3, <1>4, Induct
<1> QED BY <1>2, <1>5 DEF N

(* FlattenSeq, by its recursion.                                            *)
LEMMA FlatIs ==
  ASSUME NEW X, NEW s \in Seq(X)
  PROVE  \E f : Joins(s, f) /\ FlattenSeq(s) = IF s = <<>> THEN <<>> ELSE f[Len(s)]
<1> DEFINE f == CHOOSE f : Joins(s, f)
<1>1. Len(s) \in Nat /\ (Len(s) = 0 <=> s = <<>>)
  OBVIOUS
<1>2. Joins(s, f)
  BY <1>1, JoinsExists
<1>3. FlattenSeq(s) = IF Len(s) = 0 THEN s ELSE f[Len(s)]
  BY DEF FlattenSeq, Joins
<1> HIDE DEF f
<1> QED BY <1>1, <1>2, <1>3

(* Nothing is made of nothing.                                              *)
LEMMA FlatEmpty == FlattenSeq(<<>>) = <<>>
<1>1. <<>> \in Seq({})
  OBVIOUS
<1> QED BY <1>1, FlatIs

(* One more list is put at the end.                                         *)
LEMMA FlatAppend ==
  ASSUME NEW T, NEW s \in Seq(Seq(T)), NEW x \in Seq(T)
  PROVE  FlattenSeq(Append(s, x)) = FlattenSeq(s) \o x
<1> DEFINE t == Append(s, x)
           n == Len(s)
<1>1. t \in Seq(Seq(T)) /\ n \in Nat /\ Len(t) = n + 1 /\ t # <<>> /\ t[n + 1] = x
  BY AppendProperties, LenProperties
<1>2. \A i \in 1..n : s[i] = t[i]
  BY AppendProperties
<1>0. n = Len(s) /\ (n = 0 <=> s = <<>>)
  OBVIOUS
<1> HIDE DEF t, n
<1>3. PICK f : Joins(s, f) /\ FlattenSeq(s) = IF s = <<>> THEN <<>> ELSE f[n]
  BY <1>0, FlatIs
<1>4. PICK g : Joins(t, g) /\ FlattenSeq(t) = g[n + 1]
  BY <1>1, FlatIs
<1>5. g[n + 1] = IF n + 1 = 1 THEN t[n + 1] ELSE g[n + 1 - 1] \o t[n + 1]
  <2>1. n + 1 \in 1..Len(t)
    BY <1>1
  <2>2. \A i \in 1..Len(t) : g[i] = IF i = 1 THEN t[i] ELSE g[i - 1] \o t[i]
    BY <1>4 DEF Joins
  <2> HIDE DEF Joins
  <2> QED BY <1>1, <2>1, <2>2
<1>6. CASE n = 0
  <2>1. s = <<>> /\ g[n + 1] = x
    BY <1>0, <1>1, <1>5, <1>6
  <2>2. <<>> \o x = x
    OBVIOUS
  <2> QED BY <1>3, <1>4, <2>1, <2>2 DEF t
<1>7. CASE n # 0
  <2>1. s # <<>> /\ n \in 1..n /\ n + 1 - 1 = n /\ n + 1 # 1 /\ n <= n + 1
    BY <1>0, <1>1, <1>7
  <2>4. Len(s) <= Len(t)
    BY <1>0, <1>1, <2>1
  <2>5. Joins(s, f) /\ Joins(t, g) /\ \A i \in 1..Len(s) : s[i] = t[i]
    BY <1>0, <1>2, <1>3, <1>4
  <2>2. \A i \in 1..Len(s) : f[i] = g[i]
    <3>1. Len(s) \in Nat /\ Len(t) \in Nat
      BY <1>0, <1>1
    <3> QED BY <3>1, <2>4, <2>5, JoinsAgree, SMTT(20)
  <2>3. f[n] = g[n]
    BY <1>0, <2>1, <2>2
  <2> QED BY <1>1, <1>3, <1>4, <1>5, <2>1, <2>3 DEF t
<1> QED BY <1>6, <1>7

(* It is a list of the items.                                               *)
LEMMA FlatType ==
  ASSUME NEW T
  PROVE  \A s \in Seq(Seq(T)) : FlattenSeq(s) \in Seq(T)
<1> DEFINE N == {n \in Nat : \A s \in Seq(Seq(T)) : Len(s) = n => FlattenSeq(s) \in Seq(T)}
<1>1. 0 \in N
  <2>1. ASSUME NEW s \in Seq(Seq(T)), Len(s) = 0 PROVE FlattenSeq(s) \in Seq(T)
    <3>1. s = <<>>
      BY <2>1
    <3> QED BY <3>1, FlatEmpty, EmptySeq
  <2> QED BY <2>1
<1>2. ASSUME NEW n \in N \cap Nat PROVE n + 1 \in N
  <2>1. ASSUME NEW s \in Seq(Seq(T)), Len(s) = n + 1 PROVE FlattenSeq(s) \in Seq(T)
    <3>1. s # <<>>
      BY <2>1
    <3>2. PICK r \in Seq(Seq(T)), x \in Seq(T) : s = Append(r, x)
      BY <3>1, SequenceEmptyOrAppend
    <3>3. Len(r) = n
      BY <2>1, <3>2
    <3>4. FlattenSeq(r) \in Seq(T)
      BY <3>3
    <3> QED BY <3>2, <3>4, FlatAppend, ConcatProperties
  <2> QED BY <2>1
<1> HIDE DEF N
<1>3. Nat \subseteq N
  BY <1>1, <1>2, Induct
<1>4. \A s \in Seq(Seq(T)) : Len(s) \in Nat
  OBVIOUS
<1> QED BY <1>3, <1>4 DEF N

(* Two lists of lists, one after the other.                                 *)
LEMMA FlatConcat ==
  ASSUME NEW T, NEW s \in Seq(Seq(T))
  PROVE  \A t \in Seq(Seq(T)) : FlattenSeq(s \o t) = FlattenSeq(s) \o FlattenSeq(t)
<1> DEFINE N == {n \in Nat : \A t \in Seq(Seq(T)) :
                   Len(t) = n => FlattenSeq(s \o t) = FlattenSeq(s) \o FlattenSeq(t)}
<1>0. FlattenSeq(s) \in Seq(T)
  BY FlatType
<1>1. 0 \in N
  <2>1. ASSUME NEW t \in Seq(Seq(T)), Len(t) = 0
        PROVE  FlattenSeq(s \o t) = FlattenSeq(s) \o FlattenSeq(t)
    <3>1. t = <<>>
      BY <2>1
    <3>2. s \o <<>> = s
      BY ConcatEmptySeq
    <3>3. FlattenSeq(s) \o <<>> = FlattenSeq(s)
      BY <1>0, ConcatEmptySeq
    <3> QED BY <3>1, <3>2, <3>3, FlatEmpty
  <2> QED BY <2>1
<1>2. ASSUME NEW n \in N \cap Nat PROVE n + 1 \in N
  <2>1. ASSUME NEW t \in Seq(Seq(T)), Len(t) = n + 1
        PROVE  FlattenSeq(s \o t) = FlattenSeq(s) \o FlattenSeq(t)
    <3>1. t # <<>>
      BY <2>1
    <3>2. PICK r \in Seq(Seq(T)), x \in Seq(T) : t = Append(r, x)
      BY <3>1, SequenceEmptyOrAppend
    <3>3. Len(r) = n
      BY <2>1, <3>2
    <3>4. FlattenSeq(s \o r) = FlattenSeq(s) \o FlattenSeq(r)
      BY <3>3
    <3> HIDE DEF N
    <3>5. s \o t = Append(s \o r, x) /\ s \o r \in Seq(Seq(T))
      <4>1. t = r \o <<x>> /\ Append(s \o r, x) = (s \o r) \o <<x>> /\ s \o r \in Seq(Seq(T))
        BY <3>2, AppendIsConcat
      <4>2. <<x>> \in Seq(Seq(T))
        OBVIOUS
      <4>3. (s \o r) \o <<x>> = s \o (r \o <<x>>)
        <5> DEFINE y == <<x>>
        <5>1. y \in Seq(Seq(T))
          BY <4>2
        <5> HIDE DEF y
        <5>2. Regrouped(s, r, y)
          BY <5>1, Regroups
        <5> QED BY <5>2 DEF y, Regrouped
      <4> QED BY <4>1, <4>3
    <3>6. FlattenSeq(s \o t) = FlattenSeq(s \o r) \o x
      BY <3>5, FlatAppend
    <3>7. FlattenSeq(t) = FlattenSeq(r) \o x
      BY <3>2, FlatAppend
    <3>8. FlattenSeq(r) \in Seq(T)
      BY FlatType
    <3>9. (FlattenSeq(s) \o FlattenSeq(r)) \o x = FlattenSeq(s) \o (FlattenSeq(r) \o x)
      <4> DEFINE u == FlattenSeq(s)
                 v == FlattenSeq(r)
      <4>1. u \in Seq(T) /\ v \in Seq(T)
        BY <1>0, <3>8
      <4> HIDE DEF u, v
      <4>2. Regrouped(u, v, x)
        BY <4>1, Regroups
      <4> QED BY <4>2 DEF u, v, Regrouped
    <3> QED BY <3>4, <3>6, <3>7, <3>9
  <2> QED BY <2>1
<1> HIDE DEF N
<1>3. Nat \subseteq N
  BY <1>1, <1>2, Induct
<1>4. \A t \in Seq(Seq(T)) : Len(t) \in Nat
  OBVIOUS
<1> QED BY <1>3, <1>4 DEF N

(* One list of lists is that list.                                          *)
LEMMA FlatOne ==
  ASSUME NEW T, NEW x \in Seq(T)
  PROVE  FlattenSeq(<<x>>) = x
<1>1. <<>> \in Seq(Seq(T)) /\ <<x>> = Append(<<>>, x)
  OBVIOUS
<1>2. FlattenSeq(<<x>>) = FlattenSeq(<<>>) \o x
  BY <1>1, FlatAppend
<1>3. <<>> \o x = x
  BY ConcatEmptySeq
<1> QED BY <1>2, <1>3, FlatEmpty

(* The first list comes first.                                              *)
LEMMA FlatHead ==
  ASSUME NEW T, NEW s \in Seq(Seq(T)), s # <<>>
  PROVE  FlattenSeq(s) = Head(s) \o FlattenSeq(Tail(s))
<1>1. Head(s) \in Seq(T) /\ Tail(s) \in Seq(Seq(T)) /\ <<Head(s)>> \in Seq(Seq(T))
  BY HeadTailProperties
<1>2. s = <<Head(s)>> \o Tail(s)
  OBVIOUS
<1>3. FlattenSeq(<<Head(s)>> \o Tail(s)) = FlattenSeq(<<Head(s)>>) \o FlattenSeq(Tail(s))
  BY <1>1, FlatConcat
<1> QED BY <1>1, <1>2, <1>3, FlatOne

Flats(ss) == [k \in DOMAIN ss |-> FlattenSeq(ss[k])]

(* Three levels may be flattened from within or from without.               *)
LEMMA FlatFlat ==
  ASSUME NEW T
  PROVE  \A ss \in Seq(Seq(Seq(T))) :
           /\ Flats(ss) \in Seq(Seq(T))
           /\ FlattenSeq(FlattenSeq(ss)) = FlattenSeq(Flats(ss))
<1>1. ASSUME NEW ss \in Seq(Seq(Seq(T)))
      PROVE  Flats(ss) \in Seq(Seq(T)) /\ Len(Flats(ss)) = Len(ss)
  <2>1. \A k \in 1..Len(ss) : ss[k] \in Seq(Seq(T))
    OBVIOUS
  <2>2. \A k \in 1..Len(ss) : FlattenSeq(ss[k]) \in Seq(T)
    BY <2>1, FlatType
  <2>3. DOMAIN ss = 1..Len(ss) /\ Len(ss) \in Nat
    OBVIOUS
  <2> QED BY <2>2, <2>3 DEF Flats
<1> DEFINE N == {n \in Nat : \A ss \in Seq(Seq(Seq(T))) :
                   Len(ss) = n => FlattenSeq(FlattenSeq(ss)) = FlattenSeq(Flats(ss))}
<1>2. 0 \in N
  <2>1. ASSUME NEW ss \in Seq(Seq(Seq(T))), Len(ss) = 0
        PROVE  FlattenSeq(FlattenSeq(ss)) = FlattenSeq(Flats(ss))
    <3>1. ss = <<>>
      BY <2>1
    <3>2. Flats(ss) = <<>>
      <4>1. Flats(ss) \in Seq(Seq(T)) /\ Len(Flats(ss)) = 0
        BY <1>1, <2>1
      <4> QED BY <4>1, EmptySeq
    <3> QED BY <3>1, <3>2, FlatEmpty
  <2> QED BY <2>1
<1>3. ASSUME NEW n \in N \cap Nat PROVE n + 1 \in N
  <2>1. ASSUME NEW ss \in Seq(Seq(Seq(T))), Len(ss) = n + 1
        PROVE  FlattenSeq(FlattenSeq(ss)) = FlattenSeq(Flats(ss))
    <3>1. ss # <<>>
      BY <2>1
    <3>2. PICK r \in Seq(Seq(Seq(T))), x \in Seq(Seq(T)) : ss = Append(r, x)
      BY <3>1, SequenceEmptyOrAppend
    <3>3. Len(r) = n
      BY <2>1, <3>2
    <3>4. FlattenSeq(FlattenSeq(r)) = FlattenSeq(Flats(r))
      BY <3>3
    <3>5. FlattenSeq(ss) = FlattenSeq(r) \o x /\ FlattenSeq(r) \in Seq(Seq(T))
      BY <3>2, FlatAppend, FlatType
    <3>6. FlattenSeq(FlattenSeq(ss)) = FlattenSeq(FlattenSeq(r)) \o FlattenSeq(x)
      BY <3>5, FlatConcat
    <3>7. FlattenSeq(x) \in Seq(T) /\ Flats(r) \in Seq(Seq(T)) /\ Len(Flats(r)) = n
      BY <1>1, <3>3, FlatType
    <3>8. Flats(ss) = Append(Flats(r), FlattenSeq(x))
      <4>1. DOMAIN ss = 1..(n + 1) /\ DOMAIN r = 1..n /\ n \in Nat
        BY <2>1, <3>3
      <4>2. /\ Append(Flats(r), FlattenSeq(x)) \in Seq(Seq(T))
            /\ Len(Append(Flats(r), FlattenSeq(x))) = n + 1
        BY <3>7, AppendProperties
      <4>3. Flats(ss) \in Seq(Seq(T)) /\ Len(Flats(ss)) = n + 1
        BY <1>1, <2>1
      <4>4. ASSUME NEW k \in 1..(n + 1) PROVE Flats(ss)[k] = Append(Flats(r), FlattenSeq(x))[k]
        <5>1. Flats(ss)[k] = FlattenSeq(ss[k])
          BY <4>1 DEF Flats
        <5>2. CASE k = n + 1
          <6>1. ss[k] = x
            BY <3>2, <3>3, <5>2, AppendProperties
          <6>2. Append(Flats(r), FlattenSeq(x))[k] = FlattenSeq(x)
            BY <3>7, <5>2, AppendProperties
          <6> QED BY <5>1, <6>1, <6>2
        <5>3. CASE k # n + 1
          <6>0. k \in 1..n
            BY <4>1, <5>3
          <6>1. ss[k] = r[k]
            BY <3>2, <3>3, <6>0, AppendProperties
          <6>2. Append(Flats(r), FlattenSeq(x))[k] = Flats(r)[k]
            BY <3>7, <6>0, AppendProperties
          <6>3. Flats(r)[k] = FlattenSeq(r[k])
            BY <4>1, <6>0 DEF Flats
          <6> QED BY <5>1, <6>1, <6>2, <6>3
        <5> QED BY <5>2, <5>3
      <4> QED BY <4>2, <4>3, <4>4, SeqEqual
    <3>9. FlattenSeq(Flats(ss)) = FlattenSeq(Flats(r)) \o FlattenSeq(x)
      BY <3>7, <3>8, FlatAppend
    <3> QED BY <3>4, <3>6, <3>9
  <2> QED BY <2>1
<1> HIDE DEF N
<1>4. Nat \subseteq N
  BY <1>2, <1>3, Induct
<1>5. \A ss \in Seq(Seq(Seq(T))) : Len(ss) \in Nat
  OBVIOUS
<1> QED BY <1>1, <1>4, <1>5 DEF N

(* Where an item of a flattened list comes from: its row and its place in   *)
(* it, in the order of both; nothing is left out.                           *)
Places(s, F, row, col) ==
  /\ row \in [1..Len(F) -> 1..Len(s)] /\ col \in [1..Len(F) -> Nat \ {0}]
  /\ \A p \in 1..Len(F) : col[p] <= Len(s[row[p]]) /\ F[p] = s[row[p]][col[p]]
  /\ \A p, q \in 1..Len(F) : p < q => row[p] < row[q] \/ (row[p] = row[q] /\ col[p] < col[q])
  /\ \A k \in 1..Len(s) : \A j \in 1..Len(s[k]) :
       \E p \in 1..Len(F) : row[p] = k /\ col[p] = j

(* Every item of a flattened list of lists has a row and a column it came   *)
(* from, and every row and column its place, in the order of the rows.      *)
LEMMA FlatPlaces ==
  ASSUME NEW T
  PROVE  \A s \in Seq(Seq(T)) : \E row, col : Places(s, FlattenSeq(s), row, col)
<1> DEFINE Good(s) == \E row, col : Places(s, FlattenSeq(s), row, col)
           N == {n \in Nat : \A s \in Seq(Seq(T)) : Len(s) = n => Good(s)}
<1>1. 0 \in N
  <2>1. ASSUME NEW s \in Seq(Seq(T)), Len(s) = 0 PROVE Good(s)
    <3>1. FlattenSeq(s) = <<>>
      BY <2>1, FlatEmpty
    <3>2. Places(s, <<>>, [p \in {} |-> p], [p \in {} |-> p])
      BY <2>1 DEF Places
    <3> QED BY <3>1, <3>2
  <2> HIDE DEF Good
  <2> QED BY <2>1
<1>2. ASSUME NEW n \in N \cap Nat PROVE n + 1 \in N
  <2>1. ASSUME NEW s \in Seq(Seq(T)), Len(s) = n + 1 PROVE Good(s)
    <3>1. s # <<>>
      BY <2>1
    <3>2. PICK r \in Seq(Seq(T)), x \in Seq(T) : s = Append(r, x)
      BY <3>1, SequenceEmptyOrAppend
    <3>3. Len(r) = n
      BY <2>1, <3>2
    <3> DEFINE F == FlattenSeq(r)
               G == FlattenSeq(s)
               m == Len(F)
    <3>4. PICK row, col : Places(r, F, row, col)
      BY <3>3
    <3>5. F \in Seq(T) /\ m \in Nat /\ G = F \o x /\ Len(x) \in Nat
      BY <3>2, FlatAppend, FlatType
    <3> HIDE DEF F, G, N, Good
    <3>6. /\ Len(G) = m + Len(x)
          /\ \A p \in 1..m : G[p] = F[p]
          /\ \A j \in 1..Len(x) : G[m + j] = x[j]
      BY <3>5, ConcatProperties
    <3>7. s[n + 1] = x /\ \A k \in 1..n : s[k] = r[k]
      BY <3>2, <3>3, AppendProperties
    <3> HIDE DEF m
    <3> DEFINE row2 == [p \in 1..Len(G) |-> IF p <= m THEN row[p] ELSE n + 1]
               col2 == [p \in 1..Len(G) |-> IF p <= m THEN col[p] ELSE p - m]
    <3>8. /\ row \in [1..m -> 1..n] /\ col \in [1..m -> Nat \ {0}]
          /\ \A p \in 1..m : col[p] <= Len(r[row[p]]) /\ F[p] = r[row[p]][col[p]]
          /\ \A p, q \in 1..m : p < q => row[p] < row[q] \/ (row[p] = row[q] /\ col[p] < col[q])
          /\ \A k \in 1..n : \A j \in 1..Len(r[k]) :
               \E p \in 1..m : row[p] = k /\ col[p] = j
      BY <3>3, <3>4 DEF Places, m
    <3>9. \A p \in 1..Len(G) : \/ p \in 1..m /\ row2[p] = row[p] /\ col2[p] = col[p]
                               \/ /\ p \in (m + 1)..Len(G) /\ p - m \in 1..Len(x)
                                  /\ row2[p] = n + 1 /\ col2[p] = p - m
      BY <3>5, <3>6
    <3>10. row2 \in [1..Len(G) -> 1..(n + 1)] /\ col2 \in [1..Len(G) -> Nat \ {0}]
      <4>0. row2 = [p \in 1..Len(G) |-> row2[p]] /\ col2 = [p \in 1..Len(G) |-> col2[p]]
        OBVIOUS
      <4> HIDE DEF row2, col2
      <4>1. ASSUME NEW p \in 1..Len(G) PROVE row2[p] \in 1..(n + 1) /\ col2[p] \in Nat \ {0}
        <5>1. CASE p \in 1..m /\ row2[p] = row[p] /\ col2[p] = col[p]
          <6>1. row[p] \in 1..n /\ col[p] \in Nat \ {0}
            BY <3>8, <5>1
          <6> QED BY <5>1, <6>1
        <5>2. CASE p - m \in 1..Len(x) /\ row2[p] = n + 1 /\ col2[p] = p - m
          BY <5>2
        <5> QED BY <3>9, <5>1, <5>2
      <4> QED BY <4>0, <4>1
    <3> HIDE DEF row2, col2
    <3>11. ASSUME NEW p \in 1..Len(G)
           PROVE  col2[p] <= Len(s[row2[p]]) /\ G[p] = s[row2[p]][col2[p]]
      <4>1. CASE p \in 1..m /\ row2[p] = row[p] /\ col2[p] = col[p]
        <5>1. row[p] \in 1..n
          BY <3>8, <4>1
        <5>2. col[p] <= Len(r[row[p]]) /\ F[p] = r[row[p]][col[p]]
          BY <3>8, <4>1
        <5>3. s[row[p]] = r[row[p]] /\ G[p] = F[p]
          BY <3>6, <3>7, <4>1, <5>1
        <5> QED BY <4>1, <5>2, <5>3
      <4>2. CASE p - m \in 1..Len(x) /\ row2[p] = n + 1 /\ col2[p] = p - m
        <5>1. m + (p - m) = p
          BY <3>5
        <5>2. s[row2[p]] = x /\ p - m <= Len(x)
          BY <3>5, <3>7, <4>2
        <5>3. G[p] = x[p - m]
          BY <3>6, <4>2, <5>1
        <5> QED BY <4>2, <5>2, <5>3
      <4> QED BY <3>9, <4>1, <4>2
    <3>12. ASSUME NEW p \in 1..Len(G), NEW q \in 1..Len(G), p < q
           PROVE  row2[p] < row2[q] \/ (row2[p] = row2[q] /\ col2[p] < col2[q])
      <4>1. CASE q \in 1..m
        <5>1. p \in 1..m /\ row2[p] = row[p] /\ col2[p] = col[p] /\ row2[q] = row[q] /\ col2[q] = col[q]
          BY <3>5, <3>9, <3>12, <4>1
        <5> QED BY <3>8, <3>12, <4>1, <5>1
      <4>2. CASE q \notin 1..m
        <5>1. row2[q] = n + 1 /\ col2[q] = q - m
          BY <3>9, <4>2
        <5>2. CASE p \in 1..m
          <6>1. row2[p] = row[p]
            BY <3>5, <3>9, <5>2
          <6>2. row[p] \in 1..n
            BY <3>8, <5>2
          <6> QED BY <5>1, <6>1, <6>2
        <5>3. CASE p \notin 1..m
          <6>1. row2[p] = n + 1 /\ col2[p] = p - m
            BY <3>9, <5>3
          <6> QED BY <3>5, <3>12, <5>1, <6>1
        <5> QED BY <5>2, <5>3
      <4> QED BY <4>1, <4>2
    <3>13. ASSUME NEW k \in 1..(n + 1), NEW j \in 1..Len(s[k])
           PROVE  \E p \in 1..Len(G) : row2[p] = k /\ col2[p] = j
      <4>1. CASE k = n + 1
        <5>1. j \in 1..Len(x) /\ m + j \in 1..Len(G) /\ m + j \notin 1..m
          <6>1. j \in 1..Len(x)
            <7>1. s[k] = x
              BY <3>7, <4>1
            <7> QED BY <7>1
          <6>2. Len(G) = m + Len(x) /\ m \in Nat /\ Len(x) \in Nat
            BY <3>5, <3>6
          <6> HIDE DEF row2, col2
          <6> QED BY <6>1, <6>2
        <5>2. row2[m + j] = n + 1 /\ col2[m + j] = (m + j) - m
          BY <3>9, <5>1
        <5>3. (m + j) - m = j
          BY <3>5
        <5> QED BY <4>1, <5>1, <5>2, <5>3
      <4>2. CASE k # n + 1
        <5>1. k \in 1..n
          BY <4>2
        <5>2. j \in 1..Len(r[k])
          BY <3>7, <5>1
        <5>3. PICK p \in 1..m : row[p] = k /\ col[p] = j
          BY <3>8, <5>1, <5>2
        <5>4. p \in 1..Len(G)
          BY <3>5, <3>6
        <5>5. row2[p] = row[p] /\ col2[p] = col[p]
          BY <3>5, <3>9, <5>4
        <5> QED BY <5>3, <5>4, <5>5
      <4> QED BY <4>1, <4>2
    <3>14. Places(s, G, row2, col2)
      BY <2>1, <3>10, <3>11, <3>12, <3>13 DEF Places
    <3> QED BY <3>14 DEF G, Good
  <2> HIDE DEF Good
  <2> QED BY <2>1
<1> HIDE DEF N
<1>3. Nat \subseteq N
  BY <1>1, <1>2, Induct
<1>4. \A s \in Seq(Seq(T)) : Len(s) \in Nat
  OBVIOUS
<1> QED BY <1>3, <1>4 DEF N

(* What a flattened list holds.                                             *)
LEMMA FlatRange ==
  ASSUME NEW T, NEW s \in Seq(Seq(T))
  PROVE  /\ FlattenSeq(s) \in Seq(T)
         /\ \A x : x \in Range(FlattenSeq(s)) <=> \E k \in DOMAIN s : x \in Range(s[k])
<1> DEFINE F == FlattenSeq(s)
<1>1. F \in Seq(T) /\ DOMAIN F = 1..Len(F) /\ DOMAIN s = 1..Len(s) /\ Len(F) \in Nat
  BY FlatType
<1>2. PICK row, col : Places(s, F, row, col)
  BY FlatPlaces
<1>3. \A k \in 1..Len(s) : s[k] \in Seq(T) /\ DOMAIN s[k] = 1..Len(s[k]) /\ Len(s[k]) \in Nat
  BY ElementOfSeq
<1> HIDE DEF F
<1>4. ASSUME NEW x, x \in Range(F) PROVE \E k \in DOMAIN s : x \in Range(s[k])
  <2>1. PICK p \in 1..Len(F) : x = F[p]
    BY <1>1, <1>4 DEF Range
  <2>2. /\ row[p] \in 1..Len(s) /\ col[p] \in Nat \ {0} /\ col[p] <= Len(s[row[p]])
        /\ F[p] = s[row[p]][col[p]]
    BY <1>2 DEF Places
  <2>3. col[p] \in DOMAIN s[row[p]]
    BY <1>3, <2>2
  <2>4. x \in Range(s[row[p]])
    BY <2>1, <2>2, <2>3 DEF Range
  <2> QED BY <1>1, <2>2, <2>4
<1>5. ASSUME NEW x, NEW k \in DOMAIN s, x \in Range(s[k]) PROVE x \in Range(F)
  <2>1. k \in 1..Len(s)
    BY <1>1
  <2>2. PICK j \in 1..Len(s[k]) : x = s[k][j]
    BY <1>3, <1>5, <2>1 DEF Range
  <2>3. PICK p \in 1..Len(F) : row[p] = k /\ col[p] = j
    BY <1>2, <2>1 DEF Places
  <2>4. F[p] = x
    BY <1>2, <2>2, <2>3 DEF Places
  <2> QED BY <1>1, <2>4 DEF Range
<1> QED BY <1>1, <1>4, <1>5 DEF F

(* Lists without repetitions and with nothing in common have none together. *)
LEMMA FlatInjective ==
  ASSUME NEW T, NEW s \in Seq(Seq(T)),
         \A k \in DOMAIN s : IsInjective(s[k]),
         \A k, l \in DOMAIN s : k # l => Range(s[k]) \cap Range(s[l]) = {}
  PROVE  IsInjective(FlattenSeq(s))
<1> DEFINE F == FlattenSeq(s)
<1>1. DOMAIN F = 1..Len(F) /\ DOMAIN s = 1..Len(s) /\ Len(F) \in Nat
  BY FlatType
<1>2. PICK row, col : Places(s, F, row, col)
  BY FlatPlaces
<1>3. \A k \in 1..Len(s) : DOMAIN s[k] = 1..Len(s[k]) /\ Len(s[k]) \in Nat
  BY ElementOfSeq
<1> HIDE DEF F
<1>4. \A p \in 1..Len(F) : /\ row[p] \in DOMAIN s /\ col[p] \in DOMAIN s[row[p]]
                           /\ row[p] \in Nat /\ col[p] \in Nat /\ F[p] = s[row[p]][col[p]]
  <2>1. ASSUME NEW p \in 1..Len(F)
        PROVE  /\ row[p] \in DOMAIN s /\ col[p] \in DOMAIN s[row[p]]
               /\ row[p] \in Nat /\ col[p] \in Nat /\ F[p] = s[row[p]][col[p]]
    <3>1. /\ row[p] \in 1..Len(s) /\ col[p] \in Nat \ {0} /\ col[p] <= Len(s[row[p]])
          /\ F[p] = s[row[p]][col[p]]
      BY <1>2 DEF Places
    <3> QED BY <1>1, <1>3, <3>1
  <2> QED BY <2>1
<1>5. ASSUME NEW p \in 1..Len(F), NEW q \in 1..Len(F), F[p] = F[q] PROVE p = q
  <2>1. row[p] = row[q]
    <3>1. F[p] \in Range(s[row[p]]) /\ F[p] \in Range(s[row[q]])
      BY <1>4, <1>5 DEF Range
    <3> QED BY <1>4, <3>1
  <2>2. col[p] = col[q]
    <3> DEFINE k == row[p]
               x == col[p]
               y == col[q]
    <3>1. k \in DOMAIN s /\ x \in DOMAIN s[k] /\ y \in DOMAIN s[k] /\ s[k][x] = s[k][y]
      BY <1>4, <1>5, <2>1
    <3> HIDE DEF k, x, y
    <3>2. x = y
      BY <3>1 DEF IsInjective
    <3> QED BY <3>2 DEF x, y
  <2>3. \A x, y \in 1..Len(F) : x < y => row[x] < row[y] \/ (row[x] = row[y] /\ col[x] < col[y])
    BY <1>2 DEF Places
  <2>4. ~(p < q) /\ ~(q < p)
    <3>1. row[p] \in Nat /\ col[p] \in Nat /\ ~(row[p] < row[p]) /\ ~(col[p] < col[p])
      BY <1>4
    <3> QED BY <2>1, <2>2, <2>3, <3>1
  <2> QED BY <1>1, <2>4
<1> QED BY <1>1, <1>5 DEF IsInjective, F

(* A flattened list without repetitions has none within its rows, and none  *)
(* between them.                                                            *)
LEMMA FlatApart ==
  ASSUME NEW T, NEW s \in Seq(Seq(T)), IsInjective(FlattenSeq(s))
  PROVE  /\ \A k \in DOMAIN s : IsInjective(s[k])
         /\ \A k, l \in DOMAIN s : k # l => Range(s[k]) \cap Range(s[l]) = {}
<1> DEFINE F == FlattenSeq(s)
<1>1. DOMAIN F = 1..Len(F) /\ DOMAIN s = 1..Len(s)
  BY FlatType
<1>2. PICK row, col : Places(s, F, row, col)
  BY FlatPlaces
<1>3. \A k \in DOMAIN s : DOMAIN s[k] = 1..Len(s[k])
  BY ElementOfSeq
<1>p. \A k \in 1..Len(s) : \A j \in 1..Len(s[k]) : \E p \in 1..Len(F) : row[p] = k /\ col[p] = j
  BY <1>2 DEF Places
<1> HIDE DEF F
<1>4. ASSUME NEW k \in DOMAIN s, NEW l \in DOMAIN s, NEW i \in DOMAIN s[k], NEW j \in DOMAIN s[l],
             s[k][i] = s[l][j]
      PROVE  k = l /\ i = j
  <2>1. k \in 1..Len(s) /\ l \in 1..Len(s) /\ i \in 1..Len(s[k]) /\ j \in 1..Len(s[l])
    BY <1>1, <1>3
  <2>2. PICK p \in 1..Len(F) : row[p] = k /\ col[p] = i
    BY <1>p, <2>1
  <2>3. PICK q \in 1..Len(F) : row[q] = l /\ col[q] = j
    BY <1>p, <2>1
  <2>4. F[p] = s[k][i] /\ F[q] = s[l][j]
    BY <1>2, <2>2, <2>3 DEF Places
  <2>5. p = q
    BY <1>1, <1>4, <2>4 DEF IsInjective, F
  <2> QED BY <2>2, <2>3, <2>5
<1>5. \A k \in DOMAIN s : IsInjective(s[k])
  BY <1>4 DEF IsInjective
<1>6. ASSUME NEW k \in DOMAIN s, NEW l \in DOMAIN s, k # l, NEW x \in Range(s[k]) \cap Range(s[l])
      PROVE  FALSE
  <2>1. PICK i \in DOMAIN s[k] : x = s[k][i]
    BY DEF Range
  <2>2. PICK j \in DOMAIN s[l] : x = s[l][j]
    BY DEF Range
  <2> QED BY <1>4, <1>6, <2>1, <2>2
<1> QED BY <1>5, <1>6

(* Two lists in a row.                                                      *)
LEMMA ConcatIs ==
  ASSUME NEW T, NEW s \in Seq(T), NEW t \in Seq(T)
  PROVE  /\ s \o t \in Seq(T) /\ Range(s \o t) = Range(s) \cup Range(t)
         /\ IsInjective(s \o t) <=>
              IsInjective(s) /\ IsInjective(t) /\ Range(s) \cap Range(t) = {}
<1> DEFINE c == s \o t
           a == Len(s)
           b == Len(t)
<1>1. /\ c \in Seq(T) /\ Len(c) = a + b /\ a \in Nat /\ b \in Nat
      /\ DOMAIN s = 1..a /\ DOMAIN t = 1..b /\ DOMAIN c = 1..Len(c)
      /\ \A i \in 1..a : c[i] = s[i]
      /\ \A j \in 1..b : c[a + j] = t[j]
  BY ConcatProperties
<1>2. Range(c) = Range(s) \cup Range(t)
  BY RangeConcatenation
<1> HIDE DEF a, b, c
<1>3. ASSUME IsInjective(c) PROVE IsInjective(s) /\ IsInjective(t) /\ Range(s) \cap Range(t) = {}
  <2>1. \A i \in 1..a : i \in DOMAIN c
    BY <1>1
  <2>2. \A j \in 1..b : a + j \in DOMAIN c
    BY <1>1
  <2>3. IsInjective(s)
    BY <1>1, <1>3, <2>1 DEF IsInjective
  <2>4. IsInjective(t)
    <3> SUFFICES ASSUME NEW i \in 1..b, NEW j \in 1..b, t[i] = t[j] PROVE i = j
      BY <1>1 DEF IsInjective
    <3>1. a + i = a + j
      BY <1>1, <1>3, <2>2 DEF IsInjective
    <3> QED BY <1>1, <3>1
  <2>5. ASSUME NEW i \in 1..a, NEW j \in 1..b, s[i] = t[j] PROVE FALSE
    <3>1. i = a + j
      BY <1>1, <1>3, <2>1, <2>2, <2>5 DEF IsInjective
    <3> QED BY <1>1, <3>1
  <2>6. Range(s) \cap Range(t) = {}
    BY <1>1, <2>5 DEF Range
  <2> QED BY <2>3, <2>4, <2>6
<1>4. ASSUME IsInjective(s), IsInjective(t), Range(s) \cap Range(t) = {} PROVE IsInjective(c)
  <2> SUFFICES ASSUME NEW i \in DOMAIN c, NEW j \in DOMAIN c, c[i] = c[j] PROVE i = j
    BY DEF IsInjective
  <2>1. \A k \in DOMAIN c : \/ k \in 1..a /\ c[k] = s[k]
                            \/ k - a \in 1..b /\ c[k] = t[k - a]
    <3>1. ASSUME NEW k \in DOMAIN c
          PROVE  \/ k \in 1..a /\ c[k] = s[k]
                 \/ k - a \in 1..b /\ c[k] = t[k - a]
      <4>1. CASE k \in 1..a
        BY <1>1, <4>1
      <4>2. CASE k \notin 1..a
        <5>1. k - a \in 1..b /\ a + (k - a) = k
          BY <1>1, <4>2
        <5> QED BY <1>1, <5>1
      <4> QED BY <4>1, <4>2
    <3> QED BY <3>1
  <2>2. ASSUME NEW k \in 1..a, NEW l \in 1..b, s[k] = t[l] PROVE FALSE
    BY <1>1, <1>4, <2>2 DEF Range
  <2>3. CASE i \in 1..a /\ c[i] = s[i] /\ j \in 1..a /\ c[j] = s[j]
    BY <1>1, <1>4, <2>3 DEF IsInjective
  <2>4. CASE i \in 1..a /\ c[i] = s[i] /\ j - a \in 1..b /\ c[j] = t[j - a]
    BY <2>2, <2>4
  <2>5. CASE i - a \in 1..b /\ c[i] = t[i - a] /\ j \in 1..a /\ c[j] = s[j]
    BY <2>2, <2>5
  <2>6. CASE i - a \in 1..b /\ c[i] = t[i - a] /\ j - a \in 1..b /\ c[j] = t[j - a]
    <3>1. i - a = j - a
      BY <1>1, <1>4, <2>6 DEF IsInjective
    <3> QED BY <1>1, <3>1
  <2> QED BY <2>1, <2>3, <2>4, <2>5, <2>6
<1> QED BY <1>1, <1>2, <1>3, <1>4 DEF c

(* Numbers in order, as a list.                                             *)
LEMMA InOrderIs ==
  ASSUME NEW S \in SUBSET Nat, IsFiniteSet(S)
  PROVE  InOrder(S) \in Seq(S) /\ Range(InOrder(S)) = S /\ IsInjective(InOrder(S))
<1> DEFINE q == InOrder(S)
           n == Cardinality(S)
<1>1. /\ n \in Nat /\ q \in [1..n -> S] /\ Increases(q)
      /\ \A x \in S : \E i \in 1..n : q[i] = x
  BY Ascending
<1> HIDE DEF q, n
<1>2. q \in Seq(S) /\ DOMAIN q = 1..n
  BY <1>1
<1>3. Range(q) = S
  BY <1>1, <1>2 DEF Range
<1>4. ASSUME NEW i \in 1..n, NEW j \in 1..n, q[i] = q[j] PROVE i = j
  <2>1. q[i] \in Nat
    BY <1>1
  <2>2. ~(i < j) /\ ~(j < i)
    BY <1>1, <1>2, <1>4, <2>1 DEF Increases
  <2> QED BY <2>2
<1> QED BY <1>2, <1>3, <1>4 DEF IsInjective, q

(* What is picked by position.                                              *)
LEMMA PickedIs ==
  ASSUME NEW T, NEW s \in Seq(T), NEW P \in SUBSET DOMAIN s
  PROVE  /\ Picked(s, P) \in Seq(T)
         /\ Range(Picked(s, P)) = {s[p] : p \in P}
         /\ IsInjective(s) => IsInjective(Picked(s, P))
<1> DEFINE q == Picked(s, P)
<1>0. q = Picked(s, P)
  OBVIOUS
<1> HIDE DEF q
<1>1. PICK at \in [DOMAIN q -> P] :
              /\ Increases(at)
              /\ \A p \in P : \E k \in DOMAIN at : at[k] = p
              /\ \A k \in DOMAIN at : q[k] = s[at[k]]
  <2>1. PICK at : PickedBy(at, s, P)
    BY PicksAt
  <2> QED BY <1>0, <2>1 DEF PickedBy
<1>2. q \in Seq(T) /\ DOMAIN q = 1..Len(q) /\ Len(q) \in Nat
  <2>1. q \in Seq(T)
    BY <1>0, PicksAt
  <2> QED BY <2>1
<1>3. \A k \in 1..Len(q) : at[k] \in P /\ at[k] \in Nat
  BY <1>1, <1>2, Positions
<1>4. Range(q) = {s[p] : p \in P}
  BY <1>1, <1>2, <1>3 DEF Range
<1>5. ASSUME IsInjective(s), NEW i \in 1..Len(q), NEW j \in 1..Len(q), q[i] = q[j] PROVE i = j
  <2>1. at[i] = at[j]
    BY <1>1, <1>2, <1>3, <1>5 DEF IsInjective
  <2>2. ~(i < j) /\ ~(j < i)
    <3>1. \A x, y \in 1..Len(q) : x < y => at[x] < at[y]
      BY <1>1, <1>2 DEF Increases
    <3> QED BY <1>3, <2>1, <3>1
  <2> QED BY <1>2, <2>2
<1> QED BY <1>2, <1>4, <1>5 DEF IsInjective, q

(* A sorted list holds what it sorts.                                       *)
LEMMA SortedRange ==
  ASSUME NEW T, NEW s \in Seq(T), NEW key \in [DOMAIN s -> Int]
  PROVE  Descending(s, key) \in Seq(T) /\ Range(Descending(s, key)) = Range(s)
<1> DEFINE q == Descending(s, key)
<1>1. q \in Seq(T) /\ DOMAIN q = DOMAIN s
  BY Sorts
<1>2. PICK at : Downs(at, s, key) /\ \A k \in DOMAIN s : q[k] = s[at[k]]
  BY Sorts
<1>3. /\ \A k \in DOMAIN s : at[k] \in DOMAIN s
      /\ \A p \in DOMAIN s : \E k \in DOMAIN s : at[k] = p
  BY <1>2 DEF Downs
<1> HIDE DEF q
<1>4. ASSUME NEW x \in Range(q) PROVE x \in Range(s)
  <2>1. PICK k \in DOMAIN s : x = q[k]
    BY <1>1 DEF Range
  <2> QED BY <1>2, <1>3, <2>1 DEF Range
<1>5. ASSUME NEW x \in Range(s) PROVE x \in Range(q)
  <2>1. PICK p \in DOMAIN s : x = s[p]
    BY DEF Range
  <2>2. PICK k \in DOMAIN s : at[k] = p
    BY <1>3
  <2> QED BY <1>1, <1>2, <2>1, <2>2 DEF Range
<1> QED BY <1>1, <1>4, <1>5 DEF q

(* Two lists of one length, with related items at each place.               *)
Along(x, y, R) == Len(x) = Len(y) /\ \A j \in 1..Len(x) : <<x[j], y[j]>> \in R

(* Lists that are related row by row are so when flattened.                 *)
LEMMA FlatAlong ==
  ASSUME NEW T, NEW U, NEW R
  PROVE  \A s \in Seq(Seq(T)) : \A t \in Seq(Seq(U)) :
           (Len(s) = Len(t) /\ \A k \in 1..Len(s) : Along(s[k], t[k], R))
             => Along(FlattenSeq(s), FlattenSeq(t), R)
<1> DEFINE Rows(s, t) == Len(s) = Len(t) /\ \A k \in 1..Len(s) : Along(s[k], t[k], R)
           N == {n \in Nat : \A s \in Seq(Seq(T)) : \A t \in Seq(Seq(U)) :
                   Len(s) = n /\ Rows(s, t) => Along(FlattenSeq(s), FlattenSeq(t), R)}
<1>1. 0 \in N
  <2> SUFFICES ASSUME NEW s \in Seq(Seq(T)), NEW t \in Seq(Seq(U)), Len(s) = 0, Rows(s, t)
               PROVE  Along(FlattenSeq(s), FlattenSeq(t), R)
    OBVIOUS
  <2>1. s = <<>> /\ t = <<>>
    OBVIOUS
  <2> QED BY <2>1, FlatEmpty DEF Along
<1>2. ASSUME NEW n \in N \cap Nat PROVE n + 1 \in N
  <2> SUFFICES ASSUME NEW s \in Seq(Seq(T)), NEW t \in Seq(Seq(U)), Len(s) = n + 1, Rows(s, t)
               PROVE  Along(FlattenSeq(s), FlattenSeq(t), R)
    OBVIOUS
  <2>1. s # <<>> /\ t # <<>> /\ Len(t) = n + 1
    OBVIOUS
  <2>2. PICK r \in Seq(Seq(T)), x \in Seq(T) : s = Append(r, x)
    BY <2>1, SequenceEmptyOrAppend
  <2>3. PICK q \in Seq(Seq(U)), y \in Seq(U) : t = Append(q, y)
    BY <2>1, SequenceEmptyOrAppend
  <2>4. /\ Len(r) = n /\ Len(q) = n /\ s[n + 1] = x /\ t[n + 1] = y
        /\ \A k \in 1..n : s[k] = r[k] /\ t[k] = q[k]
    BY <2>1, <2>2, <2>3, AppendProperties
  <2>5. Along(x, y, R) /\ Rows(r, q)
    BY <2>4
  <2>6. Along(FlattenSeq(r), FlattenSeq(q), R)
    BY <2>4, <2>5
  <2> DEFINE F == FlattenSeq(r)
             G == FlattenSeq(q)
  <2>7. /\ FlattenSeq(s) = F \o x /\ FlattenSeq(t) = G \o y
        /\ F \in Seq(T) /\ G \in Seq(U)
    BY <2>2, <2>3, FlatAppend, FlatType
  <2> HIDE DEF F, G, N, Rows
  <2>8. Along(F \o x, G \o y, R)
    <3> DEFINE m == Len(F)
    <3>1. /\ Len(F \o x) = m + Len(x) /\ Len(G \o y) = Len(G) + Len(y)
          /\ m \in Nat /\ Len(x) \in Nat
          /\ \A i \in 1..m : (F \o x)[i] = F[i]
          /\ \A i \in 1..Len(G) : (G \o y)[i] = G[i]
          /\ \A i \in 1..Len(x) : (F \o x)[m + i] = x[i]
          /\ \A i \in 1..Len(y) : (G \o y)[Len(G) + i] = y[i]
      <4>1. Joined(F, x, F \o x, T) /\ Joined(G, y, G \o y, U)
        BY <2>7, JoinedIs
      <4>2. m \in Nat /\ Len(x) \in Nat
        BY <2>7
      <4> QED BY <4>1, <4>2 DEF Joined
    <3>2. m = Len(G) /\ Len(x) = Len(y) /\ Len(F \o x) = Len(G \o y)
      BY <2>5, <2>6, <3>1 DEF Along, F, G
    <3>3. ASSUME NEW j \in 1..Len(F \o x) PROVE <<(F \o x)[j], (G \o y)[j]>> \in R
      <4>1. CASE j \in 1..m
        <5>1. <<F[j], G[j]>> \in R
          BY <2>6, <4>1 DEF Along, F, G
        <5> QED BY <3>1, <3>2, <4>1, <5>1
      <4>2. CASE j \notin 1..m
        <5>1. j - m \in 1..Len(x) /\ m + (j - m) = j
          BY <3>1, <4>2
        <5>2. (F \o x)[j] = x[j - m] /\ (G \o y)[j] = y[j - m]
          BY <3>1, <3>2, <5>1
        <5>3. <<x[j - m], y[j - m]>> \in R
          BY <2>5, <5>1 DEF Along
        <5> QED BY <5>2, <5>3
      <4> QED BY <4>1, <4>2
    <3> QED BY <3>2, <3>3 DEF Along
  <2> QED BY <2>7, <2>8
<1> HIDE DEF N
<1>3. Nat \subseteq N
  BY <1>1, <1>2, Induct
<1>4. ASSUME NEW s \in Seq(Seq(T)), NEW t \in Seq(Seq(U)), Rows(s, t)
      PROVE  Along(FlattenSeq(s), FlattenSeq(t), R)
  <2>1. Len(s) \in N
    BY <1>3
  <2> QED BY <1>4, <2>1 DEF N
<1> QED BY <1>4

(* A list of singletons.                                                    *)
LEMMA FlatSingles ==
  ASSUME NEW T
  PROVE  \A s \in Seq(T) : /\ [k \in DOMAIN s |-> <<s[k]>>] \in Seq(Seq(T))
                           /\ FlattenSeq([k \in DOMAIN s |-> <<s[k]>>]) = s
<1> DEFINE One(s) == [k \in DOMAIN s |-> <<s[k]>>]
<1>1. ASSUME NEW s \in Seq(T)
      PROVE  /\ One(s) \in Seq(Seq(T)) /\ Len(One(s)) = Len(s)
             /\ \A k \in 1..Len(s) : One(s)[k] = <<s[k]>>
  <2>1. DOMAIN s = 1..Len(s) /\ Len(s) \in Nat /\ \A k \in 1..Len(s) : <<s[k]>> \in Seq(T)
    BY ElementOfSeq
  <2> QED BY <2>1
<1> HIDE DEF One
<1> DEFINE N == {n \in Nat : \A s \in Seq(T) : Len(s) = n => FlattenSeq(One(s)) = s}
<1>2. 0 \in N
  <2> SUFFICES ASSUME NEW s \in Seq(T), Len(s) = 0 PROVE FlattenSeq(One(s)) = s
    OBVIOUS
  <2>1. s = <<>>
    OBVIOUS
  <2>2. One(s) = <<>>
    <3>1. One(s) \in Seq(Seq(T)) /\ Len(One(s)) = 0
      BY <1>1
    <3> QED BY <3>1, EmptySeq
  <2> QED BY <2>1, <2>2, FlatEmpty
<1>3. ASSUME NEW n \in N \cap Nat PROVE n + 1 \in N
  <2> SUFFICES ASSUME NEW s \in Seq(T), Len(s) = n + 1 PROVE FlattenSeq(One(s)) = s
    OBVIOUS
  <2>1. s # <<>>
    OBVIOUS
  <2>2. PICK r \in Seq(T), x \in T : s = Append(r, x)
    BY <2>1, SequenceEmptyOrAppend
  <2>3. /\ Len(r) = n /\ s[n + 1] = x /\ \A k \in 1..n : s[k] = r[k]
    BY <2>2, AppendProperties
  <2>4. One(s) = Append(One(r), <<x>>)
    <3>1. /\ Append(One(r), <<x>>) \in Seq(Seq(T)) /\ Len(Append(One(r), <<x>>)) = n + 1
          /\ Append(One(r), <<x>>)[n + 1] = <<x>>
          /\ \A k \in 1..n : Append(One(r), <<x>>)[k] = One(r)[k]
      BY <1>1, <2>3, AppendProperties
    <3>2. One(s) \in Seq(Seq(T)) /\ Len(One(s)) = n + 1
      BY <1>1
    <3>3. ASSUME NEW k \in 1..(n + 1) PROVE One(s)[k] = Append(One(r), <<x>>)[k]
      <4>1. CASE k = n + 1
        BY <1>1, <2>3, <3>1, <4>1
      <4>2. CASE k # n + 1
        <5>1. k \in 1..n
          BY <4>2
        <5>2. One(s)[k] = <<s[k]>> /\ One(r)[k] = <<r[k]>>
          BY <1>1, <2>3, <5>1
        <5> QED BY <2>3, <3>1, <5>1, <5>2
      <4> QED BY <4>1, <4>2
    <3> QED BY <3>1, <3>2, <3>3, SeqEqual
  <2>5. FlattenSeq(One(r)) = r
    BY <2>3
  <2>6. FlattenSeq(One(s)) = r \o <<x>>
    <3>1. One(r) \in Seq(Seq(T)) /\ <<x>> \in Seq(T)
      BY <1>1
    <3> HIDE DEF N
    <3>2. FlattenSeq(Append(One(r), <<x>>)) = FlattenSeq(One(r)) \o <<x>>
      BY <3>1, FlatAppend
    <3> QED BY <2>4, <2>5, <3>2
  <2> QED BY <2>2, <2>6, AppendIsConcat
<1> HIDE DEF N
<1>4. Nat \subseteq N
  BY <1>2, <1>3, Induct
<1>5. ASSUME NEW s \in Seq(T) PROVE One(s) \in Seq(Seq(T)) /\ FlattenSeq(One(s)) = s
  <2>1. Len(s) \in N
    BY <1>4
  <2> QED BY <1>1, <2>1 DEF N
<1> QED BY <1>5 DEF One

(* A flattened list is as long as its rows together.                        *)
LEMMA FlatLength ==
  ASSUME NEW T
  PROVE  \A s \in Seq(Seq(T)) : Len(FlattenSeq(s)) = SumFunction([k \in DOMAIN s |-> Len(s[k])])
<1> DEFINE L(s) == [k \in DOMAIN s |-> Len(s[k])]
           N == {n \in Nat : \A s \in Seq(Seq(T)) : Len(s) = n => Len(FlattenSeq(s)) = SumFunctionOnSet(L(s), 1..n)}
<1>1. 0 \in N
  <2> SUFFICES ASSUME NEW s \in Seq(Seq(T)), Len(s) = 0
               PROVE  Len(FlattenSeq(s)) = SumFunctionOnSet(L(s), 1..0)
    OBVIOUS
  <2>1. s = <<>> /\ 1..0 = {}
    OBVIOUS
  <2> HIDE DEF L
  <2> QED BY <2>1, FlatEmpty, SumEmpty
<1>2. ASSUME NEW n \in N \cap Nat PROVE n + 1 \in N
  <2> SUFFICES ASSUME NEW s \in Seq(Seq(T)), Len(s) = n + 1
               PROVE  Len(FlattenSeq(s)) = SumFunctionOnSet(L(s), 1..(n + 1))
    OBVIOUS
  <2>1. s # <<>>
    OBVIOUS
  <2>2. PICK r \in Seq(Seq(T)), x \in Seq(T) : s = Append(r, x)
    BY <2>1, SequenceEmptyOrAppend
  <2>3. /\ Len(r) = n /\ s[n + 1] = x /\ \A k \in 1..n : s[k] = r[k]
    BY <2>2, AppendProperties
  <2>4. /\ DOMAIN s = 1..(n + 1) /\ DOMAIN r = 1..n /\ Len(x) \in Nat
        /\ \A k \in 1..n : r[k] \in Seq(T) /\ Len(r[k]) \in Nat
    BY <2>3, ElementOfSeq
  <2>5. /\ \A k \in 1..n : L(s)[k] = Len(r[k]) /\ L(r)[k] = Len(r[k])
        /\ L(s)[n + 1] = Len(x)
    BY <2>3, <2>4
  <2>6. Len(FlattenSeq(r)) = SumFunctionOnSet(L(r), 1..n)
    BY <2>3
  <2> HIDE DEF L, N
  <2>7. SumFunctionOnSet(L(s), 1..n) = SumFunctionOnSet(L(r), 1..n)
    <3>1. IsFiniteSet(1..n)
      BY FS_Interval
    <3> DEFINE f == L(s)
               e == L(r)
    <3>2. \A k \in 1..n : f[k] = e[k]
      BY <2>5
    <3> HIDE DEF f, e
    <3>3. SumFunctionOnSet(f, 1..n) = SumFunctionOnSet(e, 1..n)
      BY <3>1, <3>2, SumSame
    <3> QED BY <3>3 DEF f, e
  <2>8. SumFunctionOnSet(L(s), (1..n) \cup {n + 1}) = L(s)[n + 1] + SumFunctionOnSet(L(s), 1..n)
    <3>1. IsFiniteSet(1..n) /\ n + 1 \notin 1..n
      BY FS_Interval
    <3>2. \A y \in (1..n) \cup {n + 1} : L(s)[y] \in Int
      BY <2>4, <2>5
    <3> QED BY <3>1, <3>2, SumAdd
  <2>9. (1..n) \cup {n + 1} = 1..(n + 1)
    OBVIOUS
  <2>10. FlattenSeq(s) = FlattenSeq(r) \o x /\ FlattenSeq(r) \in Seq(T)
    BY <2>2, FlatAppend, FlatType
  <2>11. Len(FlattenSeq(s)) = Len(FlattenSeq(r)) + Len(x) /\ Len(FlattenSeq(r)) \in Nat
    BY <2>10, ConcatProperties
  <2> DEFINE u == Len(FlattenSeq(r))
             v == SumFunctionOnSet(L(s), 1..n)
             w == SumFunctionOnSet(L(s), 1..(n + 1))
             l == Len(x)
  <2>12. u \in Nat /\ l \in Nat /\ u = v /\ Len(FlattenSeq(s)) = u + l /\ w = l + v
    BY <2>4, <2>5, <2>6, <2>7, <2>8, <2>9, <2>11
  <2> HIDE DEF u, v, w, l
  <2>13. Len(FlattenSeq(s)) = w
    BY <2>12
  <2> QED BY <2>13 DEF w
<1> HIDE DEF N
<1>3. Nat \subseteq N
  BY <1>1, <1>2, Induct
<1>4. ASSUME NEW s \in Seq(Seq(T)) PROVE Len(FlattenSeq(s)) = SumFunction(L(s))
  <2>1. Len(s) \in N /\ DOMAIN L(s) = 1..Len(s)
    BY <1>3
  <2> QED BY <2>1 DEF N, SumFunction
<1> QED BY <1>4

(* The elements of one sequence of a list, in the flat sequence.            *)
LiesAt(s, m, x) ==
  /\ x \in Nat
  /\ \A j \in 1..Len(s[m]) : /\ x + j \in 1..Len(FlattenSeq(s))
                             /\ FlattenSeq(s)[x + j] = s[m][j]

LengthsTo(s, m, f) == DOMAIN f = 1..(m - 1) /\ f = [k \in 1..(m - 1) |-> Len(s[k])]

(* They lie behind the elements of the sequences before it.                 *)
LEMMA FlatAt ==
  ASSUME NEW T, NEW s \in Seq(Seq(T)), NEW m \in 1..Len(s), NEW f, LengthsTo(s, m, f)
  PROVE  LiesAt(s, m, SumFunction(f))
<1> DEFINE skip == SumFunction(f)
<1>0. skip = SumFunction([k \in 1..(m - 1) |-> Len(s[k])])
  BY DEF LengthsTo
<1> HIDE DEF skip
<1> DEFINE a == SubSeq(s, 1, m - 1)
           b == SubSeq(s, m, Len(s))
           t == Tail(b)
<1>1. Len(s) \in Nat /\ m \in Nat /\ 1 <= m /\ m <= Len(s) /\ s[m] \in Seq(T)
  BY ElementOfSeq
<1>2. /\ a \in Seq(Seq(T)) /\ Len(a) = m - 1 /\ DOMAIN a = 1..(m - 1)
      /\ \A k \in 1..(m - 1) : a[k] = s[k]
  <2>1. \A i \in 1..(m - 1) : s[i] \in Seq(T)
    BY <1>1, ElementOfSeq
  <2>2. a \in Seq(Seq(T)) /\ Len(a) = m - 1
    BY <1>1, <2>1, SubSeqProperties
  <2> QED BY <1>1, <2>2
<1>3. /\ b \in Seq(Seq(T)) /\ Len(b) = Len(s) - m + 1 /\ b # <<>> /\ b[1] = s[m]
  <2>1. \A i \in m..Len(s) : s[i] \in Seq(T)
    BY <1>1, ElementOfSeq
  <2>2. b \in Seq(Seq(T)) /\ Len(b) = Len(s) - m + 1
    BY <1>1, <2>1, SubSeqProperties
  <2>3. b[1] = s[m]
    BY <1>1
  <2>4. b # <<>>
    <3> HIDE DEF b
    <3> QED BY <1>1, <2>2
  <2> QED BY <2>2, <2>3, <2>4
<1>4. s = a \o b
  <2>1. SubSeq(s, 1, m - 1) \o SubSeq(s, (m - 1) + 1, Len(s)) = SubSeq(s, 1, Len(s))
    <3>1. /\ 1 \in 1..(Len(s) + 1) /\ m - 1 \in (1 - 1)..Len(s) /\ Len(s) \in (m - 1)..Len(s)
      BY <1>1
    <3> QED BY <3>1, ConcatAdjacentSubSeq
  <2>2. (m - 1) + 1 = m /\ SubSeq(s, 1, Len(s)) = s
    BY <1>1, SubSeqFull
  <2> QED BY <2>1, <2>2
<1> HIDE DEF a, b
<1>5. b[1] = Head(b) /\ t \in Seq(Seq(T))
  BY <1>3, HeadTailProperties
<1> HIDE DEF t
<1>6. FlattenSeq(b) = s[m] \o FlattenSeq(t)
  BY <1>3, <1>5, FlatHead DEF t
<1>7. FlattenSeq(s) = FlattenSeq(a) \o FlattenSeq(b)
  BY <1>2, <1>3, <1>4, FlatConcat
<1>8. FlattenSeq(a) \in Seq(T) /\ FlattenSeq(b) \in Seq(T) /\ FlattenSeq(t) \in Seq(T)
  BY <1>2, <1>3, <1>5, FlatType
<1>9. Len(FlattenSeq(a)) = skip
  <2>1. [k \in DOMAIN a |-> Len(a[k])] = [k \in 1..(m - 1) |-> Len(s[k])]
    BY <1>2
  <2> QED BY <1>0, <1>2, <2>1, FlatLength
<1>10. skip \in Nat
  BY <1>8, <1>9
<1>11. ASSUME NEW j \in 1..Len(s[m])
       PROVE  skip + j \in 1..Len(FlattenSeq(s)) /\ FlattenSeq(s)[skip + j] = s[m][j]
  <2> DEFINE B == FlattenSeq(b)
             A == FlattenSeq(a)
             C == FlattenSeq(t)
  <2>1. B = s[m] \o C /\ C \in Seq(T) /\ A \in Seq(T) /\ B \in Seq(T) /\ Len(A) = skip
    BY <1>6, <1>8, <1>9
  <2> HIDE DEF A, B, C
  <2>2. /\ Len(B) = Len(s[m]) + Len(C) /\ Len(C) \in Nat /\ Len(s[m]) \in Nat
        /\ B[j] = s[m][j]
    BY <1>1, <2>1, ConcatProperties
  <2>3. j \in 1..Len(B)
    BY <2>2
  <2>4. Len(A \o B) = skip + Len(B) /\ (A \o B)[skip + j] = B[j]
    <3>0. A \in Seq(T) /\ B \in Seq(T)
      BY <2>1
    <3>1. /\ Len(A \o B) = Len(A) + Len(B)
          /\ \A i \in 1..Len(B) : (A \o B)[Len(A) + i] = B[i]
      BY <3>0, ConcatProperties
    <3> QED BY <2>1, <2>3, <3>1
  <2> QED BY <1>7, <1>10, <2>2, <2>3, <2>4 DEF A, B
<1>12. LiesAt(s, m, skip)
  BY <1>10, <1>11 DEF LiesAt
<1> QED BY <1>12 DEF skip
=============================================================================
