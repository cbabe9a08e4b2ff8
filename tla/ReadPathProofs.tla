--------------------------- MODULE ReadPathProofs ---------------------------
(***************************************************************************)
(* Proofs about the selections and sorts of Arrangements, and with them    *)
(* about Ranking and Reading: for every corpus, every set of requests and  *)
(* readers, every limit and any bound.                                     *)
(***************************************************************************)
EXTENDS Ranking, Reading, CollectionTheorems

-----------------------------------------------------------------------------
(* Drawings.                                                                *)

(* t is made of items of s at different positions.                          *)
Drawn(t, s) == \E at \in Injection(DOMAIN t, DOMAIN s) : \A k \in DOMAIN t : t[k] = s[at[k]]

(* What is drawn from a drawing is drawn from the first sequence.           *)
LEMMA DrawnOn ==
  ASSUME NEW s, NEW t, NEW u, Drawn(t, s), Drawn(u, t)
  PROVE  Drawn(u, s)
<1>1. PICK f \in Injection(DOMAIN t, DOMAIN s) : \A k \in DOMAIN t : t[k] = s[f[k]]
  BY DEF Drawn
<1>2. PICK g \in Injection(DOMAIN u, DOMAIN t) : \A k \in DOMAIN u : u[k] = t[g[k]]
  BY DEF Drawn
<1> DEFINE h == [k \in DOMAIN u |-> f[g[k]]]
<1>3. h \in Injection(DOMAIN u, DOMAIN s)
  BY <1>1, <1>2, Fun_InjTransitive
<1>4. \A k \in DOMAIN u : u[k] = s[h[k]]
  BY <1>1, <1>2, Fun_InjectionProperties
<1> HIDE DEF h
<1> QED BY <1>3, <1>4 DEF Drawn

(* A filter draws: retain repeats no item.                                  *)
LEMMA DrawnByPick ==
  ASSUME NEW T, NEW s \in Seq(T), NEW P \in SUBSET DOMAIN s
  PROVE  Picked(s, P) \in Seq(T) /\ Drawn(Picked(s, P), s)
<1> DEFINE t == Picked(s, P)
<1>1. t \in Seq(T)
  BY Picks
<1>2. PICK at \in [DOMAIN t -> P] : Increases(at) /\ \A k \in DOMAIN at : t[k] = s[at[k]]
  BY Picks
<1> HIDE DEF t
<1>3. DOMAIN t \subseteq Nat /\ P \subseteq Nat /\ DOMAIN at = DOMAIN t
  BY <1>1
<1>4. \A i, j \in DOMAIN t : at[i] = at[j] => i = j
  <2> SUFFICES ASSUME NEW i \in DOMAIN t, NEW j \in DOMAIN t, at[i] = at[j] PROVE i = j
    OBVIOUS
  <2>1. i \in Nat /\ j \in Nat /\ at[i] \in Nat
    BY <1>3
  <2>2. ~(i < j) /\ ~(j < i)
    BY <1>2, <1>3, <2>1 DEF Increases
  <2> QED BY <2>1, <2>2
<1>5. at \in Injection(DOMAIN t, DOMAIN s)
  <2>1. at \in [DOMAIN t -> DOMAIN s]
    OBVIOUS
  <2> QED BY <1>4, <2>1, Fun_IsInj
<1> QED BY <1>1, <1>2, <1>3, <1>5 DEF Drawn, t

(* A sort draws, and leaves no item out.                                    *)
LEMMA DrawnBySort ==
  ASSUME NEW T, NEW s \in Seq(T), NEW key \in [DOMAIN s -> Int]
  PROVE  /\ Descending(s, key) \in Seq(T) /\ Drawn(Descending(s, key), s)
         /\ \A p \in DOMAIN s : \E k \in DOMAIN Descending(s, key) : Descending(s, key)[k] = s[p]
<1> DEFINE t == Descending(s, key)
<1>1. t \in Seq(T) /\ DOMAIN t = DOMAIN s
  BY Sorts
<1>2. PICK at : Downs(at, s, key) /\ \A k \in DOMAIN s : t[k] = s[at[k]]
  BY Sorts
<1> HIDE DEF t
<1>3. \A i, j \in DOMAIN s : at[i] = at[j] => i = j
  <2> SUFFICES ASSUME NEW i \in DOMAIN s, NEW j \in DOMAIN s, at[i] = at[j] PROVE i = j
    OBVIOUS
  <2>1. at[i] \in DOMAIN s /\ at[j] \in DOMAIN s
    BY <1>2 DEF Downs
  <2>2. i \in Nat /\ j \in Nat /\ at[i] \in Nat /\ key[at[i]] \in Int
    BY <2>1
  <2>3. \A k, l \in DOMAIN s :
          k < l => key[at[k]] > key[at[l]] \/ (key[at[k]] = key[at[l]] /\ at[k] < at[l])
    BY <1>2 DEF Downs
  <2>4. ~(i < j) /\ ~(j < i)
    BY <2>2, <2>3
  <2> QED BY <2>2, <2>4
<1>4. at \in Injection(DOMAIN s, DOMAIN s)
  BY <1>2, <1>3, Fun_IsInj DEF Downs
<1>5. Drawn(t, s)
  BY <1>1, <1>2, <1>4 DEF Drawn
<1>6. \A p \in DOMAIN s : \E k \in DOMAIN t : t[k] = s[p]
  BY <1>1, <1>2 DEF Downs
<1> QED BY <1>1, <1>5, <1>6 DEF t

(* truncate draws the first items, and all of them when there are fewer.    *)
LEMMA DrawnByCut ==
  ASSUME NEW T, NEW s \in Seq(T), NEW n \in Nat
  PROVE  /\ Truncate(s, n) \in Seq(T) /\ Drawn(Truncate(s, n), s)
         /\ Len(Truncate(s, n)) <= n /\ Len(Truncate(s, n)) <= Len(s)
         /\ Len(Truncate(s, n)) < n => Truncate(s, n) = s
         /\ \A k \in DOMAIN Truncate(s, n) : k \in DOMAIN s /\ Truncate(s, n)[k] = s[k]
<1> DEFINE t == Truncate(s, n)
           m == IF n < Len(s) THEN n ELSE Len(s)
<1>1. m \in Nat /\ m <= Len(s) /\ m <= n /\ (m < n => m = Len(s))
  OBVIOUS
<1>2. t = SubSeq(s, 1, m)
  BY DEF Truncate
<1> HIDE DEF t, m
<1>3. t \in Seq(T) /\ Len(t) = m /\ DOMAIN t = 1..m /\ \A k \in 1..m : t[k] = s[k]
  BY <1>1, <1>2
<1>4. \A k \in DOMAIN t : k \in DOMAIN s /\ t[k] = s[k]
  BY <1>1, <1>3
<1>5. m < n => t = s
  BY <1>1, <1>3
<1> DEFINE at == [k \in DOMAIN t |-> k]
<1>6. at \in Injection(DOMAIN t, DOMAIN s) /\ \A k \in DOMAIN t : t[k] = s[at[k]]
  <2>1. at \in [DOMAIN t -> DOMAIN s] /\ \A i, j \in DOMAIN t : at[i] = at[j] => i = j
    BY <1>4
  <2>2. at \in Injection(DOMAIN t, DOMAIN s)
    BY <2>1, Fun_IsInj
  <2> QED BY <1>4, <2>2
<1> HIDE DEF at
<1>7. Drawn(t, s)
  BY <1>6 DEF Drawn
<1> QED BY <1>1, <1>3, <1>4, <1>5, <1>7 DEF t

-----------------------------------------------------------------------------
(* Listings: a set of numbers in increasing order.                          *)

(* s is the set S of numbers in order.                                      *)
Runs(s, S) == s \in Seq(Nat) /\ Increases(s) /\ S = {s[k] : k \in DOMAIN s}

(* InOrder is the listing of its set.                                       *)
LEMMA InOrderRuns ==
  ASSUME NEW S \in SUBSET Nat, IsFiniteSet(S)
  PROVE  Runs(InOrder(S), S)
<1> DEFINE s == InOrder(S)
           n == Cardinality(S)
<1>1. n \in Nat /\ s \in [1..n -> S] /\ Increases(s) /\ \A x \in S : \E i \in 1..n : s[i] = x
  BY Ascending
<1> HIDE DEF s, n
<1>2. DOMAIN s = 1..n /\ \A k \in 1..n : s[k] \in Nat
  BY <1>1
<1>3. s \in Seq(Nat)
  BY <1>1, <1>2
<1>4. S = {s[k] : k \in DOMAIN s}
  BY <1>1, <1>2
<1> QED BY <1>1, <1>3, <1>4 DEF Runs, s

(* Two increasing listings of one set are the same: where they first differ,*)
(* one of them would have left a member out.                                *)
LEMMA SameRuns ==
  ASSUME NEW S, NEW s, NEW t, Runs(s, S), Runs(t, S)
  PROVE  s = t
<1>1. /\ DOMAIN s = 1..Len(s) /\ Len(s) \in Nat /\ DOMAIN t = 1..Len(t) /\ Len(t) \in Nat
      /\ s \in Seq(Nat) /\ t \in Seq(Nat)
  BY DEF Runs
<1>2. /\ \A i \in DOMAIN s : s[i] \in Nat /\ \E j \in DOMAIN t : t[j] = s[i]
      /\ \A i \in DOMAIN t : t[i] \in Nat /\ \E j \in DOMAIN s : s[j] = t[i]
  <2>1. /\ \A i \in DOMAIN s : s[i] \in S
        /\ \A i \in DOMAIN t : t[i] \in S
        /\ \A x \in S : \E j \in DOMAIN s : s[j] = x
        /\ \A x \in S : \E j \in DOMAIN t : t[j] = x
    BY DEF Runs
  <2>2. (\A i \in DOMAIN s : s[i] \in Nat) /\ (\A i \in DOMAIN t : t[i] \in Nat)
    BY <1>1
  <2> QED BY <2>1, <2>2
<1>3. /\ \A i, j \in DOMAIN s : i < j => s[i] < s[j]
      /\ \A i, j \in DOMAIN t : i < j => t[i] < t[j]
  BY DEF Runs, Increases
<1> DEFINE D == {k \in Nat : (k \in DOMAIN s \/ k \in DOMAIN t) /\ ~(k \in DOMAIN s /\ k \in DOMAIN t /\ s[k] = t[k])}
<1>4. ASSUME D # {} PROVE FALSE
  <2>1. PICK k \in D : \A j \in D : k <= j
    BY <1>4, Least
  <2>2. k \in Nat /\ \A j \in 1..(k - 1) : j \in DOMAIN s /\ j \in DOMAIN t /\ s[j] = t[j]
    <3> SUFFICES ASSUME NEW j \in 1..(k - 1) PROVE j \in DOMAIN s /\ j \in DOMAIN t /\ s[j] = t[j]
      OBVIOUS
    <3>1. j \in Nat /\ j < k /\ j \notin D
      BY <2>1
    <3>2. j \in DOMAIN s \/ j \in DOMAIN t
      BY <1>1, <2>1, <3>1
    <3> QED BY <3>1, <3>2
  <2>3. ASSUME k \in DOMAIN s, k \in DOMAIN t => s[k] < t[k] PROVE FALSE
    <3>1. PICK j \in DOMAIN t : t[j] = s[k]
      BY <1>2, <2>3
    <3>2. j \in Nat /\ k \in Nat /\ s[k] \in Nat
      BY <1>1, <1>2, <2>3
    <3>3. CASE j < k
      <4>1. j \in 1..(k - 1)
        BY <1>1, <3>2, <3>3
      <4>2. s[j] = s[k] /\ j \in DOMAIN s
        BY <2>2, <3>1, <4>1
      <4> QED BY <1>3, <2>3, <3>2, <3>3, <4>2
    <3>4. CASE j >= k
      <4>1. k \in DOMAIN t /\ s[k] < t[k]
        BY <1>1, <2>3, <3>2, <3>4
      <4>2. t[k] <= t[j]
        BY <1>2, <1>3, <3>1, <3>2, <3>4, <4>1
      <4> QED BY <1>2, <3>1, <3>2, <4>1, <4>2
    <3> QED BY <3>2, <3>3, <3>4
  <2>4. ASSUME k \in DOMAIN t, k \in DOMAIN s => t[k] < s[k] PROVE FALSE
    <3>1. PICK j \in DOMAIN s : s[j] = t[k]
      BY <1>2, <2>4
    <3>2. j \in Nat /\ k \in Nat /\ t[k] \in Nat
      BY <1>1, <1>2, <2>4
    <3>3. CASE j < k
      <4>1. j \in 1..(k - 1)
        BY <1>1, <3>2, <3>3
      <4>2. t[j] = t[k] /\ j \in DOMAIN t
        BY <2>2, <3>1, <4>1
      <4> QED BY <1>3, <2>4, <3>2, <3>3, <4>2
    <3>4. CASE j >= k
      <4>1. k \in DOMAIN s /\ t[k] < s[k]
        BY <1>1, <2>4, <3>2, <3>4
      <4>2. s[k] <= s[j]
        BY <1>2, <1>3, <3>1, <3>2, <3>4, <4>1
      <4> QED BY <1>2, <3>1, <3>2, <4>1, <4>2
    <3> QED BY <3>2, <3>3, <3>4
  <2>5. k \in DOMAIN s \/ k \in DOMAIN t
    OBVIOUS
  <2>6. CASE k \in DOMAIN s /\ k \in DOMAIN t
    <3>1. s[k] # t[k] /\ s[k] \in Nat /\ t[k] \in Nat
      BY <1>2, <2>6
    <3>2. s[k] < t[k] \/ t[k] < s[k]
      BY <3>1
    <3> QED BY <2>3, <2>4, <2>6, <3>2
  <2> QED BY <2>3, <2>4, <2>5, <2>6
<1>5. \A k \in Nat : (k \in DOMAIN s <=> k \in DOMAIN t) /\ (k \in DOMAIN s => s[k] = t[k])
  BY <1>4
<1>6. Len(s) = Len(t)
  <2> DEFINE m == Len(s)
             n == Len(t)
  <2>1. m \in Nat /\ n \in Nat /\ \A k \in Nat : k \in 1..m <=> k \in 1..n
    BY <1>1, <1>5
  <2> HIDE DEF m, n
  <2>2. m <= n /\ n <= m
    <3>1. (m \in 1..m => m \in 1..n) /\ (n \in 1..n => n \in 1..m)
      BY <2>1
    <3> QED BY <2>1, <3>1
  <2>3. m = n
    BY <2>1, <2>2
  <2> QED BY <2>3 DEF m, n
<1>7. \A k \in 1..Len(s) : s[k] = t[k]
  BY <1>1, <1>5
<1> QED BY <1>1, <1>6, <1>7

(* One listing after another, all of it larger.                             *)
LEMMA RunsOn ==
  ASSUME NEW S, NEW T, NEW s, NEW t, Runs(s, S), Runs(t, T), \A x \in S, y \in T : x < y
  PROVE  Runs(s \o t, S \cup T)
<1> DEFINE u == s \o t
           m == Len(s)
           n == Len(t)
<1>1. s \in Seq(Nat) /\ t \in Seq(Nat) /\ m \in Nat /\ n \in Nat /\ DOMAIN s = 1..m /\ DOMAIN t = 1..n
  BY DEF Runs
<1>2. /\ u \in Seq(Nat) /\ Len(u) = m + n /\ DOMAIN u = 1..(m + n)
      /\ \A k \in 1..(m + n) : u[k] = IF k <= m THEN s[k] ELSE t[k - m]
  BY <1>1
<1> HIDE DEF u, m, n
<1>3. \A k \in DOMAIN s : s[k] \in S
  BY DEF Runs
<1>4. \A k \in DOMAIN t : t[k] \in T
  BY DEF Runs
<1>5. ASSUME NEW i \in DOMAIN u, NEW j \in DOMAIN u, i < j PROVE u[i] < u[j]
  <2>1. i \in 1..(m + n) /\ j \in 1..(m + n) /\ i \in Nat /\ j \in Nat
    BY <1>1, <1>2
  <2>2. CASE j <= m
    <3>1. i \in DOMAIN s /\ j \in DOMAIN s /\ u[i] = s[i] /\ u[j] = s[j]
      BY <1>1, <1>2, <1>5, <2>1, <2>2
    <3> QED BY <1>5, <3>1 DEF Runs, Increases
  <2>3. CASE m < i
    <3>1. i - m \in 1..n /\ j - m \in 1..n /\ i - m < j - m /\ ~(i <= m) /\ ~(j <= m)
      BY <1>1, <1>5, <2>1, <2>3
    <3>2. u[i] = t[i - m] /\ u[j] = t[j - m]
      BY <1>2, <2>1, <3>1
    <3> QED BY <1>1, <3>1, <3>2 DEF Runs, Increases
  <2>4. CASE i <= m /\ m < j
    <3>1. i \in 1..m /\ j - m \in 1..n /\ ~(j <= m)
      BY <1>1, <2>1, <2>4
    <3>2. u[i] = s[i] /\ u[j] = t[j - m]
      BY <1>2, <2>1, <2>4, <3>1
    <3> QED BY <1>1, <1>3, <1>4, <3>1, <3>2
  <2> QED BY <1>1, <2>1, <2>2, <2>3, <2>4
<1>6. ASSUME NEW k \in DOMAIN u PROVE u[k] \in S \cup T
  <2>1. k \in 1..(m + n) /\ k \in Nat
    BY <1>1, <1>2
  <2>2. CASE k <= m
    <3>1. k \in DOMAIN s /\ u[k] = s[k]
      BY <1>1, <1>2, <2>1, <2>2
    <3> QED BY <1>3, <3>1
  <2>3. CASE m < k
    <3>1. k - m \in DOMAIN t /\ u[k] = t[k - m]
      BY <1>1, <1>2, <2>1, <2>3
    <3> QED BY <1>4, <3>1
  <2> QED BY <1>1, <2>1, <2>2, <2>3
<1>7. ASSUME NEW x \in S \cup T PROVE \E k \in DOMAIN u : u[k] = x
  <2>1. CASE x \in S
    <3>1. PICK k \in DOMAIN s : s[k] = x
      BY <2>1 DEF Runs
    <3>2. k \in DOMAIN u /\ u[k] = x
      BY <1>1, <1>2, <3>1
    <3> QED BY <3>2
  <2>2. CASE x \in T
    <3>1. PICK k \in DOMAIN t : t[k] = x
      BY <2>2 DEF Runs
    <3>2. k + m \in DOMAIN u /\ u[k + m] = x
      BY <1>1, <1>2, <3>1
    <3> QED BY <3>2
  <2> QED BY <2>1, <2>2
<1>8. Increases(u)
  BY <1>5 DEF Increases
<1>9. S \cup T = {u[k] : k \in DOMAIN u}
  BY <1>6, <1>7
<1> QED BY <1>2, <1>8, <1>9 DEF Runs, u

(* A listing cut to a part of itself.                                       *)
LEMMA RunsPart ==
  ASSUME NEW S, NEW s, Runs(s, S), s # <<>>,
         NEW a \in 1..Len(s), NEW b \in 1..Len(s), a <= b
  PROVE  /\ Runs(SubSeq(s, a, b), {x \in S : s[a] <= x /\ x <= s[b]})
         /\ Len(SubSeq(s, a, b)) = b - a + 1
         /\ SubSeq(s, a, b)[1] = s[a] /\ SubSeq(s, a, b)[b - a + 1] = s[b]
<1> DEFINE t == SubSeq(s, a, b)
           n == b - a + 1
           T == {x \in S : s[a] <= x /\ x <= s[b]}
<1>1. s \in Seq(Nat) /\ Len(s) \in Nat /\ DOMAIN s = 1..Len(s) /\ \A k \in DOMAIN s : s[k] \in Nat
  BY DEF Runs
<1>2. \A i, j \in DOMAIN s : i < j => s[i] < s[j]
  BY DEF Runs, Increases
<1>3. /\ n \in Nat /\ t \in Seq(Nat) /\ Len(t) = n /\ DOMAIN t = 1..n
      /\ \A k \in 1..n : a + k - 1 \in DOMAIN s /\ a + k - 1 <= b /\ a <= a + k - 1 /\ t[k] = s[a + k - 1]
  BY <1>1
<1> HIDE DEF t
<1>4. ASSUME NEW i \in DOMAIN t, NEW j \in DOMAIN t, i < j PROVE t[i] < t[j]
  <2>0. i \in 1..n /\ j \in 1..n /\ i \in Nat /\ j \in Nat /\ a \in Nat
    BY <1>3
  <2>1. /\ a + i - 1 \in DOMAIN s /\ a + j - 1 \in DOMAIN s
        /\ t[i] = s[a + i - 1] /\ t[j] = s[a + j - 1]
    BY <1>3, <2>0
  <2>2. a + i - 1 < a + j - 1
    BY <1>4, <2>0
  <2> QED BY <1>2, <2>1, <2>2
<1>5. ASSUME NEW k \in DOMAIN t PROVE t[k] \in T
  <2> DEFINE c == a + k - 1
  <2>1. c \in DOMAIN s /\ c <= b /\ a <= c /\ t[k] = s[c] /\ c \in Nat
    <3>1. k \in 1..n
      BY <1>3
    <3>2. c \in DOMAIN s /\ c <= b /\ a <= c /\ t[k] = s[c]
      BY <1>3, <3>1
    <3> QED BY <1>1, <3>2
  <2> HIDE DEF c
  <2>2. a \in DOMAIN s /\ b \in DOMAIN s /\ s[a] \in Nat /\ s[b] \in Nat /\ s[c] \in Nat
    BY <1>1, <2>1
  <2>3. s[a] <= s[c] /\ s[c] <= s[b]
    <3>1. (a < c => s[a] < s[c]) /\ (c < b => s[c] < s[b])
      BY <1>2, <2>1, <2>2
    <3>2. (a = c => s[a] = s[c]) /\ (c = b => s[c] = s[b])
      OBVIOUS
    <3>3. (a < c \/ a = c) /\ (c < b \/ c = b)
      BY <2>1
    <3> QED BY <2>2, <3>1, <3>2, <3>3
  <2>4. s[c] \in S
    BY <2>1 DEF Runs
  <2> QED BY <2>1, <2>3, <2>4
<1>6. ASSUME NEW x \in T PROVE \E k \in DOMAIN t : t[k] = x
  <2>1. PICK c \in DOMAIN s : s[c] = x
    BY DEF Runs
  <2>2. c \in Nat /\ s[a] \in Nat /\ s[b] \in Nat /\ s[c] \in Nat /\ a \in DOMAIN s /\ b \in DOMAIN s
    BY <1>1, <2>1
  <2>3. ~(c < a) /\ ~(b < c)
    BY <1>2, <2>1, <2>2
  <2>4. c - a + 1 \in 1..n /\ a + (c - a + 1) - 1 = c
    BY <1>1, <2>2, <2>3
  <2> QED BY <1>3, <2>1, <2>4
<1>7. Runs(t, T)
  <2>1. T = {t[k] : k \in DOMAIN t}
    BY <1>5, <1>6
  <2> QED BY <1>3, <1>4, <2>1 DEF Runs, Increases
<1>8. t[1] = s[a] /\ t[n] = s[b]
  BY <1>1, <1>3
<1> QED BY <1>3, <1>7, <1>8 DEF t

(* The first n of a listing are its members up to the last of them.         *)
LEMMA RunsCut ==
  ASSUME NEW S, NEW s, Runs(s, S), NEW n \in Nat \ {0}
  PROVE  /\ Truncate(s, n) \in Seq(Nat)
         /\ Len(s) <= n => Truncate(s, n) = s
         /\ (s = <<>>) <=> (Truncate(s, n) = <<>>)
         /\ s # <<>> => /\ Len(Truncate(s, n)) >= 1
                        /\ Truncate(s, n)[Len(Truncate(s, n))] \in S
                        /\ Runs(Truncate(s, n), {x \in S : x <= Truncate(s, n)[Len(Truncate(s, n))]})
<1> DEFINE l == Len(s)
           m == IF n < l THEN n ELSE l
           t == SubSeq(s, 1, m)
<1>1. s \in Seq(Nat) /\ Len(s) \in Nat /\ DOMAIN s = 1..Len(s) /\ \A k \in DOMAIN s : s[k] \in Nat
  BY DEF Runs
<1>2. Truncate(s, n) = t
  BY DEF Truncate
<1>3. m \in Nat /\ m <= l /\ (l <= n => m = l) /\ (l >= 1 => m >= 1)
  <2>1. l \in Nat
    BY <1>1
  <2> HIDE DEF l
  <2> QED BY <2>1
<1> HIDE DEF m
<1>s. m <= Len(s)
  BY <1>3
<1>4. t \in Seq(Nat) /\ Len(t) = m
  <2>1. m \in Nat
    BY <1>3
  <2> HIDE DEF l
  <2> QED BY <1>1, <1>s, <2>1
<1>5. m = Len(s) => t = s
  BY <1>1
<1>6. CASE s = <<>>
  BY <1>1, <1>2, <1>4, <1>5, <1>6
<1>7. CASE s # <<>>
  <2>1. Len(s) >= 1
    BY <1>1, <1>7
  <2>2. 1 \in 1..Len(s) /\ m \in 1..Len(s) /\ 1 <= m
    <3>1. m \in Nat /\ m <= Len(s) /\ m >= 1
      BY <1>3, <2>1
    <3> HIDE DEF l
    <3> QED BY <1>1, <3>1
  <2>3. Runs(t, {x \in S : s[1] <= x /\ x <= s[m]}) /\ t[m - 1 + 1] = s[m]
    BY <1>7, <2>2, RunsPart
  <2>4. t[m] = s[m] /\ s[m] \in S
    <3>1. m - 1 + 1 = m
      BY <1>3
    <3>2. t[m] = s[m]
      BY <2>3, <3>1
    <3>3. s[m] \in S
      BY <1>1, <2>2 DEF Runs
    <3> QED BY <3>2, <3>3
  <2>5. \A x \in S : x \in Nat /\ s[1] <= x
    <3> SUFFICES ASSUME NEW x \in S PROVE x \in Nat /\ s[1] <= x
      OBVIOUS
    <3>1. PICK k \in DOMAIN s : s[k] = x
      BY DEF Runs
    <3>2. 1 \in DOMAIN s /\ k \in Nat /\ s[k] \in Nat /\ s[1] \in Nat
      BY <1>1, <2>2
    <3>3. 1 < k => s[1] < s[k]
      BY <3>1, <3>2 DEF Runs, Increases
    <3> QED BY <1>1, <3>1, <3>2, <3>3
  <2>6. {x \in S : s[1] <= x /\ x <= s[m]} = {x \in S : x <= s[m]}
    BY <2>5
  <2> HIDE DEF t
  <2>7. Runs(t, {x \in S : x <= t[Len(t)]}) /\ t[Len(t)] \in S
    BY <1>4, <2>3, <2>4, <2>6
  <2>8. t # <<>> /\ Len(t) >= 1
    BY <1>4, <2>2
  <2>9. Len(s) <= n => t = s
    BY <1>3, <1>5
  <2> QED BY <1>2, <1>4, <1>7, <2>7, <2>8, <2>9
<1> QED BY <1>6, <1>7

-----------------------------------------------------------------------------
(* What the functions of a search return.                                   *)

(* What the matching of versions returns.                                   *)

Limits    == [at : Semvers, inc : BOOLEAN]
Intervals == [lo : SUBSET Limits, hi : SUBSET Limits]

(* Every comparator stands for intervals between versions.                  *)
LEMMA DesugarType ==
  ASSUME NEW c \in Comparators
  PROVE  Desugar(c) \subseteq Intervals
<1>1. /\ c.op \in Ops /\ c.maj \in Component
      /\ c.min \in Component \cup {Absent} /\ c.pat \in Component \cup {Absent}
  BY DEF Comparators
<1>2. 0 \in Component /\ 1 \in Component
  BY TopAssumption DEF Component
<1>3. Or0(c.min) \in Component /\ Or0(c.pat) \in Component
  BY <1>1, <1>2 DEF Or0
<1>4. Base(c) \in Semvers
  BY <1>1, <1>3 DEF Base, Semvers
<1>5. \A n : Successor(n) \subseteq Component
  BY DEF Successor
<1>6. NextMajor(c) \subseteq Semvers /\ NextMinor(c) \subseteq Semvers /\ NextPatch(c) \subseteq Semvers
  BY <1>1, <1>2, <1>3, <1>5 DEF NextMajor, NextMinor, NextPatch, Semvers
<1>7. <<1, 0, 0>> \in Semvers
  BY <1>2 DEF Semvers
<1>8. NextOf(c) \subseteq Semvers /\ CaretEnd(c) \subseteq Semvers
  BY <1>6, <1>7 DEF NextOf, CaretEnd
<1>9. \A v \in Semvers : Incl(v) \in SUBSET Limits /\ Excl(v) \in SUBSET Limits
  BY DEF Incl, Excl, Limits
<1>10. \A lo, hi \in SUBSET Limits : Interval(lo, hi) \in Intervals
  BY DEF Interval, Intervals
<1>11. {} \in SUBSET Limits
  OBVIOUS
<1> DEFINE base == Base(c)
           next == NextOf(c)
           end  == CaretEnd(c)
<1>12. Incl(base) \in SUBSET Limits /\ Excl(base) \in SUBSET Limits
  BY <1>4, <1>9
<1>13. \A n \in next \cup end : Excl(n) \in SUBSET Limits /\ Incl(n) \in SUBSET Limits
  BY <1>8, <1>9
<1> HIDE DEF base, next, end
<1>14. /\ Interval(Incl(base), Incl(base)) \in Intervals /\ Interval(Excl(base), {}) \in Intervals
       /\ Interval(Incl(base), {}) \in Intervals /\ Interval({}, Excl(base)) \in Intervals
       /\ Interval({}, Incl(base)) \in Intervals
  BY <1>10, <1>11, <1>12
<1>15. \A n \in next \cup end : /\ Interval(Incl(base), Excl(n)) \in Intervals
                                /\ Interval(Incl(n), {}) \in Intervals
                                /\ Interval({}, Excl(n)) \in Intervals
  BY <1>10, <1>11, <1>12, <1>13
<1>16. c.op \in {"exact", "greater", "greatereq", "less", "lesseq", "tilde", "wildcard", "caret"}
  BY <1>1 DEF Ops
<1>17. Desugar(c) \subseteq Intervals
  <2>1. CASE c.op \in {"exact", "greater", "greatereq"}
    BY <1>14, <1>15, <2>1 DEF Desugar, base, next, end
  <2>2. CASE c.op \in {"less", "lesseq"}
    BY <1>14, <1>15, <2>2 DEF Desugar, base, next, end
  <2>3. CASE c.op \in {"tilde", "wildcard", "caret"}
    BY <1>14, <1>15, <2>3 DEF Desugar, base, next, end
  <2> QED BY <1>16, <2>1, <2>2, <2>3
<1> QED BY <1>17

(* What a request or a declaration asks is a set of intervals.              *)
LEMMA AskedType ==
  ASSUME NEW cs \in SUBSET Comparators, NEW r \in RequestedVersions
  PROVE  FromReq(cs) \subseteq Intervals /\ Asked(r) \subseteq Intervals
<1>1. ASSUME NEW I \in SUBSET Intervals PROVE Intersect(I) \in Intervals
  <2>1. \A i \in I : i.lo \in SUBSET Limits /\ i.hi \in SUBSET Limits
    BY DEF Intervals
  <2>2. UNION {i.lo : i \in I} \in SUBSET Limits /\ UNION {i.hi : i \in I} \in SUBSET Limits
    BY <2>1
  <2>3. \A B \in SUBSET Limits : TightestLo(B) \in SUBSET Limits /\ TightestHi(B) \in SUBSET Limits
    BY DEF TightestLo, TightestHi
  <2>4. TightestLo(UNION {i.lo : i \in I}) \in SUBSET Limits /\ TightestHi(UNION {i.hi : i \in I}) \in SUBSET Limits
    BY <2>2, <2>3
  <2> QED BY <2>4 DEF Intersect, Interval, Intervals
<1>2. ASSUME NEW ds \in SUBSET Comparators PROVE FromReq(ds) \subseteq Intervals
  <2>1. \A c \in ds : Desugar(c) \subseteq Intervals
    BY DesugarType
  <2>2. UNION {Desugar(c) : c \in ds} \in SUBSET Intervals
    BY <2>1
  <2>3. Intersect(UNION {Desugar(c) : c \in ds}) \in Intervals
    BY <1>1, <2>2
  <2> QED BY <2>3 DEF FromReq
<1>3. r.at \in SUBSET Semvers /\ r.cs \in SUBSET Comparators
  BY DEF RequestedVersions
<1>4. \A v \in r.at : Interval(Incl(v), Incl(v)) \in Intervals
  BY <1>3 DEF Interval, Intervals, Incl, Limits
<1> QED BY <1>2, <1>3, <1>4 DEF Asked

Classes == {"satisfies", "patch", "minor", "unknown", "breaking", "silent"} \X Nat
Ranked  == {"satisfies", "patch", "minor", "unknown", "breaking"} \X Nat

(* A mismatch of two versions has a class with a distance.                  *)
LEMMA MismatchType ==
  ASSUME NEW a \in Semvers, NEW b \in Semvers
  PROVE  MismatchClass(a, b) \in Ranked
<1>1. \A v \in Semvers : v[1] \in Nat /\ v[2] \in Nat /\ v[3] \in Nat
  BY TopAssumption DEF Semvers, Component
<1>2. \A x, y \in Nat : Dist(x, y) \in Nat
  BY DEF Dist
<1> DEFINE k == IF a[1] # b[1] THEN 1 ELSE IF a[2] # b[2] THEN 2 ELSE 3
           breaks == k = 1 \/ (a[1] = 0 /\ (k = 2 \/ a[2] = 0))
           d == Dist(a[k], b[k])
<1>3. k \in {1, 2, 3} /\ (k = 1 => breaks) /\ breaks \in BOOLEAN
  OBVIOUS
<1>4. a[k] \in Nat /\ b[k] \in Nat
  BY <1>1, <1>3
<1>5. d \in Nat
  BY <1>2, <1>4
<1>6. MismatchClass(a, b) =
        CASE a = b -> NearMissPatch(1)
          [] a # b /\ breaks -> Breaking
          [] a # b /\ ~breaks /\ (k = 2 \/ a[1] = 0) -> NearMissMinor(d)
          [] a # b /\ ~breaks /\ k = 3 /\ a[1] # 0 -> NearMissPatch(d)
  BY DEF MismatchClass
<1> HIDE DEF k, breaks, d
<1>7. NearMissPatch(1) \in Ranked /\ Breaking \in Ranked /\ NearMissMinor(d) \in Ranked /\ NearMissPatch(d) \in Ranked
  BY <1>5 DEF NearMissPatch, NearMissMinor, Breaking, Ranked
<1>8. ~breaks => (k = 2 \/ a[1] = 0) \/ (k = 3 /\ a[1] # 0)
  BY <1>3
<1> QED
  <2>1. CASE a = b
    BY <1>6, <1>7, <2>1
  <2>2. CASE a # b /\ breaks
    BY <1>6, <1>7, <2>2
  <2>3. CASE a # b /\ ~breaks /\ (k = 2 \/ a[1] = 0)
    BY <1>6, <1>7, <2>3
  <2>4. CASE a # b /\ ~breaks /\ k = 3 /\ a[1] # 0
    BY <1>6, <1>7, <2>4
  <2> QED BY <1>8, <2>1, <2>2, <2>3, <2>4

(* The class of a requested version beside any declaration.                 *)
LEMMA ClassifyType ==
  ASSUME NEW r \in RequestedVersions, NEW decl \in Constraints
  PROVE  Classify(r, decl) \in Ranked
<1>1. decl.cs \in SUBSET Comparators /\ decl.some \in BOOLEAN /\ decl.parses \in BOOLEAN
  BY DEF Constraints
<1>2. Asked(r) \subseteq Intervals /\ FromReq(decl.cs) \subseteq Intervals
  BY <1>1, AskedType
<1>3. \A b \in Limits, isUpper \in BOOLEAN : Representative(b, isUpper) \in Semvers
  <2> SUFFICES ASSUME NEW b \in Limits, NEW isUpper \in BOOLEAN
               PROVE  Representative(b, isUpper) \in Semvers
    OBVIOUS
  <2> DEFINE v == b.at
  <2>1. v \in Semvers
    BY DEF Limits
  <2>2. v[1] \in 0..Top /\ v[2] \in 0..Top /\ v[3] \in 0..Top
    BY <2>1 DEF Semvers, Component
  <2>3. \A i \in {1, 2, 3} : /\ v[i] > 0 => v[i] - 1 \in 0..Top
                             /\ v[i] < Top => v[i] + 1 \in 0..Top
    BY <2>2, TopAssumption
  <2>4. 0 \in 0..Top /\ Top \in 0..Top
    BY TopAssumption
  <2>5. \A x, y, z \in 0..Top : <<x, y, z>> \in Semvers
    BY DEF Semvers, Component
  <2> HIDE DEF v
  <2>6. /\ v[3] > 0 => <<v[1], v[2], v[3] - 1>> \in Semvers
        /\ v[2] > 0 => <<v[1], v[2] - 1, Top>> \in Semvers
        /\ v[1] > 0 => <<v[1] - 1, Top, Top>> \in Semvers
        /\ v[3] < Top => <<v[1], v[2], v[3] + 1>> \in Semvers
        /\ v[2] < Top => <<v[1], v[2] + 1, 0>> \in Semvers
        /\ v[1] < Top => <<v[1] + 1, 0, 0>> \in Semvers
    BY <2>2, <2>3, <2>4, <2>5
  <2> QED BY <2>1, <2>6 DEF Representative, v
<1>4. \A i, j \in Intervals : GapPair(i, j) \subseteq Semvers \X Semvers
  <2> SUFFICES ASSUME NEW i \in Intervals, NEW j \in Intervals
               PROVE  GapPair(i, j) \subseteq Semvers \X Semvers
    OBVIOUS
  <2>1. /\ i.lo \subseteq Limits /\ i.hi \subseteq Limits
        /\ j.lo \subseteq Limits /\ j.hi \subseteq Limits
    BY DEF Intervals
  <2>2. \A b \in Limits : Representative(b, TRUE) \in Semvers /\ Representative(b, FALSE) \in Semvers
    BY <1>3
  <2>3. \A p \in (i.hi \X j.lo) \cup (i.lo \X j.hi) : p[1] \in Limits /\ p[2] \in Limits
    BY <2>1
  <2> DEFINE A == {q \in i.hi \X j.lo : Pos(q[1].at) <= Pos(q[2].at)}
             B == {q \in i.lo \X j.hi : Pos(q[1].at) >= Pos(q[2].at)}
             low(p)  == <<Representative(p[1], TRUE), Representative(p[2], FALSE)>>
             high(p) == <<Representative(p[1], FALSE), Representative(p[2], TRUE)>>
  <2>4. \A p \in A \cup B : p[1] \in Limits /\ p[2] \in Limits
    BY <2>3
  <2>5. GapPair(i, j) = IF {low(p) : p \in A} # {} THEN {low(p) : p \in A} ELSE {high(p) : p \in B}
    BY DEF GapPair
  <2> HIDE DEF A, B
  <2>6. \A p \in A \cup B : low(p) \in Semvers \X Semvers /\ high(p) \in Semvers \X Semvers
    BY <2>2, <2>4
  <2> HIDE DEF low, high
  <2> QED BY <2>5, <2>6
<1> DEFINE gap == UNION {GapPair(i, j) : i \in Asked(r), j \in FromReq(decl.cs)}
           p == CHOOSE p \in gap : TRUE
<1>5. gap \subseteq Semvers \X Semvers
  BY <1>2, <1>4
<1>6. ASSUME gap # {} PROVE MismatchClass(p[1], p[2]) \in Ranked
  <2>1. p \in gap
    <3> HIDE DEF gap
    <3> QED BY <1>6
  <2>2. p[1] \in Semvers /\ p[2] \in Semvers
    BY <1>5, <2>1
  <2> HIDE DEF p
  <2> QED BY <2>2, MismatchType
<1>7. Satisfies \in Ranked /\ Unknown \in Ranked
  BY DEF Satisfies, Unknown, Ranked
<1>8. Classify(r, decl) =
        CASE ~decl.some    -> Satisfies
          [] ~decl.parses  -> Unknown
          [] decl.some /\ decl.parses /\ Overlap(r, decl.cs) -> Satisfies
          [] OTHER -> IF gap = {} THEN Unknown ELSE MismatchClass(p[1], p[2])
  BY DEF Classify
<1> HIDE DEF gap, p
<1> QED BY <1>6, <1>7, <1>8

(* A set of classes has a best one.                                         *)
LEMMA BestExists ==
  ASSUME NEW classes \in SUBSET Ranked, classes # {}
  PROVE  BestOf(classes) \in classes
<1> DEFINE S == {ClassRank(c) : c \in classes}
<1>1. \A c \in Ranked : ClassRank(c) \in Nat
  <2> SUFFICES ASSUME NEW c \in Ranked PROVE ClassRank(c) \in Nat
    OBVIOUS
  <2> DEFINE order == [satisfies |-> 0, patch |-> 1, minor |-> 2, unknown |-> 3, breaking |-> 4]
  <2>1. c[2] \in Nat /\ c[1] \in {"satisfies", "patch", "minor", "unknown", "breaking"}
    BY DEF Ranked
  <2>2. order[c[1]] \in {0, 1, 2, 3, 4}
    BY <2>1
  <2>3. ClassRank(c) = order[c[1]] * (Top + 2) + c[2]
    BY DEF ClassRank
  <2> HIDE DEF order
  <2> QED BY <2>1, <2>2, <2>3, TopAssumption
<1>2. S \in SUBSET Nat /\ S # {}
  BY <1>1
<1>3. PICK m \in S : \A x \in S : m <= x
  BY <1>2, Least
<1>4. PICK a \in classes : ClassRank(a) = m
  OBVIOUS
<1>5. \A b \in classes : ClassRank(a) <= ClassRank(b)
  BY <1>3, <1>4
<1> QED BY <1>5 DEF BestOf

(* The multiplier of a class is a natural, down to its floor.               *)
LEMMA MultiplierType ==
  ASSUME NEW class \in Classes
  PROVE  Multiplier(class) \in Nat
<1>1. class[2] \in Nat /\ class[1] \in {"satisfies", "patch", "minor", "unknown", "breaking", "silent"}
  BY DEF Classes
<1>2. \A x \in Int : Max({30, x}) \in Nat
  <2> SUFFICES ASSUME NEW x \in Int PROVE Max({30, x}) \in Nat
    OBVIOUS
  <2> DEFINE top == IF x > 30 THEN x ELSE 30
  <2>1. top \in {30, x} /\ \A y \in {30, x} : top >= y
    OBVIOUS
  <2>2. Max({30, x}) \in {30, x} /\ \A y \in {30, x} : Max({30, x}) >= y
    <3> HIDE DEF top
    <3> QED BY <2>1 DEF Max
  <2> QED BY <2>2
<1>3. 100 - 5 * class[2] \in Int /\ 100 - 15 * class[2] \in Int
  BY <1>1
<1>4. Max({30, 100 - 5 * class[2]}) \in Nat /\ Max({30, 100 - 15 * class[2]}) \in Nat
  BY <1>2, <1>3
<1> QED BY <1>1, <1>4 DEF Multiplier

(* The multiplier of what the facets come to.                               *)
LEMMA VersionMultiplierType ==
  ASSUME NEW outcomes \in SUBSET Classes
  PROVE  VersionMultiplier(outcomes) \in Nat
<1>1. CASE outcomes = {}
  BY <1>1 DEF VersionMultiplier
<1>2. CASE outcomes # {}
  <2> DEFINE S == {Multiplier(c) : c \in outcomes}
  <2>1. S \in SUBSET Nat /\ S # {}
    BY <1>2, MultiplierType
  <2>2. PICK m \in S : \A x \in S : m <= x
    BY <2>1, Least
  <2>3. Min(S) \in S
    BY <2>2 DEF Min
  <2>4. VersionMultiplier(outcomes) = Min(S)
    BY <1>2 DEF VersionMultiplier
  <2> QED BY <2>1, <2>3, <2>4
<1> QED BY <1>1, <1>2

(* The outcomes of one facet are classes.                                   *)
LEMMA OutcomesType ==
  ASSUME NEW wants, NEW targets,
         \A w \in wants : w.version \subseteq RequestedVersions,
         \A t \in targets : t.decl \in Constraints
  PROVE  FacetOutcome(wants, targets) \in SUBSET Classes
<1>1. Ranked \subseteq Classes /\ Silent \in Classes
  BY DEF Ranked, Classes, Silent
<1>2. \A w \in wants, t \in targets : ClassFor(w, t.decl) \in Ranked
  <2> SUFFICES ASSUME NEW w \in wants, NEW t \in targets PROVE ClassFor(w, t.decl) \in Ranked
    OBVIOUS
  <2> DEFINE r == CHOOSE r \in w.version : TRUE
  <2>1. w.version # {} => r \in RequestedVersions
    OBVIOUS
  <2>2. Satisfies \in Ranked /\ Unknown \in Ranked
    BY DEF Satisfies, Unknown, Ranked
  <2>3. w.version # {} => Classify(r, t.decl) \in Ranked
    <3> HIDE DEF r
    <3> QED BY <2>1, ClassifyType
  <2> QED BY <2>2, <2>3 DEF ClassFor
<1> DEFINE pairs == {p \in wants \X targets : p[1].name = p[2].name}
           classes == {ClassFor(p[1], p[2].decl) : p \in pairs}
<1>3. classes \in SUBSET Ranked
  BY <1>2
<1>4. pairs # {} => BestOf(classes) \in Ranked
  <2>1. pairs # {} => classes # {}
    OBVIOUS
  <2> HIDE DEF classes, pairs
  <2> QED BY <1>3, <2>1, BestExists
<1>5. FacetOutcome(wants, targets) =
        CASE wants = {} -> {}
          [] wants # {} /\ pairs = {} -> {Silent}
          [] wants # {} /\ pairs # {} -> {BestOf(classes)}
  BY DEF FacetOutcome
<1> HIDE DEF pairs, classes
<1> QED BY <1>1, <1>4, <1>5

(* A search: its candidates and its page are sequences of these.            *)
Cells == UNION {Span(c) : c \in Chunk}
Items == [id : Chunk, rrf : Nat, relevance : Nat, trust : Nat, reranked : BOOLEAN, content : SUBSET Cells]

(* A reciprocal rank is a number, and of two lists the sum.                 *)
LEMMA RrfType ==
  ASSUME NEW lists \in Seq(Chunk) \X Seq(Chunk), NEW c \in Chunk
  PROVE  Rrf(lists, c) \in Nat
<1>1. ASSUME NEW list \in Seq(Chunk) PROVE ShareIn(list, c) \in Nat
  <2> DEFINE rank == CHOOSE k \in DOMAIN list : list[k] = c
  <2>1. c \in Elems(list) => rank \in Nat
    BY DEF Elems
  <2> HIDE DEF rank
  <2>2. ASSUME rank \in Nat PROVE Share(rank) \in Nat
    <3>1. 60 + rank \in Nat \ {0} /\ 61 * 62 * 63 \in Nat
      BY <2>2
    <3> QED BY <3>1, Division DEF Share
  <2>3. ShareIn(list, c) = IF c \in Elems(list) THEN Share(rank) ELSE 0
    BY DEF ShareIn, rank
  <2> QED BY <2>1, <2>2, <2>3
<1>2. ShareIn(lists[1], c) \in Nat /\ ShareIn(lists[2], c) \in Nat
  BY <1>1
<1> QED BY <1>2 DEF Rrf

(* Fusion returns chunks.                                                   *)
LEMMA FuseType ==
  ASSUME NEW lists \in Seq(Chunk) \X Seq(Chunk)
  PROVE  Fuse(lists) \in Seq(Chunk)
<1> DEFINE P == {k \in DOMAIN lists[2] : lists[2][k] \notin Elems(lists[1])}
           seen == FirstSeen(lists)
           key == [k \in DOMAIN seen |-> Rrf(lists, seen[k])]
<1>1. lists[1] \in Seq(Chunk) /\ lists[2] \in Seq(Chunk) /\ P \in SUBSET DOMAIN lists[2]
  OBVIOUS
<1>2. Picked(lists[2], P) \in Seq(Chunk)
  <2> HIDE DEF P
  <2> QED BY <1>1, DrawnByPick
<1>3. seen \in Seq(Chunk)
  BY <1>1, <1>2 DEF FirstSeen
<1> HIDE DEF seen
<1>4. key \in [DOMAIN seen -> Int]
  <2>1. \A k \in DOMAIN seen : Rrf(lists, seen[k]) \in Int
    BY <1>3, RrfType
  <2> QED BY <2>1
<1> HIDE DEF key
<1>5. Descending(seen, key) \in Seq(Chunk)
  BY <1>3, <1>4, DrawnBySort
<1> QED BY <1>5 DEF Fuse, seen, key

(* A candidate is an item, whole and not reranked.                          *)
LEMMA CandidateType ==
  ASSUME NEW r \in Searches, NEW c \in Chunk
  PROVE  /\ Candidate(r, c) \in Items /\ ~Candidate(r, c).reranked
         /\ Candidate(r, c).id = c /\ Candidate(r, c).content = Span(c)
<1>1. /\ r.lists \in Seq(Chunk) \X Seq(Chunk)
      /\ \A f \in Facets : \A w \in r.wants[f] : w.version \subseteq RequestedVersions
      /\ \A document \in Docs, f \in Facets : \A t \in r.targets[document][f] : t.decl \in Constraints
      /\ r.trusts \in [Docs -> Nat]
  BY RankingAssumption
<1>2. Doc(c) \in Docs
  BY DEF Docs
<1>3. \A f \in Facets : FacetOutcome(r.wants[f], r.targets[Doc(c)][f]) \in SUBSET Classes
  <2> SUFFICES ASSUME NEW f \in Facets
               PROVE  FacetOutcome(r.wants[f], r.targets[Doc(c)][f]) \in SUBSET Classes
    OBVIOUS
  <2> DEFINE wants == r.wants[f]
             targets == r.targets[Doc(c)][f]
  <2>1. /\ \A w \in wants : w.version \subseteq RequestedVersions
        /\ \A t \in targets : t.decl \in Constraints
    BY <1>1, <1>2
  <2> HIDE DEF wants, targets
  <2>2. FacetOutcome(wants, targets) \in SUBSET Classes
    BY <2>1, OutcomesType
  <2> QED BY <2>2 DEF wants, targets
<1>4. Outcomes(r, c) \in SUBSET Classes
  BY <1>3 DEF Outcomes
<1>5. VersionMultiplier(Outcomes(r, c)) \in Nat /\ r.trusts[Doc(c)] \in Nat
  BY <1>1, <1>2, <1>4, VersionMultiplierType
<1>6. Trust(r, c) \in Nat
  <2> DEFINE a == r.trusts[Doc(c)]
             b == VersionMultiplier(Outcomes(r, c))
  <2>1. Trust(r, c) = a * b
    BY DEF Trust
  <2> HIDE DEF a, b
  <2>2. a \in Nat /\ b \in Nat
    BY <1>5 DEF a, b
  <2> QED BY <2>1, <2>2, Times
<1>7. Rrf(r.lists, c) \in Nat
  BY <1>1, RrfType
<1>8. Span(c) \in SUBSET Cells
  BY DEF Cells
<1>9. Candidate(r, c) = [id |-> c, rrf |-> Rrf(r.lists, c), relevance |-> Rrf(r.lists, c), trust |-> Trust(r, c),
                         reranked |-> FALSE, content |-> Span(c)]
  BY DEF Candidate
<1> QED BY <1>6, <1>7, <1>8, <1>9 DEF Items

(* Every item has a key for every order.                                    *)
LEMMA SortByIs ==
  ASSUME NEW s \in Seq(Items), NEW by \in SortKeys
  PROVE  /\ SortBy(s, by) \in Seq(Items) /\ Drawn(SortBy(s, by), s)
         /\ \A p \in DOMAIN s : \E k \in DOMAIN SortBy(s, by) : SortBy(s, by)[k] = s[p]
<1> DEFINE key == [k \in DOMAIN s |-> SortKey(by, s[k])]
<1>1. \A c \in Items : SortKey(by, c) \in Int
  <2> SUFFICES ASSUME NEW c \in Items PROVE SortKey(by, c) \in Int
    OBVIOUS
  <2>1. c.trust \in Nat /\ c.relevance \in Nat /\ c.rrf \in Nat
    BY DEF Items
  <2>2. Confidence(c) \in Nat
    <3> DEFINE a == c.trust
               b == c.relevance
    <3>1. Confidence(c) = a * b
      BY DEF Confidence
    <3> HIDE DEF a, b
    <3>2. a \in Nat /\ b \in Nat
      BY <2>1 DEF a, b
    <3> QED BY <3>1, <3>2, Times
  <2> QED BY <2>1, <2>2 DEF SortKey, SortKeys
<1>2. key \in [DOMAIN s -> Int]
  BY <1>1
<1>3. SortBy(s, by) = Descending(s, key)
  BY DEF SortBy
<1> HIDE DEF key
<1> QED BY <1>2, <1>3, DrawnBySort

(* The floor and the order: items of the candidates, all that are above it. *)
LEMMA OrderedIs ==
  ASSUME NEW s \in Seq(Items), req \in Searches
  PROVE  /\ Ordered(s) \in Seq(Items) /\ Drawn(Ordered(s), s)
         /\ \A p \in DOMAIN s :
              Confidence(s[p]) >= req.floor => \E k \in DOMAIN Ordered(s) : Ordered(s)[k] = s[p]
<1> DEFINE P == {k \in DOMAIN s : Confidence(s[k]) >= req.floor}
           u == AboveFloor(s, req.floor)
<1>1. OrderOf(req) \in SortKeys
  BY RankingAssumption DEF OrderOf, SortKeys
<1>2. u = Picked(s, P)
  BY DEF AboveFloor
<1> HIDE DEF u
<1>3. u \in Seq(Items) /\ Drawn(u, s)
  BY <1>2, DrawnByPick
<1>4. Ordered(s) = SortBy(u, OrderOf(req))
  BY DEF Ordered, u
<1>5. /\ Ordered(s) \in Seq(Items) /\ Drawn(Ordered(s), u)
      /\ \A p \in DOMAIN u : \E k \in DOMAIN Ordered(s) : Ordered(s)[k] = u[p]
  BY <1>1, <1>3, <1>4, SortByIs
<1>6. Drawn(Ordered(s), s)
  BY <1>3, <1>5, DrawnOn
<1>7. ASSUME NEW p \in P PROVE \E k \in DOMAIN Ordered(s) : Ordered(s)[k] = s[p]
  <2>1. PICK at \in [DOMAIN u -> P] : /\ \A q \in P : \E k \in DOMAIN at : at[k] = q
                                      /\ \A k \in DOMAIN at : u[k] = s[at[k]]
    <3>1. P \in SUBSET DOMAIN s
      OBVIOUS
    <3> HIDE DEF P
    <3> QED BY <1>2, <3>1, Picks
  <2>2. PICK k \in DOMAIN u : at[k] = p
    BY <2>1
  <2>3. u[k] = s[p]
    BY <2>1, <2>2
  <2> QED BY <1>5, <2>3
<1> QED BY <1>5, <1>6, <1>7

\* Two items are one but for their content and their scores.
Same(a, b) == a.id = b.id /\ a.reranked = b.reranked

(* What the dedup returns: the items that stay, each as it was but for its  *)
(* content.                                                                 *)
LEMMA DedupIs ==
  ASSUME NEW s \in Seq(Items)
  PROVE  /\ Dedup(s) \in Seq(Items)
         /\ \E at \in [DOMAIN Dedup(s) -> {k \in DOMAIN s : Stays(s, k)}] :
              /\ Increases(at)
              /\ \A p \in {k \in DOMAIN s : Stays(s, k)} : \E k \in DOMAIN at : at[k] = p
              /\ \A k \in DOMAIN at :
                   /\ Same(Dedup(s)[k], s[at[k]])
                   /\ Dedup(s)[k].content = IF Trims(s, at[k]) THEN Gaps(s, at[k]) ELSE s[at[k]].content
<1> DEFINE P == {k \in DOMAIN s : Stays(s, k)}
           t == Trimmed(s)
           item(k) == IF Trims(s, k) THEN [s[k] EXCEPT !.content = Gaps(s, k)] ELSE s[k]
<1>1. t = [k \in DOMAIN s |-> item(k)]
  BY DEF Trimmed
<1>2. ASSUME NEW k \in DOMAIN s
      PROVE  /\ t[k] \in Items /\ Same(t[k], s[k])
             /\ t[k].content = IF Trims(s, k) THEN Gaps(s, k) ELSE s[k].content
  <2>0. s[k] \in Items
    OBVIOUS
  <2>1. s[k] \in Items /\ s[k].id \in Chunk
    BY <2>0 DEF Items
  <2>2. Gaps(s, k) \in SUBSET Cells
    BY <2>1 DEF Gaps, Cells
  <2>3. t[k] = item(k)
    BY <1>1
  <2> HIDE DEF t
  <2> QED BY <2>1, <2>2, <2>3 DEF Items, Same
<1> HIDE DEF item
<1>3. DOMAIN t = DOMAIN s /\ DOMAIN s = 1..Len(s) /\ Len(s) \in Nat
  BY <1>1
<1> HIDE DEF t
<1>4. t \in Seq(Items)
  <2>1. t = [k \in 1..Len(s) |-> t[k]]
    BY <1>1, <1>3
  <2> QED BY <1>2, <1>3, <2>1
<1>5. Dedup(s) = Picked(t, P) /\ P \in SUBSET DOMAIN t
  BY <1>3 DEF Dedup, t
<1> HIDE DEF P
<1>6. Dedup(s) \in Seq(Items)
  BY <1>4, <1>5, Picks
<1>7. PICK at \in [DOMAIN Dedup(s) -> P] :
        /\ Increases(at)
        /\ \A p \in P : \E k \in DOMAIN at : at[k] = p
        /\ \A k \in DOMAIN at : Dedup(s)[k] = t[at[k]]
  BY <1>4, <1>5, Picks
<1>8. \A k \in DOMAIN at :
        /\ Same(Dedup(s)[k], s[at[k]])
        /\ Dedup(s)[k].content = IF Trims(s, at[k]) THEN Gaps(s, at[k]) ELSE s[at[k]].content
  <2> SUFFICES ASSUME NEW k \in DOMAIN at
               PROVE  /\ Same(Dedup(s)[k], s[at[k]])
                      /\ Dedup(s)[k].content = IF Trims(s, at[k]) THEN Gaps(s, at[k]) ELSE s[at[k]].content
    OBVIOUS
  <2>1. at[k] \in DOMAIN s
    BY <1>3, <1>5
  <2> QED BY <1>2, <1>7, <2>1
<1> QED BY <1>6, <1>7, <1>8 DEF P

Whole(s) == \A k \in DOMAIN s : s[k].content = Span(s[k].id)
Apart(s) ==
  \A i, j \in DOMAIN s :
    /\ i # j
    /\ Doc(s[i].id) = Doc(s[j].id)
    /\ Chunks[s[i].id].aligned /\ Chunks[s[j].id].aligned
    => s[i].content \cap s[j].content = {}

(* What the dedup keeps shares no text: the later of two has lost the whole *)
(* span of the earlier.                                                     *)
LEMMA DedupApart ==
  ASSUME NEW s \in Seq(Items), Whole(s)
  PROVE  Apart(Dedup(s))
<1> DEFINE t == Dedup(s)
           P == {k \in DOMAIN s : Stays(s, k)}
<1>1. PICK at \in [DOMAIN t -> P] :
        /\ Increases(at)
        /\ \A k \in DOMAIN at :
             /\ Same(t[k], s[at[k]])
             /\ t[k].content = IF Trims(s, at[k]) THEN Gaps(s, at[k]) ELSE s[at[k]].content
  BY DedupIs
<1>2. t \in Seq(Items)
  BY DedupIs
<1> HIDE DEF t
<1>3. \A k \in DOMAIN t : at[k] \in DOMAIN s /\ t[k].content \subseteq Span(t[k].id)
  BY <1>1 DEF Whole, Gaps, Same
<1>4. ASSUME NEW i \in DOMAIN t, NEW j \in DOMAIN t, i < j,
             Doc(t[i].id) = Doc(t[j].id), Chunks[t[j].id].aligned
      PROVE  t[i].content \cap t[j].content = {}
  <2>1. at[i] < at[j] /\ at[i] \in DOMAIN s /\ at[j] \in DOMAIN s
    BY <1>1, <1>3, <1>4 DEF Increases
  <2>2. at[i] \in 1..(at[j] - 1)
    BY <2>1
  <2>3. at[i] \in Earlier(s, at[j])
    BY <1>1, <1>4, <2>2 DEF Earlier, Same
  <2>4. Span(t[i].id) \cap Gaps(s, at[j]) = {}
    BY <1>1, <2>3 DEF Gaps, Same
  <2>5. t[j].content = Gaps(s, at[j])
    <3>1. CASE Trims(s, at[j])
      BY <1>1, <3>1
    <3>2. CASE ~Trims(s, at[j])
      <4>1. Gaps(s, at[j]) = Span(s[at[j]].id)
        BY <1>1, <1>4, <3>2 DEF Trims, Same
      <4> QED BY <1>1, <2>1, <3>2, <4>1 DEF Whole
    <3> QED BY <3>1, <3>2
  <2> QED BY <1>3, <2>4, <2>5
<1>5. DOMAIN t \subseteq Int
  BY <1>2
<1>6. Apart(t)
  <2> SUFFICES ASSUME NEW i \in DOMAIN t, NEW j \in DOMAIN t, i # j,
                      Doc(t[i].id) = Doc(t[j].id), Chunks[t[i].id].aligned, Chunks[t[j].id].aligned
               PROVE  t[i].content \cap t[j].content = {}
    BY DEF Apart
  <2>1. i < j \/ j < i
    BY <1>5
  <2> QED BY <1>4, <2>1
<1> QED BY <1>6 DEF t

Shown(t, n, document) == UNION {t[i].content : i \in {i \in 1..n : Doc(t[i].id) = document}}

(* What the dedup drops is shown: of the items whose span holds a cell, the *)
(* first keeps it.                                                          *)
LEMMA DedupReads ==
  ASSUME NEW s \in Seq(Items), Whole(s)
  PROVE  /\ \A i \in DOMAIN Dedup(s) :
              Span(Dedup(s)[i].id) \ Blank \subseteq Shown(Dedup(s), i, Doc(Dedup(s)[i].id))
         /\ \A p \in DOMAIN s :
              Span(s[p].id) \ Blank \subseteq Shown(Dedup(s), Len(Dedup(s)), Doc(s[p].id))
<1> DEFINE t == Dedup(s)
           P == {k \in DOMAIN s : Stays(s, k)}
<1>1. PICK at \in [DOMAIN t -> P] :
        /\ Increases(at)
        /\ \A p \in P : \E k \in DOMAIN at : at[k] = p
        /\ \A k \in DOMAIN at :
             /\ Same(t[k], s[at[k]])
             /\ t[k].content = IF Trims(s, at[k]) THEN Gaps(s, at[k]) ELSE s[at[k]].content
  BY DedupIs
<1>2. t \in Seq(Items)
  BY DedupIs
<1> HIDE DEF t
<1>3. DOMAIN s = 1..Len(s) /\ Len(s) \in Nat /\ DOMAIN t = 1..Len(t) /\ Len(t) \in Nat
  BY <1>2
<1>4. ASSUME NEW p \in DOMAIN s, NEW x \in Span(s[p].id) \ Blank
      PROVE  \E k \in DOMAIN t : at[k] <= p /\ Doc(t[k].id) = Doc(s[p].id) /\ x \in t[k].content
  <2> DEFINE S == {q \in 1..p : Doc(s[q].id) = Doc(s[p].id) /\ x \in Span(s[q].id)}
  <2>1. S \subseteq Nat /\ S # {}
    BY <1>3, <1>4
  <2>2. PICK q \in S : \A r \in S : q <= r
    BY <2>1, Least
  <2>3. q \in DOMAIN s /\ q <= p /\ Doc(s[q].id) = Doc(s[p].id) /\ x \in Span(s[q].id)
    BY <1>3, <1>4
  <2>4. \A j \in Earlier(s, q) : x \notin Span(s[j].id)
    <3> SUFFICES ASSUME NEW j \in Earlier(s, q), x \in Span(s[j].id) PROVE FALSE
      OBVIOUS
    <3>1. j \in 1..(q - 1) /\ Doc(s[j].id) = Doc(s[q].id)
      BY DEF Earlier
    <3>2. j \in 1..p /\ j < q
      BY <1>3, <2>3, <3>1
    <3>3. j \in S
      BY <2>3, <3>1, <3>2
    <3>4. q <= j
      BY <2>2, <3>3
    <3> QED BY <1>3, <2>3, <3>2, <3>4
  <2>5. x \in Gaps(s, q)
    BY <2>3, <2>4 DEF Gaps
  <2>6. Stays(s, q)
    BY <1>4, <2>5 DEF Stays
  <2>7. PICK k \in DOMAIN at : at[k] = q
    BY <1>1, <2>3, <2>6
  <2>8. x \in t[k].content
    BY <1>1, <2>3, <2>5, <2>7 DEF Whole
  <2>9. Doc(t[k].id) = Doc(s[p].id)
    BY <1>1, <2>3, <2>7 DEF Same
  <2> QED BY <2>3, <2>7, <2>8, <2>9
<1>5. ASSUME NEW i \in DOMAIN t
      PROVE  Span(t[i].id) \ Blank \subseteq Shown(t, i, Doc(t[i].id))
  <2> SUFFICES ASSUME NEW x \in Span(t[i].id) \ Blank PROVE x \in Shown(t, i, Doc(t[i].id))
    OBVIOUS
  <2>1. at[i] \in DOMAIN s /\ t[i].id = s[at[i]].id
    BY <1>1 DEF Same
  <2>2. PICK k \in DOMAIN t : at[k] <= at[i] /\ Doc(t[k].id) = Doc(t[i].id) /\ x \in t[k].content
    BY <1>4, <2>1
  <2>3. at[k] \in Nat /\ at[i] \in Nat /\ k \in Nat /\ i \in Nat
    BY <1>3
  <2>4. ~(i < k)
    BY <1>1, <2>2, <2>3 DEF Increases
  <2>5. k \in 1..i
    BY <1>3, <2>3, <2>4
  <2> QED BY <2>2, <2>5 DEF Shown
<1>6. ASSUME NEW p \in DOMAIN s
      PROVE  Span(s[p].id) \ Blank \subseteq Shown(t, Len(t), Doc(s[p].id))
  <2> SUFFICES ASSUME NEW x \in Span(s[p].id) \ Blank PROVE x \in Shown(t, Len(t), Doc(s[p].id))
    OBVIOUS
  <2>1. PICK k \in DOMAIN t : Doc(t[k].id) = Doc(s[p].id) /\ x \in t[k].content
    BY <1>4
  <2> QED BY <1>3, <2>1 DEF Shown
<1> QED BY <1>5, <1>6 DEF t

-----------------------------------------------------------------------------
(* The steps of a search.                                                   *)

Notes == {NotRequested, Applied} \cup {Degraded(why) : why \in {"disabled", "token_budget_exhausted", "provider_error"}}

SearchType ==
  /\ req \in Searches
  /\ phase \in {"retrieved", "pool", "rerank", "voyage", "finish", "client", "shown", "failed", "gone"}
  /\ scored \in Seq(Items) /\ page \in Seq(Items) /\ early \in BOOLEAN
  /\ meta \in Notes
  /\ ledger \in {"none", "reserved", "settled", "released"}
  /\ local \in {"none", "billed"}

(* What each stage of a search has behind it.                               *)
Staged ==
  /\ phase \in {"retrieved", "pool", "rerank"} => ledger = "none" /\ ~meta.applied
  /\ phase \in {"retrieved", "pool"} => ~early
  /\ phase \in {"rerank", "voyage"} => early
  /\ phase \in {"pool", "rerank", "voyage", "gone"} => req.placement = "server"
  /\ phase \in {"client", "failed"} => req.placement = "local"
  /\ req.placement # "server" => ledger = "none" /\ ~early
  /\ phase \notin {"client", "shown", "failed"} => page = <<>>
  /\ ledger = "reserved" <=> phase \in {"voyage", "gone"}
  /\ local = "billed" => phase = "shown" /\ req.placement = "local"

(* What was paid is what the response says and what the items show.         *)
Owed(s, paid) == \A k \in DOMAIN s : s[k].reranked => paid
Answered(s) == \A k \in DOMAIN s : s[k].reranked
Billed ==
  /\ ledger = "settled" => meta.applied
  /\ meta.applied => ledger = "settled" \/ scored = <<>>
  /\ Owed(scored, ledger = "settled")
  /\ Owed(page, ledger = "settled" \/ local = "billed")
  /\ local = "billed" => Answered(page)

(* The texts: whole until the dedup, apart after it.                        *)
Texts ==
  /\ early => Apart(scored)
  /\ ~early => Whole(scored)
  /\ Apart(page)
  /\ ReadsWhole

SearchInv == SearchType /\ Staged /\ Billed /\ Texts

(* A selection of items keeps what holds of each, and of each two.          *)
LEMMA DrawnKeeps ==
  ASSUME NEW s, NEW t, Drawn(t, s)
  PROVE  /\ \A paid \in BOOLEAN : Owed(s, paid) => Owed(t, paid)
         /\ Answered(s) => Answered(t)
         /\ Whole(s) => Whole(t)
         /\ Apart(s) => Apart(t)
<1>1. PICK at \in Injection(DOMAIN t, DOMAIN s) : \A k \in DOMAIN t : t[k] = s[at[k]]
  BY DEF Drawn
<1>2. \A k \in DOMAIN t : at[k] \in DOMAIN s
  BY Fun_InjectionProperties
<1>3. \A i, j \in DOMAIN t : i # j => at[i] # at[j]
  BY Fun_InjectionProperties
<1>4. (\A paid \in BOOLEAN : Owed(s, paid) => Owed(t, paid)) /\ (Answered(s) => Answered(t))
  BY <1>1, <1>2 DEF Owed, Answered
<1>5. Whole(s) => Whole(t)
  BY <1>1, <1>2 DEF Whole
<1>6. Apart(s) => Apart(t)
  BY <1>1, <1>2, <1>3 DEF Apart
<1> QED BY <1>4, <1>5, <1>6

(* An empty sequence of items has every property that the steps keep.       *)
LEMMA NothingIsFine ==
  /\ <<>> \in Seq(Items) /\ Whole(<<>>) /\ Apart(<<>>) /\ Answered(<<>>) /\ \A paid \in BOOLEAN : Owed(<<>>, paid)
<1>1. <<>> \in Seq(Items) /\ DOMAIN <<>> = {}
  OBVIOUS
<1> QED BY <1>1 DEF Whole, Apart, Owed, Answered

(* What the reranker answers changes neither the texts nor their order.     *)
LEMMA RescoredIs ==
  ASSUME NEW s \in Seq(Items), NEW D \in SUBSET DOMAIN s, NEW got \in [D -> Relevances]
  PROVE  /\ Rescored(s, got) \in Seq(Items) /\ DOMAIN Rescored(s, got) = DOMAIN s
         /\ \A k \in D : Rescored(s, got)[k].reranked
         /\ Apart(s) => Apart(Rescored(s, got))
<1> DEFINE t == Rescored(s, got)
           item(k) == IF k \in D THEN [s[k] EXCEPT !.relevance = got[k], !.reranked = TRUE] ELSE s[k]
<1>1. t = [k \in DOMAIN s |-> item(k)]
  BY DEF Rescored
<1>2. Relevances \subseteq Nat
  BY RankingAssumption
<1>3. ASSUME NEW k \in DOMAIN s
      PROVE  /\ t[k] \in Items /\ (k \in D => t[k].reranked = TRUE)
             /\ t[k].id = s[k].id /\ t[k].content = s[k].content
  <2>0. s[k] \in Items
    OBVIOUS
  <2>1. t[k] = item(k)
    BY <1>1
  <2> HIDE DEF t
  <2>2. CASE k \in D
    <3>1. got[k] \in Nat
      BY <1>2, <2>2
    <3> QED BY <2>0, <2>1, <2>2, <3>1 DEF Items
  <2>3. CASE k \notin D
    BY <2>0, <2>1, <2>3
  <2> QED BY <2>2, <2>3
<1> HIDE DEF t, item
<1>4. DOMAIN t = DOMAIN s /\ DOMAIN s = 1..Len(s) /\ Len(s) \in Nat
  BY <1>1
<1>5. t = [k \in 1..Len(s) |-> item(k)]
  BY <1>1, <1>4
<1>6. t \in Seq(Items)
  <2>1. \A k \in 1..Len(s) : item(k) \in Items
    BY <1>1, <1>3, <1>4
  <2> QED BY <1>4, <1>5, <2>1
<1>7. \A k \in D : t[k].reranked
  BY <1>3
<1>8. Apart(s) => Apart(t)
  BY <1>3, <1>4 DEF Apart
<1> QED BY <1>4, <1>6, <1>7, <1>8 DEF t

(* Reordered by the answer, and with nothing it leaves out, every item was  *)
(* answered about.                                                          *)
LEMMA ReorderedIs ==
  ASSUME NEW s \in Seq(Items), NEW D \in SUBSET DOMAIN s, NEW got \in [D -> Relevances], NEW order \in AnswerOrders(D)
  PROVE  /\ Reordered(s, got, order) \in Seq(Items) /\ Answered(Reordered(s, got, order))
         /\ Apart(s) => Apart(Reordered(s, got, order))
<1> DEFINE t == Rescored(s, got)
           u == Reordered(s, got, order)
           n == Cardinality(D)
<1>1. /\ t \in Seq(Items) /\ DOMAIN t = DOMAIN s
      /\ \A k \in D : t[k].reranked
      /\ Apart(s) => Apart(t)
  BY RescoredIs
<1>2. /\ order \in [1..n -> D] /\ u = [k \in DOMAIN order |-> t[order[k]]]
      /\ \A i, j \in DOMAIN order : i # j => order[i] # order[j]
  BY DEF AnswerOrders, Reordered
<1>3. n \in Nat
  <2>1. IsFiniteSet(DOMAIN s)
    <3>1. DOMAIN s = 1..Len(s) /\ Len(s) \in Nat
      OBVIOUS
    <3> QED BY <3>1, FS_Interval
  <2>2. IsFiniteSet(D)
    BY <2>1, FS_Subset
  <2> QED BY <2>2, FS_CardinalityType
<1> HIDE DEF t, u, n
<1>4. \A k \in 1..n : order[k] \in D /\ order[k] \in DOMAIN t /\ t[order[k]] \in Items
  BY <1>1, <1>2
<1>5. u \in Seq(Items) /\ DOMAIN u = 1..n
  BY <1>2, <1>3, <1>4
<1>6. Answered(u)
  BY <1>1, <1>2, <1>4, <1>5 DEF Answered
<1>7. Apart(s) => Apart(u)
  <2>1. \A i \in 1..n : u[i] = t[order[i]] /\ order[i] \in DOMAIN t
    BY <1>2, <1>4
  <2>2. \A i, j \in 1..n : i # j => order[i] # order[j]
    BY <1>2
  <2>3. Apart(t) => Apart(u)
    BY <1>5, <2>1, <2>2 DEF Apart
  <2> QED BY <1>1, <2>3
<1> QED BY <1>5, <1>6, <1>7 DEF u

(* The larger of two naturals.                                              *)
LEMMA Larger ==
  ASSUME NEW a \in Nat, NEW b \in Nat
  PROVE  Max({a, b}) \in Nat /\ Max({a, b}) >= a /\ Max({a, b}) >= b
<1> DEFINE top == IF a > b THEN a ELSE b
<1>1. top \in {a, b} /\ \A y \in {a, b} : top >= y
  OBVIOUS
<1>2. Max({a, b}) \in {a, b} /\ \A y \in {a, b} : Max({a, b}) >= y
  <2> HIDE DEF top
  <2> QED BY <1>1 DEF Max
<1> QED BY <1>2

(* A deduped sequence of whole items is apart, and as much reranked.        *)
LEMMA DedupKeeps ==
  ASSUME NEW s \in Seq(Items), NEW paid \in BOOLEAN, Owed(s, paid)
  PROVE  Dedup(s) \in Seq(Items) /\ Owed(Dedup(s), paid)
<1>1. Dedup(s) \in Seq(Items)
  BY DedupIs
<1>2. PICK at \in [DOMAIN Dedup(s) -> {k \in DOMAIN s : Stays(s, k)}] :
        \A k \in DOMAIN at : Same(Dedup(s)[k], s[at[k]])
  BY DedupIs
<1>3. \A k \in DOMAIN Dedup(s) : at[k] \in DOMAIN s /\ Dedup(s)[k].reranked = s[at[k]].reranked
  BY <1>2 DEF Same
<1> QED BY <1>1, <1>3 DEF Owed

(* A search starts in the invariant.                                        *)
LEMMA InitSearch ==
  ASSUME Init
  PROVE  SearchInv
<1>1. SearchType
  BY NothingIsFine DEF Init, SearchType, Notes
<1>2. Staged
  BY DEF Init, Staged, NotRequested
<1>3. Billed
  BY NothingIsFine DEF Init, Billed, NotRequested
<1>4. Texts
  BY NothingIsFine DEF Init, Texts, ReadsWhole
<1> QED BY <1>1, <1>2, <1>3, <1>4 DEF SearchInv

(* Fusing, scoring and the version filter keep the invariant: the texts are *)
(* still whole.                                                             *)
LEMMA ScoreKeeps ==
  ASSUME SearchInv, Score
  PROVE  SearchInv'
<1>1. PICK gone \in {{}} \cup {{c} : c \in Elems(req.lists[1])} :
        LET fused == Fuse(req.lists)
            kept  == Picked(fused, {k \in DOMAIN fused : /\ fused[k] \notin gone
                                                         /\ Keeps(req.mode, Outcomes(req, fused[k]))})
        IN  scored' = [i \in DOMAIN kept |-> Candidate(req, kept[i])]
  BY DEF Score
<1> DEFINE fused == Fuse(req.lists)
           P == {k \in DOMAIN fused : /\ fused[k] \notin gone
                                      /\ Keeps(req.mode, Outcomes(req, fused[k]))}
           kept == Picked(fused, P)
<1>2. scored' = [i \in DOMAIN kept |-> Candidate(req, kept[i])]
  BY <1>1
<1>3. req \in Searches /\ req.lists \in Seq(Chunk) \X Seq(Chunk) /\ req.placement \in Placements
  BY RankingAssumption DEF SearchInv, SearchType
<1>4. fused \in Seq(Chunk)
  BY <1>3, FuseType
<1>5. P \in SUBSET DOMAIN fused
  OBVIOUS
<1> HIDE DEF fused, P
<1>6. kept \in Seq(Chunk)
  BY <1>4, <1>5, DrawnByPick
<1> HIDE DEF kept
<1>7. \A i \in DOMAIN kept : /\ Candidate(req, kept[i]) \in Items /\ ~Candidate(req, kept[i]).reranked
                             /\ Candidate(req, kept[i]).content = Span(Candidate(req, kept[i]).id)
  <2>1. \A i \in DOMAIN kept : kept[i] \in Chunk
    BY <1>6
  <2> QED BY <1>3, <2>1, CandidateType
<1>8. scored' \in Seq(Items) /\ DOMAIN scored' = DOMAIN kept
  <2>1. DOMAIN kept = 1..Len(kept) /\ Len(kept) \in Nat
    BY <1>6
  <2> QED BY <1>2, <1>7, <2>1
<1>9. Whole(scored)' /\ Owed(scored', FALSE)
  BY <1>2, <1>7, <1>8 DEF Whole, Owed
<1>10. /\ phase = "retrieved" /\ phase' \in {"pool", "finish"} /\ (phase' = "pool" <=> req.placement = "server")
       /\ UNCHANGED <<req, early, meta, ledger, local, page>>
  BY DEF Score, Reranks
<1>11. SearchType'
  BY <1>8, <1>10 DEF SearchInv, SearchType
<1>12. ledger = "none" /\ ~meta.applied /\ ~early /\ page = <<>> /\ local = "none"
  BY <1>10 DEF SearchInv, SearchType, Staged
<1>13. Staged'
  BY <1>10, <1>12 DEF SearchInv, Staged
<1>14. Billed'
  BY <1>9, <1>10, <1>12 DEF SearchInv, Billed
<1>15. Texts'
  <2>1. ReadsWhole'
    BY <1>10 DEF ReadsWhole
  <2> QED BY <1>9, <1>10, <1>12, <2>1 DEF SearchInv, Texts
<1> QED BY <1>11, <1>13, <1>14, <1>15 DEF SearchInv

(* Sorting, dedup and the pool keep the invariant: from here no two results *)
(* of a document share a cell.                                              *)
LEMMA PoolKeeps ==
  ASSUME SearchInv, Pool
  PROVE  SearchInv'
<1> DEFINE u == SortBy(scored, "score")
           n == Max({req.limit, RerankPool})
<1>1. /\ phase = "pool" /\ phase' = "rerank" /\ early' = TRUE
      /\ scored' = Truncate(Dedup(u), n)
      /\ UNCHANGED <<req, meta, ledger, local, page>>
  BY DEF Pool
<1>2. /\ req \in Searches /\ scored \in Seq(Items) /\ ~early /\ Whole(scored)
      /\ ledger = "none" /\ Owed(scored, FALSE) /\ page = <<>> /\ ~meta.applied
  BY <1>1 DEF SearchInv, SearchType, Staged, Billed, Texts
<1>3. u \in Seq(Items) /\ Drawn(u, scored)
  BY <1>2, SortByIs DEF SortKeys
<1> HIDE DEF u
<1>4. Whole(u) /\ Owed(u, FALSE)
  BY <1>2, <1>3, DrawnKeeps
<1>5. Dedup(u) \in Seq(Items) /\ Owed(Dedup(u), FALSE) /\ Apart(Dedup(u))
  BY <1>3, <1>4, DedupKeeps, DedupApart
<1>6. n \in Nat
  BY <1>2, RankingAssumption, Larger
<1> HIDE DEF n
<1>7. scored' \in Seq(Items) /\ Drawn(scored', Dedup(u))
  BY <1>1, <1>5, <1>6, DrawnByCut
<1>8. Apart(scored') /\ Owed(scored', FALSE)
  BY <1>5, <1>7, DrawnKeeps
<1>9. SearchType'
  BY <1>1, <1>7 DEF SearchInv, SearchType
<1>10. Staged'
  BY <1>1, <1>2 DEF SearchInv, Staged
<1>11. Billed'
  BY <1>1, <1>2, <1>8 DEF SearchInv, Billed
<1>12. Texts'
  <2>1. ReadsWhole'
    BY <1>1 DEF ReadsWhole
  <2>2. Apart(scored)'
    BY <1>8 DEF Apart
  <2>3. Apart(page)'
    BY <1>1 DEF SearchInv, Texts, Apart
  <2> QED BY <1>1, <2>1, <2>2, <2>3 DEF Texts
<1> QED BY <1>9, <1>10, <1>11, <1>12 DEF SearchInv

(* The steps of the server's rerank: what they leave alone, and the texts.  *)
LEMMA RerankKeeps ==
  ASSUME SearchInv, Disabled \/ NothingToRerank \/ Reserve \/ Refused \/ VoyageFails \/ VoyageAnswers \/ HandlerDropped
  PROVE  SearchInv'
<1>1. phase \in {"rerank", "voyage"} /\ phase' \in {"voyage", "finish", "gone"} /\ UNCHANGED <<req, early, local, page>>
  BY DEF Disabled, NothingToRerank, Reserve, Refused, VoyageFails, VoyageAnswers, HandlerDropped, Degrade
<1>2. page = <<>> /\ req.placement = "server" /\ local = "none" /\ ReadsWhole'
  BY <1>1 DEF SearchInv, SearchType, Staged, ReadsWhole
<1>3. ASSUME UNCHANGED scored PROVE Texts'
  <2>1. Texts
    BY DEF SearchInv
  <2> QED BY <1>1, <1>2, <1>3, <2>1 DEF Texts, Apart, Whole
<1>4. ASSUME UNCHANGED scored, ledger' # "settled", phase' \in {"voyage", "gone"} <=> ledger' = "reserved",
             ledger' \in {"none", "reserved", "released"},
             meta' \in Notes, meta'.applied => scored = <<>>,
             ledger # "settled"
      PROVE  SearchInv'
  <2>1. SearchType'
    BY <1>1, <1>4 DEF SearchInv, SearchType
  <2>2. Staged'
    BY <1>1, <1>2, <1>4 DEF SearchInv, Staged
  <2>3. Billed'
    BY <1>1, <1>2, <1>4 DEF SearchInv, Billed, Owed, Answered
  <2> QED BY <1>3, <1>4, <2>1, <2>2, <2>3 DEF SearchInv
<1>5. /\ meta \in Notes
      /\ phase = "rerank" => ledger = "none" /\ ~meta.applied
      /\ phase = "voyage" => ledger = "reserved"
  BY DEF SearchInv, SearchType, Staged
<1>6. /\ Degraded("disabled") \in Notes /\ ~Degraded("disabled").applied
      /\ Degraded("token_budget_exhausted") \in Notes /\ ~Degraded("token_budget_exhausted").applied
      /\ Degraded("provider_error") \in Notes /\ ~Degraded("provider_error").applied
  BY DEF Degraded, Notes
<1>7. Applied \in Notes /\ Applied.applied
  BY DEF Applied, Notes
<1>8. CASE Disabled \/ Refused
  BY <1>4, <1>5, <1>6, <1>8 DEF Disabled, Refused, Degrade
<1>9. CASE NothingToRerank
  BY <1>4, <1>5, <1>7, <1>9 DEF NothingToRerank
<1>10. CASE Reserve
  BY <1>4, <1>5, <1>10 DEF Reserve
<1>11. CASE VoyageFails
  BY <1>4, <1>5, <1>6, <1>11 DEF VoyageFails, Degrade
<1>13. CASE HandlerDropped
  <2>1. ~meta.applied \/ scored = <<>>
    BY <1>5, <1>13 DEF SearchInv, Billed, HandlerDropped
  <2> QED BY <1>4, <1>5, <1>13, <2>1 DEF HandlerDropped
<1>12. CASE VoyageAnswers
  <2>1. PICK D \in SUBSET DOMAIN scored : \E got \in [D -> Relevances] : scored' = Rescored(scored, got)
    BY <1>12 DEF VoyageAnswers
  <2>2. phase' = "finish" /\ ledger' = "settled" /\ meta' = Applied
    BY <1>12 DEF VoyageAnswers
  <2>3. scored \in Seq(Items)
    BY DEF SearchInv, SearchType
  <2>4. scored' \in Seq(Items) /\ (Apart(scored) => Apart(scored'))
    BY <2>1, <2>3, RescoredIs
  <2>5. early
    BY <1>12 DEF SearchInv, Staged, VoyageAnswers
  <2>6. SearchType'
    BY <1>1, <1>7, <2>2, <2>4 DEF SearchInv, SearchType
  <2>7. Staged'
    BY <1>1, <1>2, <2>2 DEF SearchInv, Staged
  <2>8. Billed'
    BY <1>1, <1>2, <1>7, <2>2, <2>4, NothingIsFine DEF SearchInv, Billed, Owed, Answered
  <2>9. Texts'
    BY <1>1, <1>2, <2>4, <2>5 DEF SearchInv, Texts, Apart
  <2> QED BY <2>6, <2>7, <2>8, <2>9 DEF SearchInv
<1> QED BY <1>8, <1>9, <1>10, <1>11, <1>12, <1>13

(* What the page shows: of the candidates above the floor, in order, a part *)
(* that shares no text, and without a rerank all of it.                     *)
LEMMA FinishKeeps ==
  ASSUME SearchInv, Finish
  PROVE  SearchInv'
<1> DEFINE u == Ordered(scored)
           t == IF early THEN u ELSE Dedup(u)
           n == LimitOf(req)
<1>1. /\ phase = "finish" /\ page' = Truncate(t, n)
      /\ phase' = (IF req.placement = "local" THEN "client" ELSE "shown")
      /\ UNCHANGED <<req, scored, early, meta, ledger, local>>
  BY DEF Finish
<1>2. /\ req \in Searches /\ scored \in Seq(Items) /\ early \in BOOLEAN
      /\ early => Apart(scored)
      /\ ~early => Whole(scored)
      /\ local = "none" /\ Owed(scored, ledger = "settled")
      /\ req.placement # "server" => ledger = "none" /\ ~early
      /\ ledger # "reserved"
  BY <1>1 DEF SearchInv, SearchType, Staged, Billed, Texts
<1>3. n \in Nat /\ (req.placement = "off" => n = req.limit) /\ req.limit \in Nat
  BY <1>2, RankingAssumption, Larger DEF LimitOf
<1>4. /\ u \in Seq(Items) /\ Drawn(u, scored)
      /\ \A p \in DOMAIN scored :
           Confidence(scored[p]) >= req.floor => \E k \in DOMAIN u : u[k] = scored[p]
  BY <1>2, OrderedIs
<1> HIDE DEF u, n
<1>5. /\ early => Apart(u)
      /\ ~early => Whole(u)
      /\ Owed(u, ledger = "settled")
  <2>1. (ledger = "settled") \in BOOLEAN
    OBVIOUS
  <2> QED BY <1>2, <1>4, <2>1, DrawnKeeps
<1>6. t \in Seq(Items) /\ Apart(t) /\ Owed(t, ledger = "settled")
  <2>1. CASE early
    BY <1>4, <1>5, <2>1
  <2>2. CASE ~early
    <3>1. (ledger = "settled") \in BOOLEAN
      OBVIOUS
    <3>2. Dedup(u) \in Seq(Items) /\ Owed(Dedup(u), ledger = "settled")
      BY <1>4, <1>5, <3>1, DedupKeeps
    <3>3. Apart(Dedup(u))
      BY <1>4, <1>5, <2>2, DedupApart
    <3> QED BY <2>2, <3>2, <3>3
  <2> QED BY <2>1, <2>2
<1> DEFINE p == page'
<1>7. /\ p \in Seq(Items) /\ Drawn(p, t)
      /\ Len(p) < n => p = t
      /\ \A k \in DOMAIN p : k \in DOMAIN t /\ p[k] = t[k]
  <2> HIDE DEF t
  <2> QED BY <1>1, <1>3, <1>6, DrawnByCut
<1>8. Apart(p) /\ Owed(p, ledger = "settled")
  <2>1. (ledger = "settled") \in BOOLEAN
    OBVIOUS
  <2> HIDE DEF t, p
  <2> QED BY <1>6, <1>7, <2>1, DrawnKeeps
<1>9. SearchType'
  BY <1>1, <1>7 DEF SearchInv, SearchType
<1>10. Staged'
  BY <1>1, <1>2 DEF SearchInv, Staged
<1>11. Billed'
  <2>1. Owed(scored, ledger = "settled")'
    BY <1>1, <1>2 DEF Owed
  <2>2. Owed(page, ledger = "settled" \/ local = "billed")'
    BY <1>1, <1>2, <1>8 DEF Owed
  <2>3. local' # "billed"
    BY <1>1, <1>2
  <2> QED BY <1>1, <2>1, <2>2, <2>3 DEF SearchInv, Billed
<1>12. ASSUME req.placement = "off" PROVE ReadsWhole'
  <2>1. ~early /\ t = Dedup(u) /\ Whole(u) /\ n = req.limit
    BY <1>2, <1>3, <1>5, <1>12
  <2>2. /\ \A i \in DOMAIN t : Span(t[i].id) \ Blank \subseteq Shown(t, i, Doc(t[i].id))
        /\ \A i \in DOMAIN u : Span(u[i].id) \ Blank \subseteq Shown(t, Len(t), Doc(u[i].id))
    BY <1>4, <2>1, DedupReads
  <2> HIDE DEF t
  <2>3. DOMAIN p = 1..Len(p) /\ Len(p) \in Nat
    BY <1>7
  <2>4. ASSUME NEW i \in DOMAIN p PROVE Shown(p, i, Doc(p[i].id)) = Shown(t, i, Doc(t[i].id)) /\ p[i] = t[i]
    <3>1. \A k \in 1..i : k \in DOMAIN p /\ p[k] = t[k]
      BY <1>7, <2>3
    <3>2. i \in 1..i
      BY <2>3
    <3> QED BY <3>1, <3>2 DEF Shown
  <2>5. \A i \in DOMAIN p : Span(p[i].id) \ Blank \subseteq Shown(p, i, Doc(p[i].id))
    BY <1>7, <2>2, <2>4
  <2>6. ASSUME Len(p) < req.limit, NEW i \in DOMAIN scored, Confidence(scored[i]) >= req.floor
        PROVE  Span(scored[i].id) \ Blank \subseteq Shown(p, Len(p), Doc(scored[i].id))
    <3>1. p = t
      BY <1>7, <2>1, <2>6
    <3>2. PICK k \in DOMAIN u : u[k] = scored[i]
      BY <1>4, <2>6
    <3>3. Span(u[k].id) \ Blank \subseteq Shown(t, Len(t), Doc(u[k].id))
      BY <2>2
    <3> QED BY <3>1, <3>2, <3>3
  <2>7. \A m, document : Told(m, document)' = Shown(p, m, document)
    BY DEF Told, Shown
  <2> HIDE DEF p
  <2> QED BY <1>1, <2>5, <2>6, <2>7 DEF ReadsWhole, p
<1>13. Texts'
  <2>1. ReadsWhole'
    BY <1>1, <1>12 DEF ReadsWhole
  <2>2. Apart(page)'
    BY <1>8 DEF Apart
  <2>3. (early => Apart(scored))' /\ (~early => Whole(scored))'
    BY <1>1, <1>2 DEF Apart, Whole
  <2> QED BY <2>1, <2>2, <2>3 DEF Texts
<1> QED BY <1>9, <1>10, <1>11, <1>13 DEF SearchInv

(* The client's own rerank.                                                 *)
LEMMA ClientKeeps ==
  ASSUME SearchInv, ClientReranks \/ ClientShowsNothing \/ ClientRerankFails
  PROVE  SearchInv'
<1>1. phase = "client" /\ phase' \in {"shown", "failed"} /\ UNCHANGED <<req, scored, early, meta, ledger>>
  BY DEF ClientReranks, ClientShowsNothing, ClientRerankFails
<1>2. /\ req \in Searches /\ page \in Seq(Items) /\ Apart(page)
      /\ req.placement = "local" /\ ledger = "none" /\ ~early /\ local = "none"
      /\ Whole(scored) /\ Owed(scored, FALSE)
  BY <1>1 DEF SearchInv, SearchType, Staged, Billed, Texts
<1>3. ReadsWhole'
  BY <1>1, <1>2 DEF ReadsWhole
<1>4. (early => Apart(scored))' /\ (~early => Whole(scored))'
  BY <1>1, <1>2 DEF Apart, Whole
<1>5. Owed(scored, ledger = "settled")'
  BY <1>1, <1>2 DEF Owed
<1>6. CASE ClientReranks
  <2>1. PICK D \in SUBSET DOMAIN page :
          \E got \in [D -> Relevances], order \in AnswerOrders(D), by \in LocalOrders :
            page' = Truncate(SortBy(Reordered(page, got, order), by), req.limit)
    BY <1>6 DEF ClientReranks
  <2>a. PICK got \in [D -> Relevances], order \in AnswerOrders(D), by \in LocalOrders :
          page' = Truncate(SortBy(Reordered(page, got, order), by), req.limit)
    BY <2>1
  <2>2. local' = "billed" /\ phase' = "shown"
    BY <1>6 DEF ClientReranks
  <2> DEFINE t == Reordered(page, got, order)
             u == SortBy(t, by)
  <2>3. t \in Seq(Items) /\ Answered(t) /\ Apart(t)
    BY <1>2, ReorderedIs
  <2> HIDE DEF t
  <2>4. u \in Seq(Items) /\ Drawn(u, t)
    BY <2>3, SortByIs DEF LocalOrders, SortKeys
  <2>5. Answered(u) /\ Apart(u)
    BY <2>3, <2>4, DrawnKeeps
  <2> HIDE DEF u
  <2>6. req.limit \in Nat
    BY <1>2, RankingAssumption
  <2>7. page' = Truncate(u, req.limit)
    BY <2>a DEF t, u
  <2>8. page' \in Seq(Items) /\ Drawn(page', u)
    BY <2>4, <2>6, <2>7, DrawnByCut
  <2>9. Answered(page') /\ Apart(page')
    BY <2>5, <2>8, DrawnKeeps
  <2>10. SearchType'
    BY <1>1, <2>2, <2>8 DEF SearchInv, SearchType
  <2>11. Staged'
    BY <1>1, <1>2, <2>2 DEF SearchInv, Staged
  <2>12. Billed'
    BY <1>1, <1>2, <1>5, <2>2, <2>9 DEF SearchInv, Billed, Owed, Answered
  <2>13. Texts'
    BY <1>3, <1>4, <2>9 DEF Texts, Apart
  <2> QED BY <2>10, <2>11, <2>12, <2>13 DEF SearchInv
<1>7. CASE ClientShowsNothing \/ ClientRerankFails
  <2>1. UNCHANGED <<local, page>>
    BY <1>7 DEF ClientShowsNothing, ClientRerankFails
  <2>2. SearchType'
    BY <1>1, <2>1 DEF SearchInv, SearchType
  <2>3. Staged'
    BY <1>1, <1>2, <2>1 DEF SearchInv, Staged
  <2>4. Billed'
    BY <1>1, <1>5, <2>1 DEF SearchInv, Billed, Owed, Answered
  <2>5. Texts'
    BY <1>2, <1>3, <1>4, <2>1 DEF Texts, Apart
  <2> QED BY <2>2, <2>3, <2>4, <2>5 DEF SearchInv
<1> QED BY <1>6, <1>7

(* Types, stages, bills and texts together are inductive.                   *)
THEOREM SearchInvariant == Spec => []SearchInv
<1>1. Init => SearchInv
  BY InitSearch
<1>2. SearchInv /\ [Next]_vars => SearchInv'
  <2> SUFFICES ASSUME SearchInv, [Next]_vars PROVE SearchInv'
    OBVIOUS
  <2>1. CASE Score
    BY <2>1, ScoreKeeps
  <2>2. CASE Pool
    BY <2>2, PoolKeeps
  <2>3. CASE Disabled \/ NothingToRerank \/ Reserve \/ Refused \/ VoyageFails \/ VoyageAnswers \/ HandlerDropped
    BY <2>3, RerankKeeps
  <2>4. CASE Finish
    BY <2>4, FinishKeeps
  <2>5. CASE ClientReranks \/ ClientShowsNothing \/ ClientRerankFails
    BY <2>5, ClientKeeps
  <2>6. CASE UNCHANGED vars
    BY <2>6 DEF vars, SearchInv, SearchType, Staged, Billed, Owed, Answered, Texts, Apart, Whole, ReadsWhole, Told
  <2> QED BY <2>1, <2>2, <2>3, <2>4, <2>5, <2>6 DEF Next
<1> QED BY <1>1, <1>2, PTL DEF Spec

(* However the budget, the provider and the fallback of the client fall     *)
(* out, and however much of the rerank is answered, a search pays for one   *)
(* rerank at most, reports the server's when it was paid, leaves no         *)
(* reservation open but behind a dropped handler, and shows no relevance    *)
(* of a rerank it did not pay (routes/search.rs).                           *)
THEOREM SearchPaidOnce == Spec => []PaidOnce
<1>1. SearchInv => PaidOnce
  BY DEF SearchInv, SearchType, Staged, Billed, Owed, Answered, PaidOnce
<1> QED BY <1>1, SearchInvariant, PTL

(* For every set of chunks and every ranking, no text is on a page twice;   *)
(* and without a rerank the floor, the order, the dedup and the limit       *)
(* together lose none: read from the top, the page shows all that its       *)
(* results span (mnm-retrieval/src/dedup.rs, routes/search.rs).             *)
THEOREM SearchPageReads == Spec => []PageReads
<1>1. SearchInv => PageReads
  BY DEF SearchInv, Texts, Apart, PageReads, ShownOnce
<1> QED BY <1>1, SearchInvariant, PTL

-----------------------------------------------------------------------------
(* The facets, the walk and the document.                                   *)

(* The last n of a listing are its members from the first of them on.       *)
LEMMA RunsTail ==
  ASSUME NEW S, NEW s, Runs(s, S), NEW n \in Nat \ {0}
  PROVE  /\ LastOf(s, n) \in Seq(Nat)
         /\ (s = <<>>) <=> (LastOf(s, n) = <<>>)
         /\ s # <<>> => /\ Len(LastOf(s, n)) >= 1
                        /\ LastOf(s, n)[1] \in S
                        /\ Runs(LastOf(s, n), {x \in S : LastOf(s, n)[1] <= x})
<1> DEFINE l == Len(s)
           a == IF n < l THEN l - n + 1 ELSE 1
           t == SubSeq(s, a, l)
<1>1. s \in Seq(Nat) /\ Len(s) \in Nat /\ DOMAIN s = 1..Len(s) /\ \A k \in DOMAIN s : s[k] \in Nat
  BY DEF Runs
<1>2. LastOf(s, n) = t
  BY DEF LastOf
<1>3. a \in Nat /\ a >= 1 /\ (l >= 1 => a <= l)
  <2>1. l \in Nat
    BY <1>1
  <2> HIDE DEF l
  <2> QED BY <2>1
<1>4. CASE s = <<>>
  <2>1. l = 0 /\ a = 1
    BY <1>4
  <2>2. t = SubSeq(s, 1, 0)
    BY <2>1
  <2>3. SubSeq(s, 1, 0) = <<>>
    BY <1>1
  <2> QED BY <1>2, <1>4, <2>2, <2>3
<1>5. CASE s # <<>>
  <2>1. Len(s) >= 1
    BY <1>1, <1>5
  <2> HIDE DEF a
  <2>2. a \in 1..Len(s) /\ Len(s) \in 1..Len(s) /\ a <= Len(s) /\ Len(s) - a + 1 \in Nat \ {0}
    <3>1. a <= Len(s)
      BY <1>3, <2>1
    <3> QED BY <1>1, <1>3, <2>1, <3>1
  <2>3. /\ Runs(t, {x \in S : s[a] <= x /\ x <= s[Len(s)]})
        /\ Len(t) = Len(s) - a + 1 /\ t[1] = s[a]
    BY <1>5, <2>2, RunsPart
  <2>4. s[a] \in S
    BY <1>1, <2>2 DEF Runs
  <2>5. \A x \in S : x <= s[Len(s)]
    <3> SUFFICES ASSUME NEW x \in S PROVE x <= s[Len(s)]
      OBVIOUS
    <3>1. PICK k \in DOMAIN s : s[k] = x
      BY DEF Runs
    <3>2. Len(s) \in DOMAIN s /\ k \in Nat /\ k <= Len(s) /\ s[k] \in Nat /\ s[Len(s)] \in Nat
      BY <1>1, <2>2
    <3>3. k < Len(s) => s[k] < s[Len(s)]
      BY <3>1, <3>2 DEF Runs, Increases
    <3> QED BY <1>1, <3>1, <3>2, <3>3
  <2>6. {x \in S : s[a] <= x /\ x <= s[Len(s)]} = {x \in S : s[a] <= x}
    BY <2>5
  <2> HIDE DEF t
  <2>7. Runs(t, {x \in S : t[1] <= x}) /\ t[1] \in S
    BY <2>3, <2>4, <2>6
  <2>8. t \in Seq(Nat) /\ Len(t) >= 1 /\ t # <<>>
    BY <2>2, <2>3 DEF Runs
  <2> QED BY <1>2, <1>5, <2>7, <2>8
<1> QED BY <1>4, <1>5

(* The corpus: what each source serves, and what is listed.                 *)
CorpusType ==
  /\ serving \in [Sources -> {NoVersion} \cup Versions]
  /\ listed \subseteq Sources

(* What a list offers is a finite set of numbers, whatever is served.       *)
LEMMA OffersFinite ==
  ASSUME NEW sv \in [Sources -> {NoVersion} \cup Versions], NEW vals,
         vals = UNION {ValuesOf[v] : v \in {sv[s] : s \in Sources} \ {NoVersion}}
  PROVE  vals \in SUBSET Nat /\ IsFiniteSet(vals)
<1> DEFINE W == {sv[s] : s \in Sources} \ {NoVersion}
           F == {ValuesOf[v] : v \in W}
<1>1. IsFiniteSet(Sources) /\ \A v \in Versions : ValuesOf[v] \subseteq Nat /\ IsFiniteSet(ValuesOf[v])
  BY ReadingAssumption
<1>2. W \subseteq Versions
  OBVIOUS
<1>3. IsFiniteSet(W)
  <2> DEFINE R == {sv[s] : s \in Sources}
             f == [s \in Sources |-> sv[s]]
  <2>1. f \in Surjection(Sources, R)
    BY Fun_IsSurj
  <2>2. IsFiniteSet(R)
    BY <1>1, <2>1, FS_Surjection
  <2>3. W \in SUBSET R
    OBVIOUS
  <2> HIDE DEF R, W
  <2> QED BY <2>2, <2>3, FS_Subset
<1> HIDE DEF W
<1>4. IsFiniteSet(F)
  <2> DEFINE f == [v \in W |-> ValuesOf[v]]
  <2>1. f \in Surjection(W, F)
    BY Fun_IsSurj
  <2> HIDE DEF f, F
  <2> QED BY <1>3, <2>1, FS_Surjection
<1>5. \A T \in F : T \subseteq Nat /\ IsFiniteSet(T)
  BY <1>1, <1>2
<1>6. vals = UNION F
  BY DEF W
<1> HIDE DEF F
<1>7. IsFiniteSet(UNION F)
  BY <1>4, <1>5, FS_UNION
<1> QED BY <1>5, <1>6, <1>7

(* Either list is a finite set of numbers.                                  *)
LEMMA OffersType ==
  ASSUME CorpusType, NEW list
  PROVE  Offers(list) \in SUBSET Nat /\ IsFiniteSet(Offers(list))
<1>1. Values \in SUBSET Nat /\ IsFiniteSet(Values)
  BY OffersFinite DEF CorpusType, Values, Served
<1>2. listed \in SUBSET Nat /\ IsFiniteSet(listed)
  BY ReadingAssumption, FS_Subset DEF CorpusType
<1> QED BY <1>1, <1>2 DEF Offers

(* The walk: what it has seen ends at its cursor, has all that was offered  *)
(* throughout up to there, and nothing that was never offered.              *)
SeenSet == {walk.seen[k] : k \in DOMAIN walk.seen}
Walks ==
  /\ walk \in [pc : {"walking", "done"}, list : {"values", "sources"}, cursor : Int,
               seen : Seq(Nat), always : SUBSET Nat, ever : SUBSET Nat]
  /\ Increases(walk.seen)
  /\ SeenSet \subseteq walk.ever
  /\ walk.pc = "walking" =>
       /\ walk.always \subseteq Offers(walk.list) /\ Offers(walk.list) \subseteq walk.ever
       /\ \A x \in SeenSet : x <= walk.cursor
       /\ \A x \in walk.always : x <= walk.cursor => x \in SeenSet
  /\ walk.pc = "done" => walk.always \subseteq SeenSet
WalksInv == (task = "walk" => Walks) /\ (task # "walk" => walk.pc = "done")

(* A page of the walk takes the next of what is offered now, and so keeps   *)
(* it exact up to its cursor.                                               *)
LEMMA PageKeepsWalk ==
  ASSUME CorpusType, WalksInv, Page
  PROVE  WalksInv'
<1>1. /\ walk.pc = "walking" /\ task = "walk" /\ Walks
      /\ UNCHANGED <<serving, dead, listed, task>>
  BY DEF Page, WalksInv, corpus
<1> DEFINE O == Offers(walk.list)
           A == {x \in O : x > walk.cursor}
           all == Rows(walk.list, walk.cursor, walk.seen)
           rows == Truncate(all, Limit + 1)
           kept == Truncate(rows, Limit)
           more == Len(rows) > Limit
           last == kept[Len(kept)]
<1>2. walk' = [walk EXCEPT !.seen = @ \o kept,
                           !.cursor = IF more THEN last ELSE @,
                           !.pc = IF more THEN @ ELSE "done"]
  BY DEF Page, Last
<1>3. /\ walk \in [pc : {"walking", "done"}, list : {"values", "sources"}, cursor : Int,
                   seen : Seq(Nat), always : SUBSET Nat, ever : SUBSET Nat]
      /\ Runs(walk.seen, SeenSet)
      /\ SeenSet \subseteq walk.ever /\ walk.always \subseteq O /\ O \subseteq walk.ever
      /\ \A x \in SeenSet : x <= walk.cursor
      /\ \A x \in walk.always : x <= walk.cursor => x \in SeenSet
  BY <1>1 DEF Walks, Runs, SeenSet
<1>4. O \in SUBSET Nat /\ IsFiniteSet(O)
  BY OffersType
<1>5. Limit \in Nat \ {0} /\ Limit + 1 \in Nat \ {0}
  BY ReadingAssumption
<1> HIDE DEF O
<1>6. Runs(all, A)
  <2>1. A \in SUBSET Nat /\ IsFiniteSet(A)
    BY <1>4, FS_Subset
  <2>2. all = InOrder(A)
    BY DEF Rows, O
  <2> HIDE DEF A, all
  <2> QED BY <2>1, <2>2, InOrderRuns
<1> DEFINE K == IF more THEN {x \in A : x <= last} ELSE A
<1> HIDE DEF all, A
<1>7. Runs(kept, K) /\ (more => last \in A)
  <2>1. CASE all = <<>>
    <3>1. rows = <<>> /\ kept = <<>>
      <4>1. rows = <<>>
        BY <1>5, <1>6, <2>1, RunsCut
      <4> HIDE DEF rows
      <4>2. Runs(rows, A)
        BY <1>6, <2>1, <4>1
      <4> QED BY <1>5, <4>1, <4>2, RunsCut
    <3>2. ~more
      BY <1>5, <3>1
    <3> QED BY <1>6, <2>1, <3>1, <3>2
  <2>2. CASE all # <<>>
    <3> DEFINE B == {x \in A : x <= rows[Len(rows)]}
    <3>1. /\ Runs(rows, B) /\ rows \in Seq(Nat) /\ Len(rows) >= 1 /\ rows[Len(rows)] \in A
          /\ Len(all) <= Limit + 1 => rows = all
      BY <1>5, <1>6, <2>2, RunsCut
    <3>2. Len(rows) < Limit + 1 => rows = all
      <4>1. all \in Seq(Nat)
        BY <1>6 DEF Runs
      <4> QED BY <1>5, <4>1, DrawnByCut
    <3>3. A \in SUBSET Nat
      BY <1>6 DEF Runs
    <3> HIDE DEF rows, B
    <3>4. CASE more
      <4>1. rows # <<>>
        BY <1>5, <3>1
      <4>2. Runs(kept, {x \in B : x <= last}) /\ last \in B
        BY <1>5, <3>1, <4>1, RunsCut
      <4>3. last \in A /\ last <= rows[Len(rows)] /\ last \in Nat /\ rows[Len(rows)] \in Nat
        BY <3>1, <3>3, <4>2 DEF B
      <4> HIDE DEF kept, last
      <4>4. {x \in B : x <= last} = {x \in A : x <= last}
        <5> DEFINE z == rows[Len(rows)]
        <5>1. last \in Nat /\ z \in Nat /\ last <= z /\ B = {x \in A : x <= z}
          BY <4>3 DEF B
        <5> HIDE DEF z, B
        <5>2. \A x \in A : x <= last => x <= z
          BY <3>3, <5>1
        <5> QED BY <5>1, <5>2
      <4> QED BY <3>4, <4>2, <4>3, <4>4
    <3>5. CASE ~more
      <4>1. Len(rows) \in Nat /\ Len(rows) <= Limit /\ Len(rows) < Limit + 1
        BY <1>5, <3>1, <3>5
      <4>2. rows = all
        BY <3>2, <4>1
      <4>3. kept = rows
        BY <1>5, <3>1, <4>1, RunsCut
      <4> QED BY <1>6, <3>5, <4>2, <4>3
    <3> QED BY <3>4, <3>5
  <2> QED BY <2>1, <2>2
<1>8. K \subseteq A /\ A \subseteq O /\ \A x \in A : x > walk.cursor /\ x \in Nat
  BY <1>4 DEF A
<1> HIDE DEF kept, more, K
<1>9. Runs(walk.seen \o kept, SeenSet \cup K)
  <2>1. \A x \in SeenSet, y \in K : x < y
    <3> SUFFICES ASSUME NEW x \in SeenSet, NEW y \in K PROVE x < y
      OBVIOUS
    <3>1. x <= walk.cursor /\ walk.cursor < y /\ y \in Nat /\ walk.cursor \in Int
      BY <1>3, <1>8
    <3>2. x \in Nat
      BY <1>3 DEF Runs
    <3> QED BY <3>1, <3>2
  <2> QED BY <1>3, <1>7, <2>1, RunsOn
<1>10. /\ walk'.seen = walk.seen \o kept /\ walk'.list = walk.list
       /\ walk'.always = walk.always /\ walk'.ever = walk.ever
       /\ walk'.pc = IF more THEN "walking" ELSE "done"
       /\ walk'.cursor = IF more THEN last ELSE walk.cursor
  BY <1>1, <1>2, <1>3
<1>11. SeenSet' = SeenSet \cup K /\ walk'.seen \in Seq(Nat) /\ Increases(walk'.seen)
  BY <1>9, <1>10 DEF Runs, SeenSet
<1>12. walk' \in [pc : {"walking", "done"}, list : {"values", "sources"}, cursor : Int,
                  seen : Seq(Nat), always : SUBSET Nat, ever : SUBSET Nat]
  <2>1. walk.seen \o kept \in Seq(Nat)
    BY <1>9 DEF Runs
  <2>2. more => last \in Int
    BY <1>7, <1>8
  <2> HIDE DEF last
  <2> QED BY <1>2, <1>3, <2>1, <2>2
<1>13. Offers(walk.list)' = O
  BY <1>1, <1>10 DEF O, Offers, Values, Served
<1>14. SeenSet' \subseteq walk'.ever
  BY <1>3, <1>8, <1>10, <1>11
<1>15. ASSUME more
       PROVE  /\ \A x \in SeenSet' : x <= walk'.cursor
              /\ \A x \in walk'.always : x <= walk'.cursor => x \in SeenSet'
  <2>1. walk'.cursor = last /\ last \in Nat /\ last > walk.cursor /\ walk.cursor \in Int
    BY <1>3, <1>7, <1>8, <1>10, <1>15
  <2>2. \A x \in SeenSet : x \in Nat
    BY <1>3 DEF Runs
  <2> HIDE DEF last
  <2>3. ASSUME NEW x \in SeenSet' PROVE x <= last
    <3>1. CASE x \in SeenSet
      <4>1. x <= walk.cursor /\ x \in Nat
        BY <1>3, <2>2, <3>1
      <4> QED BY <2>1, <4>1
    <3>2. CASE x \in K
      BY <1>15, <3>2 DEF K
    <3> QED BY <1>11, <3>1, <3>2
  <2>4. ASSUME NEW x \in walk.always, x <= last PROVE x \in SeenSet'
    <3>1. x \in Nat /\ x \in O
      BY <1>3, <1>4
    <3>2. CASE x <= walk.cursor
      BY <1>3, <1>11, <3>2
    <3>3. CASE x > walk.cursor
      BY <1>11, <1>15, <2>4, <3>1, <3>3 DEF K, A
    <3> QED BY <2>1, <3>1, <3>2, <3>3
  <2> QED BY <1>10, <2>1, <2>3, <2>4
<1>16. ASSUME ~more PROVE walk'.always \subseteq SeenSet'
  <2> SUFFICES ASSUME NEW x \in walk.always PROVE x \in SeenSet'
    BY <1>10
  <2>1. x \in O /\ x \in Nat /\ walk.cursor \in Int
    BY <1>3, <1>4
  <2>2. CASE x <= walk.cursor
    BY <1>3, <1>11, <2>2
  <2>3. CASE x > walk.cursor
    BY <1>11, <1>16, <2>1, <2>3 DEF K, A
  <2> QED BY <2>1, <2>2, <2>3
<1>17. Walks'
  <2>1. walk.always \subseteq Offers(walk.list)' /\ Offers(walk.list)' \subseteq walk.ever
    BY <1>3, <1>13
  <2>2. more \in BOOLEAN
    BY DEF more
  <2> HIDE DEF last
  <2> QED BY <1>10, <1>11, <1>12, <1>13, <1>14, <1>15, <1>16, <2>1, <2>2 DEF Walks
<1> QED BY <1>1, <1>17 DEF WalksInv

(* A change of the corpus: what it takes away was not offered throughout.   *)
LEMMA ChangeKeepsWalk ==
  ASSUME CorpusType, WalksInv, Change, CorpusType'
  PROVE  WalksInv'
<1>1. UNCHANGED task
  BY DEF Change
<1> DEFINE O == IF walk.list = "sources" THEN listed' ELSE Values'
<1>2. walk' = IF walk.pc = "done" THEN walk
              ELSE [walk EXCEPT !.always = @ \cap O, !.ever = @ \cup O]
  BY DEF Change, Witness, Offers
<1>3. O \in SUBSET Nat
  <2>1. Values' \in SUBSET Nat
    BY OffersFinite DEF CorpusType, Values, Served
  <2>2. listed' \in SUBSET Nat
    BY ReadingAssumption DEF CorpusType
  <2> QED BY <2>1, <2>2
<1>4. CASE walk.pc = "done"
  <2>1. walk' = walk
    BY <1>2, <1>4
  <2> QED BY <1>1, <1>4, <2>1 DEF WalksInv, Walks, SeenSet
<1>5. CASE walk.pc # "done"
  <2>1. task = "walk" /\ Walks
    BY <1>5 DEF WalksInv
  <2>2. /\ walk \in [pc : {"walking", "done"}, list : {"values", "sources"}, cursor : Int,
                     seen : Seq(Nat), always : SUBSET Nat, ever : SUBSET Nat]
        /\ walk.pc = "walking"
    BY <1>5, <2>1 DEF Walks
  <2> HIDE DEF O
  <2>3. walk' = [walk EXCEPT !.always = @ \cap O, !.ever = @ \cup O]
    BY <1>2, <1>5
  <2>4. /\ walk'.pc = "walking" /\ walk'.list = walk.list /\ walk'.cursor = walk.cursor
        /\ walk'.seen = walk.seen /\ walk'.always = walk.always \cap O /\ walk'.ever = walk.ever \cup O
    BY <2>2, <2>3
  <2>5. walk' \in [pc : {"walking", "done"}, list : {"values", "sources"}, cursor : Int,
                   seen : Seq(Nat), always : SUBSET Nat, ever : SUBSET Nat]
    BY <1>3, <2>2, <2>3
  <2>6. Offers(walk.list)' = O
    BY <2>4 DEF Offers, O
  <2>7. SeenSet' = SeenSet
    BY <2>4 DEF SeenSet
  <2>8. Walks'
    BY <2>1, <2>2, <2>4, <2>5, <2>6, <2>7 DEF Walks
  <2> QED BY <1>1, <2>1, <2>8 DEF WalksInv
<1> QED BY <1>4, <1>5

(* A change of the corpus keeps its shape, and the dead stay dead.          *)
LEMMA ChangeKeepsCorpus ==
  ASSUME CorpusType, Change
  PROVE  CorpusType' /\ dead \subseteq dead'
<1>1. SourceOf \in [Versions -> Sources]
  BY ReadingAssumption
<1>2. ASSUME NEW v \in Versions, Switch(v) PROVE CorpusType' /\ dead \subseteq dead'
  BY <1>1, <1>2 DEF Switch, Pointer!SwitchTo, CorpusType
<1>3. ASSUME NEW v \in Versions, Delete(v) PROVE CorpusType' /\ dead \subseteq dead'
  BY <1>3 DEF Delete, Pointer!Discard, CorpusType
<1>4. ASSUME NEW s \in Sources, Register(s) \/ Retire(s) PROVE CorpusType' /\ dead \subseteq dead'
  BY <1>4 DEF Register, Retire, CorpusType
<1> QED BY <1>2, <1>3, <1>4 DEF Change

(* The chunks of a document that are ready, in order, from a place on or to.*)
LEMMA ReadyRuns ==
  ASSUME NEW v \in Versions, NEW at
  PROVE  /\ ReadyIn(v) \in SUBSET Nat
         /\ Runs(InOrder(ReadyIn(v)), ReadyIn(v))
         /\ Runs(After(v, at), {i \in ReadyIn(v) : i > at})
         /\ Runs(Before(v, at), {i \in ReadyIn(v) : i < at})
<1>1. Ready[v] \in Seq(BOOLEAN)
  BY ReadingAssumption
<1>2. DOMAIN Ready[v] \subseteq Nat /\ IsFiniteSet(DOMAIN Ready[v])
  BY <1>1, Positions
<1>3. \A P \in SUBSET ReadyIn(v) : P \in SUBSET Nat /\ IsFiniteSet(P)
  BY <1>2, FS_Subset DEF ReadyIn
<1>4. \A P \in SUBSET ReadyIn(v) : Runs(InOrder(P), P)
  BY <1>3, InOrderRuns
<1> QED BY <1>3, <1>4 DEF After, Before

\* The operations on a document.
Kinds == {"onward", "back", "neighbours", "window", "parents"}

(* What each operation on a document asks.                                  *)
LEMMA RequestsAre ==
  /\ DOMAIN Requests = Kinds
  /\ Requests["onward"] = {"next"} /\ Requests["back"] = {"prev"}
  /\ Requests["neighbours"] = {"prev", "chunk", "next"}
  /\ Requests["window"] = {"window"} /\ Requests["parents"] = {"parents"}
BY DEF Requests, Kinds

\* A request in hand: how far it is and what it has found.
Answers == [st : {"todo", "empty", "done", "missing", "placed", "found"}, rows : Seq(Nat)]
DocType ==
  /\ doc \in [pc : {"asking", "failed", "answered"}, op : Kinds, ver : Versions, start : Nat, at : Nat,
              read : Seq(Nat), req : UNION {[Requests[op] -> Answers] : op \in Kinds}]
  /\ doc.req \in [Requests[doc.op] -> Answers]
  /\ doc.at \in DOMAIN Ready[doc.ver]

(* What an answer is worth, and how far the reading has come.               *)
Worth(q) ==
  /\ doc.req[q].st = "empty" => q \in {"next", "prev"} /\ (Stored => Wanted(q) = <<>>)
  /\ doc.req[q].st \in {"placed", "found"} => q \in {"window", "parents"}
  /\ doc.req[q].st = "done" => \/ doc.req[q].rows = Wanted(q)
                               \/ q \in {"window", "parents"} /\ ~Stored /\ doc.req[q].rows = <<>>
ReadSoFar ==
  /\ doc.op = "onward" =>
       doc.start <= doc.at /\ Runs(doc.read, {i \in ReadyIn(doc.ver) : doc.start < i /\ i <= doc.at})
  /\ doc.op = "back" =>
       doc.at <= doc.start /\ Runs(doc.read, {i \in ReadyIn(doc.ver) : doc.at <= i /\ i < doc.start})
Complete ==
  \A q \in DOMAIN doc.req :
    /\ doc.req[q].st = "done"
    /\ doc.op \in {"onward", "back"} => doc.req[q].rows = <<>>
DocInv ==
  /\ DocType
  /\ \A q \in DOMAIN doc.req : Worth(q)
  /\ ReadSoFar
  /\ doc.pc = "answered" => Complete

(* What a statement may find is a sequence of places.                       *)
LEMMA WantedType ==
  ASSUME DocType, NEW q \in Requests[doc.op]
  PROVE  Wanted(q) \in Seq(Nat) /\ Found(q) \in Seq(Nat)
<1>1. /\ doc.op \in Kinds /\ doc.ver \in Versions /\ doc.at \in Nat /\ doc.at \in DOMAIN Ready[doc.ver]
      /\ Limit \in Nat \ {0} /\ SourceOf[doc.ver] \in Nat /\ Ready[doc.ver] \in Seq(BOOLEAN)
  BY ReadingAssumption DEF DocType
<1>2. q \in {"next", "prev", "chunk", "window", "parents"}
  BY <1>1, RequestsAre DEF Kinds
<1> DEFINE after == After(doc.ver, doc.at)
           before == Before(doc.ver, doc.at)
           ready == InOrder(ReadyIn(doc.ver))
<1>3. /\ Runs(after, {i \in ReadyIn(doc.ver) : i > doc.at}) /\ Runs(before, {i \in ReadyIn(doc.ver) : i < doc.at})
      /\ ready \in Seq(Nat)
  BY <1>1, ReadyRuns DEF Runs
<1>4. Truncate(after, Limit) \in Seq(Nat)
  BY <1>1, <1>3, RunsCut
<1>5. LastOf(before, Limit) \in Seq(Nat)
  BY <1>1, <1>3, RunsTail
<1>6. Truncate(Window(doc.ver, doc.at), Limit) \in Seq(Nat)
  <2> DEFINE w == SubSeq(ready, doc.at, Len(ready))
  <2>1. doc.at >= 1
    BY <1>1
  <2> HIDE DEF ready
  <2>2. w \in Seq(Nat)
    BY <1>1, <1>3, <2>1
  <2>3. Window(doc.ver, doc.at) = w
    BY DEF Window, ready
  <2> HIDE DEF w
  <2> QED BY <1>1, <2>2, <2>3, DrawnByCut
<1>7. <<doc.at>> \in Seq(Nat) /\ <<>> \in Seq(Nat) /\ Chain(doc.ver) \in Seq(Nat)
  BY <1>1 DEF Chain
<1>8. Wanted(q) \in Seq(Nat)
  BY <1>2, <1>4, <1>5, <1>6, <1>7 DEF Wanted
<1> QED BY <1>7, <1>8 DEF Found

(* An answer that is worth what it says.                                    *)
LEMMA AnswerKeeps ==
  ASSUME DocInv, doc.pc = "asking", NEW q \in DOMAIN doc.req, NEW st, NEW rows, Answer(q, st, rows),
         UNCHANGED dead, [st |-> st, rows |-> rows] \in Answers,
         st = "empty" => q \in {"next", "prev"} /\ (Stored => Wanted(q) = <<>>),
         st \in {"placed", "found"} => q \in {"window", "parents"},
         st = "done" => rows = Wanted(q) \/ (q \in {"window", "parents"} /\ ~Stored /\ rows = <<>>)
  PROVE  DocInv'
<1> DEFINE a == [st |-> st, rows |-> rows]
           new == [doc.req EXCEPT ![q] = a]
<1>1. doc' = [doc EXCEPT !.req = new]
  BY DEF Answer, DocInv, DocType
<1>2. /\ doc \in [pc : {"asking", "failed", "answered"}, op : Kinds, ver : Versions, start : Nat, at : Nat,
                  read : Seq(Nat), req : UNION {[Requests[op] -> Answers] : op \in Kinds}]
      /\ doc.req \in [Requests[doc.op] -> Answers] /\ doc.op \in Kinds
  BY DEF DocInv, DocType
<1>3. new \in [Requests[doc.op] -> Answers] /\ DOMAIN new = DOMAIN doc.req
      /\ new[q] = a /\ \A p \in DOMAIN doc.req : p # q => new[p] = doc.req[p]
  BY <1>2
<1>4. a.st = st /\ a.rows = rows
  OBVIOUS
<1> HIDE DEF new, a
<1>5. /\ doc'.pc = "asking" /\ doc'.op = doc.op /\ doc'.ver = doc.ver /\ doc'.start = doc.start
      /\ doc'.at = doc.at /\ doc'.read = doc.read /\ doc'.req = new
  BY <1>1, <1>2
<1>6. new \in UNION {[Requests[op] -> Answers] : op \in Kinds}
  BY <1>2, <1>3
<1>7. DocType'
  BY <1>1, <1>2, <1>3, <1>5, <1>6 DEF DocType, DocInv
<1>8. Stored' = Stored /\ \A p : Wanted(p)' = Wanted(p)
  BY <1>5 DEF Stored, Wanted
<1>9. ASSUME NEW p \in DOMAIN doc'.req PROVE Worth(p)'
  <2>1. CASE p = q
    BY <1>3, <1>4, <1>5, <1>8, <2>1 DEF Worth
  <2>2. CASE p # q
    <3>1. doc'.req[p] = doc.req[p] /\ Worth(p)
      BY <1>3, <1>5, <2>2 DEF DocInv
    <3> QED BY <1>8, <3>1 DEF Worth
  <2> QED BY <2>1, <2>2
<1>10. ReadSoFar'
  BY <1>5 DEF DocInv, ReadSoFar
<1> QED BY <1>5, <1>7, <1>9, <1>10 DEF DocInv

(* One statement of one request keeps the invariant of a document.          *)
LEMMA StatementKeeps ==
  ASSUME DocInv, doc.pc = "asking", NEW q \in DOMAIN doc.req, Statement(q), UNCHANGED dead
  PROVE  DocInv'
<1>1. q \in Requests[doc.op]
  BY DEF DocInv, DocType
<1>2. DocType /\ Worth(q)
  BY DEF DocInv
<1>3. Wanted(q) \in Seq(Nat) /\ Found(q) \in Seq(Nat) /\ <<>> \in Seq(Nat)
  BY <1>1, <1>2, WantedType
<1>4. \A st \in {"todo", "empty", "done", "missing", "placed", "found"}, rows \in Seq(Nat) :
        [st |-> st, rows |-> rows] \in Answers
  BY DEF Answers
<1>5. Found(q) = IF Stored THEN Wanted(q) ELSE <<>>
  BY DEF Found
<1> DEFINE st == doc.req[q].st
<1>6. CASE q \in {"next", "prev"} /\ Answer(q, IF Found(q) = <<>> THEN "empty" ELSE "done", Found(q))
  <2> DEFINE then == IF Found(q) = <<>> THEN "empty" ELSE "done"
  <2>1. [st |-> then, rows |-> Found(q)] \in Answers
    BY <1>3, <1>4
  <2>2. /\ then = "empty" => (Stored => Wanted(q) = <<>>)
        /\ then = "done" => Found(q) = Wanted(q)
        /\ then \in {"empty", "done"}
    BY <1>5
  <2>3. Answer(q, then, Found(q))
    BY <1>6
  <2> HIDE DEF then
  <2> QED BY <1>6, <2>1, <2>2, <2>3, AnswerKeeps
<1>7. CASE st = "empty" /\ Answer(q, EmptyMeans(Stored), <<>>)
  <2> DEFINE then == EmptyMeans(Stored)
  <2>1. then \in {"done", "missing"} /\ (then = "done" => Stored)
    BY DEF EmptyMeans
  <2>2. Stored => Wanted(q) = <<>>
    BY <1>2, <1>7 DEF Worth
  <2>3. [st |-> then, rows |-> <<>>] \in Answers
    BY <1>3, <1>4, <2>1
  <2>4. Answer(q, then, <<>>)
    BY <1>7
  <2> HIDE DEF then
  <2> QED BY <2>1, <2>2, <2>3, <2>4, AnswerKeeps
<1>8. CASE GetChunk(q, "done")
  <2> DEFINE then == IF Stored /\ Ready[doc.ver][doc.at] THEN "done" ELSE "missing"
  <2>1. then \in {"done", "missing"} /\ (then = "done" => Found(q) = Wanted(q))
    BY <1>5
  <2>2. [st |-> then, rows |-> Found(q)] \in Answers
    BY <1>3, <1>4, <2>1
  <2>3. Answer(q, then, Found(q))
    BY <1>8 DEF GetChunk
  <2> HIDE DEF then
  <2> QED BY <2>1, <2>2, <2>3, AnswerKeeps
<1>9. CASE q = "parents" /\ GetChunk(q, "found")
  <2> DEFINE then == IF Stored /\ Ready[doc.ver][doc.at] THEN "found" ELSE "missing"
  <2>1. then \in {"found", "missing"}
    OBVIOUS
  <2>2. [st |-> then, rows |-> <<>>] \in Answers
    BY <1>3, <1>4, <2>1
  <2>3. Answer(q, then, <<>>)
    BY <1>9 DEF GetChunk
  <2> HIDE DEF then
  <2> QED BY <1>9, <2>1, <2>2, <2>3, AnswerKeeps
<1>10. CASE q = "window" /\ Answer(q, IF Stored THEN "placed" ELSE "missing", <<>>)
  <2> DEFINE then == IF Stored THEN "placed" ELSE "missing"
  <2>1. then \in {"placed", "missing"}
    OBVIOUS
  <2>2. [st |-> then, rows |-> <<>>] \in Answers
    BY <1>3, <1>4, <2>1
  <2>3. Answer(q, then, <<>>)
    BY <1>10
  <2> HIDE DEF then
  <2> QED BY <1>10, <2>1, <2>2, <2>3, AnswerKeeps
<1>11. CASE st = "placed" /\ Answer(q, IF Stored THEN "found" ELSE "missing", <<>>)
  <2> DEFINE then == IF Stored THEN "found" ELSE "missing"
  <2>1. then \in {"found", "missing"} /\ q \in {"window", "parents"}
    BY <1>2, <1>11 DEF Worth
  <2>2. [st |-> then, rows |-> <<>>] \in Answers
    BY <1>3, <1>4, <2>1
  <2>3. Answer(q, then, <<>>)
    BY <1>11
  <2> HIDE DEF then
  <2> QED BY <2>1, <2>2, <2>3, AnswerKeeps
<1>12. CASE st = "found" /\ Answer(q, "done", Found(q))
  <2>1. q \in {"window", "parents"}
    BY <1>2, <1>12 DEF Worth
  <2>2. [st |-> "done", rows |-> Found(q)] \in Answers
    BY <1>3, <1>4
  <2>3. Found(q) = Wanted(q) \/ (~Stored /\ Found(q) = <<>>)
    BY <1>5
  <2>4. Answer(q, "done", Found(q))
    BY <1>12
  <2> QED BY <2>1, <2>2, <2>3, <2>4, AnswerKeeps
<1> QED BY <1>6, <1>7, <1>8, <1>9, <1>10, <1>11, <1>12 DEF Statement

(* Going on after the next chunks, or before the ones before.               *)
LEMMA GoesOn ==
  ASSUME DocType, ReadSoFar, doc.op = "onward", NEW got, got # <<>>,
         got = Truncate(After(doc.ver, doc.at), Limit)
  PROVE  /\ got \in Seq(Nat) /\ Len(got) >= 1
         /\ got[Len(got)] \in ReadyIn(doc.ver) /\ got[Len(got)] \in Nat /\ doc.start <= got[Len(got)]
         /\ Runs(doc.read \o got, {i \in ReadyIn(doc.ver) : doc.start < i /\ i <= got[Len(got)]})
<1> DEFINE R == ReadyIn(doc.ver)
           all == After(doc.ver, doc.at)
           z == got[Len(got)]
           A == {i \in R : doc.start < i /\ i <= doc.at}
           B == {i \in R : i > doc.at}
           C == {x \in B : x <= z}
<1>1. doc.ver \in Versions /\ doc.at \in Nat /\ doc.start \in Nat /\ Limit \in Nat \ {0}
  BY ReadingAssumption DEF DocType
<1>2. R \in SUBSET Nat /\ Runs(all, B)
  BY <1>1, ReadyRuns
<1>3. doc.start <= doc.at /\ Runs(doc.read, A)
  BY DEF ReadSoFar
<1> HIDE DEF R, all, B
<1>4. got = Truncate(all, Limit)
  BY DEF all
<1>5. all # <<>>
  BY <1>1, <1>2, <1>4, RunsCut
<1>6. got \in Seq(Nat) /\ Len(got) >= 1 /\ z \in B /\ Runs(got, C)
  BY <1>1, <1>2, <1>4, <1>5, RunsCut
<1> HIDE DEF z
<1>7. z \in R /\ z \in Nat /\ z > doc.at /\ doc.start <= z
  <2>1. z \in R /\ z > doc.at
    BY <1>6 DEF B
  <2>2. z \in Nat
    BY <1>2, <2>1
  <2> QED BY <1>1, <1>3, <2>1, <2>2
<1>8. \A x \in A, y \in C : x < y
  <2> SUFFICES ASSUME NEW x \in A, NEW y \in C PROVE x < y
    OBVIOUS
  <2>1. x \in Nat /\ y \in Nat /\ x <= doc.at /\ y > doc.at
    BY <1>2 DEF B
  <2> QED BY <1>1, <2>1
<1>9. A \cup C = {i \in R : doc.start < i /\ i <= z}
  <2>1. \A i \in R : i \in A \cup C <=> doc.start < i /\ i <= z
    <3> SUFFICES ASSUME NEW i \in R PROVE i \in A \cup C <=> doc.start < i /\ i <= z
      OBVIOUS
    <3>1. i \in Nat
      BY <1>2
    <3>2. i \in A \cup C <=> (doc.start < i /\ i <= doc.at) \/ (i > doc.at /\ i <= z)
      BY DEF B
    <3> QED BY <1>1, <1>3, <1>7, <3>1, <3>2
  <2>2. A \subseteq R /\ C \subseteq R
    BY DEF B
  <2> HIDE DEF A, C
  <2> QED BY <2>1, <2>2
<1> HIDE DEF A, C
<1>10. Runs(doc.read \o got, A \cup C)
  BY <1>3, <1>6, <1>8, RunsOn
<1>11. Runs(doc.read \o got, {i \in R : doc.start < i /\ i <= z})
  BY <1>9, <1>10
<1> QED BY <1>6, <1>7, <1>11 DEF R, z

(* A page backwards goes before what is read, with no gap.                  *)
LEMMA GoesBack ==
  ASSUME DocType, ReadSoFar, doc.op = "back", NEW got, got # <<>>,
         got = LastOf(Before(doc.ver, doc.at), Limit)
  PROVE  /\ got \in Seq(Nat) /\ Len(got) >= 1
         /\ got[1] \in ReadyIn(doc.ver) /\ got[1] \in Nat /\ got[1] <= doc.start
         /\ Runs(got \o doc.read, {i \in ReadyIn(doc.ver) : got[1] <= i /\ i < doc.start})
<1> DEFINE R == ReadyIn(doc.ver)
           all == Before(doc.ver, doc.at)
           z == got[1]
           A == {i \in R : doc.at <= i /\ i < doc.start}
           B == {i \in R : i < doc.at}
           C == {x \in B : z <= x}
<1>1. doc.ver \in Versions /\ doc.at \in Nat /\ doc.start \in Nat /\ Limit \in Nat \ {0}
  BY ReadingAssumption DEF DocType
<1>2. R \in SUBSET Nat /\ Runs(all, B)
  BY <1>1, ReadyRuns
<1>3. doc.at <= doc.start /\ Runs(doc.read, A)
  BY DEF ReadSoFar
<1> HIDE DEF R, all, B
<1>4. got = LastOf(all, Limit)
  BY DEF all
<1>5. all # <<>>
  BY <1>1, <1>2, <1>4, RunsTail
<1>6. got \in Seq(Nat) /\ Len(got) >= 1 /\ z \in B /\ Runs(got, C)
  BY <1>1, <1>2, <1>4, <1>5, RunsTail
<1> HIDE DEF z
<1>7. z \in R /\ z \in Nat /\ z < doc.at /\ z <= doc.start
  BY <1>1, <1>2, <1>3, <1>6 DEF B
<1>8. \A x \in C, y \in A : x < y
  <2> SUFFICES ASSUME NEW x \in C, NEW y \in A PROVE x < y
    OBVIOUS
  <2>1. x \in Nat /\ y \in Nat /\ doc.at <= y /\ x < doc.at
    BY <1>2 DEF B
  <2> QED BY <1>1, <2>1
<1>9. C \cup A = {i \in R : z <= i /\ i < doc.start}
  <2>1. \A i \in R : i \in C \cup A <=> z <= i /\ i < doc.start
    <3> SUFFICES ASSUME NEW i \in R PROVE i \in C \cup A <=> z <= i /\ i < doc.start
      OBVIOUS
    <3>1. i \in Nat
      BY <1>2
    <3>2. i \in C \cup A <=> (doc.at <= i /\ i < doc.start) \/ (i < doc.at /\ z <= i)
      BY DEF B
    <3> QED BY <1>1, <1>3, <1>7, <3>1, <3>2
  <2>2. A \subseteq R /\ C \subseteq R
    BY DEF B
  <2> HIDE DEF A, C
  <2> QED BY <2>1, <2>2
<1> HIDE DEF A, C
<1>10. Runs(got \o doc.read, C \cup A)
  BY <1>3, <1>6, <1>8, RunsOn
<1>11. Runs(got \o doc.read, {i \in R : z <= i /\ i < doc.start})
  BY <1>9, <1>10
<1> QED BY <1>6, <1>7, <1>11 DEF R, z

(* A request that is all asked anew.                                        *)
LEMMA TodoIs ==
  ASSUME NEW op \in Kinds
  PROVE  Todo(op) \in [Requests[op] -> Answers] /\ \A q \in Requests[op] : Todo(op)[q].st = "todo"
<1>1. [st |-> "todo", rows |-> <<>>] \in Answers
  <2>1. <<>> \in Seq(Nat)
    OBVIOUS
  <2> QED BY <2>1 DEF Answers
<1> QED BY <1>1 DEF Todo

(* The client's next step keeps the invariant: on an empty page it has read *)
(* all there is, on another it has read up to that page's end.              *)
LEMMA ConcludeKeeps ==
  ASSUME DocInv, doc.pc = "asking", Conclude, UNCHANGED dead
  PROVE  DocInv'
<1> DEFINE answered == \A q \in DOMAIN doc.req : doc.req[q].st = "done"
           got == doc.req[CHOOSE q \in DOMAIN doc.req : TRUE].rows
           more == doc.op \in {"onward", "back"} /\ got # <<>>
<1>1. /\ doc \in [pc : {"asking", "failed", "answered"}, op : Kinds, ver : Versions, start : Nat, at : Nat,
                  read : Seq(Nat), req : UNION {[Requests[op] -> Answers] : op \in Kinds}]
      /\ doc.req \in [Requests[doc.op] -> Answers] /\ doc.op \in Kinds /\ doc.ver \in Versions
      /\ DocType /\ ReadSoFar
  BY DEF DocInv, DocType
<1>2. /\ doc.op = "onward" => DOMAIN doc.req = {"next"} /\ got = doc.req["next"].rows
      /\ doc.op = "back" => DOMAIN doc.req = {"prev"} /\ got = doc.req["prev"].rows
  BY <1>1, RequestsAre
<1>3. \A q \in DOMAIN doc.req : Worth(q)
  BY DEF DocInv
<1> HIDE DEF got
<1>4. \/ doc' = [doc EXCEPT !.pc = "failed"]
      \/ answered /\ ~more /\ doc' = [doc EXCEPT !.pc = "answered"]
      \/ /\ answered /\ more
         /\ doc' = [doc EXCEPT !.at = IF doc.op = "onward" THEN Last(got) ELSE Head(got),
                               !.read = IF doc.op = "onward" THEN @ \o got ELSE got \o @,
                               !.req = Todo(doc.op)]
  BY DEF Conclude, got
<1>5. ASSUME doc' = [doc EXCEPT !.pc = "failed"] \/ doc' = [doc EXCEPT !.pc = "answered"],
             doc'.pc = "answered" => Complete
      PROVE  DocInv'
  <2>1. /\ doc'.op = doc.op /\ doc'.ver = doc.ver /\ doc'.start = doc.start
        /\ doc'.at = doc.at /\ doc'.read = doc.read /\ doc'.req = doc.req
    BY <1>1, <1>5
  <2>2. doc' \in [pc : {"asking", "failed", "answered"}, op : Kinds, ver : Versions, start : Nat, at : Nat,
                  read : Seq(Nat), req : UNION {[Requests[op] -> Answers] : op \in Kinds}]
    BY <1>1, <1>5
  <2>3. DocType'
    BY <1>1, <2>1, <2>2 DEF DocType
  <2>4. Stored' = Stored /\ \A p : Wanted(p)' = Wanted(p)
    BY <2>1 DEF Stored, Wanted
  <2>5. \A q \in DOMAIN doc'.req : Worth(q)'
    BY <1>3, <2>1, <2>4 DEF Worth
  <2>6. ReadSoFar'
    BY <1>1, <2>1 DEF ReadSoFar
  <2>7. (doc.pc = "answered" => Complete)'
    BY <1>5, <2>1 DEF Complete
  <2> QED BY <2>3, <2>5, <2>6, <2>7 DEF DocInv
<1>6. CASE doc' = [doc EXCEPT !.pc = "failed"]
  <2>1. doc'.pc = "failed"
    BY <1>1, <1>6
  <2> QED BY <1>5, <1>6, <2>1
<1>7. CASE answered /\ ~more /\ doc' = [doc EXCEPT !.pc = "answered"]
  <2>1. Complete
    BY <1>1, <1>2, <1>7 DEF Complete
  <2> QED BY <1>5, <1>7, <2>1
<1>8. CASE /\ answered /\ more
           /\ doc' = [doc EXCEPT !.at = IF doc.op = "onward" THEN Last(got) ELSE Head(got),
                                 !.read = IF doc.op = "onward" THEN @ \o got ELSE got \o @,
                                 !.req = Todo(doc.op)]
  <2> DEFINE at == IF doc.op = "onward" THEN Last(got) ELSE Head(got)
             read == IF doc.op = "onward" THEN doc.read \o got ELSE got \o doc.read
  <2>1. doc' = [doc EXCEPT !.at = at, !.read = read, !.req = Todo(doc.op)]
    BY <1>8
  <2>2. /\ at \in ReadyIn(doc.ver) /\ at \in Nat /\ read \in Seq(Nat)
        /\ doc.op = "onward" =>
             doc.start <= at /\ Runs(read, {i \in ReadyIn(doc.ver) : doc.start < i /\ i <= at})
        /\ doc.op = "back" =>
             at <= doc.start /\ Runs(read, {i \in ReadyIn(doc.ver) : at <= i /\ i < doc.start})
    <3>1. CASE doc.op = "onward"
      <4>1. got = Wanted("next") /\ got # <<>>
        BY <1>2, <1>3, <1>8, <3>1 DEF Worth
      <4>2. got = Truncate(After(doc.ver, doc.at), Limit)
        BY <4>1 DEF Wanted
      <4>3. at = got[Len(got)] /\ read = doc.read \o got
        BY <3>1 DEF Last
      <4> HIDE DEF at, read
      <4> QED BY <1>1, <3>1, <4>1, <4>2, <4>3, GoesOn DEF Runs
    <3>2. CASE doc.op = "back"
      <4>1. got = Wanted("prev") /\ got # <<>>
        BY <1>2, <1>3, <1>8, <3>2 DEF Worth
      <4>2. got = LastOf(Before(doc.ver, doc.at), Limit)
        BY <4>1 DEF Wanted
      <4>3. got \in Seq(Nat)
        BY <1>1, <3>2, <4>1, <4>2, GoesBack
      <4>4. at = got[1] /\ read = got \o doc.read
        BY <3>2, <4>1, <4>3
      <4> HIDE DEF at, read
      <4> QED BY <1>1, <3>2, <4>1, <4>2, <4>4, GoesBack DEF Runs
    <3> QED BY <1>8, <3>1, <3>2
  <2> HIDE DEF at, read
  <2>3. /\ doc'.op = doc.op /\ doc'.ver = doc.ver /\ doc'.start = doc.start
        /\ doc'.at = at /\ doc'.read = read /\ doc'.req = Todo(doc.op) /\ doc'.pc = "asking"
    BY <1>1, <2>1
  <2>4. Todo(doc.op) \in [Requests[doc.op] -> Answers] /\ \A q \in Requests[doc.op] : Todo(doc.op)[q].st = "todo"
    BY <1>1, TodoIs
  <2>5. doc' \in [pc : {"asking", "failed", "answered"}, op : Kinds, ver : Versions, start : Nat, at : Nat,
                  read : Seq(Nat), req : UNION {[Requests[op] -> Answers] : op \in Kinds}]
    <3>1. Todo(doc.op) \in UNION {[Requests[op] -> Answers] : op \in Kinds}
      BY <1>1, <2>4
    <3> HIDE DEF answered, more
    <3> QED BY <1>1, <2>1, <2>2, <3>1
  <2>6. at \in DOMAIN Ready[doc.ver]
    BY <2>2 DEF ReadyIn
  <2>7. DocType'
    BY <1>1, <2>3, <2>4, <2>5, <2>6 DEF DocType
  <2>8. \A q \in DOMAIN doc'.req : Worth(q)'
    BY <2>3, <2>4 DEF Worth
  <2>9. ReadSoFar'
    BY <2>2, <2>3 DEF ReadSoFar
  <2> QED BY <2>3, <2>7, <2>8, <2>9 DEF DocInv
<1> QED BY <1>4, <1>6, <1>7, <1>8

(* The version may be deleted at any time, and stays deleted.               *)
LEMMA DeathKeeps ==
  ASSUME DocInv, UNCHANGED doc, dead \subseteq dead'
  PROVE  DocInv'
<1>1. (Stored' => Stored) /\ \A p : Wanted(p)' = Wanted(p)
  BY DEF Stored, Wanted
<1>2. \A q \in DOMAIN doc.req : Worth(q) => Worth(q)'
  BY <1>1 DEF Worth
<1> QED BY <1>2 DEF DocInv, DocType, ReadSoFar, Complete

DocsInv == (task = "document" => DocInv) /\ (task # "document" => doc.pc = "off")
ReadersInv == CorpusType /\ WalksInv /\ DocsInv

(* The readers start in the invariant.                                      *)
LEMMA InitReaders ==
  ASSUME ReadingInit
  PROVE  ReadersInv
<1>1. CorpusType
  BY ReadingAssumption DEF ReadingInit, CorpusType
<1>2. WalksInv
  <2>1. PICK list \in IF task = "walk" THEN {"values", "sources"} ELSE {"values"} :
          walk = [pc |-> IF task = "walk" THEN "walking" ELSE "done", list |-> list, cursor |-> -1,
                  seen |-> <<>>, always |-> Offers(list), ever |-> Offers(list)]
    BY DEF ReadingInit
  <2>2. Offers(list) \in SUBSET Nat
    BY <1>1, OffersType
  <2> DEFINE o == Offers(list)
  <2> HIDE DEF o
  <2>3. <<>> \in Seq(Nat) /\ DOMAIN <<>> = {}
    OBVIOUS
  <2>4. SeenSet = {}
    BY <2>1, <2>3 DEF SeenSet
  <2>5. Increases(walk.seen)
    BY <2>1, <2>3 DEF Increases
  <2>6. ASSUME task = "walk" PROVE Walks
    <3>1. walk = [pc |-> "walking", list |-> list, cursor |-> -1, seen |-> <<>>, always |-> o, ever |-> o]
      BY <2>1, <2>6 DEF o
    <3>2. o \in SUBSET Nat /\ o = Offers(walk.list) /\ list \in {"values", "sources"}
      BY <2>2, <3>1 DEF o
    <3>3. walk \in [pc : {"walking", "done"}, list : {"values", "sources"}, cursor : Int,
                    seen : Seq(Nat), always : SUBSET Nat, ever : SUBSET Nat]
      BY <2>3, <3>1, <3>2
    <3>4. \A x \in walk.always : ~(x <= walk.cursor)
      BY <3>1, <3>2
    <3> QED BY <2>4, <2>5, <3>1, <3>2, <3>3, <3>4 DEF Walks
  <2> QED BY <2>1, <2>6 DEF WalksInv
<1>3. DocsInv
  <2>1. PICK op \in (IF task = "document" THEN DOMAIN Requests ELSE {"window"}),
             v \in (IF task = "document" THEN Versions ELSE {CHOOSE w \in Versions : TRUE}) :
        \E at \in (IF task = "document" THEN DOMAIN Ready[v] ELSE {1}) :
          doc = [pc |-> IF task = "document" THEN "asking" ELSE "off", op |-> op, ver |-> v,
                 start |-> at, at |-> at, read |-> <<>>, req |-> Todo(op)]
    BY DEF ReadingInit
  <2>2. PICK at \in (IF task = "document" THEN DOMAIN Ready[v] ELSE {1}) :
          doc = [pc |-> IF task = "document" THEN "asking" ELSE "off", op |-> op, ver |-> v,
                 start |-> at, at |-> at, read |-> <<>>, req |-> Todo(op)]
    BY <2>1
  <2>3. ASSUME task = "document" PROVE DocInv
    <3>1. op \in Kinds /\ v \in Versions /\ at \in DOMAIN Ready[v] /\ Ready[v] \in Seq(BOOLEAN)
      BY <2>1, <2>2, <2>3, RequestsAre, ReadingAssumption
    <3>2. at \in Nat
      BY <3>1
    <3>3. doc = [pc |-> "asking", op |-> op, ver |-> v, start |-> at, at |-> at, read |-> <<>>, req |-> Todo(op)]
      BY <2>2, <2>3
    <3>4. Todo(op) \in [Requests[op] -> Answers] /\ \A q \in Requests[op] : Todo(op)[q].st = "todo"
      BY <3>1, TodoIs
    <3>5. Todo(op) \in UNION {[Requests[k] -> Answers] : k \in Kinds}
      BY <3>1, <3>4
    <3>6. <<>> \in Seq(Nat)
      OBVIOUS
    <3>7. DocType
      BY <3>1, <3>2, <3>3, <3>4, <3>5, <3>6 DEF DocType
    <3>8. \A q \in DOMAIN doc.req : Worth(q)
      BY <3>3, <3>4 DEF Worth
    <3>9. ReadSoFar
      <4>1. Runs(<<>>, {})
        BY <3>6 DEF Runs, Increases
      <4>2. /\ {i \in ReadyIn(v) : at < i /\ i <= at} = {}
            /\ {i \in ReadyIn(v) : at <= i /\ i < at} = {}
        <5>1. \A i \in ReadyIn(v) : i \in Nat
          BY <3>1, ReadyRuns
        <5> QED BY <3>2, <5>1
      <4>3. doc.read = <<>> /\ doc.ver = v /\ doc.start = at /\ doc.at = at
        BY <3>3
      <4>4. doc.start <= doc.at /\ doc.at <= doc.start
        BY <3>2, <4>3
      <4>5. Runs(doc.read, {i \in ReadyIn(doc.ver) : doc.start < i /\ i <= doc.at})
        BY <4>1, <4>2, <4>3
      <4>6. Runs(doc.read, {i \in ReadyIn(doc.ver) : doc.at <= i /\ i < doc.start})
        BY <4>1, <4>2, <4>3
      <4> QED BY <4>4, <4>5, <4>6 DEF ReadSoFar
    <3> QED BY <3>3, <3>7, <3>8, <3>9 DEF DocInv
  <2> QED BY <2>2, <2>3 DEF DocsInv
<1> QED BY <1>1, <1>2, <1>3 DEF ReadersInv

(* Each step of a reader or of the corpus keeps it.                         *)
LEMMA NextReaders ==
  ASSUME ReadersInv, [ReadingNext]_readingVars
  PROVE  ReadersInv'
<1>1. ASSUME UNCHANGED <<serving, dead, listed, task, walk>>
      PROVE  CorpusType' /\ WalksInv'
  <2>1. SeenSet' = SeenSet /\ Offers(walk.list)' = Offers(walk.list)
    BY <1>1 DEF SeenSet, Offers, Values, Served
  <2> QED BY <1>1, <2>1 DEF ReadersInv, CorpusType, WalksInv, Walks
<1>2. ASSUME UNCHANGED <<dead, task, doc>>
      PROVE  DocsInv'
  <2>1. dead \subseteq dead'
    BY <1>2
  <2>2. DocInv => DocInv'
    BY <1>2, <2>1, DeathKeeps
  <2> QED BY <1>2, <2>2 DEF ReadersInv, DocsInv
<1>3. CASE Change
  <2>1. CorpusType' /\ dead \subseteq dead'
    BY <1>3, ChangeKeepsCorpus DEF ReadersInv
  <2>2. WalksInv'
    BY <1>3, <2>1, ChangeKeepsWalk DEF ReadersInv
  <2>3. UNCHANGED <<task, doc>>
    BY <1>3 DEF Change
  <2>4. DocInv => DocInv'
    BY <2>1, <2>3, DeathKeeps
  <2>5. DocsInv'
    BY <2>3, <2>4 DEF ReadersInv, DocsInv
  <2> QED BY <2>1, <2>2, <2>5 DEF ReadersInv
<1>4. CASE Page
  <2>1. UNCHANGED <<serving, dead, listed, task, doc>>
    BY <1>4 DEF Page, corpus
  <2>2. CorpusType'
    BY <2>1 DEF ReadersInv, CorpusType
  <2>3. WalksInv'
    BY <1>4, PageKeepsWalk DEF ReadersInv
  <2> QED BY <1>2, <2>1, <2>2, <2>3 DEF ReadersInv
<1>5. CASE Read
  <2>1. UNCHANGED <<serving, dead, listed, task, walk>> /\ doc.pc = "asking"
    BY <1>5 DEF Read, corpus
  <2>2. task = "document" /\ DocInv
    BY <2>1 DEF ReadersInv, DocsInv
  <2>3. DocInv'
    <3>1. CASE Conclude
      BY <2>1, <2>2, <3>1, ConcludeKeeps
    <3>2. CASE \E q \in DOMAIN doc.req : Statement(q)
      BY <2>1, <2>2, <3>2, StatementKeeps
    <3> QED BY <1>5, <3>1, <3>2 DEF Read
  <2>4. DocsInv'
    BY <2>1, <2>2, <2>3 DEF DocsInv
  <2> QED BY <1>1, <2>1, <2>4 DEF ReadersInv
<1>6. CASE Tick \/ (\E r \in Readers : Overview(r) \/ Unavailable(r)) \/ UNCHANGED readingVars
  <2>1. UNCHANGED <<serving, dead, listed, task, walk, doc>>
    BY <1>6 DEF Tick, Overview, Unavailable, readingVars, corpus
  <2> QED BY <1>1, <1>2, <2>1 DEF ReadersInv
<1> QED BY <1>3, <1>4, <1>5, <1>6 DEF ReadingNext

(* The corpus, the walk and the document together are inductive.            *)
THEOREM ReadersInvariant == ReadingSpec => []ReadersInv
<1>1. ReadingInit => ReadersInv
  BY InitReaders
<1>2. ReadersInv /\ [ReadingNext]_readingVars => ReadersInv'
  BY NextReaders
<1> QED BY <1>1, <1>2, PTL DEF ReadingSpec

(* A walk that ends has seen what was there throughout, nothing that never  *)
(* was, and each once.                                                      *)
LEMMA WalkIsExact ==
  ASSUME ReadersInv
  PROVE  WalkExact
<1> SUFFICES ASSUME task = "walk", walk.pc = "done"
             PROVE  /\ \A i \in 1..(Len(walk.seen) - 1) : walk.seen[i] < walk.seen[i + 1]
                    /\ walk.always \subseteq ToSet(walk.seen)
                    /\ ToSet(walk.seen) \subseteq walk.ever
  BY DEF WalkExact
<1>1. Walks
  BY DEF ReadersInv, WalksInv
<1>2. walk.seen \in Seq(Nat) /\ Increases(walk.seen) /\ SeenSet \subseteq walk.ever /\ walk.always \subseteq SeenSet
  BY <1>1 DEF Walks
<1>3. ToSet(walk.seen) = SeenSet
  BY DEF ToSet, SeenSet
<1>4. ASSUME NEW i \in 1..(Len(walk.seen) - 1) PROVE walk.seen[i] < walk.seen[i + 1]
  <2>1. Len(walk.seen) \in Nat /\ DOMAIN walk.seen = 1..Len(walk.seen)
    BY <1>2
  <2>2. i \in DOMAIN walk.seen /\ i + 1 \in DOMAIN walk.seen /\ i < i + 1
    BY <2>1
  <2> QED BY <1>2, <2>2 DEF Increases
<1> QED BY <1>2, <1>3, <1>4

(* A document that was answered was read to its end, or asks what was       *)
(* there.                                                                   *)
LEMMA EndIsReached ==
  ASSUME ReadersInv
  PROVE  EndIsTheEnd
<1> SUFFICES ASSUME doc.pc = "answered"
             PROVE  CASE doc.op = "onward" -> doc.read = After(doc.ver, doc.start)
                      [] doc.op = "back"   -> doc.read = Before(doc.ver, doc.start)
                      [] OTHER -> \A q \in DOMAIN doc.req :
                                    \/ doc.req[q].rows = Wanted(q)
                                    \/ doc.op \in {"window", "parents"} /\ doc.ver \in dead /\ doc.req[q].rows = <<>>
  BY DEF EndIsTheEnd
<1>1. DocInv
  BY DEF ReadersInv, DocsInv
<1>2. Complete /\ DocType /\ ReadSoFar /\ \A q \in DOMAIN doc.req : Worth(q)
  BY <1>1 DEF DocInv
<1>3. /\ doc.req \in [Requests[doc.op] -> Answers] /\ doc.op \in Kinds /\ doc.ver \in Versions
      /\ doc.at \in Nat /\ doc.start \in Nat /\ Limit \in Nat \ {0}
  BY <1>2, ReadingAssumption DEF DocType
<1>4. ReadyIn(doc.ver) \in SUBSET Nat
  BY <1>3, ReadyRuns
<1>5. ASSUME doc.op = "onward" PROVE doc.read = After(doc.ver, doc.start)
  <2>1. "next" \in DOMAIN doc.req
    BY <1>3, <1>5, RequestsAre
  <2>2. Wanted("next") = <<>>
    BY <1>2, <1>5, <2>1 DEF Complete, Worth
  <2>3. Truncate(After(doc.ver, doc.at), Limit) = <<>>
    BY <2>2 DEF Wanted
  <2> DEFINE rest == {i \in ReadyIn(doc.ver) : i > doc.at}
             all == {i \in ReadyIn(doc.ver) : i > doc.start}
  <2>r. Runs(After(doc.ver, doc.at), rest) /\ Runs(After(doc.ver, doc.start), all)
    BY <1>3, ReadyRuns
  <2> HIDE DEF rest, all
  <2>4. After(doc.ver, doc.at) = <<>>
    <3> DEFINE s == After(doc.ver, doc.at)
    <3>1. Runs(s, rest)
      BY <2>r
    <3>2. Truncate(s, Limit) = <<>>
      BY <2>3
    <3> HIDE DEF s
    <3>3. Limit \in Nat \ {0}
      BY <1>3
    <3>4. s # <<>> => Len(Truncate(s, Limit)) >= 1
      BY <3>1, <3>3, RunsCut
    <3>5. s = <<>>
      BY <3>2, <3>4
    <3> QED BY <3>5 DEF s
  <2>5. {i \in ReadyIn(doc.ver) : i > doc.at} = {}
    BY <2>4, <2>r DEF Runs, rest
  <2>6. doc.start <= doc.at
    BY <1>2, <1>5 DEF ReadSoFar
  <2>7. {i \in ReadyIn(doc.ver) : doc.start < i /\ i <= doc.at} = {i \in ReadyIn(doc.ver) : i > doc.start}
    BY <1>3, <1>4, <2>5, <2>6
  <2>8. Runs(doc.read, all)
    BY <1>2, <1>5, <2>7 DEF ReadSoFar, all
  <2> QED BY <2>8, <2>r, SameRuns
<1>6. ASSUME doc.op = "back" PROVE doc.read = Before(doc.ver, doc.start)
  <2>1. "prev" \in DOMAIN doc.req
    BY <1>3, <1>6, RequestsAre
  <2>2. Wanted("prev") = <<>>
    BY <1>2, <1>6, <2>1 DEF Complete, Worth
  <2>3. LastOf(Before(doc.ver, doc.at), Limit) = <<>>
    BY <2>2 DEF Wanted
  <2> DEFINE rest == {i \in ReadyIn(doc.ver) : i < doc.at}
             all == {i \in ReadyIn(doc.ver) : i < doc.start}
  <2>r. Runs(Before(doc.ver, doc.at), rest) /\ Runs(Before(doc.ver, doc.start), all)
    BY <1>3, ReadyRuns
  <2> HIDE DEF rest, all
  <2>4. Before(doc.ver, doc.at) = <<>>
    <3> DEFINE s == Before(doc.ver, doc.at)
    <3>1. Runs(s, rest)
      BY <2>r
    <3>2. LastOf(s, Limit) = <<>>
      BY <2>3
    <3> HIDE DEF s
    <3>3. Limit \in Nat \ {0}
      BY <1>3
    <3>4. s # <<>> => Len(LastOf(s, Limit)) >= 1
      BY <3>1, <3>3, RunsTail
    <3>5. s = <<>>
      BY <3>2, <3>4
    <3> QED BY <3>5 DEF s
  <2>5. {i \in ReadyIn(doc.ver) : i < doc.at} = {}
    BY <2>4, <2>r DEF Runs, rest
  <2>6. doc.at <= doc.start
    BY <1>2, <1>6 DEF ReadSoFar
  <2>7. {i \in ReadyIn(doc.ver) : doc.at <= i /\ i < doc.start} = {i \in ReadyIn(doc.ver) : i < doc.start}
    BY <1>3, <1>4, <2>5, <2>6
  <2>8. Runs(doc.read, all)
    BY <1>2, <1>6, <2>7 DEF ReadSoFar, all
  <2> QED BY <2>8, <2>r, SameRuns
<1>7. ASSUME doc.op \notin {"onward", "back"}, NEW q \in DOMAIN doc.req
      PROVE  \/ doc.req[q].rows = Wanted(q)
             \/ doc.op \in {"window", "parents"} /\ doc.ver \in dead /\ doc.req[q].rows = <<>>
  <2>1. doc.req[q].rows = Wanted(q) \/ (q \in {"window", "parents"} /\ ~Stored /\ doc.req[q].rows = <<>>)
    BY <1>2 DEF Complete, Worth
  <2>2. q \in {"window", "parents"} => doc.op \in {"window", "parents"}
    BY <1>3, RequestsAre DEF Kinds
  <2> QED BY <2>1, <2>2 DEF Stored
<1> QED BY <1>5, <1>6, <1>7

(* For every corpus and any number of changes, a walk by cursor and a       *)
(* reading of a document to its end miss nothing that was there all along   *)
(* and repeat nothing (entities/node.rs and chunk.rs, routes/facets.rs,     *)
(* sources.rs and chunks.rs).                                               *)
THEOREM NothingIsMissed == ReadingSpec => []ReadersMissNothing
<1>1. ReadersInv => ReadersMissNothing
  BY WalkIsExact, EndIsReached DEF ReadersMissNothing
<1> QED BY <1>1, ReadersInvariant, PTL
=============================================================================
