---------------------------- MODULE UploadProofs ----------------------------
(***************************************************************************)
(* Proofs about Chunking, Manifest and Uploads, for every set of files,    *)
(* every text, limit, answer of the provider and of the server, and any    *)
(* bound: chunks tile the text they came from, no document is dropped or   *)
(* handled twice, vectors reach the chunk they were computed for, and      *)
(* nothing is paid for twice.                                              *)
(***************************************************************************)
EXTENDS Uploads, CollectionTheorems

-----------------------------------------------------------------------------
(* Packing: runs that cover what is packed, in order.                       *)

(* The recursion of Chain, from i = low on.                                 *)
Links(n, end, low, f) ==
  f = [i \in low..(n + 1) |-> IF i > n THEN <<>> ELSE <<Span(i, end[i])>> \o f[end[i] + 1]]

(* It has a solution.                                                       *)
LEMMA LinksExist ==
  ASSUME NEW n \in Nat, NEW end, \A i \in 1..n : end[i] \in i..n
  PROVE  \E f : Links(n, end, 1, f)
<1> DEFINE N == {m \in Nat : m <= n => \E f : Links(n, end, n + 1 - m, f)}
<1>1. 0 \in N
  <2>1. Links(n, end, n + 1, [i \in (n + 1)..(n + 1) |-> <<>>])
    BY DEF Links
  <2>2. n + 1 - 0 = n + 1
    OBVIOUS
  <2> HIDE DEF Links
  <2> QED BY <2>1, <2>2
<1>2. ASSUME NEW m \in N \cap Nat PROVE m + 1 \in N
  <2> SUFFICES ASSUME m + 1 <= n PROVE \E f : Links(n, end, n + 1 - (m + 1), f)
    OBVIOUS
  <2> DEFINE low == n - m
  <2>1. /\ low \in 1..n /\ n + 1 - m = low + 1 /\ n + 1 - (m + 1) = low
        /\ low..(n + 1) = {low} \cup ((low + 1)..(n + 1))
    OBVIOUS
  <2>2. PICK f : Links(n, end, low + 1, f)
    BY <2>1
  <2> HIDE DEF low
  <2>3. \A i \in (low + 1)..(n + 1) :
          f[i] = IF i > n THEN <<>> ELSE <<Span(i, end[i])>> \o f[end[i] + 1]
    BY <2>2 DEF Links
  <2> DEFINE g == [i \in low..(n + 1) |->
                     IF i = low THEN <<Span(low, end[low])>> \o f[end[low] + 1] ELSE f[i]]
  <2>4. g = [i \in low..(n + 1) |-> g[i]]
    OBVIOUS
  <2>5. g[low] = <<Span(low, end[low])>> \o f[end[low] + 1]
    BY <2>1
  <2>6. \A i \in (low + 1)..(n + 1) : g[i] = f[i]
    BY <2>1
  <2> HIDE DEF g
  <2>7. ASSUME NEW i \in low..(n + 1)
        PROVE  g[i] = IF i > n THEN <<>> ELSE <<Span(i, end[i])>> \o g[end[i] + 1]
    <3>1. i \in 1..n => end[i] + 1 \in (low + 1)..(n + 1)
      <4> SUFFICES ASSUME i \in 1..n PROVE end[i] + 1 \in (low + 1)..(n + 1)
        OBVIOUS
      <4>1. end[i] \in i..n
        OBVIOUS
      <4> QED BY <2>1, <4>1
    <3>2. CASE i = low
      <4>1. i \in 1..n /\ ~ i > n
        BY <2>1, <3>2
      <4> QED BY <2>5, <2>6, <3>1, <3>2, <4>1
    <3>3. CASE i # low
      <4>1. i \in (low + 1)..(n + 1)
        BY <2>1, <3>3
      <4>2. ~ i > n => i \in 1..n
        BY <2>1, <4>1
      <4> QED BY <2>3, <2>6, <3>1, <4>1, <4>2
    <3> QED BY <3>2, <3>3
  <2>8. Links(n, end, low, g)
    BY <2>4, <2>7 DEF Links
  <2> HIDE DEF Links
  <2> QED BY <2>1, <2>8
<1> HIDE DEF N
<1>3. Nat \subseteq N
  BY <1>1, <1>2, Induct
<1>4. n \in N /\ n + 1 - n = 1
  BY <1>3
<1> QED BY <1>4 DEF N

(* Runs of units from i to n: each begins where the last one ended.         *)
Covers(rs, i, n) ==
  /\ rs \in Seq([lo : Int, hi : Int])
  /\ \A k \in 1..Len(rs) :
       /\ rs[k].lo = IF k = 1 THEN i ELSE rs[k - 1].hi + 1
       /\ i <= rs[k].lo /\ rs[k].lo <= rs[k].hi /\ rs[k].hi <= n
  /\ IF Len(rs) = 0 THEN i = n + 1 ELSE rs[Len(rs)].hi = n

(* A chain by its recursion: With evaluates a value once and no more.       *)
LEMMA ChainIs ==
  ASSUME NEW n \in Nat, NEW end, \A i \in 1..n : end[i] \in i..n
  PROVE  \E f : Links(n, end, 1, f) /\ Chain(n, end) = f[1]
<1> DEFINE W(f) == f = [i \in 1..(n + 1) |->
                          IF i > n THEN <<>>
                          ELSE CHOOSE r \in {<<Span(i, x)>> \o f[x + 1] : x \in {end[i]}} : TRUE]
<1>1. Chain(n, end) = (CHOOSE f : W(f))[1]
  BY DEF Chain, With
<1>2. ASSUME NEW f PROVE W(f) <=> Links(n, end, 1, f)
  <2>1. ASSUME NEW i
        PROVE  (CHOOSE r \in {<<Span(i, x)>> \o f[x + 1] : x \in {end[i]}} : TRUE)
                 = <<Span(i, end[i])>> \o f[end[i] + 1]
    OBVIOUS
  <2> QED BY <2>1 DEF Links
<1>3. \E f : W(f)
  BY <1>2, LinksExist
<1>4. W(CHOOSE f : W(f))
  BY <1>3
<1> QED BY <1>1, <1>2, <1>4

(* One run more in front.                                                   *)
LEMMA CoversMore ==
  ASSUME NEW n \in Int, NEW i \in Int, NEW j \in Int, i <= j, j <= n,
         NEW rs, Covers(rs, j + 1, n)
  PROVE  Covers(<<Span(i, j)>> \o rs, i, n)
<1> DEFINE S == [lo : Int, hi : Int]
           q == <<Span(i, j)>> \o rs
<1>1. rs \in Seq(S) /\ Len(rs) \in Nat
  BY DEF Covers
<1>2. Span(i, j) \in S /\ Span(i, j).lo = i /\ Span(i, j).hi = j
  BY DEF Span
<1>3. /\ q \in Seq(S) /\ Len(q) = Len(rs) + 1 /\ q[1] = Span(i, j)
      /\ \A k \in 1..Len(rs) : q[k + 1] = rs[k]
  BY <1>1, <1>2
<1> HIDE DEF q
<1>4. ASSUME NEW k \in 1..Len(q)
      PROVE  /\ q[k].lo = IF k = 1 THEN i ELSE q[k - 1].hi + 1
             /\ i <= q[k].lo /\ q[k].lo <= q[k].hi /\ q[k].hi <= n
  <2>1. CASE k = 1
    BY <1>2, <1>3, <2>1
  <2>2. CASE k # 1
    <3>1. k - 1 \in 1..Len(rs) /\ (k - 1) + 1 = k
      <4>1. k \in 1..(Len(rs) + 1)
        BY <1>3
      <4> QED BY <1>1, <2>2, <4>1
    <3>2. q[k] = rs[k - 1]
      BY <1>3, <3>1
    <3>3. /\ rs[k - 1].lo = IF k - 1 = 1 THEN j + 1 ELSE rs[(k - 1) - 1].hi + 1
          /\ j + 1 <= rs[k - 1].lo /\ rs[k - 1].lo <= rs[k - 1].hi /\ rs[k - 1].hi <= n
      BY <3>1 DEF Covers
    <3>4. rs[k - 1].lo = q[k - 1].hi + 1
      <4>1. CASE k = 2
        BY <1>2, <1>3, <3>3, <4>1
      <4>2. CASE k # 2
        <5>1. (k - 1) - 1 \in 1..Len(rs) /\ ((k - 1) - 1) + 1 = k - 1 /\ k - 1 # 1
          BY <2>2, <3>1, <4>2
        <5>2. q[k - 1] = rs[(k - 1) - 1]
          BY <1>3, <5>1
        <5> QED BY <3>3, <5>1, <5>2
      <4> QED BY <4>1, <4>2
    <3>5. rs[k - 1].lo \in Int /\ rs[k - 1].hi \in Int
      <4>1. rs[k - 1] \in S
        BY <1>1, <3>1, ElementOfSeq
      <4> QED BY <4>1
    <3> QED BY <2>2, <3>2, <3>3, <3>4, <3>5
  <2> QED BY <2>1, <2>2
<1>5. q[Len(q)].hi = n
  <2>1. CASE Len(rs) = 0
    <3>1. j + 1 = n + 1
      BY <2>1 DEF Covers
    <3> QED BY <1>2, <1>3, <2>1, <3>1
  <2>2. CASE Len(rs) # 0
    <3>1. rs[Len(rs)].hi = n /\ Len(rs) \in 1..Len(rs)
      BY <1>1, <2>2 DEF Covers
    <3> QED BY <1>3, <3>1
  <2> QED BY <2>1, <2>2
<1>6. Len(q) # 0
  BY <1>1, <1>3
<1>7. Covers(q, i, n)
  BY <1>3, <1>4, <1>5, <1>6 DEF Covers
<1> QED BY <1>7 DEF q

(* The greedy loop covers all units, and its runs end where they should.    *)
LEMMA ChainCovers ==
  ASSUME NEW n \in Nat, NEW end, \A i \in 1..n : end[i] \in i..n
  PROVE  /\ Covers(Chain(n, end), 1, n)
         /\ \A k \in 1..Len(Chain(n, end)) : Chain(n, end)[k].hi = end[Chain(n, end)[k].lo]
<1> DEFINE Good(rs, i) ==
             Covers(rs, i, n) /\ \A k \in 1..Len(rs) : rs[k].hi = end[rs[k].lo]
<1>1. PICK f : Links(n, end, 1, f) /\ Chain(n, end) = f[1]
  BY ChainIs
<1>2. \A i \in 1..(n + 1) :
        f[i] = IF i > n THEN <<>> ELSE <<Span(i, end[i])>> \o f[end[i] + 1]
  BY <1>1 DEF Links
<1> DEFINE N == {m \in Nat : \A i \in 1..(n + 1) : n + 1 - i <= m => Good(f[i], i)}
<1>3. 0 \in N
  <2>1. ASSUME NEW i \in 1..(n + 1), n + 1 - i <= 0 PROVE Good(f[i], i)
    <3>1. i = n + 1 /\ i > n
      BY <2>1
    <3>2. f[i] = <<>>
      BY <1>2, <3>1
    <3> QED BY <3>1, <3>2 DEF Covers
  <2> HIDE DEF Good
  <2> QED BY <2>1
<1>4. ASSUME NEW m \in N \cap Nat PROVE m + 1 \in N
  <2>1. ASSUME NEW i \in 1..(n + 1), n + 1 - i <= m + 1 PROVE Good(f[i], i)
    <3>1. CASE n + 1 - i <= m
      <4> HIDE DEF Good
      <4> QED BY <3>1
    <3>2. CASE n + 1 - i = m + 1
      <4>1. i \in 1..n /\ ~ i > n
        BY <3>2
      <4>2. end[i] \in i..n
        BY <4>1
      <4>3. end[i] + 1 \in 1..(n + 1) /\ n + 1 - (end[i] + 1) <= m /\ end[i] \in Int
        BY <3>2, <4>1, <4>2
      <4> DEFINE rs == f[end[i] + 1]
      <4> HIDE DEF Good
      <4>4. Good(rs, end[i] + 1)
        BY <4>3
      <4> USE DEF Good
      <4>5. f[i] = <<Span(i, end[i])>> \o rs
        BY <1>2, <4>1
      <4> HIDE DEF rs
      <4>6. Covers(f[i], i, n)
        BY <4>1, <4>2, <4>3, <4>4, <4>5, CoversMore
      <4>7. ASSUME NEW k \in 1..Len(f[i]) PROVE f[i][k].hi = end[f[i][k].lo]
        <5>1. rs \in Seq([lo : Int, hi : Int]) /\ Len(rs) \in Nat
          BY <4>4 DEF Covers
        <5>2. /\ Len(f[i]) = Len(rs) + 1 /\ f[i][1] = Span(i, end[i])
              /\ \A l \in 1..Len(rs) : f[i][l + 1] = rs[l]
          BY <4>5, <5>1
        <5>3. CASE k = 1
          BY <5>2, <5>3 DEF Span
        <5>4. CASE k # 1
          <6>1. k - 1 \in 1..Len(rs) /\ (k - 1) + 1 = k
            BY <5>1, <5>2, <5>4
          <6> QED BY <4>4, <5>2, <6>1
        <5> QED BY <5>3, <5>4
      <4> QED BY <4>6, <4>7
    <3>3. n + 1 - i <= m \/ n + 1 - i = m + 1
      BY <2>1
    <3> QED BY <3>1, <3>2, <3>3
  <2> HIDE DEF Good
  <2> QED BY <2>1
<1> HIDE DEF N
<1>5. Nat \subseteq N
  BY <1>3, <1>4, Induct
<1>6. n \in N /\ 1 \in 1..(n + 1) /\ n + 1 - 1 <= n
  BY <1>5
<1>7. Good(f[1], 1)
  <2> HIDE DEF Good
  <2> QED BY <1>6 DEF N
<1> QED BY <1>1, <1>7

(* The largest of a set of integers that has one and is bounded.            *)
LEMMA MaxIs ==
  ASSUME NEW i \in Int, NEW n \in Int, NEW S \in SUBSET (i..n), i \in S
  PROVE  Max(S) \in S
<1> DEFINE D == {n - x : x \in S}
<1>1. D \subseteq Nat /\ D # {}
  OBVIOUS
<1>2. PICK m \in D : \A d \in D : m <= d
  BY <1>1, Least
<1>3. PICK x \in S : m = n - x
  OBVIOUS
<1>4. \A y \in S : x >= y
  <2>1. ASSUME NEW y \in S PROVE x >= y
    <3>1. m <= n - y
      BY <1>2
    <3>2. x \in Int /\ y \in Int
      <4>1. x \in i..n /\ y \in i..n
        OBVIOUS
      <4> QED BY <4>1
    <3> QED BY <1>3, <3>1, <3>2
  <2> QED BY <2>1
<1>5. \E z \in S : \A y \in S : z >= y
  BY <1>4
<1> QED BY <1>5 DEF Max

(* What Pack needs of any test: a run ends at its start or later.           *)
LEMMA MaxFillCovers ==
  ASSUME NEW counts, NEW limit, Len(counts) \in Nat
  PROVE  Covers(MaxFill(counts, limit), 1, Len(counts))
<1> DEFINE S(i) == {j \in i..Len(counts) : \A k \in (i + 1)..j :
                      Sum(counts, i, k - 1) = 0 \/ Sum(counts, i, k) <= limit}
           end == [i \in 1..Len(counts) |-> Max(S(i))]
<1>1. MaxFill(counts, limit) = Chain(Len(counts), end)
  BY DEF MaxFill, Pack, RunEnd
<1>2. ASSUME NEW i \in 1..Len(counts) PROVE end[i] \in i..Len(counts)
  <2>1. i \in S(i) /\ S(i) \in SUBSET (i..Len(counts)) /\ i \in Int /\ Len(counts) \in Int
    OBVIOUS
  <2>2. Max(S(i)) \in S(i)
    <3> HIDE DEF S
    <3> QED BY <2>1, MaxIs
  <2> QED BY <2>1, <2>2
<1> HIDE DEF end
<1> QED BY <1>1, <1>2, ChainCovers

(* A group ends at its start or later.                                      *)
LEMMA GroupEndIs ==
  ASSUME NEW counts, NEW limit, NEW left, Len(counts) \in Nat, NEW i \in 1..Len(counts)
  PROVE  GroupEnd(counts, limit, left, i) \in i..Len(counts)
<1> DEFINE share == (Sum(counts, i, Len(counts)) + left - 1) \div left
           S == {j \in i..Len(counts) : \A k \in (i + 1)..j :
                   \/ Sum(counts, i, k - 1) = 0
                   \/ /\ Sum(counts, i, k) <= limit
                      /\ left = 1 \/ Sum(counts, i, k - 1) < share}
<1>1. GroupEnd(counts, limit, left, i) = Max(S)
  BY DEF GroupEnd, RunEnd
<1>2. i \in S /\ S \in SUBSET (i..Len(counts)) /\ i \in Int /\ Len(counts) \in Int
  OBVIOUS
<1> HIDE DEF S
<1>3. Max(S) \in S
  BY <1>2, MaxIs
<1> QED BY <1>1, <1>2, <1>3

(* The recursion of Partition.                                              *)
Advance(at, counts, limit, left) ==
  IF at = Len(counts) THEN at ELSE GroupEnd(counts, limit, left, at + 1)
Divides(counts, limit, n, m, f) ==
  f = [g \in 0..m |-> IF g = 0 THEN 0 ELSE Advance(f[g - 1], counts, limit, n - g + 1)]

(* For every number of cuts there is a function that makes them, each       *)
(* where GroupEnd puts it after the one before.                             *)
LEMMA DividesExist ==
  ASSUME NEW counts, NEW limit, NEW n
  PROVE  \A m \in Nat : \E f : Divides(counts, limit, n, m, f)
<1> DEFINE N == {m \in Nat : \E f : Divides(counts, limit, n, m, f)}
<1>1. 0 \in N
  <2>1. Divides(counts, limit, n, 0, [g \in 0..0 |-> 0])
    BY DEF Divides
  <2> HIDE DEF Divides
  <2> QED BY <2>1
<1>2. ASSUME NEW m \in N \cap Nat PROVE m + 1 \in N
  <2>1. PICK f : Divides(counts, limit, n, m, f)
    OBVIOUS
  <2>2. \A g \in 0..m : f[g] = IF g = 0 THEN 0 ELSE Advance(f[g - 1], counts, limit, n - g + 1)
    BY <2>1 DEF Divides
  <2> DEFINE h == [g \in 0..(m + 1) |->
                     IF g <= m THEN f[g] ELSE Advance(f[m], counts, limit, n - g + 1)]
  <2>3. h = [g \in 0..(m + 1) |-> h[g]]
    OBVIOUS
  <2>4. m + 1 \in 0..(m + 1) /\ ~ m + 1 <= m /\ \A g \in 0..m : g \in 0..(m + 1) /\ g <= m
    OBVIOUS
  <2>5. \A g \in 0..m : h[g] = f[g]
    BY <2>4
  <2>6. h[m + 1] = Advance(f[m], counts, limit, n - (m + 1) + 1)
    BY <2>4
  <2> HIDE DEF h
  <2>7. ASSUME NEW g \in 0..(m + 1)
        PROVE  h[g] = IF g = 0 THEN 0 ELSE Advance(h[g - 1], counts, limit, n - g + 1)
    <3>1. CASE g = m + 1
      <4>1. g - 1 = m /\ m \in 0..m /\ g # 0
        BY <3>1
      <4> QED BY <2>5, <2>6, <3>1, <4>1
    <3>2. CASE g # m + 1
      <4>1. g \in 0..m /\ (g # 0 => g - 1 \in 0..m)
        BY <3>2
      <4> QED BY <2>2, <2>5, <4>1
    <3> QED BY <3>1, <3>2
  <2>8. Divides(counts, limit, n, m + 1, h)
    BY <2>3, <2>7 DEF Divides
  <2> HIDE DEF Divides
  <2> QED BY <2>8
<1> HIDE DEF N
<1>3. Nat \subseteq N
  BY <1>1, <1>2, Induct
<1> QED BY <1>3 DEF N

(* Partition (try_partition) makes these cuts: its recursion, unfolded.     *)
LEMMA PartitionIs ==
  ASSUME NEW counts, NEW limit, NEW n \in Nat
  PROVE  Divides(counts, limit, n, n, Partition(counts, limit, n))
<1> DEFINE W(f) == f = [g \in 0..n |->
             IF g = 0 THEN 0
             ELSE CHOOSE r \in {IF x = Len(counts) THEN x
                                ELSE GroupEnd(counts, limit, n - g + 1, x + 1) : x \in {f[g - 1]}} : TRUE]
<1>1. Partition(counts, limit, n) = (CHOOSE f : W(f))
  BY DEF Partition, With
<1>2. ASSUME NEW f PROVE W(f) <=> Divides(counts, limit, n, n, f)
  <2>1. ASSUME NEW g
        PROVE  (CHOOSE r \in {IF x = Len(counts) THEN x
                                ELSE GroupEnd(counts, limit, n - g + 1, x + 1) : x \in {f[g - 1]}} : TRUE)
                 = Advance(f[g - 1], counts, limit, n - g + 1)
    BY DEF Advance
  <2> QED BY <2>1 DEF Divides
<1>3. \E f : W(f)
  <2>1. PICK f : Divides(counts, limit, n, n, f)
    BY DividesExist
  <2> HIDE DEF W
  <2> QED BY <1>2, <2>1
<1>4. W(CHOOSE f : W(f))
  BY <1>3
<1> QED BY <1>1, <1>2, <1>4

(* Context groups cover the chunks of a document, in their order.           *)
LEMMA GroupsCover ==
  ASSUME NEW counts, NEW limit, Len(counts) \in Nat, counts = <<>> <=> Len(counts) = 0
  PROVE  Covers(BalancedGroups(counts, limit), 1, Len(counts))
<1> DEFINE size == Len(counts)
           fill == MaxFill(counts, limit)
           n    == Len(fill)
           ends == Partition(counts, limit, n)
           parts == [g \in 1..n |-> Span(ends[g - 1] + 1, ends[g])]
<1>1. CASE counts = <<>>
  BY <1>1 DEF BalancedGroups, Covers
<1>2. CASE BalancedGroups(counts, limit) = <<Span(1, size)>> /\ size > 0
  <2>1. Covers(<<Span(1, size)>>, 1, size)
    BY <1>2 DEF Covers, Span
  <2> QED BY <1>2, <2>1
<1>3. Covers(fill, 1, size)
  BY MaxFillCovers
<1>4. n \in Nat
  BY <1>3 DEF Covers
<1> HIDE DEF fill, n
<1>5. \A g \in 0..n : ends[g] = IF g = 0 THEN 0 ELSE Advance(ends[g - 1], counts, limit, n - g + 1)
  BY <1>4, PartitionIs DEF Divides
<1> HIDE DEF ends
<1> DEFINE N == {g \in Nat : g <= n => ends[g] \in 0..size /\ (g # 0 => ends[g - 1] \in 0..size /\
                               ends[g - 1] <= ends[g] /\ (ends[g - 1] < size => ends[g - 1] < ends[g]))}
<1>6. 0 \in N
  BY <1>4, <1>5
<1>7. ASSUME NEW g \in N \cap Nat PROVE g + 1 \in N
  <2> SUFFICES ASSUME g + 1 <= n
               PROVE  /\ ends[g + 1] \in 0..size /\ ends[g] \in 0..size
                      /\ ends[g] <= ends[g + 1] /\ (ends[g] < size => ends[g] < ends[g + 1])
    OBVIOUS
  <2>1. g + 1 \in 0..n /\ g + 1 # 0 /\ g + 1 - 1 = g /\ ends[g] \in 0..size
    BY <1>4
  <2>2. ends[g + 1] = Advance(ends[g], counts, limit, n - (g + 1) + 1)
    BY <1>5, <2>1
  <2>3. CASE ends[g] = size
    BY <2>1, <2>2, <2>3 DEF Advance
  <2>4. CASE ends[g] # size
    <3>1. ends[g] + 1 \in 1..size
      BY <2>1, <2>4
    <3>2. ends[g + 1] \in (ends[g] + 1)..size
      BY <2>2, <2>4, <3>1, GroupEndIs DEF Advance
    <3> QED BY <2>1, <3>1, <3>2
  <2> QED BY <2>3, <2>4
<1> HIDE DEF N
<1>8. Nat \subseteq N
  BY <1>6, <1>7, Induct
<1>9. \A g \in 1..n : /\ ends[g] \in 0..size /\ ends[g - 1] \in 0..size
                      /\ ends[g - 1] <= ends[g] /\ (ends[g - 1] < size => ends[g - 1] < ends[g])
  <2>1. \A g \in 1..n : g \in N /\ g <= n /\ g # 0
    BY <1>4, <1>8
  <2> QED BY <2>1 DEF N
<1>10. CASE size > 0 /\ ends[n - 1] < size /\ ends[n] = size
  <2>0. n # 0
    BY <1>3, <1>10 DEF Covers, n
  <2> DEFINE M == {d \in Nat : d < n => ends[n - 1 - d] < size}
  <2>1. 0 \in M
    BY <1>4, <1>10
  <2>2. ASSUME NEW d \in M \cap Nat PROVE d + 1 \in M
    <3> SUFFICES ASSUME d + 1 < n PROVE ends[n - 1 - (d + 1)] < size
      OBVIOUS
    <3>1. n - 1 - d \in 1..n /\ n - 1 - (d + 1) = (n - 1 - d) - 1 /\ d < n
      BY <1>4
    <3>2. ends[n - 1 - d] < size /\ ends[n - 1 - (d + 1)] <= ends[n - 1 - d]
      BY <1>9, <3>1
    <3>3. ends[n - 1 - (d + 1)] \in 0..size /\ ends[n - 1 - d] \in 0..size
      BY <1>9, <3>1
    <3> QED BY <3>2, <3>3
  <2> HIDE DEF M
  <2>3. Nat \subseteq M
    BY <2>1, <2>2, Induct
  <2>4. ASSUME NEW g \in 1..n PROVE ends[g - 1] < ends[g]
    <3>1. n - g \in Nat /\ n - g < n /\ n - 1 - (n - g) = g - 1
      BY <1>4
    <3>2. n - g \in M
      BY <2>3, <3>1
    <3>3. ends[g - 1] < size
      BY <3>1, <3>2 DEF M
    <3> QED BY <1>9, <3>3
  <2>5. \A g \in 1..n : parts[g].lo = ends[g - 1] + 1 /\ parts[g].hi = ends[g]
    BY DEF Span
  <2>6. parts \in Seq([lo : Int, hi : Int]) /\ Len(parts) = n
    <3>1. \A g \in 1..n : Span(ends[g - 1] + 1, ends[g]) \in [lo : Int, hi : Int]
      BY <1>9 DEF Span
    <3> QED BY <1>4, <3>1
  <2> HIDE DEF parts
  <2>7. ends[0] = 0
    BY <1>4, <1>5
  <2>8. ASSUME NEW g \in 1..n
        PROVE  /\ parts[g].lo = IF g = 1 THEN 1 ELSE parts[g - 1].hi + 1
               /\ 1 <= parts[g].lo /\ parts[g].lo <= parts[g].hi /\ parts[g].hi <= size
    <3>1. g # 1 => g - 1 \in 1..n
      BY <1>4
    <3>2. ends[g] \in 0..size /\ ends[g - 1] \in 0..size /\ ends[g - 1] < ends[g]
      BY <1>9, <2>4
    <3> QED BY <2>5, <2>7, <3>1, <3>2
  <2>9. parts[n].hi = size
    BY <1>4, <1>10, <2>0, <2>5
  <2>10. Covers(parts, 1, size)
    BY <2>0, <2>6, <2>8, <2>9 DEF Covers
  <2>11. BalancedGroups(counts, limit) = parts \/ BalancedGroups(counts, limit) = <<Span(1, size)>>
    BY <1>10 DEF BalancedGroups, parts, ends, n, fill
  <2> QED BY <1>2, <1>10, <2>10, <2>11
<1>11. CASE ~ (ends[n - 1] < size /\ ends[n] = size)
  <2>1. \/ counts = <<>> \/ BalancedGroups(counts, limit) = <<Span(1, size)>>
        \/ BalancedGroups(counts, limit) = fill
    BY <1>11 DEF BalancedGroups, ends, n, fill
  <2> QED BY <1>1, <1>2, <1>3, <2>1
<1>12. size = 0 \/ size > 0
  OBVIOUS
<1> QED BY <1>1, <1>10, <1>11, <1>12

(* Slices by runs that cover a list are lists of its items, and make it up. *)
LEMMA SlicesFlat ==
  ASSUME NEW T, NEW s \in Seq(T), NEW rs, Covers(rs, 1, Len(s))
  PROVE  /\ Slices(s, rs) \in Seq(Seq(T)) /\ FlattenSeq(Slices(s, rs)) = s
         /\ \A k \in DOMAIN Slices(s, rs) : Slices(s, rs)[k] # <<>>
<1> DEFINE q == Slices(s, rs)
           n == Len(rs)
           End(m) == IF m = 0 THEN 0 ELSE rs[m].hi
<1>1. rs \in Seq([lo : Int, hi : Int]) /\ n \in Nat /\ DOMAIN rs = 1..n /\ Len(s) \in Nat
  BY DEF Covers
<1>2. \A k \in 1..n : /\ rs[k].lo = End(k - 1) + 1 /\ rs[k].lo \in Int /\ rs[k].hi \in Int
                      /\ 1 <= rs[k].lo /\ rs[k].lo <= rs[k].hi /\ rs[k].hi <= Len(s)
  <2>1. ASSUME NEW k \in 1..n
        PROVE  /\ rs[k].lo = End(k - 1) + 1 /\ rs[k].lo \in Int /\ rs[k].hi \in Int
               /\ 1 <= rs[k].lo /\ rs[k].lo <= rs[k].hi /\ rs[k].hi <= Len(s)
    <3>1. rs[k] \in [lo : Int, hi : Int]
      BY <1>1, ElementOfSeq
    <3>2. k - 1 = 0 <=> k = 1
      BY <1>1
    <3> QED BY <3>1, <3>2 DEF Covers
  <2> QED BY <2>1
<1>3. q = [k \in 1..n |-> SubSeq(s, rs[k].lo, rs[k].hi)]
  BY <1>1 DEF Slices, Slice
<1>4. ASSUME NEW k \in 1..n
      PROVE  SubSeq(s, rs[k].lo, rs[k].hi) \in Seq(T) /\ SubSeq(s, rs[k].lo, rs[k].hi) # <<>>
  <2>1. \A i \in rs[k].lo..rs[k].hi : s[i] \in T
    BY <1>2, ElementOfSeq
  <2>2. /\ SubSeq(s, rs[k].lo, rs[k].hi) \in Seq(T)
        /\ Len(SubSeq(s, rs[k].lo, rs[k].hi)) = rs[k].hi - rs[k].lo + 1
    BY <1>2, <2>1, SubSeqProperties
  <2>3. Len(SubSeq(s, rs[k].lo, rs[k].hi)) > 0
    BY <1>2, <2>2
  <2>4. SubSeq(s, rs[k].lo, rs[k].hi) # <<>>
    <3> HIDE DEF Span
    <3> SUFFICES ASSUME SubSeq(s, rs[k].lo, rs[k].hi) = <<>> PROVE FALSE
      OBVIOUS
    <3>1. Len(SubSeq(s, rs[k].lo, rs[k].hi)) = 0
      BY EmptySeq
    <3> QED BY <2>3, <3>1
  <2> QED BY <2>2, <2>4
<1> DEFINE part(k) == SubSeq(s, rs[k].lo, rs[k].hi)
<1>p. \A k \in 1..n : part(k) \in Seq(T) /\ part(k) # <<>>
  BY <1>4
<1>d. q = [k \in 1..n |-> part(k)] /\ n \in Nat
  BY <1>1, <1>3
<1> HIDE DEF n, part, q
<1>5a. q \in Seq(Seq(T)) /\ Len(q) = n /\ \A k \in 1..n : q[k] = part(k)
  BY <1>p, <1>d
<1>5. q \in Seq(Seq(T)) /\ Len(q) = n /\ \A k \in 1..n : q[k] = SubSeq(s, rs[k].lo, rs[k].hi)
  BY <1>5a DEF part
<1>6. \A k \in DOMAIN q : q[k] # <<>>
  BY <1>p, <1>d
<1>7. \A m \in 0..n : End(m) \in 0..Len(s)
  <2>1. ASSUME NEW m \in 0..n PROVE End(m) \in 0..Len(s)
    <3>1. m = 0 \/ m \in 1..n
      BY <1>1
    <3>2. CASE m = 0
      BY <1>1, <3>2
    <3>3. CASE m \in 1..n
      <4>1. End(m) = rs[m].hi
        BY <1>1, <3>3
      <4>2. rs[m].hi \in Int /\ 1 <= rs[m].lo /\ rs[m].lo <= rs[m].hi /\ rs[m].hi <= Len(s) /\ rs[m].lo \in Int
        BY <1>2, <3>3
      <4> HIDE DEF End
      <4> QED BY <1>1, <4>1, <4>2
    <3> QED BY <3>1, <3>2, <3>3
  <2> QED BY <2>1
<1>8. \A k \in 1..n : rs[k].hi = End(k) /\ End(k - 1) <= End(k)
  <2>1. ASSUME NEW k \in 1..n PROVE rs[k].hi = End(k) /\ End(k - 1) <= End(k)
    <3>1. k # 0 /\ k \in 0..n /\ k - 1 \in 0..n
      BY <1>1
    <3>2. End(k - 1) \in 0..Len(s) /\ End(k) \in 0..Len(s) /\ rs[k].hi = End(k)
      BY <1>7, <3>1
    <3> HIDE DEF End
    <3> QED BY <1>2, <3>2
  <2> QED BY <2>1
<1>9. End(0) = 0 /\ End(n) = Len(s)
  BY <1>1 DEF Covers, n
<1> HIDE DEF End
<1> DEFINE N == {m \in Nat : m <= n => FlattenSeq(SubSeq(q, 1, m)) = SubSeq(s, 1, End(m))}
<1>10. 0 \in N
  <2>1. SubSeq(q, 1, 0) = <<>> /\ SubSeq(s, 1, 0) = <<>>
    BY SubSeqEmpty
  <2> QED BY <1>9, <2>1, FlatEmpty
<1>11. ASSUME NEW m \in N \cap Nat PROVE m + 1 \in N
  <2> SUFFICES ASSUME m + 1 <= n
               PROVE  FlattenSeq(SubSeq(q, 1, m + 1)) = SubSeq(s, 1, End(m + 1))
    OBVIOUS
  <2>1. m + 1 \in 1..n /\ m <= n /\ m + 1 - 1 = m /\ 1 \in 1..Len(q) /\ m + 1 \in 1..Len(q)
    BY <1>1, <1>5
  <2>2. SubSeq(q, 1, m + 1) = SubSeq(q, 1, m) \o <<q[m + 1]>>
    BY <1>5, <2>1, SubSeqRecursiveSecond
  <2>3. SubSeq(q, 1, m) \in Seq(Seq(T)) /\ q[m + 1] \in Seq(T) /\ <<q[m + 1]>> \in Seq(Seq(T))
    <3>1. \A i \in 1..m : q[i] \in Seq(T)
      BY <1>5, <2>1, <1>1, ElementOfSeq
    <3>2. q[m + 1] \in Seq(T)
      BY <1>5, <2>1, ElementOfSeq
    <3> QED BY <3>1, <3>2, SubSeqProperties
  <2>4. FlattenSeq(SubSeq(q, 1, m + 1)) = FlattenSeq(SubSeq(q, 1, m)) \o q[m + 1]
    <3> DEFINE a == SubSeq(q, 1, m)
               b == <<q[m + 1]>>
    <3>1. a \in Seq(Seq(T)) /\ b \in Seq(Seq(T)) /\ SubSeq(q, 1, m + 1) = a \o b
      BY <2>2, <2>3
    <3>2. FlattenSeq(b) = q[m + 1]
      BY <2>3, FlatOne
    <3> HIDE DEF a, b
    <3>3. FlattenSeq(a \o b) = FlattenSeq(a) \o FlattenSeq(b)
      BY <3>1, FlatConcat
    <3> QED BY <3>1, <3>2, <3>3 DEF a
  <2>5. q[m + 1] = SubSeq(s, End(m) + 1, End(m + 1))
    <3>1. /\ q[m + 1] = SubSeq(s, rs[m + 1].lo, rs[m + 1].hi)
          /\ rs[m + 1].hi = End(m + 1)
      BY <1>5, <1>8, <2>1
    <3>2. rs[m + 1].lo = End(m + 1 - 1) + 1
      BY <1>2, <2>1
    <3> QED BY <2>1, <3>1, <3>2
  <2>6. SubSeq(s, 1, End(m)) \o SubSeq(s, End(m) + 1, End(m + 1)) = SubSeq(s, 1, End(m + 1))
    <3>1. End(m) \in 0..Len(s) /\ End(m + 1) \in End(m)..Len(s)
      <4>1. m \in 0..n /\ m + 1 \in 0..n
        BY <2>1
      <4>2. End(m) \in 0..Len(s) /\ End(m + 1) \in 0..Len(s) /\ End(m) <= End(m + 1)
        BY <1>7, <1>8, <2>1, <4>1
      <4> QED BY <4>2
    <3>2. 1 \in 1..(Len(s) + 1) /\ 1 - 1 = 0
      BY <1>1
    <3> QED BY <3>1, <3>2, ConcatAdjacentSubSeq
  <2>7. FlattenSeq(SubSeq(q, 1, m)) = SubSeq(s, 1, End(m))
    BY <2>1
  <2> QED BY <2>4, <2>5, <2>6, <2>7
<1> HIDE DEF N
<1>12. Nat \subseteq N
  BY <1>10, <1>11, Induct
<1>13. FlattenSeq(SubSeq(q, 1, n)) = SubSeq(s, 1, Len(s))
  BY <1>1, <1>9, <1>12 DEF N
<1>14. SubSeq(q, 1, n) = q /\ SubSeq(s, 1, Len(s)) = s
  BY <1>5, SubSeqFull
<1> QED BY <1>5, <1>6, <1>13, <1>14 DEF q

(* Requests are made of the groups they are made for, in order.             *)
LEMMA RequestsFlat ==
  ASSUME NEW T, NEW groups \in Seq(T)
  PROVE  Requests(groups) \in Seq(Seq(T)) /\ FlattenSeq(Requests(groups)) = groups
<1> DEFINE n == Len(groups)
           S(i) == {j \in i..n : \A k \in (i + 1)..j :
                      /\ k - i < MaxInputs
                      /\ Total([l \in 1..(k - i + 1) |-> Weight(groups[i + l - 1])]) <= MaxRequestTokens
                      /\ Len(FlattenSeq(SubSeq(groups, i, k))) <= MaxRequestChunks}
           end == [i \in 1..n |-> Max(S(i))]
<1>1. Requests(groups) = Slices(groups, Chain(n, end))
  BY DEF Requests, Pack, RunEnd
<1>2. ASSUME NEW i \in 1..n PROVE end[i] \in i..n
  <2>1. i \in S(i) /\ S(i) \in SUBSET (i..n) /\ i \in Int /\ n \in Int
    OBVIOUS
  <2>2. Max(S(i)) \in S(i)
    <3> HIDE DEF S
    <3> QED BY <2>1, MaxIs
  <2> QED BY <2>1, <2>2
<1> HIDE DEF end
<1>3. Covers(Chain(n, end), 1, Len(groups)) /\ n \in Nat
  BY <1>2, ChainCovers
<1> QED BY <1>1, <1>3, SlicesFlat

(* So are the requests for code vectors of chunks.                          *)
LEMMA CodeRequestsFlat ==
  ASSUME NEW T, NEW ids \in Seq(T)
  PROVE  CodeRequests(ids) \in Seq(Seq(T)) /\ FlattenSeq(CodeRequests(ids)) = ids
<1> DEFINE n == Len(ids)
           S(i) == {j \in i..n : \A k \in (i + 1)..j :
                      k - i < MaxTexts /\ Weight(SubSeq(ids, i, k)) <= MaxTextTokens}
           end == [i \in 1..n |-> Max(S(i))]
<1>1. CodeRequests(ids) = Slices(ids, Chain(n, end))
  BY DEF CodeRequests, Pack, RunEnd
<1>2. ASSUME NEW i \in 1..n PROVE end[i] \in i..n
  <2>1. i \in S(i) /\ S(i) \in SUBSET (i..n) /\ i \in Int /\ n \in Int
    OBVIOUS
  <2>2. Max(S(i)) \in S(i)
    <3> HIDE DEF S
    <3> QED BY <2>1, MaxIs
  <2> QED BY <2>1, <2>2
<1> HIDE DEF end
<1>3. Covers(Chain(n, end), 1, Len(ids)) /\ n \in Nat
  BY <1>2, ChainCovers
<1> QED BY <1>1, <1>3, SlicesFlat

(* And so are the batches of documents.                                     *)
LEMMA BatchesFlat ==
  ASSUME NEW T, NEW ids \in Seq(T)
  PROVE  UploadBatches(ids) \in Seq(Seq(T)) /\ FlattenSeq(UploadBatches(ids)) = ids
<1> DEFINE n == Len(ids)
           S(i) == {j \in i..n : \A k \in (i + 1)..j :
                      /\ k - i < MaxDocs
                      /\ Total([l \in 1..(k - i + 1) |-> EstBytes(ids[i + l - 1])]) <= ByteTarget}
           end == [i \in 1..n |-> Max(S(i))]
<1>1. UploadBatches(ids) = Slices(ids, Chain(n, end))
  BY DEF UploadBatches, Pack, RunEnd
<1>2. ASSUME NEW i \in 1..n PROVE end[i] \in i..n
  <2>1. i \in S(i) /\ S(i) \in SUBSET (i..n) /\ i \in Int /\ n \in Int
    OBVIOUS
  <2>2. Max(S(i)) \in S(i)
    <3> HIDE DEF S
    <3> QED BY <2>1, MaxIs
  <2> QED BY <2>1, <2>2
<1> HIDE DEF end
<1>3. Covers(Chain(n, end), 1, Len(ids)) /\ n \in Nat
  BY <1>2, ChainCovers
<1> QED BY <1>1, <1>3, SlicesFlat

-----------------------------------------------------------------------------
(* Chunks tile their text.                                                  *)

TextType == Seq([w : Nat, head : Nat])
Spans    == [lo : Int, hi : Int]

(* Half or more of a budget is at most the budget.                          *)
LEMMA TargetFits == Target <= MaxTokens /\ Target \in Nat
<1>1. MaxTokens * 9 \in Nat /\ MaxTokens \in Nat
  BY ChunkAssumption
<1> DEFINE q == (MaxTokens * 9) \div 10
<1>2. q \in Nat /\ 10 * q <= MaxTokens * 9
  BY <1>1
<1> HIDE DEF q
<1>3. q <= MaxTokens
  BY <1>1, <1>2
<1> QED BY <1>2, <1>3 DEF Target, q

(* The tokens of lines are their sum; none weigh nothing.                   *)
LEMMA TokensAre ==
  ASSUME NEW text \in TextType, NEW r \in Spans, 1 <= r.lo, r.hi <= Len(text)
  PROVE  /\ Tokens(text, r) \in Nat
         /\ \A i \in r.lo..r.hi : text[i].w <= Tokens(text, r)
<1> DEFINE S == r.lo..r.hi
           f == Weights(text)
<1>1. IsFiniteSet(S)
  BY FS_Interval DEF Spans
<1>2. \A i \in S : i \in DOMAIN text /\ f[i] = text[i].w /\ f[i] \in Nat
  <2>1. ASSUME NEW i \in S PROVE i \in DOMAIN text /\ f[i] = text[i].w /\ f[i] \in Nat
    <3>1. i \in 1..Len(text) /\ DOMAIN text = 1..Len(text)
      BY DEF Spans, TextType
    <3>2. text[i] \in [w : Nat, head : Nat]
      BY <3>1, ElementOfSeq DEF TextType
    <3> QED BY <3>1, <3>2 DEF Weights
  <2> QED BY <2>1
<1> HIDE DEF S, f
<1>3. SumFunctionOnSet(f, S) \in Nat
  BY <1>1, <1>2, SumNat
<1>4. ASSUME NEW i \in S PROVE f[i] <= SumFunctionOnSet(f, S)
  <2>1. IsFiniteSet(S \ {i})
    BY <1>1, FS_Subset
  <2>2. SumFunctionOnSet(f, S \ {i}) \in Nat
    BY <1>2, <2>1, SumNat
  <2>3. SumFunctionOnSet(f, S) = f[i] + SumFunctionOnSet(f, S \ {i})
    BY <1>1, <1>2, SumRemove
  <2> QED BY <1>2, <2>2, <2>3
<1> QED BY <1>2, <1>3, <1>4 DEF Tokens, S, f

(* Ranges of a text: in order, apart, and no line that weighs is left out.  *)
Lays(rs, text) ==
  /\ rs \in Seq(Spans)
  /\ \A k \in 1..Len(rs) : 1 <= rs[k].lo /\ rs[k].lo <= rs[k].hi /\ rs[k].hi <= Len(text)
  /\ \A j, k \in 1..Len(rs) : j < k => rs[j].hi < rs[k].lo
  /\ \A i \in 1..Len(text) : text[i].w > 0 =>
       \E k \in 1..Len(rs) : rs[k].lo <= i /\ i <= rs[k].hi

(* A range within a budget, or of one line.                                 *)
Fit(text, r, limit) == r.lo = r.hi \/ Tokens(text, r) <= limit

(* Runs that cover reach from one to the next: those before end before.     *)
LEMMA CoversOrder ==
  ASSUME NEW i \in Int, NEW n \in Int, NEW rs, Covers(rs, i, n)
  PROVE  /\ rs \in Seq(Spans) /\ Len(rs) \in Nat /\ DOMAIN rs = 1..Len(rs)
         /\ \A j, k \in 1..Len(rs) : j < k => rs[j].hi < rs[k].lo
         /\ \A x \in i..n : \E k \in 1..Len(rs) : rs[k].lo <= x /\ x <= rs[k].hi
<1>1. rs \in Seq(Spans) /\ Len(rs) \in Nat /\ DOMAIN rs = 1..Len(rs)
  BY DEF Covers, Spans
<1>2. \A k \in 1..Len(rs) :
        /\ rs[k].lo \in Int /\ rs[k].hi \in Int
        /\ rs[k].lo = IF k = 1 THEN i ELSE rs[k - 1].hi + 1
        /\ i <= rs[k].lo /\ rs[k].lo <= rs[k].hi /\ rs[k].hi <= n
  <2>1. \A k \in 1..Len(rs) : rs[k] \in Spans
    BY <1>1, ElementOfSeq
  <2> QED BY <2>1 DEF Covers, Spans
<1>3. \A j, k \in 1..Len(rs) : j < k => rs[j].hi < rs[k].lo
  <2> DEFINE N == {m \in Nat : \A j \in 1..Len(rs) : j < m /\ m <= Len(rs) => rs[j].hi < rs[m].lo}
  <2>1. 0 \in N
    OBVIOUS
  <2>2. ASSUME NEW m \in N \cap Nat PROVE m + 1 \in N
    <3> SUFFICES ASSUME NEW j \in 1..Len(rs), j < m + 1, m + 1 <= Len(rs)
                 PROVE  rs[j].hi < rs[m + 1].lo
      OBVIOUS
    <3>1. /\ m \in 1..Len(rs) /\ m + 1 \in 1..Len(rs) /\ m + 1 # 1 /\ m + 1 - 1 = m
          /\ j = m \/ j < m
      BY <1>1
    <3>2. rs[m + 1].lo = rs[m].hi + 1 /\ rs[m].lo <= rs[m].hi
      BY <1>2, <3>1
    <3>3. j < m => rs[j].hi < rs[m].lo
      BY <3>1
    <3>4. rs[m].lo \in Int /\ rs[m].hi \in Int /\ rs[j].hi \in Int
      BY <1>2, <3>1
    <3> QED BY <3>1, <3>2, <3>3, <3>4
  <2>3. Nat \subseteq N
    <3> HIDE DEF N
    <3> QED BY <2>1, <2>2, Induct
  <2> QED BY <1>1, <2>3
<1>4. ASSUME NEW x \in i..n PROVE \E k \in 1..Len(rs) : rs[k].lo <= x /\ x <= rs[k].hi
  <2> DEFINE E == {k \in 1..Len(rs) : x <= rs[k].hi}
  <2>1. Len(rs) # 0 /\ rs[Len(rs)].hi = n
    BY <1>1 DEF Covers
  <2>2. Len(rs) \in E /\ E \subseteq Nat
    BY <1>1, <2>1
  <2>3. PICK k \in E : \A l \in E : k <= l
    <3> HIDE DEF E
    <3> QED BY <2>2, Least
  <2>4. k \in 1..Len(rs) /\ x <= rs[k].hi
    OBVIOUS
  <2>5. CASE k = 1
    BY <1>2, <2>4, <2>5
  <2>6. CASE k # 1
    <3>1. k - 1 \in 1..Len(rs) /\ k - 1 < k
      BY <1>1, <2>4, <2>6
    <3>2. k - 1 \notin E
      BY <2>3, <3>1
    <3>3. ~ (x <= rs[k - 1].hi) /\ rs[k].lo = rs[k - 1].hi + 1 /\ rs[k - 1].hi \in Int
      BY <1>2, <2>4, <2>6, <3>1, <3>2
    <3> QED BY <2>4, <3>3
  <2> QED BY <2>5, <2>6
<1> QED BY <1>1, <1>3, <1>4

(* Runs that cover a text lay it out.                                       *)
LEMMA CoversLays ==
  ASSUME NEW text \in TextType, NEW rs, Covers(rs, 1, Len(text))
  PROVE  Lays(rs, text)
<1>1. Len(text) \in Nat
  BY DEF TextType
<1>2. /\ rs \in Seq(Spans) /\ Len(rs) \in Nat
      /\ \A j, k \in 1..Len(rs) : j < k => rs[j].hi < rs[k].lo
      /\ \A x \in 1..Len(text) : \E k \in 1..Len(rs) : rs[k].lo <= x /\ x <= rs[k].hi
  BY <1>1, CoversOrder
<1>3. \A k \in 1..Len(rs) : 1 <= rs[k].lo /\ rs[k].lo <= rs[k].hi /\ rs[k].hi <= Len(text)
  BY DEF Covers
<1> QED BY <1>2, <1>3 DEF Lays

(* What runs of pieces cover.                                               *)
LEMMA MergedIs ==
  ASSUME NEW pieces, NEW runs
  PROVE  Merged(pieces, runs) =
           [k \in DOMAIN runs |-> Span(pieces[runs[k].lo].lo, pieces[runs[k].hi].hi)]
<1> DEFINE M(rs) == [k \in DOMAIN rs |-> Span(pieces[rs[k].lo].lo, pieces[rs[k].hi].hi)]
<1>1. Merged(pieces, runs) = CHOOSE r \in {M(x) : x \in {runs}} : TRUE
  BY DEF Merged, With
<1>2. (CHOOSE r \in {M(x) : x \in {runs}} : TRUE) = M(runs)
  <2> HIDE DEF M
  <2> QED OBVIOUS
<1> QED BY <1>1, <1>2

(* Runs of all pieces of a layout are a layout: nothing is lost between     *)
(* them, for it was between the pieces.                                     *)
LEMMA MergedLays ==
  ASSUME NEW text \in TextType, NEW p, Lays(p, text), NEW runs, Covers(runs, 1, Len(p))
  PROVE  /\ Lays(Merged(p, runs), text) /\ Len(Merged(p, runs)) = Len(runs)
         /\ \A k \in 1..Len(runs) :
              /\ Merged(p, runs)[k] = Span(p[runs[k].lo].lo, p[runs[k].hi].hi)
              /\ runs[k].lo \in 1..Len(p) /\ runs[k].hi \in 1..Len(p) /\ runs[k].lo <= runs[k].hi
<1> DEFINE q == Merged(p, runs)
           n == Len(runs)
<1>1. Len(p) \in Nat /\ Len(text) \in Nat
  BY DEF Lays, TextType
<1>2. /\ runs \in Seq(Spans) /\ n \in Nat /\ DOMAIN runs = 1..n
      /\ \A j, k \in 1..n : j < k => runs[j].hi < runs[k].lo
      /\ \A x \in 1..Len(p) : \E k \in 1..n : runs[k].lo <= x /\ x <= runs[k].hi
  BY <1>1, CoversOrder
<1>3. \A k \in 1..n : runs[k].lo \in 1..Len(p) /\ runs[k].hi \in 1..Len(p) /\ runs[k].lo <= runs[k].hi
  <2>1. \A k \in 1..n : runs[k] \in Spans
    BY <1>2, ElementOfSeq
  <2>2. \A k \in 1..n : 1 <= runs[k].lo /\ runs[k].lo <= runs[k].hi /\ runs[k].hi <= Len(p)
    BY DEF Covers
  <2> QED BY <1>1, <2>1, <2>2 DEF Spans
<1>4. \A x \in 1..Len(p) : /\ p[x].lo \in Int /\ p[x].hi \in Int
                           /\ 1 <= p[x].lo /\ p[x].lo <= p[x].hi /\ p[x].hi <= Len(text)
  <2>1. \A x \in 1..Len(p) : p[x] \in Spans
    BY ElementOfSeq DEF Lays
  <2> QED BY <2>1 DEF Lays, Spans
<1>5. \A x, y \in 1..Len(p) : x < y => p[x].hi < p[y].lo
  BY DEF Lays
<1>6. \A x, y \in 1..Len(p) : x <= y => p[x].hi <= p[y].hi /\ p[x].lo <= p[y].lo
  <2>1. ASSUME NEW x \in 1..Len(p), NEW y \in 1..Len(p), x <= y
        PROVE  p[x].hi <= p[y].hi /\ p[x].lo <= p[y].lo
    <3>1. CASE x = y
      BY <1>4, <3>1
    <3>2. CASE x < y
      BY <1>4, <1>5, <3>2
    <3> QED BY <1>1, <2>1, <3>1, <3>2
  <2> QED BY <2>1
<1>7. q = [k \in 1..n |-> Span(p[runs[k].lo].lo, p[runs[k].hi].hi)]
  BY <1>2, MergedIs
<1>8. \A k \in 1..n : /\ q[k].lo = p[runs[k].lo].lo /\ q[k].hi = p[runs[k].hi].hi
                      /\ q[k] = Span(p[runs[k].lo].lo, p[runs[k].hi].hi) /\ q[k] \in Spans
  <2>1. ASSUME NEW k \in 1..n
        PROVE  /\ q[k].lo = p[runs[k].lo].lo /\ q[k].hi = p[runs[k].hi].hi
               /\ q[k] = Span(p[runs[k].lo].lo, p[runs[k].hi].hi) /\ q[k] \in Spans
    <3>1. q[k] = Span(p[runs[k].lo].lo, p[runs[k].hi].hi)
      BY <1>7
    <3> QED BY <1>3, <1>4, <3>1 DEF Span, Spans
  <2> QED BY <2>1
<1> HIDE DEF q
<1>9. q \in Seq(Spans) /\ Len(q) = n
  BY <1>2, <1>7, <1>8
<1>10. \A k \in 1..n : 1 <= q[k].lo /\ q[k].lo <= q[k].hi /\ q[k].hi <= Len(text)
  <2>1. ASSUME NEW k \in 1..n PROVE 1 <= q[k].lo /\ q[k].lo <= q[k].hi /\ q[k].hi <= Len(text)
    <3> DEFINE x == runs[k].lo
               y == runs[k].hi
    <3>1. x \in 1..Len(p) /\ y \in 1..Len(p) /\ x <= y
      BY <1>3
    <3> HIDE DEF x, y
    <3>2. q[k].lo = p[x].lo /\ q[k].hi = p[y].hi
      BY <1>8 DEF x, y
    <3> QED BY <1>4, <1>6, <3>1, <3>2
  <2> QED BY <2>1
<1>11. \A j, k \in 1..n : j < k => q[j].hi < q[k].lo
  <2>1. ASSUME NEW j \in 1..n, NEW k \in 1..n, j < k PROVE q[j].hi < q[k].lo
    <3>1. runs[j].hi < runs[k].lo /\ runs[j].hi \in 1..Len(p) /\ runs[k].lo \in 1..Len(p)
      BY <1>2, <1>3, <2>1
    <3> QED BY <1>5, <1>8, <3>1
  <2> QED BY <2>1
<1>12. ASSUME NEW i \in 1..Len(text), text[i].w > 0
       PROVE  \E k \in 1..n : q[k].lo <= i /\ i <= q[k].hi
  <2>1. PICK x \in 1..Len(p) : p[x].lo <= i /\ i <= p[x].hi
    BY <1>12 DEF Lays
  <2>2. PICK k \in 1..n : runs[k].lo <= x /\ x <= runs[k].hi
    BY <1>2
  <2> DEFINE a == runs[k].lo
             b == runs[k].hi
  <2>3. a \in 1..Len(p) /\ b \in 1..Len(p) /\ a <= x /\ x <= b
    BY <1>3, <2>2
  <2> HIDE DEF a, b
  <2>4. q[k].lo = p[a].lo /\ q[k].hi = p[b].hi
    BY <1>8 DEF a, b
  <2>5. p[a].lo <= p[x].lo /\ p[x].hi <= p[b].hi
    BY <1>6, <2>3
  <2>6. /\ p[a].lo \in Int /\ p[x].lo \in Int /\ p[x].hi \in Int /\ p[b].hi \in Int
    BY <1>4, <2>3
  <2>7. q[k].lo <= i /\ i <= q[k].hi
    BY <2>1, <2>4, <2>5, <2>6
  <2> QED BY <2>7
<1> QED BY <1>3, <1>8, <1>9, <1>10, <1>11, <1>12 DEF Lays, q

(* Without its blank ranges a layout is one still.                          *)
LEMMA WrittenLays ==
  ASSUME NEW text \in TextType, NEW p, Lays(p, text)
  PROVE  /\ Lays(Written(text, p), text)
         /\ \A k \in 1..Len(Written(text, p)) :
              \E j \in 1..Len(p) : Written(text, p)[k] = p[j]
<1> DEFINE S == {k \in DOMAIN p : ~Blank(text, p[k])}
           q == Written(text, p)
           n == Len(q)
<1>1. p \in Seq(Spans) /\ DOMAIN p = 1..Len(p) /\ S \in SUBSET DOMAIN p /\ Len(p) \in Nat
  BY DEF Lays
<1>2. q = Picked(p, S)
  BY DEF Written
<1> HIDE DEF S, q
<1>3. /\ q \in Seq(Spans)
      /\ \E at \in [DOMAIN q -> S] :
           /\ Increases(at)
           /\ \A x \in S : \E k \in DOMAIN at : at[k] = x
           /\ \A k \in DOMAIN at : q[k] = p[at[k]]
  BY <1>1, <1>2, Picks
<1>4. DOMAIN q = 1..n /\ n \in Nat
  BY <1>3
<1>5. PICK at \in [1..n -> S] :
           /\ Increases(at)
           /\ \A x \in S : \E k \in 1..n : at[k] = x
           /\ \A k \in 1..n : q[k] = p[at[k]]
  BY <1>3, <1>4
<1>6. \A k \in 1..n : at[k] \in 1..Len(p) /\ q[k] = p[at[k]]
  BY <1>1, <1>5
<1>7. \A j, k \in 1..n : j < k => at[j] < at[k]
  BY <1>5 DEF Increases
<1>8. \A k \in 1..n : 1 <= q[k].lo /\ q[k].lo <= q[k].hi /\ q[k].hi <= Len(text)
  BY <1>6 DEF Lays
<1>9. \A j, k \in 1..n : j < k => q[j].hi < q[k].lo
  BY <1>6, <1>7 DEF Lays
<1>10. ASSUME NEW i \in 1..Len(text), text[i].w > 0
       PROVE  \E k \in 1..n : q[k].lo <= i /\ i <= q[k].hi
  <2>1. PICK x \in 1..Len(p) : p[x].lo <= i /\ i <= p[x].hi
    BY <1>10 DEF Lays
  <2>2. p[x] \in Spans /\ 1 <= p[x].lo /\ p[x].hi <= Len(text)
    BY ElementOfSeq DEF Lays
  <2>3. i \in p[x].lo..p[x].hi /\ text[i].w \in Nat
    <3>1. text[i] \in [w : Nat, head : Nat]
      BY ElementOfSeq DEF TextType
    <3>2. text[i].w \in Nat
      BY <3>1
    <3>3. p[x].lo \in Int /\ p[x].hi \in Int
      BY <2>2 DEF Spans
    <3> QED BY <2>1, <3>2, <3>3
  <2>4. Tokens(text, p[x]) \in Nat /\ text[i].w <= Tokens(text, p[x])
    BY <2>2, <2>3, TokensAre
  <2>5. Tokens(text, p[x]) # 0
    BY <1>10, <2>3, <2>4
  <2>6. x \in S
    BY <1>1, <2>5 DEF Blank, S
  <2>7. PICK k \in 1..n : at[k] = x
    BY <1>5, <2>6
  <2> QED BY <1>6, <2>1, <2>7
<1>11. Lays(q, text)
  BY <1>3, <1>8, <1>9, <1>10 DEF Lays
<1> QED BY <1>6, <1>11 DEF q

(* Two covers in a row.                                                     *)
LEMMA CoversConcat ==
  ASSUME NEW i \in Int, NEW m \in Int, NEW n \in Int, NEW rs, NEW qs,
         Covers(rs, i, m), Covers(qs, m + 1, n), i <= m + 1, m <= n
  PROVE  Covers(rs \o qs, i, n)
<1> DEFINE a == Len(rs)
           b == Len(qs)
           c == rs \o qs
<1>1. rs \in Seq(Spans) /\ qs \in Seq(Spans) /\ a \in Nat /\ b \in Nat
  BY DEF Covers, Spans
<1>2. /\ c \in Seq(Spans) /\ Len(c) = a + b
      /\ \A k \in 1..a : c[k] = rs[k]
      /\ \A k \in 1..b : c[a + k] = qs[k]
  BY <1>1, ConcatProperties
<1>3. \A k \in 1..a : /\ rs[k].lo \in Int /\ rs[k].hi \in Int
                      /\ rs[k].lo = IF k = 1 THEN i ELSE rs[k - 1].hi + 1
                      /\ i <= rs[k].lo /\ rs[k].lo <= rs[k].hi /\ rs[k].hi <= m
  <2>1. \A k \in 1..a : rs[k] \in Spans
    BY <1>1, ElementOfSeq
  <2> QED BY <2>1 DEF Covers, Spans
<1>4. \A k \in 1..b : /\ qs[k].lo \in Int /\ qs[k].hi \in Int
                      /\ qs[k].lo = IF k = 1 THEN m + 1 ELSE qs[k - 1].hi + 1
                      /\ m + 1 <= qs[k].lo /\ qs[k].lo <= qs[k].hi /\ qs[k].hi <= n
  <2>1. \A k \in 1..b : qs[k] \in Spans
    BY <1>1, ElementOfSeq
  <2> QED BY <2>1 DEF Covers, Spans
<1>5. IF a = 0 THEN i = m + 1 ELSE rs[a].hi = m
  BY DEF Covers
<1>6. IF b = 0 THEN m + 1 = n + 1 ELSE qs[b].hi = n
  BY DEF Covers
<1> HIDE DEF a, b, c
<1>7. ASSUME NEW k \in 1..Len(c)
      PROVE  /\ c[k].lo = IF k = 1 THEN i ELSE c[k - 1].hi + 1
             /\ i <= c[k].lo /\ c[k].lo <= c[k].hi /\ c[k].hi <= n
  <2>1. CASE k \in 1..a
    <3>1. c[k] = rs[k] /\ (k # 1 => k - 1 \in 1..a /\ c[k - 1] = rs[k - 1])
      BY <1>1, <1>2, <2>1
    <3> QED BY <1>3, <2>1, <3>1
  <2>2. CASE k \notin 1..a
    <3> DEFINE j == k - a
    <3>1. j \in 1..b /\ k = a + j
      BY <1>1, <1>2, <2>2
    <3> HIDE DEF j
    <3>2. c[k] = qs[j]
      BY <1>2, <3>1
    <3>3. CASE j = 1
      <4>1. CASE a = 0
        <5>1. k = 1 /\ i = m + 1
          BY <1>5, <3>1, <3>3, <4>1
        <5> QED BY <1>4, <3>1, <3>2, <3>3, <5>1
      <4>2. CASE a # 0
        <5>1. k # 1 /\ k - 1 = a /\ a \in 1..a
          BY <1>1, <3>1, <3>3, <4>2
        <5>2. c[k - 1] = rs[a] /\ rs[a].hi = m
          BY <1>2, <1>5, <4>2, <5>1
        <5> QED BY <1>4, <3>1, <3>2, <3>3, <5>1, <5>2
      <4> QED BY <4>1, <4>2
    <3>4. CASE j # 1
      <4>1. j - 1 \in 1..b /\ k # 1 /\ k - 1 = a + (j - 1)
        BY <1>1, <3>1, <3>4
      <4>2. c[k - 1] = qs[j - 1]
        BY <1>2, <4>1
      <4>3. /\ qs[j].lo = qs[j - 1].hi + 1 /\ m + 1 <= qs[j].lo /\ qs[j].lo \in Int
            /\ qs[j].lo <= qs[j].hi /\ qs[j].hi <= n
        BY <1>4, <3>1, <3>4
      <4> QED BY <3>2, <4>1, <4>2, <4>3
    <3> QED BY <3>3, <3>4
  <2> QED BY <2>1, <2>2
<1>8. IF Len(c) = 0 THEN i = n + 1 ELSE c[Len(c)].hi = n
  <2>1. CASE b = 0
    <3>1. Len(c) = a /\ m = n
      BY <1>1, <1>2, <1>6, <2>1
    <3>2. CASE a = 0
      BY <1>5, <3>1, <3>2
    <3>3. CASE a # 0
      <4>1. a \in 1..a
        BY <1>1, <3>3
      <4> QED BY <1>2, <1>5, <3>1, <3>3, <4>1
    <3> QED BY <3>2, <3>3
  <2>2. CASE b # 0
    <3>1. b \in 1..b /\ Len(c) = a + b /\ Len(c) # 0
      BY <1>1, <1>2, <2>2
    <3> QED BY <1>2, <1>6, <2>2, <3>1
  <2> QED BY <2>1, <2>2
<1> QED BY <1>2, <1>7, <1>8 DEF Covers, Spans, c

(* A cover whose runs are covered one by one is covered by them all.        *)
LEMMA FlattenCovers ==
  ASSUME NEW i \in Int, NEW n \in Int, NEW rs, Covers(rs, i, n), NEW P,
         NEW sub \in Seq(Seq(Spans)), Len(sub) = Len(rs),
         \A k \in 1..Len(rs) : Covers(sub[k], rs[k].lo, rs[k].hi) /\ Range(sub[k]) \subseteq P
  PROVE  Covers(FlattenSeq(sub), i, n) /\ Range(FlattenSeq(sub)) \subseteq P
<1> DEFINE a == Len(rs)
           End(m) == IF m = 0 THEN i - 1 ELSE rs[m].hi
           N == {m \in Nat : m <= a =>
                   /\ Covers(FlattenSeq(SubSeq(sub, 1, m)), i, End(m))
                   /\ Range(FlattenSeq(SubSeq(sub, 1, m))) \subseteq P}
<1>1. rs \in Seq(Spans) /\ a \in Nat
  BY DEF Covers, Spans
<1>2. \A k \in 1..a : /\ rs[k].lo \in Int /\ rs[k].hi \in Int
                      /\ rs[k].lo = End(k - 1) + 1
                      /\ i <= rs[k].lo /\ rs[k].lo <= rs[k].hi /\ rs[k].hi <= n
  <2>1. ASSUME NEW k \in 1..a
        PROVE  /\ rs[k].lo \in Int /\ rs[k].hi \in Int
               /\ rs[k].lo = End(k - 1) + 1
               /\ i <= rs[k].lo /\ rs[k].lo <= rs[k].hi /\ rs[k].hi <= n
    <3>1. rs[k] \in Spans
      BY <1>1, ElementOfSeq
    <3>2. k - 1 = 0 <=> k = 1
      BY <1>1
    <3>3. /\ rs[k].lo = (IF k = 1 THEN i ELSE rs[k - 1].hi + 1)
          /\ i <= rs[k].lo /\ rs[k].lo <= rs[k].hi /\ rs[k].hi <= n
      BY DEF Covers
    <3>4. rs[k].lo \in Int /\ rs[k].hi \in Int
      BY <3>1 DEF Spans
    <3>5. End(k - 1) + 1 = IF k = 1 THEN i ELSE rs[k - 1].hi + 1
      BY <3>2
    <3> HIDE DEF End, N, a
    <3> QED BY <3>3, <3>4, <3>5
  <2> QED BY <2>1
<1>3. \A m \in 0..a : End(m) \in Int /\ i <= End(m) + 1
  <2>1. ASSUME NEW m \in 0..a PROVE End(m) \in Int /\ i <= End(m) + 1
    <3>1. CASE m = 0
      BY <3>1
    <3>2. CASE m # 0
      <4>1. m \in 1..a /\ End(m) = rs[m].hi
        BY <1>1, <3>2
      <4>2. rs[m].lo \in Int /\ rs[m].hi \in Int /\ i <= rs[m].lo /\ rs[m].lo <= rs[m].hi
        BY <1>2, <4>1
      <4> QED BY <4>1, <4>2
    <3> QED BY <3>1, <3>2
  <2> QED BY <2>1
<1>4. \A k \in 1..a : End(k) = rs[k].hi /\ End(k - 1) <= End(k)
  <2>1. ASSUME NEW k \in 1..a PROVE End(k) = rs[k].hi /\ End(k - 1) <= End(k)
    <3>1. k # 0 /\ k - 1 \in 0..a /\ k \in 0..a
      BY <1>1
    <3>2. End(k) = rs[k].hi /\ End(k) \in Int /\ End(k - 1) \in Int
      BY <1>3, <3>1
    <3> HIDE DEF End
    <3> QED BY <1>2, <3>2
  <2> QED BY <2>1
<1>5. End(0) = i - 1 /\ End(a) = n
  BY <1>1 DEF Covers
<1>6. sub \in Seq(Seq(Spans)) /\ Len(sub) = a
  OBVIOUS
<1> HIDE DEF End, a
<1>7. 0 \in N
  <2>1. SubSeq(sub, 1, 0) = <<>>
    BY SubSeqEmpty
  <2>2. FlattenSeq(SubSeq(sub, 1, 0)) = <<>>
    BY <2>1, FlatEmpty
  <2>3. Covers(<<>>, i, i - 1)
    BY DEF Covers
  <2>4. Range(<<>>) \subseteq P
    BY DEF Range
  <2> QED BY <1>5, <2>2, <2>3, <2>4
<1>8. ASSUME NEW m \in N \cap Nat PROVE m + 1 \in N
  <2> SUFFICES ASSUME m + 1 <= a
               PROVE  /\ Covers(FlattenSeq(SubSeq(sub, 1, m + 1)), i, End(m + 1))
                      /\ Range(FlattenSeq(SubSeq(sub, 1, m + 1))) \subseteq P
    OBVIOUS
  <2>1. /\ m + 1 \in 1..a /\ m <= a /\ m + 1 - 1 = m /\ m \in 0..a /\ m + 1 \in 0..a
        /\ m + 1 \in 1..Len(sub) /\ 1 \in 1..Len(sub)
    BY <1>1, <1>6
  <2>2. SubSeq(sub, 1, m + 1) = SubSeq(sub, 1, m) \o <<sub[m + 1]>>
    BY <1>6, <2>1, SubSeqRecursiveSecond
  <2> DEFINE u == SubSeq(sub, 1, m)
             v == <<sub[m + 1]>>
  <2>3. u \in Seq(Seq(Spans)) /\ v \in Seq(Seq(Spans)) /\ sub[m + 1] \in Seq(Spans)
    <3>1. \A j \in 1..m : sub[j] \in Seq(Spans)
      BY <1>1, <1>6, <2>1, ElementOfSeq
    <3>2. sub[m + 1] \in Seq(Spans)
      BY <1>6, <2>1, ElementOfSeq
    <3> QED BY <3>1, <3>2, SubSeqProperties
  <2>4. FlattenSeq(v) = sub[m + 1]
    BY <2>3, FlatOne
  <2>5. /\ Covers(FlattenSeq(u), i, End(m)) /\ Range(FlattenSeq(u)) \subseteq P
        /\ FlattenSeq(u) \in Seq(Spans)
    BY <2>1, <2>3, FlatType
  <2>6. Covers(sub[m + 1], End(m) + 1, End(m + 1)) /\ Range(sub[m + 1]) \subseteq P
    <3>1. rs[m + 1].lo = End(m + 1 - 1) + 1 /\ rs[m + 1].hi = End(m + 1)
      BY <1>2, <1>4, <2>1
    <3>2. Covers(sub[m + 1], rs[m + 1].lo, rs[m + 1].hi) /\ Range(sub[m + 1]) \subseteq P
      BY <2>1 DEF a
    <3> QED BY <2>1, <3>1, <3>2
  <2>7. End(m) \in Int /\ End(m + 1) \in Int /\ i <= End(m) + 1 /\ End(m) <= End(m + 1)
    BY <1>3, <1>4, <2>1
  <2> HIDE DEF u, v
  <2>8. FlattenSeq(u \o v) = FlattenSeq(u) \o sub[m + 1]
    BY <2>3, <2>4, FlatConcat
  <2>9. Covers(FlattenSeq(u) \o sub[m + 1], i, End(m + 1))
    BY <2>5, <2>6, <2>7, CoversConcat
  <2>10. Range(FlattenSeq(u) \o sub[m + 1]) \subseteq P
    <3>1. Range(FlattenSeq(u) \o sub[m + 1]) = Range(FlattenSeq(u)) \cup Range(sub[m + 1])
      BY <2>3, <2>5, RangeConcatenation
    <3> QED BY <2>5, <2>6, <3>1
  <2> QED BY <2>2, <2>8, <2>9, <2>10 DEF u, v
<1> HIDE DEF N
<1>9. Nat \subseteq N
  BY <1>7, <1>8, Induct
<1>10. SubSeq(sub, 1, a) = sub /\ a = Len(sub)
  BY <1>6, SubSeqFull
<1>11. a \in N /\ a <= a
  BY <1>1, <1>9
<1>12. /\ Covers(FlattenSeq(SubSeq(sub, 1, a)), i, End(a))
       /\ Range(FlattenSeq(SubSeq(sub, 1, a))) \subseteq P
  BY <1>11 DEF N
<1> QED BY <1>5, <1>10, <1>12

(* What fits a budget.                                                      *)
Fits(text, limit) == {x \in Spans : Fit(text, x, limit)}

(* The lines of a range, packed: the runs cover it, and each fits the limit *)
(* or is a line.                                                            *)
LEMMA PackLinesCover ==
  ASSUME NEW text, NEW r \in Spans, r.lo <= r.hi + 1, NEW limit
  PROVE  /\ Covers(PackLines(text, r, limit), r.lo, r.hi)
         /\ Range(PackLines(text, r, limit)) \subseteq Fits(text, limit)
<1> DEFINE n == r.hi - r.lo + 1
           S(i) == {j \in i..n : \A k \in (i + 1)..j :
                      Tokens(text, Span(r.lo + i - 1, r.lo + k - 1)) <= limit}
           end == [i \in 1..n |-> Max(S(i))]
           Shift(rs) == [k \in DOMAIN rs |-> Span(r.lo + rs[k].lo - 1, r.lo + rs[k].hi - 1)]
           c == Chain(n, end)
<1>0. r.lo \in Int /\ r.hi \in Int /\ n \in Nat
  BY DEF Spans
<1>1. PackLines(text, r, limit) = CHOOSE x \in {Shift(y) : y \in {c}} : TRUE
  BY DEF PackLines, With, Pack, RunEnd
<1>2. (CHOOSE x \in {Shift(y) : y \in {c}} : TRUE) = Shift(c)
  <2> HIDE DEF Shift, c
  <2> QED OBVIOUS
<1>3. ASSUME NEW i \in 1..n PROVE end[i] \in S(i) /\ end[i] \in i..n
  <2>1. i \in S(i) /\ S(i) \in SUBSET (i..n) /\ i \in Int /\ n \in Int
    <3> HIDE DEF n
    <3> QED BY <1>0
  <2>2. Max(S(i)) \in S(i)
    <3> HIDE DEF S
    <3> QED BY <2>1, MaxIs
  <2> QED BY <2>1, <2>2
<1> HIDE DEF end
<1>4. Covers(c, 1, n) /\ \A k \in 1..Len(c) : c[k].hi = end[c[k].lo]
  BY <1>0, <1>3, ChainCovers
<1> DEFINE m == Len(c)
           q == Shift(c)
<1>5. c \in Seq(Spans) /\ m \in Nat /\ DOMAIN c = 1..m
  BY <1>4 DEF Covers, Spans
<1>6. \A k \in 1..m : /\ c[k].lo \in Int /\ c[k].hi \in Int
                      /\ c[k].lo = IF k = 1 THEN 1 ELSE c[k - 1].hi + 1
                      /\ 1 <= c[k].lo /\ c[k].lo <= c[k].hi /\ c[k].hi <= n
  <2>1. \A k \in 1..m : c[k] \in Spans
    BY <1>5, ElementOfSeq
  <2> QED BY <1>4, <2>1 DEF Covers, Spans
<1>7. IF m = 0 THEN 1 = n + 1 ELSE c[m].hi = n
  BY <1>4 DEF Covers
<1> HIDE DEF c, m
<1>8. q = [k \in 1..m |-> Span(r.lo + c[k].lo - 1, r.lo + c[k].hi - 1)]
  BY <1>5
<1>9. \A k \in 1..m : /\ q[k] \in Spans
                      /\ q[k].lo = r.lo + c[k].lo - 1 /\ q[k].hi = r.lo + c[k].hi - 1
  BY <1>0, <1>6, <1>8 DEF Span, Spans
<1>10. \A k \in 1..m : Fit(text, q[k], limit)
  <2>1. ASSUME NEW k \in 1..m, c[k].lo # c[k].hi PROVE Tokens(text, q[k]) <= limit
    <3>1. c[k].lo \in 1..n /\ c[k].hi \in (c[k].lo + 1)..n /\ c[k].hi \in (c[k].lo + 1)..c[k].hi
      BY <1>0, <1>6, <2>1
    <3>2. c[k].hi \in S(c[k].lo)
      BY <1>3, <1>4, <3>1 DEF m
    <3>3. Tokens(text, Span(r.lo + c[k].lo - 1, r.lo + c[k].hi - 1)) <= limit
      BY <3>1, <3>2
    <3> QED BY <1>8, <3>3
  <2>2. ASSUME NEW k \in 1..m PROVE Fit(text, q[k], limit)
    <3>1. c[k].lo = c[k].hi => q[k].lo = q[k].hi
      BY <1>9
    <3>2. c[k].lo # c[k].hi => Tokens(text, q[k]) <= limit
      BY <2>1
    <3> QED BY <3>1, <3>2 DEF Fit
  <2> QED BY <2>2
<1> HIDE DEF q
<1>11. q \in Seq(Spans) /\ Len(q) = m /\ DOMAIN q = 1..m
  BY <1>5, <1>8, <1>9
<1>12. ASSUME NEW k \in 1..m
       PROVE  /\ q[k].lo = IF k = 1 THEN r.lo ELSE q[k - 1].hi + 1
              /\ r.lo <= q[k].lo /\ q[k].lo <= q[k].hi /\ q[k].hi <= r.hi
  <2>1. r.lo <= q[k].lo /\ q[k].lo <= q[k].hi /\ q[k].hi <= r.hi
    BY <1>0, <1>6, <1>9
  <2>2. CASE k = 1
    BY <1>0, <1>6, <1>9, <2>1, <2>2
  <2>3. CASE k # 1
    <3>1. k - 1 \in 1..m
      BY <1>5, <2>3
    <3>2. q[k - 1].hi = r.lo + c[k - 1].hi - 1 /\ c[k].lo = c[k - 1].hi + 1
      BY <1>6, <1>9, <2>3, <3>1
    <3>3. c[k - 1].hi \in Int /\ q[k].lo = r.lo + c[k].lo - 1
      BY <1>6, <1>9, <3>1
    <3> QED BY <1>0, <2>1, <2>3, <3>2, <3>3
  <2> QED BY <2>2, <2>3
<1>13. IF m = 0 THEN r.lo = r.hi + 1 ELSE q[m].hi = r.hi
  <2>1. m # 0 => m \in 1..m
    BY <1>5
  <2> QED BY <1>0, <1>7, <1>9, <2>1
<1>14. Covers(q, r.lo, r.hi)
  BY <1>11, <1>12, <1>13 DEF Covers, Spans
<1>15. Range(q) \subseteq Fits(text, limit)
  BY <1>9, <1>10, <1>11 DEF Range, Fits
<1> QED BY <1>1, <1>2, <1>14, <1>15 DEF q

(* One run covers itself.                                                   *)
LEMMA OneCovers ==
  ASSUME NEW x \in Spans, x.lo <= x.hi
  PROVE  Covers(<<x>>, x.lo, x.hi) /\ Range(<<x>>) = {x}
<1> DEFINE q == <<x>>
<1>1. q \in Seq(Spans) /\ Len(q) = 1 /\ q[1] = x /\ DOMAIN q = {1} /\ 1..1 = {1}
  OBVIOUS
<1> HIDE DEF q
<1> QED BY <1>1 DEF Covers, Spans, Range, q

(* Runs that cover pieces that cover lines cover the lines.                 *)
LEMMA MergedCovers ==
  ASSUME NEW n \in Nat, NEW p, Covers(p, 1, n), NEW runs, Covers(runs, 1, Len(p))
  PROVE  Covers(Merged(p, runs), 1, n)
<1> DEFINE q == Merged(p, runs)
           m == Len(runs)
           a == Len(p)
<1>1. p \in Seq(Spans) /\ a \in Nat /\ runs \in Seq(Spans) /\ m \in Nat /\ DOMAIN runs = 1..m
  BY DEF Covers, Spans
<1>2. \A k \in 1..a : /\ p[k].lo \in Int /\ p[k].hi \in Int
                      /\ p[k].lo = IF k = 1 THEN 1 ELSE p[k - 1].hi + 1
                      /\ 1 <= p[k].lo /\ p[k].lo <= p[k].hi /\ p[k].hi <= n
  <2>1. \A k \in 1..a : p[k] \in Spans
    BY <1>1, ElementOfSeq
  <2> QED BY <2>1 DEF Covers, Spans
<1>3. \A k \in 1..m : /\ runs[k].lo = IF k = 1 THEN 1 ELSE runs[k - 1].hi + 1
                      /\ runs[k].lo \in 1..a /\ runs[k].hi \in 1..a /\ runs[k].lo <= runs[k].hi
  <2>1. \A k \in 1..m : runs[k] \in Spans
    BY <1>1, ElementOfSeq
  <2>2. \A k \in 1..m : /\ runs[k].lo = IF k = 1 THEN 1 ELSE runs[k - 1].hi + 1
                        /\ 1 <= runs[k].lo /\ runs[k].lo <= runs[k].hi /\ runs[k].hi <= a
    BY DEF Covers
  <2>3. \A k \in 1..m : runs[k].lo \in Int /\ runs[k].hi \in Int
    BY <2>1 DEF Spans
  <2> HIDE DEF a, m
  <2> QED BY <1>1, <2>2, <2>3
<1>4. \A x, y \in 1..a : x < y => p[x].hi < p[y].lo
  BY CoversOrder
<1>5. q = [k \in 1..m |-> Span(p[runs[k].lo].lo, p[runs[k].hi].hi)]
  BY <1>1, MergedIs
<1>6. \A k \in 1..m : /\ q[k].lo = p[runs[k].lo].lo /\ q[k].hi = p[runs[k].hi].hi
                      /\ q[k] \in Spans
  <2>1. ASSUME NEW k \in 1..m
        PROVE  /\ q[k].lo = p[runs[k].lo].lo /\ q[k].hi = p[runs[k].hi].hi /\ q[k] \in Spans
    <3>1. q[k] = Span(p[runs[k].lo].lo, p[runs[k].hi].hi)
      BY <1>5
    <3> QED BY <1>2, <1>3, <3>1 DEF Span, Spans
  <2> QED BY <2>1
<1>7. (IF a = 0 THEN 1 = n + 1 ELSE p[a].hi = n) /\ (IF m = 0 THEN 1 = a + 1 ELSE runs[m].hi = a)
  BY DEF Covers
<1> HIDE DEF q, m, a
<1>8. q \in Seq(Spans) /\ Len(q) = m
  BY <1>1, <1>5, <1>6
<1>9. ASSUME NEW k \in 1..m
      PROVE  /\ q[k].lo = IF k = 1 THEN 1 ELSE q[k - 1].hi + 1
             /\ 1 <= q[k].lo /\ q[k].lo <= q[k].hi /\ q[k].hi <= n
  <2> DEFINE x == runs[k].lo
             y == runs[k].hi
  <2>1. x \in 1..a /\ y \in 1..a /\ x <= y /\ q[k].lo = p[x].lo /\ q[k].hi = p[y].hi
    BY <1>3, <1>6
  <2>2. x = IF k = 1 THEN 1 ELSE runs[k - 1].hi + 1
    BY <1>3
  <2> HIDE DEF x, y
  <2>3. 1 <= p[x].lo /\ p[y].hi <= n /\ p[x].lo <= p[y].hi
    <3>1. CASE x = y
      BY <1>2, <2>1, <3>1
    <3>2. CASE x < y
      <4>1. p[x].hi < p[y].lo
        BY <1>4, <2>1, <3>2
      <4> QED BY <1>2, <2>1, <4>1
    <3> QED BY <1>1, <2>1, <3>1, <3>2
  <2>4. CASE k = 1
    BY <1>2, <2>1, <2>2, <2>3, <2>4
  <2>5. CASE k # 1
    <3>1. k - 1 \in 1..m /\ runs[k - 1].hi \in 1..a
      BY <1>1, <1>3, <2>5
    <3>2. x = runs[k - 1].hi + 1 /\ x # 1 /\ x - 1 = runs[k - 1].hi /\ q[k - 1].hi = p[runs[k - 1].hi].hi
      <4>1. q[k - 1].hi = p[runs[k - 1].hi].hi
        BY <1>6, <3>1
      <4>2. x = runs[k - 1].hi + 1
        BY <2>2, <2>5
      <4> QED BY <1>1, <3>1, <4>1, <4>2
    <3>3. p[x].lo = p[x - 1].hi + 1
      BY <1>2, <2>1, <3>2
    <3> QED BY <2>1, <2>3, <2>5, <3>2, <3>3
  <2> QED BY <2>4, <2>5
<1>10. IF m = 0 THEN 1 = n + 1 ELSE q[m].hi = n
  <2>1. CASE m = 0
    BY <1>1, <1>7, <2>1
  <2>2. CASE m # 0
    <3>1. m \in 1..m
      BY <1>1, <2>2
    <3>2. runs[m].hi = a /\ a \in 1..a /\ q[m].hi = p[runs[m].hi].hi
      BY <1>3, <1>6, <1>7, <2>2, <3>1
    <3> QED BY <1>7, <2>2, <3>2
  <2> QED BY <2>1, <2>2
<1> QED BY <1>8, <1>9, <1>10 DEF Covers, Spans, q

(* A cover cut where it is above the budget: what is cut is covered by     *)
(* lines packed up to a limit, what is not is kept.                         *)
LEMMA CutCovers ==
  ASSUME NEW text \in TextType, NEW s, Covers(s, 1, Len(text)),
         NEW limit \in Nat, limit <= MaxTokens, NEW cut,
         cut = FlattenSeq([k \in DOMAIN s |->
                 IF Oversize(text, s[k]) THEN PackLines(text, s[k], limit) ELSE <<s[k]>>])
  PROVE  Covers(cut, 1, Len(text)) /\ Range(cut) \subseteq Fits(text, MaxTokens)
<1> DEFINE sub == [k \in DOMAIN s |->
                    IF Oversize(text, s[k]) THEN PackLines(text, s[k], limit) ELSE <<s[k]>>]
<1>1. /\ Len(text) \in Nat /\ MaxTokens \in Nat
      /\ s \in Seq(Spans) /\ Len(s) \in Nat /\ DOMAIN s = 1..Len(s)
  BY ChunkAssumption DEF TextType, Covers, Spans
<1>2. \A k \in 1..Len(s) : s[k] \in Spans /\ 1 <= s[k].lo /\ s[k].lo <= s[k].hi /\ s[k].hi <= Len(text)
  BY <1>1, ElementOfSeq DEF Covers
<1>3. ASSUME NEW k \in 1..Len(s)
      PROVE  /\ sub[k] = IF Oversize(text, s[k]) THEN PackLines(text, s[k], limit) ELSE <<s[k]>>
             /\ Covers(sub[k], s[k].lo, s[k].hi) /\ Range(sub[k]) \subseteq Fits(text, MaxTokens)
  <2>1. sub[k] = IF Oversize(text, s[k]) THEN PackLines(text, s[k], limit) ELSE <<s[k]>>
    BY <1>1
  <2> HIDE DEF sub
  <2>2. CASE Oversize(text, s[k])
    <3> DEFINE q == PackLines(text, s[k], limit)
    <3>1. s[k] \in Spans /\ s[k].lo <= s[k].hi + 1
      BY <1>2 DEF Spans
    <3>2. Covers(q, s[k].lo, s[k].hi) /\ Range(q) \subseteq Fits(text, limit)
      BY <3>1, PackLinesCover
    <3>3. ASSUME NEW x \in Range(q) PROVE x \in Fits(text, MaxTokens)
      <4> HIDE DEF q
      <4>1. x \in Spans /\ Fit(text, x, limit)
        BY <3>2, <3>3 DEF Fits
      <4>2. q \in Seq(Spans) /\ DOMAIN q = 1..Len(q)
        BY <3>2 DEF Covers, Spans
      <4>3. PICK l \in 1..Len(q) : x = q[l]
        BY <4>2, <3>3 DEF Range
      <4>4. s[k].lo <= x.lo /\ x.hi <= s[k].hi
        BY <3>2, <4>3 DEF Covers
      <4>5. 1 <= x.lo /\ x.hi <= Len(text)
        <5>1. /\ s[k].lo \in Int /\ s[k].hi \in Int /\ x.lo \in Int /\ x.hi \in Int
              /\ 1 <= s[k].lo /\ s[k].hi <= Len(text)
          BY <1>2, <4>1 DEF Spans
        <5> QED BY <1>1, <4>4, <5>1
      <4>6. Tokens(text, x) \in Nat
        BY <4>1, <4>5, TokensAre
      <4>7. Tokens(text, x) <= limit => Tokens(text, x) <= MaxTokens
        BY <1>1, <4>6
      <4> QED BY <4>1, <4>7 DEF Fits, Fit
    <3> QED BY <2>1, <2>2, <3>2, <3>3
  <2>3. CASE ~Oversize(text, s[k])
    <3>1. Tokens(text, s[k]) \in Nat
      BY <1>2, TokensAre
    <3>2. s[k] \in Fits(text, MaxTokens)
      BY <1>1, <1>2, <2>3, <3>1 DEF Fits, Fit, Oversize
    <3>3. Covers(<<s[k]>>, s[k].lo, s[k].hi) /\ Range(<<s[k]>>) = {s[k]}
      BY <1>2, OneCovers
    <3> QED BY <2>1, <2>3, <3>2, <3>3
  <2> QED BY <2>1, <2>2, <2>3
<1>4. sub \in Seq(Seq(Spans)) /\ Len(sub) = Len(s)
  <2>1. \A k \in 1..Len(s) : sub[k] \in Seq(Spans)
    <3> HIDE DEF sub
    <3> QED BY <1>3 DEF Covers, Spans
  <2>2. sub = [k \in 1..Len(s) |-> sub[k]]
    BY <1>1
  <2> HIDE DEF sub
  <2> QED BY <1>1, <2>1, <2>2
<1>5. cut = FlattenSeq(sub)
  OBVIOUS
<1> HIDE DEF sub
<1>6. Covers(FlattenSeq(sub), 1, Len(text)) /\ Range(FlattenSeq(sub)) \subseteq Fits(text, MaxTokens)
  <2>1. \A k \in 1..Len(s) : Covers(sub[k], s[k].lo, s[k].hi) /\ Range(sub[k]) \subseteq Fits(text, MaxTokens)
    BY <1>3
  <2> DEFINE n == Len(text)
             P == Fits(text, MaxTokens)
  <2>2. n \in Int /\ 1 \in Int /\ Covers(s, 1, n)
    BY <1>1
  <2>3. \A k \in 1..Len(s) : Covers(sub[k], s[k].lo, s[k].hi) /\ Range(sub[k]) \subseteq P
    BY <2>1
  <2> HIDE DEF n, P
  <2>4. Covers(FlattenSeq(sub), 1, n) /\ Range(FlattenSeq(sub)) \subseteq P
    BY <1>4, <2>2, <2>3, FlattenCovers
  <2> QED BY <2>4 DEF n, P
<1> QED BY <1>5, <1>6

(* The sections cover the text.                                             *)
LEMMA SectionsCover ==
  ASSUME NEW text \in TextType
  PROVE  Covers(Sections(text), 1, Len(text))
<1> DEFINE n == Len(text)
           S(i) == {j \in i..n : \A k \in (i + 1)..j : text[k].head = 0}
           end == [i \in 1..n |-> Max(S(i))]
<1>0. n \in Nat
  BY DEF TextType
<1>1. Sections(text) = Chain(n, end)
  BY DEF Sections, Pack, RunEnd
<1>2. ASSUME NEW i \in 1..n PROVE end[i] \in i..n
  <2>1. i \in S(i) /\ S(i) \in SUBSET (i..n) /\ i \in Int /\ n \in Int
    BY <1>0
  <2>2. Max(S(i)) \in S(i)
    <3> HIDE DEF S
    <3> QED BY <2>1, MaxIs
  <2> QED BY <2>1, <2>2
<1> HIDE DEF end
<1> QED BY <1>0, <1>1, <1>2, ChainCovers

(* So do their runs, whatever the test.                                     *)
LEMMA CoalesceCovers ==
  ASSUME NEW text \in TextType
  PROVE  Covers(CoalesceSections(text), 1, Len(text))
<1> DEFINE s == Sections(text)
           n == Len(s)
           S(i) == {j \in i..n : \A k \in (i + 1)..j :
                      /\ Depth(text, s[k]) >= Depth(text, s[i])
                      /\ Tokens(text, Span(s[i].lo, s[k].hi)) <= Target}
           end == [i \in 1..n |-> Max(S(i))]
           M(p) == Merged(p, Chain(Len(p), [i \in 1..Len(p) |->
                     Max({j \in i..Len(p) : \A k \in (i + 1)..j :
                            /\ Depth(text, p[k]) >= Depth(text, p[i])
                            /\ Tokens(text, Span(p[i].lo, p[k].hi)) <= Target})]))
<1>1. CoalesceSections(text) = CHOOSE r \in {M(p) : p \in {s}} : TRUE
  BY DEF CoalesceSections, With, Pack, RunEnd
<1>2. (CHOOSE r \in {M(p) : p \in {s}} : TRUE) = M(s)
  <2> HIDE DEF M, s
  <2> QED OBVIOUS
<1>3. M(s) = Merged(s, Chain(n, end))
  OBVIOUS
<1>4. Covers(s, 1, Len(text)) /\ n \in Nat /\ Len(text) \in Nat
  BY SectionsCover DEF Covers, TextType
<1>5. ASSUME NEW i \in 1..n PROVE end[i] \in i..n
  <2> HIDE DEF s, n
  <2>1. i \in S(i) /\ S(i) \in SUBSET (i..n) /\ i \in Int /\ n \in Int
    BY <1>4
  <2>2. Max(S(i)) \in S(i)
    <3> HIDE DEF S
    <3> QED BY <2>1, MaxIs
  <2> QED BY <2>1, <2>2
<1> HIDE DEF end, M
<1>6. Covers(Chain(n, end), 1, n)
  BY <1>4, <1>5, ChainCovers
<1> HIDE DEF s
<1>7. Covers(Merged(s, Chain(n, end)), 1, Len(text))
  BY <1>4, <1>6, MergedCovers
<1> QED BY <1>1, <1>2, <1>3, <1>7

(* The runs a code splitter packs its items into cover the text, with no    *)
(* gap and no overlap, however the items fill the limit.                    *)
LEMMA PackItemsCover ==
  ASSUME NEW text \in TextType
  PROVE  Covers(PackItems(text), 1, Len(text))
<1> DEFINE s == Sections(text)
           n == Len(s)
           S(i) == {j \in i..n : \A k \in (i + 1)..j :
                      /\ \A l \in i..k : ~Oversize(text, s[l])
                      /\ ~Oversize(text, Span(s[i].lo, s[k].hi))}
           end == [i \in 1..n |-> Max(S(i))]
           M(p) == Merged(p, Chain(Len(p), [i \in 1..Len(p) |->
                     Max({j \in i..Len(p) : \A k \in (i + 1)..j :
                            /\ \A l \in i..k : ~Oversize(text, p[l])
                            /\ ~Oversize(text, Span(p[i].lo, p[k].hi))})]))
<1>1. PackItems(text) = CHOOSE r \in {M(p) : p \in {s}} : TRUE
  BY DEF PackItems, With, Pack, RunEnd
<1>2. (CHOOSE r \in {M(p) : p \in {s}} : TRUE) = M(s)
  <2> HIDE DEF M, s
  <2> QED OBVIOUS
<1>3. M(s) = Merged(s, Chain(n, end))
  OBVIOUS
<1>4. Covers(s, 1, Len(text)) /\ n \in Nat /\ Len(text) \in Nat
  BY SectionsCover DEF Covers, TextType
<1>5. ASSUME NEW i \in 1..n PROVE end[i] \in i..n
  <2> HIDE DEF s, n
  <2>1. i \in S(i) /\ S(i) \in SUBSET (i..n) /\ i \in Int /\ n \in Int
    BY <1>4
  <2>2. Max(S(i)) \in S(i)
    <3> HIDE DEF S
    <3> QED BY <2>1, MaxIs
  <2> QED BY <2>1, <2>2
<1> HIDE DEF end, M
<1>6. Covers(Chain(n, end), 1, n)
  BY <1>4, <1>5, ChainCovers
<1> HIDE DEF s
<1>7. Covers(Merged(s, Chain(n, end)), 1, Len(text))
  BY <1>4, <1>6, MergedCovers
<1> QED BY <1>1, <1>2, <1>3, <1>7

(* Markdown is cut by its sections.                                         *)
LEMMA MarkdownCovers ==
  ASSUME NEW text \in TextType
  PROVE  Covers(Markdown(text), 1, Len(text)) /\ Range(Markdown(text)) \subseteq Fits(text, MaxTokens)
<1> DEFINE s == CoalesceSections(text)
           M(p) == FlattenSeq([k \in DOMAIN p |->
                     IF Oversize(text, p[k]) THEN PackLines(text, p[k], Target) ELSE <<p[k]>>])
<1>1. Markdown(text) = CHOOSE r \in {M(p) : p \in {s}} : TRUE
  BY DEF Markdown, With, Windows
<1>2. (CHOOSE r \in {M(p) : p \in {s}} : TRUE) = M(s)
  <2> HIDE DEF M, s
  <2> QED OBVIOUS
<1>3. Covers(s, 1, Len(text))
  BY CoalesceCovers
<1> HIDE DEF s
<1>4. /\ Markdown(text) = FlattenSeq([k \in DOMAIN s |->
                 IF Oversize(text, s[k]) THEN PackLines(text, s[k], Target) ELSE <<s[k]>>])
  BY <1>1, <1>2
<1> QED BY <1>3, <1>4, TargetFits, CutCovers

(* Code by its items.                                                       *)
LEMMA SplitNodeCovers ==
  ASSUME NEW text \in TextType
  PROVE  Covers(SplitNode(text), 1, Len(text)) /\ Range(SplitNode(text)) \subseteq Fits(text, MaxTokens)
<1> DEFINE s == PackItems(text)
           M(p) == FlattenSeq([k \in DOMAIN p |->
                     IF Oversize(text, p[k]) THEN PackLines(text, p[k], MaxTokens) ELSE <<p[k]>>])
<1>1. SplitNode(text) = CHOOSE r \in {M(p) : p \in {s}} : TRUE
  BY DEF SplitNode, With
<1>2. (CHOOSE r \in {M(p) : p \in {s}} : TRUE) = M(s)
  <2> HIDE DEF M, s
  <2> QED OBVIOUS
<1>3. Covers(s, 1, Len(text))
  BY PackItemsCover
<1> HIDE DEF s
<1>4. /\ SplitNode(text) = FlattenSeq([k \in DOMAIN s |->
                 IF Oversize(text, s[k]) THEN PackLines(text, s[k], MaxTokens) ELSE <<s[k]>>])
  BY <1>1, <1>2
<1>5. MaxTokens \in Nat /\ MaxTokens <= MaxTokens
  BY ChunkAssumption
<1> QED BY <1>3, <1>4, <1>5, CutCovers

(* And packed again, over what is blank.                                    *)
LEMMA CodeLays ==
  ASSUME NEW text \in TextType
  PROVE  /\ Lays(CoalesceCode(text), text)
         /\ \A k \in 1..Len(CoalesceCode(text)) : Fit(text, CoalesceCode(text)[k], MaxTokens)
<1> DEFINE t == SplitNode(text)
           w == Written(text, t)
           M(p) == Merged(p, Chain(Len(p), [i \in 1..Len(p) |->
                     Max({j \in i..Len(p) : \A k \in (i + 1)..j :
                            Tokens(text, Span(p[i].lo, p[k].hi)) <= Target})]))
           n == Len(w)
           S(i) == {j \in i..n : \A k \in (i + 1)..j : Tokens(text, Span(w[i].lo, w[k].hi)) <= Target}
           end == [i \in 1..n |-> Max(S(i))]
           c == Chain(n, end)
           q == CoalesceCode(text)
<1>1. q = CHOOSE r \in {M(p) : p \in {w}} : TRUE
  BY DEF CoalesceCode, With, Pack, RunEnd
<1>2. (CHOOSE r \in {M(p) : p \in {w}} : TRUE) = M(w)
  <2> HIDE DEF M, w
  <2> QED OBVIOUS
<1>3. M(w) = Merged(w, c)
  OBVIOUS
<1>4. Covers(t, 1, Len(text)) /\ Range(t) \subseteq Fits(text, MaxTokens)
  BY SplitNodeCovers
<1>5. Lays(t, text) /\ t \in Seq(Spans)
  BY <1>4, CoversLays DEF Lays
<1> HIDE DEF t
<1>6. Lays(w, text) /\ \A k \in 1..Len(w) : \E j \in 1..Len(t) : w[k] = t[j]
  BY <1>5, WrittenLays
<1>7. \A j \in 1..Len(t) : t[j] \in Fits(text, MaxTokens)
  <2>1. \A j \in 1..Len(t) : j \in DOMAIN t
    BY <1>5
  <2> QED BY <1>4, <2>1 DEF Range
<1>8. w \in Seq(Spans) /\ n \in Nat
  BY <1>6 DEF Lays
<1>9. \A k \in 1..n : w[k] \in Spans /\ Fit(text, w[k], MaxTokens) /\ w[k] = Span(w[k].lo, w[k].hi)
  <2>1. ASSUME NEW k \in 1..n
        PROVE  w[k] \in Spans /\ Fit(text, w[k], MaxTokens) /\ w[k] = Span(w[k].lo, w[k].hi)
    <3>1. PICK j \in 1..Len(t) : w[k] = t[j]
      BY <1>6
    <3>2. w[k] \in Spans /\ Fit(text, w[k], MaxTokens)
      BY <1>7, <3>1 DEF Fits
    <3> HIDE DEF w
    <3> QED BY <3>2 DEF Spans, Span
  <2> QED BY <2>1
<1>10. ASSUME NEW i \in 1..n PROVE end[i] \in S(i) /\ end[i] \in i..n
  <2> HIDE DEF w, n
  <2>1. i \in S(i) /\ S(i) \in SUBSET (i..n) /\ i \in Int /\ n \in Int
    BY <1>8
  <2>2. Max(S(i)) \in S(i)
    <3> HIDE DEF S
    <3> QED BY <2>1, MaxIs
  <2> QED BY <2>1, <2>2
<1> HIDE DEF end, M, w
<1>11. Covers(c, 1, Len(w)) /\ \A k \in 1..Len(c) : c[k].hi = end[c[k].lo]
  BY <1>8, <1>10, ChainCovers
<1> HIDE DEF c
<1>12. q = Merged(w, c)
  BY <1>1, <1>2, <1>3
<1> HIDE DEF q
<1>13. /\ Lays(q, text) /\ Len(q) = Len(c)
       /\ \A k \in 1..Len(c) :
            /\ q[k] = Span(w[c[k].lo].lo, w[c[k].hi].hi)
            /\ c[k].lo \in 1..n /\ c[k].hi \in 1..n /\ c[k].lo <= c[k].hi
  BY <1>6, <1>11, <1>12, MergedLays
<1>14. ASSUME NEW k \in 1..Len(q) PROVE Fit(text, q[k], MaxTokens)
  <2> DEFINE a == c[k].lo
             b == c[k].hi
  <2>1. q[k] = Span(w[a].lo, w[b].hi) /\ a \in 1..n /\ b \in 1..n /\ a <= b /\ b \in S(a)
    BY <1>10, <1>11, <1>13
  <2> HIDE DEF a, b
  <2>2. CASE a = b
    <3>1. q[k] = w[a]
      BY <1>9, <2>1, <2>2
    <3> QED BY <1>9, <2>1, <3>1
  <2>3. CASE a # b
    <3>1. b \in (a + 1)..b
      BY <2>1, <2>3
    <3>2. Tokens(text, q[k]) <= Target
      BY <2>1, <3>1
    <3>3. q[k] \in Spans /\ 1 <= q[k].lo /\ q[k].hi <= Len(text)
      BY <1>13, ElementOfSeq DEF Lays
    <3>4. Tokens(text, q[k]) \in Nat
      BY <3>3, TokensAre
    <3>5. Tokens(text, q[k]) <= MaxTokens
      BY <3>2, <3>4, TargetFits, ChunkAssumption
    <3> QED BY <3>5 DEF Fit
  <2> QED BY <2>2, <2>3
<1> QED BY <1>13, <1>14 DEF q

(* Every kind of document.                                                  *)
LEMMA RangesLay ==
  ASSUME NEW text \in TextType, NEW kind
  PROVE  /\ Lays(Ranges(kind, text), text)
         /\ \A k \in 1..Len(Ranges(kind, text)) : Fit(text, Ranges(kind, text)[k], MaxTokens)
<1>1. ASSUME NEW q, Covers(q, 1, Len(text)), Range(q) \subseteq Fits(text, MaxTokens)
      PROVE  Lays(q, text) /\ \A k \in 1..Len(q) : Fit(text, q[k], MaxTokens)
  <2>1. Lays(q, text)
    BY <1>1, CoversLays
  <2>2. DOMAIN q = 1..Len(q)
    BY <2>1 DEF Lays
  <2> QED BY <1>1, <2>1, <2>2 DEF Range, Fits
<1>2. CASE kind = "markdown"
  <2>1. Ranges(kind, text) = Markdown(text)
    BY <1>2 DEF Ranges
  <2> QED BY <1>1, <2>1, MarkdownCovers
<1>3. CASE kind = "code"
  <2>1. Ranges(kind, text) = CoalesceCode(text)
    BY <1>3 DEF Ranges
  <2> QED BY <2>1, CodeLays
<1>4. CASE kind # "markdown" /\ kind # "code"
  <2> DEFINE r == Whole(text)
             q == PackLines(text, r, Target)
  <2>1. Ranges(kind, text) = q
    BY <1>4 DEF Ranges, Windows
  <2>2. r \in Spans /\ r.lo = 1 /\ r.hi = Len(text) /\ r.lo <= r.hi + 1 /\ Len(text) \in Nat
    BY DEF Whole, Span, Spans, TextType
  <2>3. Covers(q, 1, Len(text)) /\ Range(q) \subseteq Fits(text, Target)
    <3> HIDE DEF r
    <3> QED BY <2>2, PackLinesCover
  <2> HIDE DEF q, r
  <2>4. Lays(q, text)
    BY <2>3, CoversLays
  <2>5. ASSUME NEW k \in 1..Len(q) PROVE Fit(text, q[k], MaxTokens)
    <3>1. q[k] \in Spans /\ 1 <= q[k].lo /\ q[k].hi <= Len(text) /\ k \in DOMAIN q
      BY <2>4, ElementOfSeq DEF Lays
    <3>2. Tokens(text, q[k]) \in Nat
      BY <3>1, TokensAre
    <3>3. Fit(text, q[k], Target)
      BY <2>3, <3>1 DEF Range, Fits
    <3>4. Tokens(text, q[k]) <= Target => Tokens(text, q[k]) <= MaxTokens
      BY <3>2, TargetFits, ChunkAssumption
    <3> QED BY <3>3, <3>4 DEF Fit
  <2> QED BY <2>1, <2>4, <2>5
<1> QED BY <1>2, <1>3, <1>4

ChunkType == [range : Spans, tokens : Int]

(* The chunks of a document are a list, and tile its text.                  *)
LEMMA ChunksTileText ==
  ASSUME NEW text \in TextType, NEW kind
  PROVE  /\ Chunks(kind, text) \in Seq(ChunkType)
         /\ Tile(text, Chunks(kind, text))
<1> DEFINE p == Ranges(kind, text)
           w == Written(text, p)
           M(r) == [k \in DOMAIN r |->
                      [range  |-> r[k],
                       tokens |-> Tokens(text, r[k]) +
                         (IF kind = "code" /\ Interior(text, r[k]) THEN Crumb ELSE 0)]]
           cs == Chunks(kind, text)
           n == Len(w)
<1>1. cs = CHOOSE r \in {M(x) : x \in {w}} : TRUE
  BY DEF Chunks, With
<1>2. (CHOOSE r \in {M(x) : x \in {w}} : TRUE) = M(w)
  <2> HIDE DEF M, w
  <2> QED OBVIOUS
<1>3. Lays(p, text) /\ \A k \in 1..Len(p) : Fit(text, p[k], MaxTokens)
  BY RangesLay
<1> HIDE DEF p
<1>4. Lays(w, text) /\ \A k \in 1..n : \E j \in 1..Len(p) : w[k] = p[j]
  BY <1>3, WrittenLays
<1>5. \A k \in 1..n : Fit(text, w[k], MaxTokens)
  BY <1>3, <1>4
<1>6. w \in Seq(Spans) /\ n \in Nat /\ DOMAIN w = 1..n /\ Crumb \in Nat
  BY <1>4, ChunkAssumption DEF Lays
<1> HIDE DEF w
<1>7. \A k \in 1..n : w[k] \in Spans /\ Tokens(text, w[k]) \in Nat
  <2>1. ASSUME NEW k \in 1..n PROVE w[k] \in Spans /\ Tokens(text, w[k]) \in Nat
    <3>1. w[k] \in Spans /\ 1 <= w[k].lo /\ w[k].hi <= Len(text)
      BY <1>4, <1>6, ElementOfSeq DEF Lays
    <3> QED BY <3>1, TokensAre
  <2> QED BY <2>1
<1>8. cs = [k \in 1..n |->
              [range  |-> w[k],
               tokens |-> Tokens(text, w[k]) +
                 (IF kind = "code" /\ Interior(text, w[k]) THEN Crumb ELSE 0)]]
  BY <1>1, <1>2, <1>6
<1> HIDE DEF cs, n
<1>9. \A k \in 1..n : cs[k].range = w[k] /\ cs[k] \in ChunkType
  <2>1. ASSUME NEW k \in 1..n PROVE cs[k].range = w[k] /\ cs[k] \in ChunkType
    <3> DEFINE extra == IF kind = "code" /\ Interior(text, w[k]) THEN Crumb ELSE 0
    <3>1. cs[k] = [range |-> w[k], tokens |-> Tokens(text, w[k]) + extra]
      BY <1>8
    <3>2. extra \in Int
      BY <1>6
    <3> HIDE DEF extra
    <3> QED BY <1>7, <3>1, <3>2 DEF ChunkType
  <2> QED BY <2>1
<1>10. cs \in Seq(ChunkType) /\ Len(cs) = n /\ DOMAIN cs = 1..n
  BY <1>6, <1>8, <1>9
<1>11. \A k \in 2..n : cs[k - 1].range.hi < cs[k].range.lo
  <2>1. ASSUME NEW k \in 2..n PROVE cs[k - 1].range.hi < cs[k].range.lo
    <3>1. k \in 1..n /\ k - 1 \in 1..n /\ k - 1 < k
      BY <1>6
    <3> QED BY <1>4, <1>9, <3>1 DEF Lays, n
  <2> QED BY <2>1
<1>12. \A i \in DOMAIN text : text[i].w > 0 =>
          \E k \in DOMAIN cs : cs[k].range.lo <= i /\ i <= cs[k].range.hi
  <2>1. DOMAIN text = 1..Len(text)
    BY DEF TextType
  <2> QED BY <1>4, <1>9, <1>10, <2>1 DEF Lays, n
<1>13. \A k \in DOMAIN cs :
         Tokens(text, cs[k].range) <= MaxTokens \/ cs[k].range.lo = cs[k].range.hi
  BY <1>5, <1>9, <1>10 DEF Fit
<1> QED BY <1>10, <1>11, <1>12, <1>13 DEF Tile, cs

-----------------------------------------------------------------------------
(* The files of a run.                                                      *)

(* The positions of a list, as a set of numbers.                            *)
LEMMA DomainOf ==
  ASSUME NEW s, DOMAIN s = 1..Len(s), Len(s) \in Nat
  PROVE  \A S \in SUBSET DOMAIN s : S \in SUBSET Nat /\ IsFiniteSet(S)
<1>1. IsFiniteSet(1..Len(s))
  BY FS_Interval
<1> QED BY <1>1, FS_Subset

(* The leaves of a manifest are the files it declares.                      *)
LEMMA LeavesAre ==
  ASSUME NEW m, DOMAIN m = 1..Len(m), Len(m) \in Nat,
         NEW tree, DOMAIN tree = 1..Len(tree), Len(tree) \in Nat,
         \A f \in DOMAIN tree : tree[f].path # NoPath, NEW opts
  PROVE  /\ Leaves(m, tree, opts) \in Seq(DOMAIN tree)
         /\ Range(Leaves(m, tree, opts)) = Declared(m, tree, opts)
<1> DEFINE T == DOMAIN tree
           Ex(n) == Explicit(m, tree, n)
           Di(n) == Discovered(m, tree, opts, n)
           kids(n) == {m[c].file : c \in {c \in DOMAIN m : m[c].parent = n}}
           D(n) == {f \in T : Reaches(tree[f], m[n], opts) /\ tree[f].path \notin kids(n)}
           s == [n \in DOMAIN m |-> Ex(n) \o Di(n)]
           F == FlattenSeq(s)
<1>1. ASSUME NEW n \in DOMAIN m
      PROVE  Ex(n) \in Seq(T) /\ Range(Ex(n)) = {f \in T : tree[f].path = m[n].file}
  <2>1. At(tree, m[n].file) = {f \in T : tree[f].path = m[n].file}
    BY DEF At
  <2>2. CASE Named(m, n)
    <3> DEFINE A == At(tree, m[n].file)
    <3>1. A \in SUBSET T /\ A \in SUBSET Nat /\ IsFiniteSet(A)
      BY <2>1, DomainOf
    <3> HIDE DEF A
    <3>2. InOrder(A) \in Seq(A) /\ Range(InOrder(A)) = A
      BY <3>1, InOrderIs
    <3>3. InOrder(A) \in Seq(T)
      BY <3>1, <3>2, SeqMonotonic
    <3> QED BY <2>1, <2>2, <3>2, <3>3 DEF Explicit, A
  <2>3. CASE ~Named(m, n)
    <3>1. Ex(n) = <<>>
      BY <2>3 DEF Explicit
    <3>2. <<>> \in Seq(T) /\ Range(<<>>) = {}
      BY DEF Range
    <3>3. {f \in T : tree[f].path = m[n].file} = {}
      BY <2>3 DEF Named
    <3> QED BY <3>1, <3>2, <3>3
  <2> QED BY <2>2, <2>3
<1>2. ASSUME NEW n \in DOMAIN m PROVE Di(n) \in Seq(T) /\ Range(Di(n)) = D(n)
  <2>1. Di(n) = InOrder(D(n))
    BY DEF Discovered
  <2>2. D(n) \in SUBSET T /\ D(n) \in SUBSET Nat /\ IsFiniteSet(D(n))
    <3>1. D(n) \in SUBSET T
      OBVIOUS
    <3> HIDE DEF D
    <3> QED BY <3>1, DomainOf
  <2> HIDE DEF D, Di
  <2>3. Di(n) \in Seq(D(n)) /\ Range(Di(n)) = D(n)
    BY <2>1, <2>2, InOrderIs
  <2> QED BY <2>2, <2>3, SeqMonotonic
<1> HIDE DEF Ex, Di
<1>3. \A n \in DOMAIN m : Ex(n) \o Di(n) \in Seq(T) /\ Range(Ex(n) \o Di(n)) = Range(Ex(n)) \cup Range(Di(n))
  BY <1>1, <1>2, ConcatIs
<1>4. s \in Seq(Seq(T)) /\ DOMAIN s = DOMAIN m
  <2>1. s \in [1..Len(m) -> Seq(T)]
    BY <1>3
  <2> QED BY <2>1
<1>5. \A n \in DOMAIN m : s[n] = Ex(n) \o Di(n)
  OBVIOUS
<1>6. Leaves(m, tree, opts) = Increasing(F)
  BY DEF Leaves, Ex, Di
<1> HIDE DEF s
<1>7. F \in Seq(T) /\ \A x : x \in Range(F) <=> \E n \in DOMAIN m : x \in Range(s[n])
  BY <1>4, FlatRange
<1> HIDE DEF F
<1>8. Increasing(F) \in Seq(T) /\ Range(Increasing(F)) = Range(F)
  <2>1. [k \in DOMAIN F |-> -F[k]] \in [DOMAIN F -> Int]
    <3>1. \A k \in DOMAIN F : F[k] \in Nat
      BY <1>7
    <3> QED BY <3>1
  <2> QED BY <1>7, <2>1, SortedRange DEF Increasing
<1>9. ASSUME NEW x \in Range(F) PROVE x \in Declared(m, tree, opts)
  <2>1. PICK n \in DOMAIN m : x \in Range(Ex(n)) \cup Range(Di(n))
    <3>1. PICK n \in DOMAIN m : x \in Range(s[n])
      BY <1>7
    <3>2. x \in Range(Ex(n)) \cup Range(Di(n))
      BY <1>3, <1>5, <3>1
    <3> QED BY <3>2
  <2>2. x \in T /\ (m[n].file = tree[x].path \/ Reaches(tree[x], m[n], opts))
    BY <1>1, <1>2, <2>1
  <2> QED BY <2>2 DEF Declared
<1>10. ASSUME NEW x \in Declared(m, tree, opts) PROVE x \in Range(F)
  <2>1. /\ x \in T
        /\ \E n \in DOMAIN m : m[n].file = tree[x].path \/ Reaches(tree[x], m[n], opts)
    BY DEF Declared
  <2>2. ASSUME NEW n \in DOMAIN m, m[n].file = tree[x].path PROVE x \in Range(F)
    <3>1. x \in Range(Ex(n))
      BY <1>1, <2>1, <2>2
    <3> QED BY <1>3, <1>5, <1>7, <3>1
  <2>3. ASSUME NEW n \in DOMAIN m, Reaches(tree[x], m[n], opts) PROVE x \in Range(F)
    <3>1. CASE tree[x].path \in kids(n)
      <4>1. PICK c \in DOMAIN m : tree[x].path = m[c].file
        BY <3>1
      <4> QED BY <2>2, <4>1
    <3>2. CASE tree[x].path \notin kids(n)
      <4>1. x \in Range(Di(n))
        BY <1>2, <2>1, <2>3, <3>2
      <4> QED BY <1>3, <1>5, <1>7, <4>1
    <3> QED BY <3>1, <3>2
  <2> QED BY <2>1, <2>2, <2>3
<1> QED BY <1>6, <1>8, <1>9, <1>10

(* The files of a list that are in a set.                                   *)
LEMMA AmongIs ==
  ASSUME NEW T, NEW files \in Seq(T), NEW S
  PROVE  /\ Among(files, S) \in Seq(T)
         /\ Range(Among(files, S)) = Range(files) \cap S
         /\ IsInjective(files) => IsInjective(Among(files, S))
<1> DEFINE P == {k \in DOMAIN files : files[k] \in S}
<1>1. Among(files, S) = Picked(files, P) /\ P \in SUBSET DOMAIN files
  BY DEF Among
<1>2. {files[p] : p \in P} = Range(files) \cap S
  BY DEF Range
<1> HIDE DEF P
<1> QED BY <1>1, <1>2, PickedIs

(* What the assumption says of a run.                                       *)
LEMMA RunIs ==
  ASSUME NEW r \in Runs
  PROVE  /\ DOMAIN r.tree = 1..Len(r.tree) /\ Len(r.tree) \in Nat
         /\ DOMAIN r.manifest = 1..Len(r.manifest) /\ Len(r.manifest) \in Nat
         /\ \A f \in DOMAIN r.tree : r.tree[f].text \in TextType /\ r.tree[f].path # NoPath
         /\ r.coded \in BOOLEAN /\ r.source \in {"byok", "server"}
BY UploadAssumption DEF TextType

(* The files a run finds, and those of them that are regular.               *)
LEMMA FoundIs ==
  ASSUME run \in Runs
  PROVE  /\ Found \in Seq(DOMAIN run.tree)
         /\ Range(Found) = Declared(run.manifest, run.tree, run.opts)
         /\ Walked = Among(Found, Regular)
         /\ Walked \in Seq(DOMAIN run.tree)
         /\ Range(Walked) = Range(Found) \cap Regular
<1>1. Found \in Seq(DOMAIN run.tree) /\ Range(Found) = Declared(run.manifest, run.tree, run.opts)
  BY RunIs, LeavesAre DEF Found
<1>2. Walked = Among(Found, Regular)
  <2> DEFINE W(f) == Among(f, Regular)
             f0 == Found
  <2>1. Walked = CHOOSE r \in {W(f) : f \in {f0}} : TRUE
    BY DEF Walked, With
  <2>2. (CHOOSE r \in {W(f) : f \in {f0}} : TRUE) = W(f0)
    <3> HIDE DEF W, f0
    <3> QED OBVIOUS
  <2> QED BY <2>1, <2>2
<1>3. /\ Among(Found, Regular) \in Seq(DOMAIN run.tree)
      /\ Range(Among(Found, Regular)) = Range(Found) \cap Regular
  BY <1>1, AmongIs
<1> QED BY <1>1, <1>2, <1>3

-----------------------------------------------------------------------------
(* Calls and answers.                                                       *)

ChunkName == Nat \X Nat

(* A context group: chunks of one document.                                 *)
OneDoc == {g \in Seq(ChunkName) : \A i, j \in DOMAIN g : g[i][1] = g[j][1]}

CallType == {c \in [groups : Seq(OneDoc), alone : BOOLEAN] : c.alone => Len(c.groups) = 1}

(* A vector, made with its own document.                                    *)
VectorType ==
  {v \in [of : ChunkName, with : OneDoc] : \A c \in Range(v.with) : c[1] = v.of[1]}

Texts(cs) == FlattenSeq([k \in DOMAIN cs |-> TextsOf(cs[k])])
Ofs(vs)   == [k \in DOMAIN vs |-> vs[k].of]

(* The indices of a list that passes as a permutation are its places: every *)
(* item of it returns to where it was, whatever its order was.              *)
LEMMA ItemsRestored ==
  ASSUME NEW T, NEW s \in Seq(T), NEW order \in {"kept", "reversed", "garbled"},
         Permutation(Items(s, order))
  PROVE  /\ Restored(Items(s, order)) = s /\ DOMAIN Items(s, order) = DOMAIN s
         /\ \A k \in DOMAIN s : \E j \in DOMAIN s : Items(s, order)[j].of = s[k]
<1> DEFINE items == Items(s, order)
           n == Len(s)
           key == [k \in DOMAIN items |-> -items[k].index]
           u == Descending(items, key)
           I == [index : Nat, of : T]
           Turn(k) == IF order = "kept" THEN k ELSE n + 1 - k
<1>1. n \in Nat /\ DOMAIN s = 1..n
  OBVIOUS
<1>2. \A k \in 1..n : Turn(k) \in 1..n
  BY <1>1
<1>3. items = [k \in 1..n |-> [index |-> IF order = "garbled" THEN 1 ELSE Turn(k), of |-> s[Turn(k)]]]
  BY <1>1 DEF Items
<1>4. \A k \in 1..n : /\ items[k].index = IF order = "garbled" THEN 1 ELSE Turn(k)
                      /\ items[k].of = s[Turn(k)] /\ items[k] \in I
  <2>1. \A k \in 1..n : s[Turn(k)] \in T
    BY <1>2, ElementOfSeq
  <2>2. \A k \in 1..n : items[k] = [index |-> IF order = "garbled" THEN 1 ELSE Turn(k), of |-> s[Turn(k)]]
    BY <1>3
  <2> HIDE DEF items, Turn
  <2>3. ASSUME NEW k \in 1..n
        PROVE  /\ items[k].index = IF order = "garbled" THEN 1 ELSE Turn(k)
               /\ items[k].of = s[Turn(k)] /\ items[k] \in I
    <3> DEFINE x == IF order = "garbled" THEN 1 ELSE Turn(k)
               y == s[Turn(k)]
    <3>1. x \in Nat /\ y \in T /\ items[k] = [index |-> x, of |-> y]
      BY <1>1, <1>2, <2>1, <2>2
    <3> HIDE DEF x, y
    <3>2. items[k].index = x /\ items[k].of = y /\ items[k] \in I
      BY <3>1
    <3> QED BY <3>2 DEF x, y
  <2> QED BY <2>3
<1>t. \A k \in 1..n : Turn(Turn(k)) = k
  BY <1>1
<1> HIDE DEF Turn
<1>5. items \in Seq(I) /\ DOMAIN items = 1..n
  BY <1>1, <1>3, <1>4
<1>6. Permutation(items) <=> \A k \in DOMAIN u : u[k].index = k
  <2> DEFINE A(x) == \A k \in DOMAIN x : x[k].index = k
             s0 == Sorted(items)
  <2>1. Permutation(items) <=> CHOOSE r \in {A(x) : x \in {s0}} : TRUE
    BY DEF Permutation, With
  <2>2. (CHOOSE r \in {A(x) : x \in {s0}} : TRUE) = A(s0)
    <3> HIDE DEF A, s0
    <3> QED OBVIOUS
  <2>3. s0 = u
    BY DEF Sorted
  <2> QED BY <2>1, <2>2, <2>3
<1>7. Restored(items) = [k \in DOMAIN u |-> u[k].of]
  <2> DEFINE A(x) == [k \in DOMAIN x |-> x[k].of]
             s0 == Sorted(items)
  <2>1. Restored(items) = CHOOSE r \in {A(x) : x \in {s0}} : TRUE
    BY DEF Restored, With
  <2>2. (CHOOSE r \in {A(x) : x \in {s0}} : TRUE) = A(s0)
    <3> HIDE DEF A, s0
    <3> QED OBVIOUS
  <2>3. s0 = u
    BY DEF Sorted
  <2> QED BY <2>1, <2>2, <2>3
<1> HIDE DEF items, I, n
<1>8. key \in [DOMAIN items -> Int]
  <2>1. \A k \in DOMAIN items : items[k].index \in Nat
    BY <1>4, <1>5 DEF I
  <2> QED BY <2>1
<1> HIDE DEF key
<1>9. DOMAIN u = 1..n /\ \E at : Downs(at, items, key) /\ \A k \in DOMAIN items : u[k] = items[at[k]]
  BY <1>5, <1>8, Sorts
<1>10. PICK at : (\A k \in 1..n : at[k] \in 1..n) /\ \A k \in 1..n : u[k] = items[at[k]]
  BY <1>5, <1>9 DEF Downs
<1> HIDE DEF u
<1>11. \A k \in 1..n : u[k].index = k
  BY <1>6, <1>9 DEF items
<1>12. ASSUME NEW k \in 1..n PROVE u[k].of = s[k]
  <2>1. at[k] \in 1..n /\ u[k] = items[at[k]] /\ items[at[k]].index = k
    BY <1>10, <1>11
  <2>2. CASE order = "garbled"
    <3>1. k = 1 /\ n \in 1..n /\ u[n].index = 1
      BY <1>1, <1>4, <1>10, <2>1, <2>2
    <3>2. n = 1
      BY <1>11, <3>1
    <3>3. at[k] = 1 /\ Turn(1) = 1
      BY <1>2, <2>1, <3>2
    <3> QED BY <1>4, <2>1, <3>1, <3>3
  <2>3. CASE order # "garbled"
    <3>1. Turn(at[k]) = k /\ items[at[k]].of = s[Turn(at[k])]
      BY <1>4, <2>1, <2>3
    <3> QED BY <2>1, <3>1
  <2> QED BY <2>2, <2>3
<1>13. Restored(items) = s
  <2>1. Restored(items) = [k \in 1..n |-> s[k]]
    BY <1>7, <1>9, <1>12
  <2> QED BY <1>1, <2>1
<1>14. \A k \in 1..n : \E j \in 1..n : items[j].of = s[k]
  <2>1. \A k \in 1..n : Turn(k) \in 1..n /\ items[Turn(k)].of = s[k]
    BY <1>2, <1>4, <1>t
  <2> QED BY <2>1
<1> QED BY <1>1, <1>5, <1>13, <1>14 DEF items

OfTheChunk == {pair \in VectorType \X ChunkName : pair[1].of = pair[2]}

(* The vectors of an answer that can be read are those of the texts, in     *)
(* their order.                                                             *)
LEMMA VectorsAre ==
  ASSUME NEW call \in CallType, NEW answer \in Answers(call), Readable(answer)
  PROVE  /\ Vectors(answer) \in Seq(VectorType) /\ TextsOf(call) \in Seq(ChunkName)
         /\ Ofs(Vectors(answer)) = TextsOf(call)
<1> DEFINE gs == call.groups
           n == Len(gs)
           One(g) == [k \in DOMAIN gs[g] |-> [of |-> gs[g][k], with |-> gs[g]]]
<1>1. gs \in Seq(OneDoc) /\ n \in Nat /\ DOMAIN gs = 1..n
  BY DEF CallType
<1>2. PICK order \in {"kept", "reversed", "garbled"} : answer = Answer(call, order)
  BY DEF Answers
<1> DEFINE S == [g \in 1..n |-> Items(One(g), order)]
           V == [g \in 1..n |-> One(g)]
<1>3. answer = Items(S, order)
  BY <1>1, <1>2 DEF Answer
<1> HIDE DEF gs, n
<1>4. ASSUME NEW g \in 1..n
      PROVE  /\ One(g) \in Seq(VectorType) /\ gs[g] \in Seq(ChunkName)
             /\ Along(One(g), gs[g], OfTheChunk)
  <2>1. gs[g] \in OneDoc
    BY <1>1, ElementOfSeq
  <2>2. /\ gs[g] \in Seq(ChunkName) /\ DOMAIN gs[g] = 1..Len(gs[g]) /\ Len(gs[g]) \in Nat
        /\ \A i, j \in DOMAIN gs[g] : gs[g][i][1] = gs[g][j][1]
    BY <2>1 DEF OneDoc
  <2>3. \A k \in DOMAIN gs[g] : gs[g][k] \in ChunkName
    BY <2>2, ElementOfSeq
  <2>4. \A k \in DOMAIN gs[g] : \A c \in Range(gs[g]) : c[1] = gs[g][k][1]
    BY <2>2 DEF Range
  <2> DEFINE v(k) == [of |-> gs[g][k], with |-> gs[g]]
  <2>5. \A k \in DOMAIN gs[g] : /\ v(k) \in VectorType /\ v(k).of = gs[g][k]
                                /\ <<v(k), gs[g][k]>> \in OfTheChunk
    BY <2>1, <2>3, <2>4 DEF VectorType, OfTheChunk
  <2>6. One(g) = [k \in 1..Len(gs[g]) |-> v(k)]
    BY <2>2
  <2> HIDE DEF v
  <2>7. One(g) \in Seq(VectorType) /\ Len(One(g)) = Len(gs[g]) /\ \A k \in 1..Len(gs[g]) : One(g)[k] = v(k)
    <3> DEFINE m == Len(gs[g])
    <3>1. m \in Nat /\ One(g) = [k \in 1..m |-> v(k)] /\ \A k \in 1..m : v(k) \in VectorType
      BY <2>2, <2>5, <2>6
    <3> HIDE DEF m
    <3>2. One(g) \in Seq(VectorType) /\ Len(One(g)) = m /\ \A k \in 1..m : One(g)[k] = v(k)
      BY <3>1
    <3> QED BY <3>2 DEF m
  <2> QED BY <2>2, <2>5, <2>7 DEF Along
<1> HIDE DEF One
<1>5. /\ S \in Seq({Items(One(g), order) : g \in 1..n}) /\ DOMAIN S = 1..n
      /\ \A g \in 1..n : S[g] = Items(One(g), order)
  BY <1>1
<1>6. V \in Seq(Seq(VectorType)) /\ Len(V) = n /\ \A g \in 1..n : V[g] = One(g)
  BY <1>1, <1>4
<1> HIDE DEF S, V
<1>7. Permutation(answer) /\ \A g \in DOMAIN answer : Permutation(answer[g].of)
  BY DEF Readable
<1>8. /\ Restored(answer) = S /\ DOMAIN answer = 1..n
      /\ \A g \in 1..n : \E j \in 1..n : answer[j].of = S[g]
  <2> DEFINE U == {Items(One(g), order) : g \in 1..n}
  <2>1. S \in Seq(U) /\ Permutation(Items(S, order))
    BY <1>3, <1>5, <1>7
  <2> HIDE DEF U
  <2>2. /\ Restored(Items(S, order)) = S /\ DOMAIN Items(S, order) = DOMAIN S
        /\ \A g \in DOMAIN S : \E j \in DOMAIN S : Items(S, order)[j].of = S[g]
    BY <2>1, ItemsRestored
  <2> QED BY <1>3, <1>5, <2>2
<1>9. ASSUME NEW g \in 1..n PROVE Restored(S[g]) = One(g)
  <2>1. Permutation(S[g])
    BY <1>7, <1>8
  <2> QED BY <1>4, <1>5, <2>1, ItemsRestored
<1>10. Vectors(answer) = FlattenSeq(V)
  <2> DEFINE A(x) == FlattenSeq([g \in DOMAIN x |-> Restored(x[g])])
             s0 == Restored(answer)
  <2>1. Vectors(answer) = CHOOSE r \in {A(x) : x \in {s0}} : TRUE
    BY DEF Vectors, With
  <2>2. (CHOOSE r \in {A(x) : x \in {s0}} : TRUE) = A(s0)
    <3> HIDE DEF A, s0
    <3> QED OBVIOUS
  <2>3. A(s0) = FlattenSeq([g \in 1..n |-> Restored(S[g])])
    BY <1>5, <1>8
  <2>4. [g \in 1..n |-> Restored(S[g])] = V
    BY <1>9 DEF V
  <2> QED BY <2>1, <2>2, <2>3, <2>4
<1>11. gs \in Seq(Seq(ChunkName))
  <2>1. OneDoc \subseteq Seq(ChunkName)
    BY DEF OneDoc
  <2> QED BY <1>1, <2>1, SeqMonotonic
<1>12. \A k \in 1..Len(V) : Along(V[k], gs[k], OfTheChunk)
  BY <1>4, <1>6
<1>13. Along(FlattenSeq(V), FlattenSeq(gs), OfTheChunk)
  BY <1>6, <1>11, <1>12, FlatAlong DEF n
<1>14. FlattenSeq(V) \in Seq(VectorType) /\ FlattenSeq(gs) \in Seq(ChunkName)
  BY <1>6, <1>11, FlatType
<1> DEFINE F == FlattenSeq(V)
           G == FlattenSeq(gs)
<1>15. Ofs(F) = G
  <2> HIDE DEF F, G
  <2>1. /\ DOMAIN F = 1..Len(F) /\ DOMAIN G = 1..Len(G) /\ Len(F) = Len(G)
        /\ \A k \in 1..Len(F) : F[k].of = G[k]
    <3>1. F \in Seq(VectorType) /\ G \in Seq(ChunkName) /\ Along(F, G, OfTheChunk)
      BY <1>13, <1>14 DEF F, G
    <3>2. DOMAIN F = 1..Len(F) /\ DOMAIN G = 1..Len(G)
      BY <3>1
    <3> QED BY <3>1, <3>2 DEF Along, OfTheChunk
  <2>2. G = [k \in DOMAIN G |-> G[k]]
    BY <1>14 DEF G
  <2> QED BY <2>1, <2>2 DEF Ofs
<1> QED BY <1>10, <1>14, <1>15 DEF TextsOf, gs

(* The texts of a call are chunks.                                          *)
LEMMA CallTexts ==
  ASSUME NEW c \in CallType
  PROVE  c.groups \in Seq(Seq(ChunkName)) /\ TextsOf(c) \in Seq(ChunkName)
<1>1. OneDoc \subseteq Seq(ChunkName)
  BY DEF OneDoc
<1>2. c.groups \in Seq(Seq(ChunkName))
  BY <1>1, SeqMonotonic DEF CallType
<1> QED BY <1>2, FlatType DEF TextsOf

(* So are those of all calls; the first call's come first.                  *)
LEMMA TextsAre ==
  ASSUME NEW cs \in Seq(CallType)
  PROVE  /\ [k \in DOMAIN cs |-> TextsOf(cs[k])] \in Seq(Seq(ChunkName))
         /\ Texts(cs) \in Seq(ChunkName)
         /\ cs # <<>> => /\ Head(cs) \in CallType /\ Tail(cs) \in Seq(CallType)
                         /\ Texts(cs) = TextsOf(Head(cs)) \o Texts(Tail(cs))
<1> DEFINE T(q) == [k \in DOMAIN q |-> TextsOf(q[k])]
<1>1. ASSUME NEW q \in Seq(CallType)
      PROVE  /\ T(q) \in Seq(Seq(ChunkName)) /\ Len(T(q)) = Len(q)
             /\ \A k \in 1..Len(q) : T(q)[k] = TextsOf(q[k])
  <2>1. DOMAIN q = 1..Len(q) /\ Len(q) \in Nat /\ \A k \in 1..Len(q) : TextsOf(q[k]) \in Seq(ChunkName)
    BY CallTexts, ElementOfSeq
  <2> QED BY <2>1
<1> HIDE DEF T
<1>2. FlattenSeq(T(cs)) \in Seq(ChunkName)
  BY <1>1, FlatType
<1>3. ASSUME cs # <<>>
      PROVE  /\ Head(cs) \in CallType /\ Tail(cs) \in Seq(CallType)
             /\ Texts(cs) = TextsOf(Head(cs)) \o Texts(Tail(cs))
  <2> DEFINE t == Tail(cs)
             h == Head(cs)
  <2>1. /\ h \in CallType /\ t \in Seq(CallType) /\ h = cs[1] /\ Len(cs) \in Nat \ {0}
        /\ Len(t) = Len(cs) - 1 /\ \A k \in 1..Len(t) : t[k] = cs[k + 1]
    BY <1>3, HeadTailProperties
  <2>2. T(cs) # <<>>
    <3>1. T(cs) \in Seq(Seq(ChunkName)) /\ Len(T(cs)) # 0
      BY <1>1, <2>1
    <3> QED BY <3>1
  <2> DEFINE u == Tail(T(cs))
  <2>3. /\ Head(T(cs)) = T(cs)[1] /\ u \in Seq(Seq(ChunkName)) /\ Len(u) = Len(T(cs)) - 1
        /\ \A k \in 1..Len(u) : u[k] = T(cs)[k + 1]
    BY <1>1, <2>2, HeadTailProperties
  <2> HIDE DEF t, h, u
  <2>4. u = T(t)
    <3>1. T(t) \in Seq(Seq(ChunkName)) /\ Len(u) = Len(t) /\ Len(T(t)) = Len(t)
      BY <1>1, <2>1, <2>3
    <3>2. ASSUME NEW k \in 1..Len(t) PROVE u[k] = T(t)[k]
      <4>1. k + 1 \in 1..Len(cs) /\ k \in 1..Len(u)
        BY <2>1, <3>1
      <4>2. u[k] = T(cs)[k + 1] /\ t[k] = cs[k + 1]
        BY <2>1, <2>3, <4>1
      <4>3. T(cs)[k + 1] = TextsOf(cs[k + 1]) /\ T(t)[k] = TextsOf(t[k])
        BY <1>1, <2>1, <4>1
      <4> QED BY <4>2, <4>3
    <3> QED BY <2>3, <3>1, <3>2, SeqEqual
  <2>5. FlattenSeq(T(cs)) = Head(T(cs)) \o FlattenSeq(u)
    BY <1>1, <2>2, FlatHead DEF u
  <2>6. Head(T(cs)) = TextsOf(h)
    <3>1. 1 \in 1..Len(cs)
      BY <2>1
    <3>2. T(cs)[1] = TextsOf(cs[1])
      BY <1>1, <3>1
    <3> QED BY <2>1, <2>3, <3>2
  <2> QED BY <2>1, <2>4, <2>5, <2>6 DEF Texts, T, h, t
<1> QED BY <1>1, <1>2, <1>3 DEF Texts, T

(* The texts of calls in a row.                                             *)
LEMMA TextsConcat ==
  ASSUME NEW a \in Seq(CallType), NEW b \in Seq(CallType)
  PROVE  a \o b \in Seq(CallType) /\ Texts(a \o b) = Texts(a) \o Texts(b)
<1> DEFINE T(q) == [k \in DOMAIN q |-> TextsOf(q[k])]
           c == a \o b
<1>1. ASSUME NEW q \in Seq(CallType)
      PROVE  /\ T(q) \in Seq(Seq(ChunkName)) /\ Len(T(q)) = Len(q)
             /\ \A k \in 1..Len(q) : T(q)[k] = TextsOf(q[k])
  <2>1. DOMAIN q = 1..Len(q) /\ Len(q) \in Nat
    OBVIOUS
  <2>2. T(q) \in Seq(Seq(ChunkName))
    BY TextsAre
  <2> QED BY <2>1, <2>2
<1> HIDE DEF T
<1>2. /\ c \in Seq(CallType) /\ Len(c) = Len(a) + Len(b) /\ Len(a) \in Nat /\ Len(b) \in Nat
      /\ \A k \in 1..Len(a) : c[k] = a[k]
      /\ \A k \in 1..Len(b) : c[Len(a) + k] = b[k]
  BY ConcatProperties
<1> HIDE DEF c
<1> DEFINE d == T(a) \o T(b)
<1>3. /\ d \in Seq(Seq(ChunkName)) /\ Len(d) = Len(a) + Len(b)
      /\ \A k \in 1..Len(a) : d[k] = T(a)[k]
      /\ \A k \in 1..Len(b) : d[Len(a) + k] = T(b)[k]
  <2>1. T(a) \in Seq(Seq(ChunkName)) /\ T(b) \in Seq(Seq(ChunkName)) /\ Len(T(a)) = Len(a) /\ Len(T(b)) = Len(b)
    BY <1>1
  <2> DEFINE x == T(a)
             y == T(b)
  <2> HIDE DEF x, y
  <2>2. x \in Seq(Seq(ChunkName)) /\ y \in Seq(Seq(ChunkName))
    BY <2>1 DEF x, y
  <2>3. /\ x \o y \in Seq(Seq(ChunkName)) /\ Len(x \o y) = Len(x) + Len(y)
        /\ \A k \in 1..Len(x) : (x \o y)[k] = x[k]
        /\ \A k \in 1..Len(y) : (x \o y)[Len(x) + k] = y[k]
    BY <2>2, ConcatProperties
  <2> QED BY <2>1, <2>3 DEF x, y
<1> HIDE DEF d
<1>4. T(c) = d
  <2>1. T(c) \in Seq(Seq(ChunkName)) /\ Len(T(c)) = Len(d)
    BY <1>1, <1>2, <1>3
  <2>2. ASSUME NEW k \in 1..Len(d) PROVE T(c)[k] = d[k]
    <3>1. CASE k \in 1..Len(a)
      <4>1. k \in 1..Len(c)
        BY <1>2, <3>1
      <4>2. c[k] = a[k] /\ d[k] = T(a)[k]
        BY <1>2, <1>3, <3>1
      <4>3. T(c)[k] = TextsOf(c[k]) /\ T(a)[k] = TextsOf(a[k])
        BY <1>1, <1>2, <3>1, <4>1
      <4> QED BY <4>2, <4>3
    <3>2. CASE k \notin 1..Len(a)
      <4> DEFINE j == k - Len(a)
      <4>1. j \in 1..Len(b) /\ k = Len(a) + j /\ k \in 1..Len(c)
        BY <1>2, <1>3, <3>2
      <4> HIDE DEF j
      <4>2. c[k] = b[j] /\ d[k] = T(b)[j]
        BY <1>2, <1>3, <4>1
      <4> QED BY <1>1, <1>2, <4>1, <4>2
    <3> QED BY <3>1, <3>2
  <2> QED BY <1>3, <2>1, <2>2, SeqEqual
<1>5. FlattenSeq(T(a) \o T(b)) = FlattenSeq(T(a)) \o FlattenSeq(T(b))
  BY <1>1, FlatConcat
<1> QED BY <1>2, <1>4, <1>5 DEF Texts, T, c, d

(* A piece of a group is one.                                               *)
LEMMA OneDocPart ==
  ASSUME NEW g \in OneDoc, NEW i \in Int, NEW j \in Int, 1 <= i, j <= Len(g)
  PROVE  SubSeq(g, i, j) \in OneDoc
<1> DEFINE q == SubSeq(g, i, j)
<1>1. g \in Seq(ChunkName) /\ DOMAIN g = 1..Len(g) /\ Len(g) \in Nat
  BY DEF OneDoc
<1>2. /\ q \in Seq(ChunkName) /\ DOMAIN q = 1..Len(q)
      /\ \A k \in 1..Len(q) : k + i - 1 \in 1..Len(g) /\ q[k] = g[k + i - 1]
  <2>1. \A k \in i..j : g[k] \in ChunkName
    BY <1>1, ElementOfSeq
  <2>2. q \in Seq(ChunkName) /\ Len(q) = IF i <= j THEN j - i + 1 ELSE 0
    BY <2>1, SubSeqProperties
  <2>3. DOMAIN q = 1..Len(q)
    BY <2>2
  <2>4. \A k \in 1..Len(q) : k + i - 1 \in 1..Len(g) /\ q[k] = g[k + i - 1]
    <3>1. ASSUME NEW k \in 1..Len(q) PROVE k + i - 1 \in 1..Len(g) /\ q[k] = g[k + i - 1]
      <4>1. i <= j /\ k \in 1..(j - i + 1)
        BY <2>2
      <4> QED BY <1>1, <4>1
    <3> QED BY <3>1
  <2> QED BY <2>2, <2>3, <2>4
<1> HIDE DEF q
<1>3. ASSUME NEW k \in DOMAIN q, NEW l \in DOMAIN q PROVE q[k][1] = q[l][1]
  <2>1. \A x, y \in DOMAIN g : g[x][1] = g[y][1]
    BY DEF OneDoc
  <2>2. /\ k + i - 1 \in DOMAIN g /\ l + i - 1 \in DOMAIN g
        /\ q[k] = g[k + i - 1] /\ q[l] = g[l + i - 1]
    BY <1>1, <1>2
  <2> QED BY <2>1, <2>2
<1> QED BY <1>2, <1>3 DEF OneDoc, q

(* A rejected request is replaced by smaller ones for the same texts.       *)
LEMMA SmallerIs ==
  ASSUME NEW call \in CallType
  PROVE  Smaller(call) \in Seq(CallType) /\ Texts(Smaller(call)) = TextsOf(call)
<1>1. call.groups \in Seq(OneDoc) /\ call.alone \in BOOLEAN /\ (call.alone => Len(call.groups) = 1)
  BY DEF CallType
<1>2. ASSUME NEW g \in OneDoc
      PROVE  /\ AloneCall(g) \in CallType /\ g \in Seq(ChunkName) /\ TextsOf(AloneCall(g)) = g
  <2>1. g \in Seq(ChunkName)
    BY DEF OneDoc
  <2>2. FlattenSeq(<<g>>) = g
    BY <2>1, FlatOne
  <2>3. AloneCall(g) = [groups |-> <<g>>, alone |-> TRUE]
    BY DEF AloneCall
  <2>4. <<g>> \in Seq(OneDoc) /\ Len(<<g>>) = 1
    OBVIOUS
  <2>5. AloneCall(g) \in CallType /\ AloneCall(g).groups = <<g>>
    BY <2>3, <2>4 DEF CallType
  <2> QED BY <2>1, <2>2, <2>5 DEF TextsOf
<1>3. CASE call.alone
  <2> DEFINE g == call.groups[1]
             mid == Len(g) \div 2
             x == SubSeq(g, 1, mid)
             y == SubSeq(g, mid + 1, Len(g))
             cs == <<AloneCall(x), AloneCall(y)>>
  <2>1. g \in OneDoc /\ call.groups = <<g>>
    <3>1. Len(call.groups) = 1 /\ call.groups \in Seq(OneDoc)
      BY <1>1, <1>3
    <3> HIDE DEF g
    <3>2. call.groups[1] \in OneDoc
      BY <3>1, ElementOfSeq
    <3>3. call.groups = <<call.groups[1]>>
      BY <3>1
    <3> QED BY <3>2, <3>3 DEF g
  <2>2. Smaller(call) = cs
    BY <1>3 DEF Smaller, Halves
  <2> HIDE DEF g
  <2>3. g \in Seq(ChunkName) /\ Len(g) \in Nat /\ mid \in Nat /\ mid <= Len(g)
    <3>1. g \in Seq(ChunkName) /\ Len(g) \in Nat
      BY <2>1 DEF OneDoc
    <3> QED BY <3>1
  <2> HIDE DEF mid
  <2>4. x \in OneDoc /\ y \in OneDoc
    <3>1. /\ 1 \in Int /\ mid \in Int /\ mid + 1 \in Int /\ Len(g) \in Int
          /\ 1 <= 1 /\ 1 <= mid + 1 /\ mid <= Len(g) /\ Len(g) <= Len(g)
      BY <2>3
    <3> QED BY <2>1, <3>1, OneDocPart
  <2>5. x \o y = g
    <3>1. SubSeq(g, 1, mid) \o SubSeq(g, mid + 1, Len(g)) = SubSeq(g, 1, Len(g))
      <4>1. 1 \in 1..(Len(g) + 1) /\ mid \in (1 - 1)..Len(g) /\ Len(g) \in mid..Len(g)
        BY <2>3
      <4> QED BY <2>3, <4>1, ConcatAdjacentSubSeq
    <3> QED BY <2>3, <3>1, SubSeqFull
  <2> HIDE DEF x, y
  <2> DEFINE a == AloneCall(x)
             b == AloneCall(y)
  <2>6. a \in CallType /\ b \in CallType /\ TextsOf(a) = x /\ TextsOf(b) = y
    BY <1>2, <2>4
  <2> HIDE DEF a, b
  <2>7. \A c \in CallType : <<c>> \in Seq(CallType) /\ Texts(<<c>>) = TextsOf(c)
    <3>1. ASSUME NEW c \in CallType PROVE <<c>> \in Seq(CallType) /\ Texts(<<c>>) = TextsOf(c)
      <4>1. [k \in DOMAIN <<c>> |-> TextsOf(<<c>>[k])] = <<TextsOf(c)>>
        OBVIOUS
      <4>2. FlattenSeq(<<TextsOf(c)>>) = TextsOf(c)
        BY CallTexts, FlatOne
      <4> QED BY <4>1, <4>2 DEF Texts
    <3> QED BY <3>1
  <2>8. cs = <<a>> \o <<b>>
    BY DEF a, b
  <2>9. cs \in Seq(CallType) /\ Texts(cs) = x \o y
    BY <2>6, <2>7, <2>8, TextsConcat
  <2>10. TextsOf(call) = g
    <3>1. FlattenSeq(<<g>>) = g
      BY <2>3, FlatOne
    <3> QED BY <2>1, <3>1 DEF TextsOf
  <2> QED BY <2>2, <2>5, <2>9, <2>10
<1>4. CASE ~call.alone
  <2> DEFINE gs == call.groups
             n == Len(gs)
             cs == [g \in DOMAIN gs |-> AloneCall(gs[g])]
  <2>1. Smaller(call) = cs
    BY <1>4 DEF Smaller
  <2>2. DOMAIN gs = 1..n /\ n \in Nat /\ \A g \in 1..n : gs[g] \in OneDoc
    BY <1>1, ElementOfSeq
  <2>3. \A g \in 1..n : cs[g] = AloneCall(gs[g]) /\ cs[g] \in CallType /\ TextsOf(cs[g]) = gs[g]
    BY <1>2, <2>2
  <2>4. cs \in Seq(CallType) /\ DOMAIN cs = DOMAIN gs
    <3>1. cs \in [1..n -> CallType]
      BY <2>2, <2>3
    <3> HIDE DEF cs
    <3> QED BY <2>2, <3>1
  <2> HIDE DEF cs
  <2>5. [g \in DOMAIN cs |-> TextsOf(cs[g])] = gs
    <3>1. [g \in DOMAIN cs |-> TextsOf(cs[g])] = [g \in DOMAIN gs |-> gs[g]]
      BY <2>2, <2>3, <2>4
    <3>2. gs = [g \in DOMAIN gs |-> gs[g]]
      BY <1>1
    <3> QED BY <3>1, <3>2
  <2> QED BY <2>1, <2>4, <2>5 DEF Texts, TextsOf
<1> QED BY <1>1, <1>3, <1>4

(* Requests for groups, and for texts.                                      *)
LEMMA GeneralCalls ==
  ASSUME NEW r \in Seq(Seq(OneDoc))
  PROVE  /\ [k \in DOMAIN r |-> GeneralCall(r[k])] \in Seq(CallType)
         /\ Texts([k \in DOMAIN r |-> GeneralCall(r[k])]) = FlattenSeq(FlattenSeq(r))
<1> DEFINE cs == [k \in DOMAIN r |-> GeneralCall(r[k])]
           n == Len(r)
<1>1. DOMAIN r = 1..n /\ n \in Nat /\ \A k \in 1..n : r[k] \in Seq(OneDoc)
  BY ElementOfSeq
<1>2. \A k \in 1..n : cs[k] \in CallType /\ TextsOf(cs[k]) = FlattenSeq(r[k])
  <2>1. ASSUME NEW k \in 1..n PROVE cs[k] \in CallType /\ TextsOf(cs[k]) = FlattenSeq(r[k])
    <3>1. cs[k] = [groups |-> r[k], alone |-> FALSE]
      BY <1>1 DEF GeneralCall
    <3> HIDE DEF cs
    <3> QED BY <1>1, <3>1 DEF CallType, TextsOf
  <2> QED BY <2>1
<1>3. cs \in Seq(CallType) /\ DOMAIN cs = DOMAIN r
  <2>1. cs \in [1..n -> CallType]
    BY <1>1, <1>2
  <2> HIDE DEF cs
  <2> QED BY <1>1, <2>1
<1> HIDE DEF cs
<1>4. [k \in DOMAIN cs |-> TextsOf(cs[k])] = Flats(r)
  BY <1>1, <1>2, <1>3 DEF Flats
<1>5. r \in Seq(Seq(Seq(ChunkName)))
  <2>1. OneDoc \subseteq Seq(ChunkName)
    BY DEF OneDoc
  <2>2. Seq(OneDoc) \subseteq Seq(Seq(ChunkName))
    BY <2>1, SeqMonotonic
  <2> QED BY <2>2, SeqMonotonic
<1>6. FlattenSeq(FlattenSeq(r)) = FlattenSeq(Flats(r))
  BY <1>5, FlatFlat
<1> QED BY <1>3, <1>4, <1>6 DEF Texts, cs

(* The code requests carry the texts planned for them, in order: cutting a  *)
(* batch into requests neither drops nor repeats a chunk.                   *)
LEMMA CodeCalls ==
  ASSUME NEW r \in Seq(Seq(ChunkName))
  PROVE  /\ [k \in DOMAIN r |-> FlatCall(r[k])] \in Seq(CallType)
         /\ Texts([k \in DOMAIN r |-> FlatCall(r[k])]) = FlattenSeq(r)
<1> DEFINE cs == [k \in DOMAIN r |-> FlatCall(r[k])]
           n == Len(r)
<1>1. DOMAIN r = 1..n /\ n \in Nat /\ \A k \in 1..n : r[k] \in Seq(ChunkName)
  BY ElementOfSeq
<1>2. \A k \in 1..n : cs[k] \in CallType /\ TextsOf(cs[k]) = r[k]
  <2>1. ASSUME NEW k \in 1..n PROVE cs[k] \in CallType /\ TextsOf(cs[k]) = r[k]
    <3> DEFINE gs == [j \in DOMAIN r[k] |-> <<r[k][j]>>]
    <3>1. cs[k] = [groups |-> gs, alone |-> FALSE]
      BY <1>1 DEF FlatCall
    <3>2. FlattenSeq(gs) = r[k]
      BY <1>1, FlatSingles
    <3>3. gs \in Seq(OneDoc)
      <4>1. ASSUME NEW c \in ChunkName PROVE <<c>> \in OneDoc
        BY DEF OneDoc
      <4>2. DOMAIN r[k] = 1..Len(r[k]) /\ Len(r[k]) \in Nat /\ \A j \in 1..Len(r[k]) : r[k][j] \in ChunkName
        BY <1>1, ElementOfSeq
      <4>3. gs \in [1..Len(r[k]) -> OneDoc]
        BY <4>1, <4>2
      <4> DEFINE m == Len(r[k])
      <4> HIDE DEF gs, m
      <4>4. m \in Nat /\ gs \in [1..m -> OneDoc]
        BY <4>2, <4>3 DEF m
      <4> QED BY <4>4
    <3> HIDE DEF cs, gs
    <3> QED BY <3>1, <3>2, <3>3 DEF CallType, TextsOf
  <2> QED BY <2>1
<1>3. cs \in Seq(CallType) /\ DOMAIN cs = DOMAIN r
  <2>1. cs \in [1..n -> CallType]
    BY <1>1, <1>2
  <2> HIDE DEF cs
  <2> QED BY <1>1, <2>1
<1> HIDE DEF cs
<1>4. [k \in DOMAIN cs |-> TextsOf(cs[k])] = r
  <2>1. r = [k \in DOMAIN r |-> r[k]]
    OBVIOUS
  <2>2. [k \in DOMAIN cs |-> TextsOf(cs[k])] = [k \in DOMAIN r |-> r[k]]
    BY <1>1, <1>2, <1>3
  <2> QED BY <2>1, <2>2
<1> QED BY <1>3, <1>4 DEF Texts, cs

-----------------------------------------------------------------------------
(* Names of chunks, and the vectors attached to their documents.            *)

NamesOf(D, d)   == [k \in DOMAIN D[d].chunks |-> <<d, k>>]
ListNames(D, b) == FlattenSeq([k \in DOMAIN b |-> NamesOf(D, b[k])])
CodeOf(D, b)    == Picked(b, {k \in DOMAIN b : D[b[k]].kind = "code"})
SizeOf(D, d)    == Len(D[d].chunks)

(* Documents with their chunks and the groups these are embedded in.        *)
DocsOK(D) ==
  /\ DOMAIN D = 1..Len(D) /\ Len(D) \in Nat
  /\ \A d \in DOMAIN D :
       /\ D[d].chunks \in Seq(ChunkType) /\ SizeOf(D, d) # 0
       /\ D[d].groups \in Seq(OneDoc) /\ FlattenSeq(D[d].groups) = NamesOf(D, d)

(* The names of the chunks of a document.                                   *)
LEMMA NamesAre ==
  ASSUME NEW D, DocsOK(D), NEW d \in DOMAIN D
  PROVE  /\ NamesOf(D, d) \in Seq(ChunkName) /\ DOMAIN NamesOf(D, d) = 1..SizeOf(D, d)
         /\ Len(NamesOf(D, d)) = SizeOf(D, d) /\ SizeOf(D, d) \in Nat \ {0}
         /\ \A k \in 1..SizeOf(D, d) : NamesOf(D, d)[k] = <<d, k>>
         /\ IsInjective(NamesOf(D, d))
<1>1. /\ DOMAIN D[d].chunks = 1..SizeOf(D, d) /\ SizeOf(D, d) \in Nat \ {0} /\ d \in Nat
  BY DEF DocsOK, SizeOf
<1> DEFINE q == NamesOf(D, d)
           n == SizeOf(D, d)
<1>2. q = [k \in 1..n |-> <<d, k>>]
  BY <1>1 DEF NamesOf
<1> HIDE DEF n, q
<1>3. \A k \in 1..n : <<d, k>> \in ChunkName
  BY <1>1 DEF ChunkName, n
<1>4. q \in Seq(ChunkName) /\ Len(q) = n /\ DOMAIN q = 1..n /\ \A k \in 1..n : q[k] = <<d, k>>
  <2>1. n \in Nat
    BY <1>1 DEF n
  <2> QED BY <1>2, <1>3, <2>1
<1>5. IsInjective(q)
  BY <1>4 DEF IsInjective
<1> QED BY <1>1, <1>4, <1>5 DEF n, q

(* And those of the documents of a list.                                    *)
LEMMA ListNamesAre ==
  ASSUME NEW D, DocsOK(D), NEW b \in Seq(DOMAIN D)
  PROVE  /\ [k \in DOMAIN b |-> NamesOf(D, b[k])] \in Seq(Seq(ChunkName))
         /\ ListNames(D, b) \in Seq(ChunkName)
<1> DEFINE s == [k \in DOMAIN b |-> NamesOf(D, b[k])]
<1>1. DOMAIN b = 1..Len(b) /\ Len(b) \in Nat /\ \A k \in 1..Len(b) : b[k] \in DOMAIN D
  BY ElementOfSeq
<1>2. \A k \in 1..Len(b) : NamesOf(D, b[k]) \in Seq(ChunkName)
  BY <1>1, NamesAre
<1>3. s \in Seq(Seq(ChunkName)) /\ DOMAIN s = DOMAIN b /\ \A k \in DOMAIN b : s[k] = NamesOf(D, b[k])
  BY <1>1, <1>2
<1>4. FlattenSeq(s) \in Seq(ChunkName)
  <2> HIDE DEF s
  <2> QED BY <1>3, FlatRange
<1> QED BY <1>3, <1>4 DEF ListNames

(* Each chunk of each, and once if the documents are listed once.           *)
LEMMA ListNamesOnce ==
  ASSUME NEW D, DocsOK(D), NEW b \in Seq(DOMAIN D)
  PROVE  /\ \A c : c \in Range(ListNames(D, b)) <=>
                     \E d \in Range(b) : \E k \in 1..SizeOf(D, d) : c = <<d, k>>
         /\ IsInjective(b) => IsInjective(ListNames(D, b))
<1> DEFINE s == [k \in DOMAIN b |-> NamesOf(D, b[k])]
<1>1. DOMAIN b = 1..Len(b) /\ Len(b) \in Nat /\ \A k \in 1..Len(b) : b[k] \in DOMAIN D
  BY ElementOfSeq
<1>2. \A k \in 1..Len(b) : NamesOf(D, b[k]) \in Seq(ChunkName)
  BY <1>1, NamesAre
<1>3. s \in Seq(Seq(ChunkName)) /\ DOMAIN s = DOMAIN b /\ \A k \in DOMAIN b : s[k] = NamesOf(D, b[k])
  BY <1>1, <1>2
<1> HIDE DEF s
<1>4. \A d \in DOMAIN D : \A c : c \in Range(NamesOf(D, d)) <=> \E k \in 1..SizeOf(D, d) : c = <<d, k>>
  BY NamesAre DEF Range
<1>5. /\ FlattenSeq(s) \in Seq(ChunkName)
      /\ \A c : c \in Range(FlattenSeq(s)) <=> \E k \in DOMAIN s : c \in Range(s[k])
  BY <1>3, FlatRange
<1>6. ASSUME NEW c
      PROVE  c \in Range(FlattenSeq(s)) <=> \E d \in Range(b) : \E k \in 1..SizeOf(D, d) : c = <<d, k>>
  <2>1. ASSUME NEW i \in DOMAIN s, c \in Range(s[i])
        PROVE  \E d \in Range(b) : \E k \in 1..SizeOf(D, d) : c = <<d, k>>
    <3>1. b[i] \in Range(b) /\ b[i] \in DOMAIN D /\ c \in Range(NamesOf(D, b[i]))
      BY <1>1, <1>3, <2>1 DEF Range
    <3> QED BY <1>4, <3>1
  <2>2. ASSUME NEW d \in Range(b), NEW k \in 1..SizeOf(D, d), c = <<d, k>>
        PROVE  \E i \in DOMAIN s : c \in Range(s[i])
    <3>1. PICK i \in DOMAIN b : d = b[i]
      BY DEF Range
    <3>2. c \in Range(NamesOf(D, b[i])) /\ i \in DOMAIN s
      BY <1>1, <1>3, <1>4, <2>2, <3>1
    <3> QED BY <1>3, <3>2
  <2> QED BY <1>5, <2>1, <2>2
<1>7. ASSUME IsInjective(b) PROVE IsInjective(FlattenSeq(s))
  <2>1. \A k \in DOMAIN s : IsInjective(s[k])
    BY <1>1, <1>3, NamesAre
  <2>2. ASSUME NEW k \in DOMAIN s, NEW l \in DOMAIN s, k # l PROVE Range(s[k]) \cap Range(s[l]) = {}
    <3>1. b[k] # b[l] /\ b[k] \in DOMAIN D /\ b[l] \in DOMAIN D
      BY <1>1, <1>3, <1>7, <2>2 DEF IsInjective
    <3> QED BY <1>3, <1>4, <3>1
  <2> QED BY <1>3, <2>1, <2>2, FlatInjective
<1> QED BY <1>6, <1>7 DEF ListNames, s

(* The vectors of a document: its own.                                      *)
OwnVectors(D, d, vs) ==
  /\ Len(vs) = SizeOf(D, d)
  /\ \A k \in DOMAIN vs : vs[k].of = <<d, k>> /\ \A c \in Range(vs[k].with) : c[1] = d

(* Vectors in the order of the chunks are given to their documents.         *)
LEMMA DistributeIs ==
  ASSUME DocsOK(docs), NEW b \in Seq(DOMAIN docs), IsInjective(b),
         NEW vs \in Seq(VectorType), Ofs(vs) = ListNames(docs, b),
         NEW old \in [DOMAIN docs -> Seq(VectorType)]
  PROVE  /\ Distribute(b, vs, old) \in [DOMAIN docs -> Seq(VectorType)]
         /\ \A d \in DOMAIN docs :
              IF d \in Range(b) THEN OwnVectors(docs, d, Distribute(b, vs, old)[d])
              ELSE Distribute(b, vs, old)[d] = old[d]
<1> DEFINE s == [k \in DOMAIN b |-> NamesOf(docs, b[k])]
           F == FlattenSeq(s)
           new == Distribute(b, vs, old)
           PlaceOf(d) == CHOOSE k \in DOMAIN b : b[k] = d
           Skip(d) == Total([k \in 1..(PlaceOf(d) - 1) |-> Len(ChunksOf(b[k]))])
           Part(d) == SubSeq(vs, Skip(d) + 1, Skip(d) + Len(ChunksOf(d)))
<1>1. /\ s \in Seq(Seq(ChunkName)) /\ F = ListNames(docs, b) /\ Ofs(vs) = F
      /\ DOMAIN b = 1..Len(b) /\ Len(b) \in Nat
  BY ListNamesAre DEF ListNames
<1>2. Len(s) = Len(b) /\ \A k \in 1..Len(b) : s[k] = NamesOf(docs, b[k]) /\ b[k] \in DOMAIN docs
  BY <1>1, ElementOfSeq
<1>3. new = [d \in DOMAIN docs |-> IF d \in Range(b) THEN Part(d) ELSE old[d]]
  <2>1. \A d : d \in Range(b) <=> \E k \in DOMAIN b : b[k] = d
    BY DEF Range
  <2>2. DOMAIN old = DOMAIN docs
    OBVIOUS
  <2> QED BY <2>1, <2>2 DEF Distribute
<1>4. Len(vs) = Len(F) /\ DOMAIN vs = 1..Len(vs) /\ Len(vs) \in Nat /\ \A p \in 1..Len(vs) : vs[p].of = F[p]
  <2>1. DOMAIN vs = 1..Len(vs) /\ Len(vs) \in Nat
    OBVIOUS
  <2>2. F = [k \in 1..Len(vs) |-> vs[k].of]
    BY <1>1, <2>1 DEF Ofs
  <2> HIDE DEF F
  <2> QED BY <2>1, <2>2
<1> HIDE DEF s, F
<1>5. ASSUME NEW d \in DOMAIN docs, d \in Range(b)
      PROVE  Part(d) \in Seq(VectorType) /\ OwnVectors(docs, d, Part(d))
  <2> DEFINE m == PlaceOf(d)
             skip == Skip(d)
             n == Len(ChunksOf(d))
  <2>1. m \in 1..Len(b) /\ b[m] = d
    <3>1. \E k \in DOMAIN b : b[k] = d
      BY <1>5 DEF Range
    <3> QED BY <1>1, <3>1
  <2> HIDE DEF m
  <2>2. n = SizeOf(docs, d) /\ n \in Nat \ {0} /\ s[m] = NamesOf(docs, d)
    BY <1>2, <2>1, NamesAre DEF ChunksOf, SizeOf
  <2>3. skip = SumFunction([k \in 1..(m - 1) |-> Len(s[k])])
    <3>1. \A k \in 1..(m - 1) : Len(s[k]) = Len(ChunksOf(b[k]))
      <4>1. ASSUME NEW k \in 1..(m - 1) PROVE Len(s[k]) = Len(ChunksOf(b[k]))
        <5>1. k \in 1..Len(b)
          BY <1>1, <2>1
        <5> QED BY <1>2, <5>1, NamesAre DEF ChunksOf, SizeOf
      <4> QED BY <4>1
    <3>2. [k \in 1..(m - 1) |-> Len(ChunksOf(b[k]))] = [k \in 1..(m - 1) |-> Len(s[k])]
      BY <3>1
    <3> QED BY <3>2 DEF Total, m
  <2> HIDE DEF n
  <2>4. Part(d) = SubSeq(vs, skip + 1, skip + n)
    BY DEF n
  <2> HIDE DEF skip
  <2>5. skip \in Nat /\ \A j \in 1..n : skip + j \in 1..Len(vs) /\ vs[skip + j].of = <<d, j>>
    <3>1. m \in 1..Len(s) /\ Len(s[m]) = n /\ \A j \in 1..n : s[m][j] = <<d, j>>
      BY <1>2, <2>1, <2>2, NamesAre
    <3>2. skip \in Nat /\ \A j \in 1..Len(s[m]) : skip + j \in 1..Len(F) /\ F[skip + j] = s[m][j]
      <4> DEFINE f == [k \in 1..(m - 1) |-> Len(s[k])]
      <4>1. skip = SumFunction(f)
        BY <2>3
      <4>2. LengthsTo(s, m, f)
        BY DEF LengthsTo
      <4>3. s \in Seq(Seq(ChunkName)) /\ m \in 1..Len(s)
        BY <1>1, <3>1
      <4> HIDE DEF f, Skip, Part, PlaceOf, new
      <4>4. LiesAt(s, m, SumFunction(f))
        BY <4>2, <4>3, FlatAt
      <4> QED BY <4>1, <4>4 DEF F, LiesAt
    <3> QED BY <1>4, <3>1, <3>2
  <2> DEFINE q == SubSeq(vs, skip + 1, skip + n)
  <2>6. q \in Seq(VectorType) /\ Len(q) = n /\ DOMAIN q = 1..n /\ \A j \in 1..n : q[j] = vs[skip + j]
    <3>1. skip + n \in 1..Len(vs) /\ n \in 1..n
      BY <2>2, <2>5
    <3>2. \A i \in (skip + 1)..(skip + n) : vs[i] \in VectorType
      BY <1>4, <2>5, <3>1, ElementOfSeq
    <3>3. q \in Seq(VectorType) /\ Len(q) = n
      BY <2>2, <2>5, <3>2, SubSeqProperties
    <3>4. DOMAIN q = 1..n
      <4> HIDE DEF q
      <4> QED BY <3>3
    <3>5. \A j \in 1..n : q[j] = vs[skip + j]
      BY <2>2, <2>5
    <3> QED BY <3>3, <3>4, <3>5
  <2> HIDE DEF q
  <2>7. ASSUME NEW j \in 1..n
        PROVE  q[j].of = <<d, j>> /\ \A c \in Range(q[j].with) : c[1] = d
    <3>1. q[j] \in VectorType /\ q[j].of = <<d, j>>
      BY <2>5, <2>6, ElementOfSeq
    <3>2. \A c \in Range(q[j].with) : c[1] = q[j].of[1]
      BY <3>1 DEF VectorType
    <3> QED BY <3>1, <3>2
  <2> QED BY <2>2, <2>4, <2>6, <2>7 DEF OwnVectors, q
<1> HIDE DEF Part, new
<1>6. \A d \in DOMAIN docs : new[d] = IF d \in Range(b) THEN Part(d) ELSE old[d]
  BY <1>3
<1>7. new \in [DOMAIN docs -> Seq(VectorType)]
  BY <1>3, <1>5
<1> QED BY <1>5, <1>6, <1>7 DEF new

(* The code documents of a batch, and their chunks.                         *)
LEMMA CodeOfIs ==
  ASSUME NEW D, DocsOK(D), NEW b \in Seq(DOMAIN D), IsInjective(b)
  PROVE  /\ CodeOf(D, b) \in Seq(DOMAIN D) /\ IsInjective(CodeOf(D, b))
         /\ \A d : d \in Range(CodeOf(D, b)) <=> d \in Range(b) /\ D[d].kind = "code"
<1> DEFINE P == {k \in DOMAIN b : D[b[k]].kind = "code"}
<1>1. P \in SUBSET DOMAIN b /\ CodeOf(D, b) = Picked(b, P)
  BY DEF CodeOf
<1>2. \A d : d \in {b[p] : p \in P} <=> d \in Range(b) /\ D[d].kind = "code"
  BY DEF Range
<1> HIDE DEF P
<1> QED BY <1>1, <1>2, PickedIs

-----------------------------------------------------------------------------
(* The inductive invariant of a run.                                        *)

\* The documents still to send, in order.
Waiting(p, b, ps, t) ==
  IF p = "done" THEN <<>>
  ELSE IF p \in {"embed", "code"} THEN b \o FlattenSeq(t)
  ELSE IF p = "upload" THEN FlattenSeq(ps) \o FlattenSeq(t)
  ELSE FlattenSeq(t)

\* T is divided between the documents stored, too large and waiting.
Parted(A, C, W, T) ==
  /\ IsInjective(A) /\ IsInjective(C) /\ IsInjective(W)
  /\ Range(A) \cap Range(C) = {} /\ Range(A) \cap Range(W) = {}
  /\ Range(C) \cap Range(W) = {}
  /\ Range(A) \cup Range(C) \cup Range(W) = T

StoredDocs(s) == [i \in DOMAIN s |-> s[i].doc]

PlanInv ==
  /\ run \in Runs /\ DocsOK(docs)
  /\ \A d \in DOMAIN docs : Tile(run.tree[docs[d].file].text, docs[d].chunks)
  /\ \A d, e \in DOMAIN docs : docs[d].file = docs[e].file => d = e
  /\ {docs[d].file : d \in DOMAIN docs} = New \cap Range(Found)
  /\ carried \in Seq(DOMAIN run.tree) /\ IsInjective(carried)
  /\ Range(carried) = Unchanged \cap Range(Found)

SkippedInv ==
  /\ skipped \in Seq(DOMAIN run.tree)
  /\ Range(skipped) = (Range(Found) \ Regular) \cup ((Empty \ Unchanged) \cap Range(Found))
       \cup (IF pc = "pack" THEN {} ELSE {docs[d].file : d \in Oversized})

StoredType(D) == [doc : DOMAIN D, general : Seq(VectorType), code : Seq(VectorType)]

TypesInv ==
  /\ pc \in {"pack", "next", "embed", "code", "upload", "done", "failed"}
  /\ todo \in Seq(Seq(DOMAIN docs)) /\ batch \in Seq(DOMAIN docs)
  /\ puts \in Seq(Seq(DOMAIN docs)) /\ conflicts \in Seq(DOMAIN docs)
  /\ calls \in Seq(CallType) /\ vectors \in Seq(VectorType)
  /\ stored \in Seq(StoredType(docs))
  /\ IF pc = "pack" THEN stored = <<>> /\ conflicts = <<>> /\ billed = <<>>
     ELSE /\ general \in [DOMAIN docs -> Seq(VectorType)]
          /\ code \in [DOMAIN docs -> Seq(VectorType)]
  /\ lost \in Nat

OnceInv ==
  pc # "pack" => \E W \in Seq(DOMAIN docs) :
    /\ Parted(StoredDocs(stored), conflicts, W, DOMAIN docs \ Oversized)
    /\ pc # "failed" => W = Waiting(pc, batch, puts, todo)

\* The vectors a document is stored with.
WithOwn(D, cd, d, g, c) ==
  /\ OwnVectors(D, d, g)
  /\ IF cd /\ D[d].kind = "code" THEN OwnVectors(D, d, c) ELSE c = <<>>

AttachedInv ==
  /\ pc = "embed" => Ofs(vectors) \o Texts(calls) = ListNames(docs, batch)
  /\ pc = "code" => coded /\ Ofs(vectors) \o Texts(calls) = ListNames(docs, CodeOf(docs, batch))
  /\ pc = "code" => \A d \in Range(batch) : OwnVectors(docs, d, general[d])
  /\ pc \in {"embed", "code"} => \A d \in Range(batch) : code[d] = <<>>
  /\ pc = "upload" =>
       /\ Range(FlattenSeq(puts)) \subseteq Range(batch)
       /\ \A d \in Range(batch) : WithOwn(docs, coded, d, general[d], code[d])
  /\ pc # "pack" => \A d \in Range(FlattenSeq(todo)) : code[d] = <<>>

StoredInv ==
  \A i \in DOMAIN stored :
    WithOwn(docs, coded, stored[i].doc, stored[i].general, stored[i].code)

Ceiling(D, cd, d) == IF cd /\ D[d].kind = "code" THEN 2 ELSE 1

\* What the provider may have been paid for a chunk, beyond lost answers.
PaidInv ==
  pc # "pack" =>
    /\ DOMAIN billed = DOMAIN docs
    /\ \A d \in DOMAIN docs :
         /\ DOMAIN billed[d] = 1..SizeOf(docs, d)
         /\ \A k \in 1..SizeOf(docs, d) :
              /\ billed[d][k] \in Nat
              /\ billed[d][k] <= lost + Ceiling(docs, coded, d)
              /\ d \in Range(FlattenSeq(todo)) => billed[d][k] <= lost
              /\ pc = "embed" /\ d \in Range(batch) =>
                   billed[d][k] <= lost + (IF <<d, k>> \in Range(Texts(calls)) THEN 0 ELSE 1)
              /\ pc = "code" /\ d \in Range(CodeOf(docs, batch)) =>
                   billed[d][k] <= lost + (IF <<d, k>> \in Range(Texts(calls)) THEN 1 ELSE 2)

Held == PlanInv /\ SkippedInv /\ TypesInv /\ OnceInv /\ AttachedInv /\ StoredInv /\ PaidInv

Refused == /\ pc = "failed" /\ docs = <<>> /\ carried = <<>> /\ skipped = <<>>
           /\ stored = <<>> /\ conflicts = <<>> /\ billed = <<>>

UploadsInv == Refused \/ Held

(* The names the model gives to these lists.                                *)
LEMMA NamesAlike ==
  /\ \A d : Ids(d) = NamesOf(docs, d)
  /\ \A b : AllIds(b) = ListNames(docs, b) /\ CodeDocs(b) = CodeOf(docs, b)
            /\ CodeIds(b) = ListNames(docs, CodeOf(docs, b))
<1>1. \A d : Ids(d) = NamesOf(docs, d)
  BY DEF Ids, NamesOf, ChunksOf
<1>2. \A b : AllIds(b) = ListNames(docs, b)
  BY DEF AllIds, ListNames, Ids, NamesOf, ChunksOf
<1>3. \A b : CodeDocs(b) = CodeOf(docs, b)
  BY DEF CodeDocs, CodeOf
<1> QED BY <1>1, <1>2, <1>3 DEF CodeIds

-----------------------------------------------------------------------------
(* The plan holds the invariant.                                            *)

(* The groups of a document hold its chunks in order.                       *)
LEMMA GroupsAre ==
  ASSUME NEW d \in Nat, NEW chunks \in Seq(ChunkType)
  PROVE  /\ Groups(d, chunks) \in Seq(OneDoc)
         /\ FlattenSeq(Groups(d, chunks)) = [k \in DOMAIN chunks |-> <<d, k>>]
<1> DEFINE names == [k \in DOMAIN chunks |-> <<d, k>>]
           counts == [k \in DOMAIN chunks |-> chunks[k].tokens]
           rs == BalancedGroups(counts, GroupLimit)
           g == Slices(names, rs)
<1>1. DOMAIN chunks = 1..Len(chunks) /\ Len(chunks) \in Nat
  OBVIOUS
<1>2. \A k \in 1..Len(chunks) : <<d, k>> \in ChunkName
  BY <1>1 DEF ChunkName
<1>3. names \in Seq(ChunkName) /\ Len(names) = Len(chunks)
  BY <1>1, <1>2
<1>4. Len(counts) = Len(chunks) /\ (counts = <<>> <=> Len(counts) = 0)
  BY <1>1
<1>5. \A k \in DOMAIN names : names[k][1] = d
  OBVIOUS
<1> HIDE DEF counts
<1>6. Covers(rs, 1, Len(counts))
  BY <1>1, <1>4, GroupsCover
<1> HIDE DEF rs, names
<1>7. g \in Seq(Seq(ChunkName)) /\ FlattenSeq(g) = names
  BY <1>3, <1>4, <1>6, SlicesFlat
<1> HIDE DEF g
<1>8. ASSUME NEW k \in DOMAIN g PROVE g[k] \in OneDoc
  <2>1. g[k] \in Seq(ChunkName)
    BY <1>7, ElementOfSeq
  <2>2. \A x \in Range(g[k]) : x \in Range(names)
    BY <1>7, FlatRange
  <2>3. \A i \in DOMAIN g[k] : g[k][i][1] = d
    BY <1>5, <2>2 DEF Range
  <2> QED BY <2>1, <2>3 DEF OneDoc
<1>9. g \in Seq(OneDoc)
  <2>1. DOMAIN g = 1..Len(g) /\ Len(g) \in Nat /\ g = [k \in 1..Len(g) |-> g[k]]
    BY <1>7
  <2> QED BY <1>8, <2>1, IsASeq
<1> QED BY <1>7, <1>9 DEF Groups, g, names, rs, counts

(* The new documents of a plan.                                             *)
LEMMA DocumentsAre ==
  ASSUME run \in Runs
  PROVE  LET new == Among(Walked, New)
         IN /\ Documents = [d \in 1..Len(new) |-> Planned(d, new[d])]
            /\ new \in Seq(DOMAIN run.tree) /\ Range(new) = New \cap Range(Found)
            /\ IsInjective(Walked) => IsInjective(new)
<1> DEFINE new == Among(Walked, New)
           M(n) == [d \in DOMAIN n |-> Planned(d, n[d])]
<1>1. new \in Seq(DOMAIN run.tree) /\ Range(new) = Range(Walked) \cap New
      /\ (IsInjective(Walked) => IsInjective(new))
  BY FoundIs, AmongIs
<1>2. Range(new) = New \cap Range(Found)
  BY <1>1, FoundIs DEF New
<1>3. Documents = M(new)
  <2> HIDE DEF M, new
  <2>1. (CHOOSE r \in {M(x) : x \in {new}} : TRUE) = M(new)
    OBVIOUS
  <2> QED BY <2>1 DEF Documents, With, M, new
<1>4. DOMAIN new = 1..Len(new)
  <2> HIDE DEF new
  <2> QED BY <1>1
<1> QED BY <1>1, <1>2, <1>3, <1>4

(* Each with its chunks, and these in groups.                               *)
LEMMA PlannedIs ==
  ASSUME run \in Runs, NEW d \in Nat, NEW f \in DOMAIN run.tree
  PROVE  LET p == Planned(d, f)
             chunks == Chunks(run.tree[f].kind, run.tree[f].text)
         IN /\ p.file = f /\ p.kind = run.tree[f].kind /\ p.chunks = chunks
            /\ p.groups \in Seq(OneDoc)
            /\ FlattenSeq(p.groups) = [k \in DOMAIN p.chunks |-> <<d, k>>]
            /\ p.chunks \in Seq(ChunkType) /\ Tile(run.tree[f].text, p.chunks)
<1> DEFINE chunks == Chunks(run.tree[f].kind, run.tree[f].text)
           M(c) == [file |-> f, kind |-> File(f).kind, dense |-> File(f).dense,
                    bulky |-> File(f).bulky, chunks |-> c, groups |-> Groups(d, c)]
<1>1. run.tree[f].text \in TextType
  BY RunIs
<1>2. chunks \in Seq(ChunkType) /\ Tile(run.tree[f].text, chunks)
  BY <1>1, ChunksTileText
<1> HIDE DEF chunks
<1>3. Planned(d, f) = M(chunks)
  <2> HIDE DEF M
  <2>1. (CHOOSE r \in {M(x) : x \in {chunks}} : TRUE) = M(chunks)
    OBVIOUS
  <2> QED BY <2>1 DEF Planned, With, M, chunks, File
<1>4. Groups(d, chunks) \in Seq(OneDoc)
      /\ FlattenSeq(Groups(d, chunks)) = [k \in DOMAIN chunks |-> <<d, k>>]
  BY <1>2, GroupsAre
<1> QED BY <1>2, <1>3, <1>4 DEF chunks, File

(* What is planned of a file of text is not empty.                          *)
LEMMA NewFiles ==
  New = {f \in DOMAIN run.tree : /\ f \in Regular /\ f \notin Unchanged
                                 /\ Chunks(run.tree[f].kind, run.tree[f].text) # <<>>}
  BY DEF New, Empty, Regular, File

(* What MakePlan plans holds the invariant of the plan.                     *)
LEMMA PlanMade ==
  ASSUME run \in Runs, MakePlan
  PROVE  PlanInv
<1> DEFINE new == Among(Walked, New)
<1>1. /\ docs = [d \in 1..Len(new) |-> Planned(d, new[d])]
      /\ new \in Seq(DOMAIN run.tree) /\ Range(new) = New \cap Range(Found)
      /\ IsInjective(new) /\ IsInjective(Walked)
  BY DocumentsAre DEF MakePlan
<1> HIDE DEF new
<1>2. DOMAIN new = 1..Len(new) /\ Len(new) \in Nat
  BY <1>1
<1>3. \A d \in 1..Len(new) : new[d] \in DOMAIN run.tree /\ new[d] \in New
  BY <1>1, <1>2 DEF Range
<1>4. ASSUME NEW d \in 1..Len(new)
      PROVE  /\ docs[d].file = new[d]
             /\ docs[d].chunks \in Seq(ChunkType) /\ SizeOf(docs, d) # 0
             /\ docs[d].groups \in Seq(OneDoc) /\ FlattenSeq(docs[d].groups) = NamesOf(docs, d)
             /\ Tile(run.tree[docs[d].file].text, docs[d].chunks)
  <2>1. docs[d] = Planned(d, new[d]) /\ new[d] \in DOMAIN run.tree /\ d \in Nat
    BY <1>1, <1>2, <1>3
  <2>2. /\ docs[d].file = new[d]
        /\ docs[d].chunks = Chunks(run.tree[new[d]].kind, run.tree[new[d]].text)
        /\ docs[d].groups \in Seq(OneDoc)
        /\ FlattenSeq(docs[d].groups) = [k \in DOMAIN docs[d].chunks |-> <<d, k>>]
        /\ docs[d].chunks \in Seq(ChunkType)
        /\ Tile(run.tree[new[d]].text, docs[d].chunks)
    BY <2>1, PlannedIs
  <2>3. docs[d].chunks # <<>>
    BY <1>3, <2>2, NewFiles
  <2>4. SizeOf(docs, d) # 0
    <3> DEFINE c == docs[d].chunks
    <3>1. c \in Seq(ChunkType) /\ c # <<>>
      BY <2>2, <2>3
    <3> HIDE DEF c
    <3>2. Len(c) # 0
      BY <3>1
    <3> QED BY <3>2 DEF c, SizeOf
  <2> QED BY <2>2, <2>4 DEF NamesOf
<1>5. DOMAIN docs = 1..Len(docs) /\ Len(docs) = Len(new)
  BY <1>1, <1>2
<1>6. DocsOK(docs)
  BY <1>2, <1>4, <1>5 DEF DocsOK
<1>7. \A d, e \in DOMAIN docs : docs[d].file = docs[e].file => d = e
  <2>1. \A d \in 1..Len(new) : docs[d].file = new[d]
    BY <1>4
  <2>2. \A d, e \in 1..Len(new) : new[d] = new[e] => d = e
    BY <1>1, <1>2 DEF IsInjective
  <2>3. DOMAIN docs = 1..Len(new)
    BY <1>5
  <2> QED BY <2>1, <2>2, <2>3
<1>8. {docs[d].file : d \in DOMAIN docs} = New \cap Range(Found)
  <2>1. {docs[d].file : d \in DOMAIN docs} = Range(new)
    BY <1>2, <1>4, <1>5 DEF Range
  <2> QED BY <1>1, <2>1
<1>9. /\ carried \in Seq(DOMAIN run.tree) /\ IsInjective(carried)
      /\ Range(carried) = Unchanged \cap Range(Found)
  <2>1. carried = Among(Walked, Unchanged)
    BY DEF MakePlan
  <2>2. Walked \in Seq(DOMAIN run.tree) /\ Range(Walked) = Range(Found) \cap Regular
    BY FoundIs
  <2>3. Unchanged \subseteq Regular
    BY DEF Unchanged
  <2> HIDE DEF MakePlan
  <2> QED BY <1>1, <2>1, <2>2, <2>3, AmongIs
<1> QED BY <1>4, <1>5, <1>6, <1>7, <1>8, <1>9 DEF PlanInv

(* And what it skips.                                                       *)
LEMMA SkippedMade ==
  ASSUME run \in Runs, MakePlan
  PROVE  SkippedInv
<1> DEFINE odd == Among(Found, DOMAIN run.tree \ Regular)
           empty == Among(Walked, Empty \ Unchanged)
<1>1. /\ Found \in Seq(DOMAIN run.tree)
      /\ Walked \in Seq(DOMAIN run.tree) /\ Range(Walked) = Range(Found) \cap Regular
  BY FoundIs
<1>2. (CHOOSE r \in {Among(x, DOMAIN run.tree \ Regular) : x \in {Found}} : TRUE) = odd
  <2> DEFINE A(x) == Among(x, DOMAIN run.tree \ Regular)
  <2> HIDE DEF A
  <2>1. (CHOOSE r \in {A(x) : x \in {Found}} : TRUE) = A(Found)
    OBVIOUS
  <2> QED BY <2>1 DEF A
<1>3. skipped = odd \o empty /\ pc = "pack"
  BY <1>2 DEF MakePlan, With
<1>4. /\ odd \in Seq(DOMAIN run.tree)
      /\ Range(odd) = Range(Found) \cap (DOMAIN run.tree \ Regular)
  BY <1>1, AmongIs
<1>5. /\ empty \in Seq(DOMAIN run.tree)
      /\ Range(empty) = Range(Walked) \cap (Empty \ Unchanged)
  BY <1>1, AmongIs
<1>6. Range(Found) \subseteq DOMAIN run.tree /\ Empty \subseteq Regular
  BY <1>1 DEF Range, Empty
<1> HIDE DEF odd, empty
<1>7. odd \o empty \in Seq(DOMAIN run.tree) /\ Range(odd \o empty) = Range(odd) \cup Range(empty)
  BY <1>4, <1>5, ConcatIs
<1> QED BY <1>1, <1>3, <1>4, <1>5, <1>6, <1>7 DEF SkippedInv

(* Any run starts refused or with a plan.                                   *)
LEMMA InitHeld ==
  ASSUME Init PROVE UploadsInv
<1>1. run \in Runs /\ (RefusePlan \/ MakePlan)
  BY DEF Init
<1>2. CASE RefusePlan
  BY <1>2 DEF RefusePlan, Init, UploadsInv, Refused
<1>3. CASE MakePlan
  <2>1. PlanInv /\ SkippedInv
    BY <1>1, <1>3, PlanMade, SkippedMade
  <2>2. pc = "pack"
    BY <1>3 DEF MakePlan
  <2>3. TypesInv
    BY <2>2 DEF Init, TypesInv
  <2>4. OnceInv /\ PaidInv
    BY <2>2 DEF OnceInv, PaidInv
  <2>5. AttachedInv /\ StoredInv
    BY <2>2 DEF AttachedInv, StoredInv, Init
  <2> QED BY <2>1, <2>3, <2>4, <2>5 DEF UploadsInv, Held
<1> QED BY <1>1, <1>2, <1>3

-----------------------------------------------------------------------------
(* The steps hold it.  The plan does not change.                            *)
LEMMA PlanKept ==
  ASSUME PlanInv, run' = run, docs' = docs, carried' = carried
  PROVE  PlanInv' /\ Oversized' = Oversized
<1>1. Found' = Found
  BY DEF Found
<1>2. Regular' = Regular
  BY DEF Regular, File
<1>3. Unchanged' = Unchanged /\ Empty' = Empty
  BY <1>2 DEF Unchanged, Empty, File
<1>4. New' = New
  BY <1>2, <1>3 DEF New
<1>5. PlanInv'
  BY <1>1, <1>3, <1>4 DEF PlanInv
<1>6. Oversized' = Oversized
  BY DEF Oversized, EstBytes, PerChunk, ChunksOf
<1> QED BY <1>5, <1>6

(* Nor, after it is packed, what is skipped.                                *)
LEMMA SkippedKept ==
  ASSUME PlanInv, SkippedInv, run' = run, docs' = docs, carried' = carried,
         skipped' = skipped, pc # "pack", pc' # "pack"
  PROVE  SkippedInv'
<1>1. Found' = Found
  BY DEF Found
<1>2. Regular' = Regular
  BY DEF Regular, File
<1>3. Unchanged' = Unchanged /\ Empty' = Empty
  BY <1>2 DEF Unchanged, Empty, File
<1>4. Oversized' = Oversized
  BY PlanKept
<1> QED BY <1>1, <1>2, <1>3, <1>4 DEF SkippedInv

(* Where every chunk has been counted, and what is still to be.             *)
LEMMA OversizedIs ==
  Oversized \subseteq DOMAIN docs
BY DEF Oversized

(* The documents not too large are packed.                                  *)
LEMMA KeptIs ==
  ASSUME PlanInv
  PROVE  /\ Kept \in Seq(DOMAIN docs) /\ IsInjective(Kept)
         /\ Range(Kept) = DOMAIN docs \ Oversized
         /\ UploadBatches(Kept) \in Seq(Seq(DOMAIN docs))
         /\ FlattenSeq(UploadBatches(Kept)) = Kept
<1> DEFINE S == DOMAIN docs \ Oversized
<1>1. DOMAIN docs = 1..Len(docs) /\ Len(docs) \in Nat
  BY DEF PlanInv, DocsOK
<1>2. S \in SUBSET Nat /\ IsFiniteSet(S) /\ S \subseteq DOMAIN docs
  BY <1>1, DomainOf
<1> HIDE DEF S
<1>3. InOrder(S) \in Seq(S) /\ Range(InOrder(S)) = S /\ IsInjective(InOrder(S))
  BY <1>2, InOrderIs
<1>4. Kept = InOrder(S)
  BY DEF Kept, S
<1>5. Kept \in Seq(DOMAIN docs)
  BY <1>2, <1>3, <1>4, SeqMonotonic
<1>6. UploadBatches(Kept) \in Seq(Seq(DOMAIN docs)) /\ FlattenSeq(UploadBatches(Kept)) = Kept
  BY <1>5, BatchesFlat
<1> QED BY <1>3, <1>4, <1>5, <1>6 DEF S

(* The first chunks of nothing have been embedded.                          *)
LEMMA PackHolds ==
  ASSUME Held, PackBatches
  PROVE  Held'
<1> USE DEF Held
<1>1. /\ pc = "pack" /\ pc' = "next" /\ todo' = UploadBatches(Kept)
      /\ run' = run /\ docs' = docs /\ carried' = carried /\ batch' = batch
      /\ calls' = calls /\ vectors' = vectors /\ puts' = puts /\ stored' = stored
      /\ conflicts' = conflicts /\ lost' = lost
      /\ general' = Unattached /\ code' = Unattached
      /\ billed' = [d \in DOMAIN docs |-> [k \in DOMAIN ChunksOf(d) |-> 0]]
      /\ skipped' = skipped \o
           LET oversize == InOrder(Oversized) IN [k \in DOMAIN oversize |-> docs[oversize[k]].file]
  BY DEF PackBatches, loop, embeds, server
<1>2. PlanInv' /\ Oversized' = Oversized
  BY <1>1, PlanKept
<1>3. SkippedInv'
  <2> DEFINE o == InOrder(Oversized)
             files == [k \in DOMAIN o |-> docs[o[k]].file]
  <2>1. DOMAIN docs = 1..Len(docs) /\ Len(docs) \in Nat
    BY DEF PlanInv, DocsOK
  <2>2. Oversized \in SUBSET Nat /\ IsFiniteSet(Oversized)
    BY <2>1, DomainOf, OversizedIs
  <2>3. o \in Seq(Oversized) /\ Range(o) = Oversized
    BY <2>2, InOrderIs
  <2> HIDE DEF o
  <2>4. \A d \in Oversized : docs[d].file \in DOMAIN run.tree
    <3>1. Range(Found) \subseteq DOMAIN run.tree
      BY FoundIs DEF PlanInv, Range
    <3> QED BY <3>1, OversizedIs DEF PlanInv
  <2>5. files \in Seq(DOMAIN run.tree) /\ Range(files) = {docs[d].file : d \in Oversized}
    <3>1. DOMAIN o = 1..Len(o) /\ Len(o) \in Nat /\ \A k \in DOMAIN o : o[k] \in Oversized
      BY <2>3, ElementOfSeq
    <3>2. \A k \in DOMAIN o : docs[o[k]].file \in DOMAIN run.tree
      BY <2>4, <3>1
    <3>3. files \in Seq(DOMAIN run.tree)
      BY <3>1, <3>2
    <3>4. Range(files) = {docs[d].file : d \in Oversized}
      BY <2>3 DEF Range
    <3> QED BY <3>3, <3>4
  <2>6. skipped' = skipped \o files
    BY <1>1 DEF o
  <2> HIDE DEF files
  <2>7. skipped' \in Seq(DOMAIN run.tree) /\ Range(skipped') = Range(skipped) \cup Range(files)
    BY <2>5, <2>6, ConcatIs DEF SkippedInv
  <2>8. Range(skipped') = (Range(Found) \ Regular) \cup ((Empty \ Unchanged) \cap Range(Found))
                            \cup {docs[d].file : d \in Oversized}
    BY <1>1, <2>5, <2>7 DEF SkippedInv
  <2>9. Found' = Found /\ Regular' = Regular
    BY <1>1 DEF Found, Regular, File
  <2>10. Unchanged' = Unchanged /\ Empty' = Empty
    BY <1>1, <2>9 DEF Unchanged, Empty, File
  <2> QED BY <1>1, <1>2, <2>7, <2>8, <2>9, <2>10 DEF SkippedInv
<1>4. /\ Kept \in Seq(DOMAIN docs) /\ IsInjective(Kept)
      /\ Range(Kept) = DOMAIN docs \ Oversized
      /\ todo' \in Seq(Seq(DOMAIN docs)) /\ FlattenSeq(todo') = Kept
  BY <1>1, KeptIs
<1>5. Unattached \in [DOMAIN docs -> Seq(VectorType)] /\ \A d \in DOMAIN docs : Unattached[d] = <<>>
  BY DEF Unattached
<1>6. TypesInv'
  BY <1>1, <1>4, <1>5 DEF TypesInv
<1>7. OnceInv'
  <2>1. stored' = <<>> /\ conflicts' = <<>>
    BY <1>1 DEF TypesInv
  <2>2. Waiting(pc', batch', puts', todo') = Kept
    BY <1>1, <1>4 DEF Waiting
  <2>3. Parted(StoredDocs(stored'), conflicts', Kept, DOMAIN docs \ Oversized)
    BY <1>4, <2>1 DEF Parted, StoredDocs, Range, IsInjective
  <2> QED BY <1>1, <1>2, <1>4, <2>2, <2>3 DEF OnceInv
<1>8. AttachedInv'
  <2>1. \A d \in Range(FlattenSeq(todo')) : code'[d] = <<>>
    BY <1>1, <1>4, <1>5
  <2> QED BY <1>1, <2>1 DEF AttachedInv
<1>9. StoredInv'
  BY <1>1 DEF StoredInv, TypesInv
<1>10. PaidInv'
  <2>1. \A d \in DOMAIN docs : DOMAIN docs[d].chunks = 1..SizeOf(docs, d)
    BY NamesAre DEF PlanInv, NamesOf
  <2>2. /\ DOMAIN billed' = DOMAIN docs
        /\ \A d \in DOMAIN docs : /\ DOMAIN billed'[d] = 1..SizeOf(docs, d)
                                  /\ \A k \in 1..SizeOf(docs, d) : billed'[d][k] = 0
    BY <1>1, <2>1 DEF ChunksOf
  <2>3. lost' \in Nat /\ \A d : Ceiling(docs, coded, d) \in {1, 2}
    BY <1>1 DEF TypesInv, Ceiling
  <2>4. coded' = coded
    BY <1>1 DEF coded
  <2>5. ASSUME NEW d \in DOMAIN docs, NEW k \in 1..SizeOf(docs, d)
        PROVE  /\ billed'[d][k] \in Nat /\ billed'[d][k] <= lost'
               /\ billed'[d][k] <= lost' + Ceiling(docs, coded, d)
    BY <2>2, <2>3
  <2>6. docs' = docs /\ pc' = "next"
    BY <1>1
  <2> QED BY <2>2, <2>4, <2>5, <2>6 DEF PaidInv
<1> QED BY <1>2, <1>3, <1>6, <1>7, <1>8, <1>9, <1>10

(* The requests for a batch ask for each of its chunks, in order.           *)
LEMMA BatchCalls ==
  ASSUME DocsOK(docs), NEW b \in Seq(DOMAIN docs)
  PROVE  LET r == Requests(GroupsOf(b))
             cs == [k \in DOMAIN r |-> GeneralCall(r[k])]
         IN cs \in Seq(CallType) /\ Texts(cs) = ListNames(docs, b)
<1> DEFINE rows == [k \in DOMAIN b |-> docs[b[k]].groups]
           r == Requests(GroupsOf(b))
           cs == [k \in DOMAIN r |-> GeneralCall(r[k])]
<1>1. DOMAIN b = 1..Len(b) /\ Len(b) \in Nat /\ \A k \in DOMAIN b : b[k] \in DOMAIN docs
  BY ElementOfSeq
<1>2. \A k \in DOMAIN b : docs[b[k]].groups \in Seq(OneDoc)
                          /\ FlattenSeq(docs[b[k]].groups) = NamesOf(docs, b[k])
  BY <1>1 DEF DocsOK
<1>3. rows \in Seq(Seq(OneDoc)) /\ DOMAIN rows = DOMAIN b
      /\ \A k \in DOMAIN b : rows[k] = docs[b[k]].groups
  BY <1>1, <1>2
<1> HIDE DEF rows
<1>4. rows \in Seq(Seq(Seq(ChunkName)))
  <2>1. OneDoc \subseteq Seq(ChunkName)
    BY DEF OneDoc
  <2>2. Seq(OneDoc) \subseteq Seq(Seq(ChunkName))
    BY <2>1, SeqMonotonic
  <2>3. Seq(Seq(OneDoc)) \subseteq Seq(Seq(Seq(ChunkName)))
    BY <2>2, SeqMonotonic
  <2> QED BY <1>3, <2>3
<1>5. FlattenSeq(rows) \in Seq(OneDoc) /\ GroupsOf(b) = FlattenSeq(rows)
  BY <1>3, FlatType DEF GroupsOf, rows
<1>6. r \in Seq(Seq(OneDoc)) /\ FlattenSeq(r) = FlattenSeq(rows)
  BY <1>5, RequestsFlat
<1> HIDE DEF r
<1>7. cs \in Seq(CallType) /\ Texts(cs) = FlattenSeq(FlattenSeq(rows))
  BY <1>6, GeneralCalls
<1>8. FlattenSeq(FlattenSeq(rows)) = FlattenSeq(Flats(rows))
  BY <1>4, FlatFlat
<1>9. Flats(rows) = [k \in DOMAIN b |-> NamesOf(docs, b[k])]
  BY <1>2, <1>3 DEF Flats
<1> QED BY <1>7, <1>8, <1>9 DEF ListNames, r, cs

(* What a batch takes from the batches to come.                             *)
LEMMA StartTypes ==
  ASSUME TypesInv, pc = "next", todo # <<>>
  PROVE  /\ Head(todo) \in Seq(DOMAIN docs) /\ Tail(todo) \in Seq(Seq(DOMAIN docs))
         /\ FlattenSeq(todo) \in Seq(DOMAIN docs)
         /\ FlattenSeq(Tail(todo)) \in Seq(DOMAIN docs)
         /\ FlattenSeq(todo) = Head(todo) \o FlattenSeq(Tail(todo))
         /\ Range(FlattenSeq(todo)) = Range(Head(todo)) \cup Range(FlattenSeq(Tail(todo)))
<1> DEFINE D == DOMAIN docs
<1>1. todo \in Seq(Seq(D)) /\ todo # <<>>
  BY DEF TypesInv
<1> HIDE DEF D
<1>2. Head(todo) \in Seq(D) /\ Tail(todo) \in Seq(Seq(D))
  BY <1>1, HeadTailProperties
<1>3. FlattenSeq(todo) \in Seq(D) /\ FlattenSeq(Tail(todo)) \in Seq(D)
  BY <1>1, <1>2, FlatType
<1>4. FlattenSeq(todo) = Head(todo) \o FlattenSeq(Tail(todo))
  BY <1>1, FlatHead
<1>5. Range(FlattenSeq(todo)) = Range(Head(todo)) \cup Range(FlattenSeq(Tail(todo)))
  BY <1>2, <1>3, <1>4, ConcatIs
<1> QED BY <1>2, <1>3, <1>4, <1>5 DEF D

(* Taking the next batch keeps the invariant: nothing of it was handled or  *)
(* paid before, and its requests are for exactly its chunks.                *)
LEMMA StartHolds ==
  ASSUME Held, StartBatch
  PROVE  Held'
<1> USE DEF Held
<1> DEFINE b == Head(todo)
           r == Requests(GroupsOf(b))
<1>1. /\ pc = "next" /\ pc' = "embed" /\ todo # <<>> /\ batch' = b /\ todo' = Tail(todo)
      /\ run' = run /\ docs' = docs /\ carried' = carried /\ skipped' = skipped
      /\ vectors' = <<>> /\ puts' = puts /\ stored' = stored
      /\ conflicts' = conflicts /\ lost' = lost /\ billed' = billed
      /\ general' = general /\ code' = code
      /\ calls' = [k \in DOMAIN r |-> GeneralCall(r[k])]
  BY DEF StartBatch, loop, server, ghosts
<1>2. /\ b \in Seq(DOMAIN docs) /\ todo' \in Seq(Seq(DOMAIN docs))
      /\ FlattenSeq(todo) = b \o FlattenSeq(todo')
      /\ Range(FlattenSeq(todo)) = Range(b) \cup Range(FlattenSeq(todo'))
  BY <1>1, StartTypes
<1>3. calls' \in Seq(CallType) /\ Texts(calls') = ListNames(docs, b)
  BY <1>1, <1>2, BatchCalls DEF PlanInv
<1> HIDE DEF b, r
<1>4. PlanInv' /\ Oversized' = Oversized
  BY <1>1, PlanKept
<1>5. SkippedInv'
  BY <1>1, SkippedKept
<1>6. TypesInv'
  BY <1>1, <1>2, <1>3 DEF TypesInv
<1>7. OnceInv'
  <2>1. Waiting(pc', batch', puts', todo') = FlattenSeq(todo)
    BY <1>1, <1>2 DEF Waiting
  <2>2. Waiting(pc, batch, puts, todo) = FlattenSeq(todo)
    BY <1>1 DEF Waiting
  <2> QED BY <1>1, <1>4, <2>1, <2>2 DEF OnceInv
<1>8. AttachedInv'
  <2>1. Ofs(vectors') \o Texts(calls') = ListNames(docs, b)
    <3>1. Ofs(vectors') = <<>>
      BY <1>1 DEF Ofs
    <3>2. ListNames(docs, b) \in Seq(ChunkName)
      BY <1>2, ListNamesAre DEF PlanInv
    <3> QED BY <1>3, <3>1, <3>2
  <2>2. \A d \in Range(b) \cup Range(FlattenSeq(todo')) : code[d] = <<>>
    BY <1>1, <1>2 DEF AttachedInv
  <2> QED BY <1>1, <2>1, <2>2 DEF AttachedInv
<1>9. StoredInv'
  <2>1. coded' = coded
    BY <1>1 DEF coded
  <2> QED BY <1>1, <2>1 DEF StoredInv
<1>10. PaidInv'
  <2>1. coded' = coded
    BY <1>1 DEF coded
  <2>2. ASSUME NEW d \in DOMAIN docs, NEW k \in 1..SizeOf(docs, d)
        PROVE  /\ billed[d][k] \in Nat /\ lost \in Nat
               /\ billed[d][k] <= lost + Ceiling(docs, coded, d)
               /\ d \in Range(b) \cup Range(FlattenSeq(todo')) => billed[d][k] <= lost
               /\ d \in Range(b) => <<d, k>> \in Range(Texts(calls'))
    <3>1. d \in Range(b) => <<d, k>> \in Range(ListNames(docs, b))
      BY <1>2, ListNamesOnce DEF PlanInv
    <3> QED BY <1>1, <1>2, <1>3, <3>1 DEF PaidInv, TypesInv
  <2>3. DOMAIN billed' = DOMAIN docs' /\ \A d \in DOMAIN docs : DOMAIN billed'[d] = 1..SizeOf(docs', d)
    BY <1>1 DEF PaidInv
  <2> QED BY <1>1, <2>1, <2>2, <2>3 DEF PaidInv
<1> QED BY <1>4, <1>5, <1>6, <1>7, <1>8, <1>9, <1>10

(* While a batch is embedded its documents are none of those to come, and   *)
(* what has been answered and is still asked for are its chunks, each once. *)
LEMMA BatchIs ==
  ASSUME Held, pc \in {"embed", "code"}
  PROVE  /\ batch \in Seq(DOMAIN docs) /\ IsInjective(batch)
         /\ Range(batch) \cap Range(FlattenSeq(todo)) = {}
         /\ CodeOf(docs, batch) \in Seq(DOMAIN docs) /\ IsInjective(CodeOf(docs, batch))
         /\ \A d : d \in Range(CodeOf(docs, batch)) <=> d \in Range(batch) /\ docs[d].kind = "code"
<1>1. batch \in Seq(DOMAIN docs) /\ todo \in Seq(Seq(DOMAIN docs)) /\ DocsOK(docs)
  BY DEF Held, TypesInv, PlanInv
<1>2. FlattenSeq(todo) \in Seq(DOMAIN docs)
  BY <1>1, FlatType
<1>3. IsInjective(batch \o FlattenSeq(todo))
  <2>1. PICK W \in Seq(DOMAIN docs) :
          /\ Parted(StoredDocs(stored), conflicts, W, DOMAIN docs \ Oversized)
          /\ W = Waiting(pc, batch, puts, todo)
    BY DEF Held, OnceInv
  <2> QED BY <2>1 DEF Waiting, Parted
<1>4. IsInjective(batch) /\ Range(batch) \cap Range(FlattenSeq(todo)) = {}
  BY <1>1, <1>2, <1>3, ConcatIs
<1> QED BY <1>1, <1>4, CodeOfIs

(* A call is for chunks of the batch that no other call asks for.           *)
LEMMA CallIs ==
  ASSUME Held, Embedding
  PROVE  /\ Head(calls) \in CallType /\ Tail(calls) \in Seq(CallType)
         /\ TextsOf(Head(calls)) \in Seq(ChunkName) /\ Texts(Tail(calls)) \in Seq(ChunkName)
         /\ Texts(calls) = TextsOf(Head(calls)) \o Texts(Tail(calls))
         /\ \A d, k : <<d, k>> \in Range(TextsOf(Head(calls))) =>
              /\ <<d, k>> \in Range(Texts(calls)) /\ <<d, k>> \notin Range(Texts(Tail(calls)))
              /\ d \in Range(batch) /\ d \notin Range(FlattenSeq(todo))
              /\ pc = "code" => coded /\ docs[d].kind = "code"
<1> DEFINE b == IF pc = "embed" THEN batch ELSE CodeOf(docs, batch)
           c == TextsOf(Head(calls))
           t == Texts(Tail(calls))
           o == Ofs(vectors)
<1>1. pc \in {"embed", "code"} /\ calls # <<>> /\ DocsOK(docs)
  BY DEF Embedding, Held, PlanInv
<1>2. calls \in Seq(CallType) /\ vectors \in Seq(VectorType)
  BY DEF Held, TypesInv
<1>3. /\ Head(calls) \in CallType /\ Tail(calls) \in Seq(CallType)
      /\ Texts(calls) = c \o t
  BY <1>1, <1>2, TextsAre
<1>4. c \in Seq(ChunkName) /\ t \in Seq(ChunkName)
  BY <1>3, TextsAre, CallTexts
<1>5. b \in Seq(DOMAIN docs) /\ IsInjective(b) /\ Range(b) \subseteq Range(batch)
      /\ Range(batch) \cap Range(FlattenSeq(todo)) = {}
      /\ (pc = "code" => \A d \in Range(b) : docs[d].kind = "code")
  BY <1>1, BatchIs
<1>6. o \o Texts(calls) = ListNames(docs, b) /\ (pc = "code" => coded)
  BY <1>1 DEF Held, AttachedInv
<1> HIDE DEF b
<1>7. IsInjective(ListNames(docs, b))
      /\ \A x \in Range(ListNames(docs, b)) : \E d \in Range(b) : \E k \in 1..SizeOf(docs, d) : x = <<d, k>>
  <2>1. /\ \A x : x \in Range(ListNames(docs, b)) <=>
                   \E d \in Range(b) : \E k \in 1..SizeOf(docs, d) : x = <<d, k>>
        /\ IsInjective(b) => IsInjective(ListNames(docs, b))
    <3>1. DocsOK(docs) /\ b \in Seq(DOMAIN docs)
      BY <1>1, <1>5
    <3> QED BY <3>1, ListNamesOnce
  <2> QED BY <1>5, <2>1
<1>8. o \in Seq(ChunkName)
  <2>1. DOMAIN vectors = 1..Len(vectors) /\ Len(vectors) \in Nat
    BY <1>2
  <2>2. \A k \in 1..Len(vectors) : vectors[k].of \in ChunkName
    <3>1. \A k \in 1..Len(vectors) : vectors[k] \in VectorType
      BY <1>2, ElementOfSeq
    <3> QED BY <3>1 DEF VectorType
  <2> QED BY <2>1, <2>2 DEF Ofs
<1> HIDE DEF c, t, o
<1>9. c \o t \in Seq(ChunkName) /\ Range(c \o t) = Range(c) \cup Range(t)
      /\ (IsInjective(c \o t) => Range(c) \cap Range(t) = {})
  BY <1>4, ConcatIs
<1>10. IsInjective(c \o t) /\ Range(c \o t) \subseteq Range(ListNames(docs, b))
  <2>1. Texts(calls) \in Seq(ChunkName)
    BY <1>3, <1>9
  <2>2. /\ Range(o \o Texts(calls)) = Range(o) \cup Range(Texts(calls))
        /\ (IsInjective(o \o Texts(calls)) => IsInjective(Texts(calls)))
    BY <1>8, <2>1, ConcatIs
  <2> QED BY <1>3, <1>6, <1>7, <2>2
<1>11. ASSUME NEW d, NEW k, <<d, k>> \in Range(c)
       PROVE  /\ <<d, k>> \in Range(Texts(calls)) /\ <<d, k>> \notin Range(t)
              /\ d \in Range(batch) /\ d \notin Range(FlattenSeq(todo))
              /\ pc = "code" => coded /\ docs[d].kind = "code"
  <2>1. <<d, k>> \in Range(Texts(calls)) /\ <<d, k>> \notin Range(t)
    BY <1>3, <1>9, <1>10, <1>11
  <2>2. <<d, k>> \in Range(ListNames(docs, b))
    BY <1>9, <1>10, <1>11
  <2>3. d \in Range(b)
    <3>1. PICK e \in Range(b) : \E l \in 1..SizeOf(docs, e) : <<d, k>> = <<e, l>>
      BY <1>7, <2>2
    <3> QED BY <3>1
  <2> QED BY <1>5, <1>6, <2>1, <2>3
<1> QED BY <1>3, <1>4, <1>11 DEF c, t

(* Each chunk of a call is paid for once.                                   *)
LEMMA BilledIs ==
  ASSUME Held, Embedding
  PROVE  /\ DOMAIN Billed(Call) = DOMAIN docs
         /\ \A d \in DOMAIN docs :
              /\ DOMAIN Billed(Call)[d] = 1..SizeOf(docs, d)
              /\ \A k \in 1..SizeOf(docs, d) :
                   Billed(Call)[d][k] = billed[d][k]
                     + (IF <<d, k>> \in Range(TextsOf(Head(calls))) THEN 1 ELSE 0)
<1>1. pc # "pack"
  BY DEF Embedding
<1>2. DOMAIN billed = DOMAIN docs /\ \A d \in DOMAIN docs : DOMAIN billed[d] = 1..SizeOf(docs, d)
  BY <1>1 DEF Held, PaidInv
<1> DEFINE c == TextsOf(Head(calls))
<1>3. c \in Seq(ChunkName)
  BY CallIs
<1> HIDE DEF c
<1>4. \A x : Contains(c, x) <=> x \in Range(c)
  BY <1>3 DEF Contains, Range
<1>5. Call = Head(calls)
  BY DEF Call
<1> QED BY <1>2, <1>4, <1>5 DEF Billed, c

(* The sums behind that: what is paid for a chunk e of a document d before  *)
(* a step of a call for the chunks A, with R asked for later, and after it. *)
Payment(x, y, l, m, top, p, q, d, e, A, R, N, B, C, T) ==
  /\ x \in Nat /\ y \in Nat /\ l \in Nat /\ m \in Nat /\ l <= m /\ top \in {1, 2}
  /\ p \in {"embed", "code"}
  /\ x <= l + top
  /\ d \in T => x <= l
  /\ p = "embed" /\ d \in B => x <= l + (IF e \in A \/ e \in R THEN 0 ELSE 1)
  /\ p = "code" /\ d \in C => x <= l + (IF e \in A \/ e \in R THEN 1 ELSE 2)
  /\ e \in A => e \notin R /\ d \in B /\ d \notin T /\ (p = "code" => top = 2 /\ d \in C)
  /\ y = x \/ (e \in A /\ y = x + 1)
  /\ \/ q = "failed"
     \/ q = p /\ (e \in A => y = x + 1) /\ (e \in N <=> e \in R)
     \/ q = p /\ (e \in N <=> e \in A \/ e \in R) /\ (y = x \/ m >= l + 1)

(* The accounts of one chunk through any step: what it was billed stays     *)
(* within the answers lost, and one more while its answer is outstanding.   *)
LEMMA PaidSum ==
  ASSUME NEW x, NEW y, NEW l, NEW m, NEW top, NEW p, NEW q, NEW d, NEW e,
         NEW A, NEW R, NEW N, NEW B, NEW C, NEW T,
         Payment(x, y, l, m, top, p, q, d, e, A, R, N, B, C, T)
  PROVE  /\ y <= m + top /\ (d \in T => y <= m)
         /\ q = "embed" /\ d \in B => y <= m + (IF e \in N THEN 0 ELSE 1)
         /\ q = "code" /\ d \in C => y <= m + (IF e \in N THEN 1 ELSE 2)
<1> USE DEF Payment
<1>1. CASE e \notin A
  <2>1. y = x
    BY <1>1
  <2>2. y <= m + top /\ (d \in T => y <= m)
    BY <2>1
  <2>3. q \in {"embed", "code"} => q = p /\ (e \in N <=> e \in R)
    BY <1>1
  <2> QED BY <1>1, <2>1, <2>2, <2>3
<1>2. CASE e \in A
  <2>1. e \notin R /\ d \in B /\ d \notin T /\ y <= x + 1
    BY <1>2
  <2>2. CASE p = "embed"
    <3>1. x <= l
      BY <1>2, <2>1, <2>2
    <3>2. y <= m + 1
      BY <2>1, <3>1
    <3>3. q = "embed" => y <= m + (IF e \in N THEN 0 ELSE 1)
      BY <1>2, <2>1, <3>1, <3>2
    <3>4. q # "code"
      BY <2>2
    <3> QED BY <2>1, <3>2, <3>3, <3>4
  <2>3. CASE p = "code"
    <3>1. x <= l + 1 /\ top = 2 /\ d \in C
      BY <1>2, <2>1, <2>3
    <3>2. y <= m + 2
      BY <2>1, <3>1
    <3>3. q = "code" => y <= m + (IF e \in N THEN 1 ELSE 2)
      BY <1>2, <2>1, <3>1, <3>2
    <3>4. q # "embed"
      BY <2>3
    <3> QED BY <2>1, <3>1, <3>2, <3>3, <3>4
  <2> QED BY <2>2, <2>3
<1> QED BY <1>1, <1>2

(* An answer, a failure and a retry keep what has been paid within bounds.  *)
LEMMA PaidStep ==
  ASSUME Held, Embedding, run' = run, docs' = docs, todo' = todo, batch' = batch,
         lost' \in Nat, lost' >= lost, billed' = billed \/ billed' = Billed(Call),
         \/ pc' = "failed"
         \/ pc' = pc /\ billed' = Billed(Call) /\ Texts(calls') = Texts(Tail(calls))
         \/ pc' = pc /\ Texts(calls') = Texts(calls) /\ (billed' = billed \/ lost' >= lost + 1)
  PROVE  PaidInv'
<1>1. pc \in {"embed", "code"} /\ PaidInv /\ lost \in Nat
  BY DEF Held, TypesInv, Embedding
<1>2. coded' = coded
  BY DEF coded
<1>3. DOMAIN billed' = DOMAIN docs' /\ \A d \in DOMAIN docs : DOMAIN billed'[d] = 1..SizeOf(docs', d)
  BY <1>1, BilledIs DEF PaidInv
<1>4. \A d : d \in Range(CodeOf(docs, batch)) <=> d \in Range(batch) /\ docs[d].kind = "code"
  BY <1>1, BatchIs
<1>5. ASSUME NEW d \in DOMAIN docs, NEW k \in 1..SizeOf(docs, d)
      PROVE  /\ billed'[d][k] \in Nat
             /\ billed'[d][k] <= lost' + Ceiling(docs, coded, d)
             /\ d \in Range(FlattenSeq(todo)) => billed'[d][k] <= lost'
             /\ pc' = "embed" /\ d \in Range(batch) =>
                  billed'[d][k] <= lost' + (IF <<d, k>> \in Range(Texts(calls')) THEN 0 ELSE 1)
             /\ pc' = "code" /\ d \in Range(CodeOf(docs, batch)) =>
                  billed'[d][k] <= lost' + (IF <<d, k>> \in Range(Texts(calls')) THEN 1 ELSE 2)
  <2> DEFINE x == billed[d][k]
             y == billed'[d][k]
             e == <<d, k>>
             A == Range(TextsOf(Head(calls)))
             R == Range(Texts(Tail(calls)))
             N == Range(Texts(calls'))
             B == Range(batch)
             C == Range(CodeOf(docs, batch))
             T == Range(FlattenSeq(todo))
             top == Ceiling(docs, coded, d)
  <2>1. Range(Texts(calls)) = A \cup R
    <3>1. /\ TextsOf(Head(calls)) \in Seq(ChunkName) /\ Texts(Tail(calls)) \in Seq(ChunkName)
          /\ Texts(calls) = TextsOf(Head(calls)) \o Texts(Tail(calls))
      BY CallIs
    <3> QED BY <3>1, ConcatIs
  <2>2. /\ x \in Nat /\ x <= lost + top
        /\ d \in T => x <= lost
        /\ pc = "embed" /\ d \in B => x <= lost + (IF e \in Range(Texts(calls)) THEN 0 ELSE 1)
        /\ pc = "code" /\ d \in C => x <= lost + (IF e \in Range(Texts(calls)) THEN 1 ELSE 2)
    BY <1>1 DEF PaidInv
  <2>3. top \in {1, 2} /\ (coded /\ docs[d].kind = "code" => top = 2)
    BY DEF Ceiling
  <2>4. e \in A => e \notin R /\ d \in B /\ d \notin T /\ (pc = "code" => coded /\ docs[d].kind = "code")
    BY CallIs
  <2>5. e \in A => e \notin R /\ d \in B /\ d \notin T /\ (pc = "code" => top = 2 /\ d \in C)
    BY <1>4, <2>3, <2>4
  <2>6. /\ y = x \/ (e \in A /\ y = x + 1)
        /\ billed' = Billed(Call) => (e \in A => y = x + 1)
        /\ billed' = billed => y = x
    BY <2>2, BilledIs
  <2>7. \/ pc' = "failed"
        \/ pc' = pc /\ (e \in A => y = x + 1) /\ (e \in N <=> e \in R)
        \/ pc' = pc /\ (e \in N <=> e \in A \/ e \in R) /\ (y = x \/ lost' >= lost + 1)
    BY <2>1, <2>6
  <2> HIDE DEF x, y, e, A, R, N, B, C, T, top
  <2>8. y \in Nat
    BY <2>2, <2>6
  <2>9. /\ pc = "embed" /\ d \in B => x <= lost + (IF e \in A \/ e \in R THEN 0 ELSE 1)
        /\ pc = "code" /\ d \in C => x <= lost + (IF e \in A \/ e \in R THEN 1 ELSE 2)
    BY <2>1, <2>2
  <2>10. /\ y <= lost' + top /\ (d \in T => y <= lost')
         /\ pc' = "embed" /\ d \in B => y <= lost' + (IF e \in N THEN 0 ELSE 1)
         /\ pc' = "code" /\ d \in C => y <= lost' + (IF e \in N THEN 1 ELSE 2)
    <3>1. Payment(x, y, lost, lost', top, pc, pc', d, e, A, R, N, B, C, T)
      BY <1>1, <2>2, <2>3, <2>5, <2>6, <2>7, <2>8, <2>9 DEF Payment
    <3> QED BY <3>1, PaidSum
  <2> QED BY <2>8, <2>10 DEF x, y, e, N, B, C, T, top
<1> QED BY <1>2, <1>3, <1>5 DEF PaidInv

(* A step of a call that keeps what has been answered and asked for, or     *)
(* ends the run.                                                            *)
LEMMA CallHolds ==
  ASSUME Held, Embedding, PaidInv', lost' \in Nat,
         UNCHANGED <<loop, todo, batch, general, code, puts, server>>,
         \/ pc' = "failed" /\ calls' = calls /\ vectors' = vectors
         \/ /\ pc' = pc /\ calls' \in Seq(CallType) /\ vectors' \in Seq(VectorType)
            /\ Ofs(vectors') \o Texts(calls') = Ofs(vectors) \o Texts(calls)
  PROVE  Held'
<1> USE DEF Held
<1>1. /\ pc \in {"embed", "code"} /\ (pc' = pc \/ pc' = "failed")
      /\ run' = run /\ docs' = docs /\ carried' = carried /\ skipped' = skipped
      /\ todo' = todo /\ batch' = batch /\ general' = general /\ code' = code
      /\ puts' = puts /\ stored' = stored /\ conflicts' = conflicts
      /\ coded' = coded
  BY DEF Embedding, loop, server, coded
<1>2. PlanInv' /\ Oversized' = Oversized
  BY <1>1, PlanKept
<1>3. SkippedInv'
  BY <1>1, SkippedKept
<1>4. calls' \in Seq(CallType) /\ vectors' \in Seq(VectorType)
  BY DEF TypesInv
<1>5. TypesInv'
  BY <1>1, <1>4 DEF TypesInv
<1>6. OnceInv'
  BY <1>1, <1>2 DEF OnceInv, Waiting
<1>7. AttachedInv'
  BY <1>1 DEF AttachedInv
<1>8. StoredInv'
  BY <1>1 DEF StoredInv
<1> QED BY <1>2, <1>3, <1>5, <1>6, <1>7, <1>8

(* The chunks of vectors.                                                   *)
LEMMA OfsAre ==
  ASSUME NEW a \in Seq(VectorType)
  PROVE  Ofs(a) \in Seq(ChunkName) /\ Len(Ofs(a)) = Len(a) /\ DOMAIN a = 1..Len(a)
         /\ \A k \in 1..Len(a) : Ofs(a)[k] = a[k].of
<1>1. DOMAIN a = 1..Len(a) /\ Len(a) \in Nat
  OBVIOUS
<1>2. \A k \in 1..Len(a) : a[k].of \in ChunkName
  <2>1. \A k \in 1..Len(a) : a[k] \in VectorType
    BY ElementOfSeq
  <2> QED BY <2>1 DEF VectorType
<1> QED BY <1>1, <1>2 DEF Ofs

(* The chunks two lists of vectors were computed for, one after the other.  *)
LEMMA OfsConcat ==
  ASSUME NEW a \in Seq(VectorType), NEW b \in Seq(VectorType)
  PROVE  a \o b \in Seq(VectorType) /\ Ofs(a \o b) = Ofs(a) \o Ofs(b)
<1> DEFINE c == a \o b
           x == Ofs(a)
           y == Ofs(b)
           z == Ofs(c)
           w == x \o y
<1>1. /\ c \in Seq(VectorType) /\ Len(c) = Len(a) + Len(b)
      /\ \A i \in 1..Len(a) : c[i] = a[i]
      /\ \A i \in 1..Len(b) : c[Len(a) + i] = b[i]
  BY ConcatProperties
<1> HIDE DEF c
<1>2. /\ x \in Seq(ChunkName) /\ Len(x) = Len(a) /\ \A k \in 1..Len(a) : x[k] = a[k].of
      /\ y \in Seq(ChunkName) /\ Len(y) = Len(b) /\ \A k \in 1..Len(b) : y[k] = b[k].of
      /\ z \in Seq(ChunkName) /\ Len(z) = Len(c) /\ \A k \in 1..Len(c) : z[k] = c[k].of
      /\ Len(a) \in Nat /\ Len(b) \in Nat
  BY <1>1, OfsAre
<1> HIDE DEF x, y, z
<1>3. /\ w \in Seq(ChunkName) /\ Len(w) = Len(x) + Len(y)
      /\ \A i \in 1..Len(x) : w[i] = x[i]
      /\ \A i \in 1..Len(y) : w[Len(x) + i] = y[i]
  <2>1. x \in Seq(ChunkName) /\ y \in Seq(ChunkName)
    BY <1>2
  <2> QED BY <2>1, ConcatProperties
<1> HIDE DEF w
<1>4. ASSUME NEW k \in 1..Len(c) PROVE z[k] = w[k]
  <2>1. CASE k \in 1..Len(a)
    <3>1. c[k] = a[k] /\ w[k] = x[k]
      BY <1>1, <1>2, <1>3, <2>1
    <3>2. z[k] = c[k].of /\ x[k] = a[k].of
      BY <1>2, <2>1
    <3> QED BY <3>1, <3>2
  <2>2. CASE k \notin 1..Len(a)
    <3>1. k - Len(a) \in 1..Len(b) /\ Len(a) + (k - Len(a)) = k
      BY <1>1, <1>2, <2>2
    <3> DEFINE j == k - Len(a)
    <3>2. j \in 1..Len(b) /\ Len(a) + j = k
      BY <3>1
    <3> HIDE DEF j
    <3>3. c[Len(a) + j] = b[j] /\ w[Len(x) + j] = y[j]
      BY <1>1, <1>2, <1>3, <3>2
    <3>4. z[k] = c[k].of /\ y[j] = b[j].of
      BY <1>2, <3>2
    <3> QED BY <1>2, <3>2, <3>3, <3>4
  <2> QED BY <2>1, <2>2
<1>5. z = w
  <2>1. z \in Seq(ChunkName) /\ w \in Seq(ChunkName) /\ Len(z) = Len(w)
        /\ \A k \in 1..Len(z) : z[k] = w[k]
    BY <1>1, <1>2, <1>3, <1>4
  <2> QED BY <2>1, SeqEqual
<1> QED BY <1>1, <1>5 DEF c, w, x, y, z

(* An answer that can be read holds a vector for each chunk of the call.    *)
LEMMA AnswerIs ==
  ASSUME Held, Embedding, NEW answer \in Answers(Call), Readable(answer)
  PROVE  /\ vectors \o Vectors(answer) \in Seq(VectorType)
         /\ Ofs(vectors \o Vectors(answer)) \o Texts(Tail(calls)) = Ofs(vectors) \o Texts(calls)
<1> DEFINE v == Vectors(answer)
           c == TextsOf(Head(calls))
           t == Texts(Tail(calls))
<1>1. /\ Head(calls) \in CallType /\ c \in Seq(ChunkName) /\ t \in Seq(ChunkName)
      /\ Texts(calls) = c \o t
  BY CallIs
<1>2. v \in Seq(VectorType) /\ Ofs(v) = c
  BY <1>1, VectorsAre DEF Call
<1>3. vectors \in Seq(VectorType)
  BY DEF Held, TypesInv
<1> HIDE DEF v, c, t
<1>4. vectors \o v \in Seq(VectorType) /\ Ofs(vectors \o v) = Ofs(vectors) \o Ofs(v)
  BY <1>2, <1>3, OfsConcat
<1>5. Ofs(vectors) \in Seq(ChunkName)
  BY <1>3, OfsAre
<1>6. (Ofs(vectors) \o c) \o t = Ofs(vectors) \o (c \o t)
  <2> DEFINE o == Ofs(vectors)
  <2>1. o \in Seq(ChunkName)
    BY <1>5
  <2> HIDE DEF o
  <2>2. (o \o c) \o t = o \o (c \o t)
    BY <1>1, <2>1, ConcatAssociative
  <2> QED BY <2>2 DEF o
<1> QED BY <1>1, <1>2, <1>4, <1>6 DEF v, t

(* What a call becomes is again asked for in full.                          *)
LEMMA EmbeddedHolds ==
  ASSUME Held, Embedded
  PROVE  Held'
<1>1. PICK answer \in Answers(Call) :
        \/ /\ Readable(answer)
           /\ vectors' = vectors \o Vectors(answer)
           /\ calls' = Tail(calls) /\ attempt' = 1
           /\ UNCHANGED <<loop, pc, todo, batch, general, code, puts, server, lost>>
        \/ /\ ~Readable(answer) /\ source = "byok"
           /\ Fail /\ UNCHANGED lost
        \/ /\ ~Readable(answer) /\ source = "server"
           /\ Again(TRUE) /\ lost' = lost + 1
  BY DEF Embedded
<1>2. Embedding /\ billed' = Billed(Call)
  BY DEF Embedded
<1>3. lost \in Nat
  BY DEF Held, TypesInv
<1>4. CASE /\ Readable(answer) /\ vectors' = vectors \o Vectors(answer) /\ calls' = Tail(calls)
           /\ UNCHANGED <<loop, pc, todo, batch, general, code, puts, server, lost>>
  <2>1. calls' \in Seq(CallType) /\ vectors' \in Seq(VectorType)
        /\ Ofs(vectors') \o Texts(calls') = Ofs(vectors) \o Texts(calls)
    BY <1>2, <1>4, AnswerIs, CallIs
  <2>2. run' = run /\ docs' = docs /\ todo' = todo /\ batch' = batch /\ pc' = pc /\ lost' = lost
        /\ Texts(calls') = Texts(Tail(calls))
    BY <1>4 DEF loop
  <2>3. PaidInv'
    BY <1>2, <1>3, <2>2, PaidStep
  <2> QED BY <1>2, <1>3, <1>4, <2>1, <2>2, <2>3, CallHolds
<1>5. CASE Fail /\ UNCHANGED lost
  <2>1. /\ run' = run /\ docs' = docs /\ todo' = todo /\ batch' = batch /\ pc' = "failed"
        /\ lost' = lost /\ calls' = calls /\ vectors' = vectors
        /\ UNCHANGED <<loop, todo, batch, general, code, puts, server>>
    BY <1>5 DEF Fail, loop, embeds
  <2>2. PaidInv'
    BY <1>2, <1>3, <2>1, PaidStep
  <2> QED BY <1>2, <1>3, <2>1, <2>2, CallHolds
<1>6. CASE Again(TRUE) /\ lost' = lost + 1
  <2>1. /\ run' = run /\ docs' = docs /\ todo' = todo /\ batch' = batch
        /\ pc' = "failed" \/ pc' = pc
        /\ lost' \in Nat /\ lost' >= lost + 1 /\ calls' = calls /\ vectors' = vectors
        /\ UNCHANGED <<loop, todo, batch, general, code, puts, server>>
    BY <1>3, <1>6 DEF Again, Fail, loop, embeds
  <2>2. PaidInv'
    BY <1>2, <1>3, <2>1, PaidStep
  <2>3. calls \in Seq(CallType) /\ vectors \in Seq(VectorType)
    BY DEF Held, TypesInv
  <2> QED BY <1>2, <2>1, <2>2, <2>3, CallHolds
<1> QED BY <1>1, <1>4, <1>5, <1>6

(* A request the provider rejects as too long, halved or given up, keeps    *)
(* the invariant: nothing was billed and the halves hold the same chunks.   *)
LEMMA RejectedHolds ==
  ASSUME Held, Rejected
  PROVE  Held'
<1>1. /\ Embedding /\ billed' = billed /\ lost' = lost /\ lost \in Nat
      /\ calls \in Seq(CallType) /\ vectors \in Seq(VectorType)
  BY DEF Rejected, ghosts, Held, TypesInv
<1>2. /\ run' = run /\ docs' = docs /\ todo' = todo /\ batch' = batch
      /\ vectors' = vectors
      /\ UNCHANGED <<loop, todo, batch, general, code, puts, server>>
      /\ \/ pc' = pc /\ calls' = Smaller(Call) \o Tail(calls)
         \/ pc' = "failed" /\ calls' = calls
  BY DEF Rejected, Fail, loop, embeds
<1>3. CASE pc' = pc /\ calls' = Smaller(Call) \o Tail(calls)
  <2>1. /\ Call \in CallType /\ Tail(calls) \in Seq(CallType)
        /\ Texts(calls) = TextsOf(Call) \o Texts(Tail(calls))
    BY <1>1, CallIs DEF Call
  <2>2. Smaller(Call) \in Seq(CallType) /\ Texts(Smaller(Call)) = TextsOf(Call)
    BY <2>1, SmallerIs
  <2>3. calls' \in Seq(CallType) /\ Texts(calls') = Texts(calls)
    BY <1>3, <2>1, <2>2, TextsConcat
  <2>4. PaidInv'
    BY <1>1, <1>2, <1>3, <2>3, PaidStep
  <2> QED BY <1>1, <1>2, <1>3, <2>3, <2>4, CallHolds
<1>4. CASE pc' = "failed" /\ calls' = calls
  <2>1. PaidInv'
    BY <1>1, <1>2, <1>4, PaidStep
  <2> QED BY <1>1, <1>2, <1>4, <2>1, CallHolds
<1> QED BY <1>2, <1>3, <1>4

(* A request the proxy rejects keeps the invariant: the run ends, unbilled. *)
LEMMA RejectedByProxyHolds ==
  ASSUME Held, RejectedByProxy
  PROVE  Held'
<1>1. /\ Embedding /\ billed' = billed /\ lost' = lost /\ lost \in Nat
      /\ calls \in Seq(CallType) /\ vectors \in Seq(VectorType)
  BY DEF RejectedByProxy, ghosts, Held, TypesInv
<1>2. /\ run' = run /\ docs' = docs /\ todo' = todo /\ batch' = batch
      /\ vectors' = vectors /\ calls' = calls /\ (pc' = pc \/ pc' = "failed")
      /\ UNCHANGED <<loop, todo, batch, general, code, puts, server>>
  BY DEF RejectedByProxy, Again, Fail, loop, embeds
<1>3. PaidInv'
  BY <1>1, <1>2, PaidStep
<1> QED BY <1>1, <1>2, <1>3, CallHolds

(* A request without an answer keeps the invariant: billed again only when  *)
(* an answer was lost, which is counted.                                    *)
LEMMA UnansweredHolds ==
  ASSUME Held, Unanswered
  PROVE  Held'
<1>1. PICK how \in {"refused", "dropped", "timeout"}, worked \in BOOLEAN :
        /\ worked => how # "refused" /\ ~Overflows(Call)
        /\ billed' = IF worked THEN Billed(Call) ELSE billed
        /\ lost' = IF worked /\ how = "dropped" THEN lost + 1 ELSE lost
        /\ Again(how \in Retryable)
  BY DEF Unanswered
<1>2. Embedding /\ lost \in Nat /\ calls \in Seq(CallType) /\ vectors \in Seq(VectorType)
  BY DEF Unanswered, Held, TypesInv
<1>3. /\ run' = run /\ docs' = docs /\ todo' = todo /\ batch' = batch
      /\ vectors' = vectors /\ calls' = calls
      /\ \/ pc' = pc /\ how \in {"refused", "dropped"}
         \/ pc' = "failed"
      /\ UNCHANGED <<loop, todo, batch, general, code, puts, server>>
  BY <1>1 DEF Again, Fail, Retryable, loop, embeds
<1>4. /\ lost' \in Nat /\ lost' >= lost /\ (billed' = billed \/ billed' = Billed(Call))
      /\ pc' = "failed" \/ (pc' = pc /\ (billed' = billed \/ lost' >= lost + 1))
  BY <1>1, <1>2, <1>3
<1>5. PaidInv'
  BY <1>2, <1>3, <1>4, PaidStep
<1> QED BY <1>2, <1>3, <1>4, <1>5, CallHolds

(* When nothing is left to ask for, the vectors are those of the chunks.    *)
LEMMA Answered ==
  ASSUME Held, pc \in {"embed", "code"}, calls = <<>>
  PROVE  /\ vectors \in Seq(VectorType)
         /\ pc = "embed" => Ofs(vectors) = ListNames(docs, batch)
         /\ pc = "code" => coded /\ Ofs(vectors) = ListNames(docs, CodeOf(docs, batch))
         /\ Texts(calls) = <<>>
<1>1. vectors \in Seq(VectorType)
  BY DEF Held, TypesInv
<1>2. Texts(calls) = <<>>
  <2>1. [k \in DOMAIN calls |-> TextsOf(calls[k])] = <<>>
    OBVIOUS
  <2> QED BY <2>1, FlatEmpty DEF Texts
<1>3. Ofs(vectors) \in Seq(ChunkName)
  BY <1>1, OfsAre
<1>4. Ofs(vectors) \o Texts(calls) = Ofs(vectors)
  <2> DEFINE o == Ofs(vectors)
  <2>1. o \in Seq(ChunkName)
    BY <1>3
  <2> HIDE DEF o
  <2>2. o \o <<>> = o
    BY <2>1
  <2> QED BY <1>2, <2>2 DEF o
<1> QED BY <1>1, <1>2, <1>4 DEF Held, AttachedInv

(* The requests for the code vectors of a batch.                            *)
LEMMA CodeCallsAre ==
  ASSUME DocsOK(docs), NEW b \in Seq(DOMAIN docs), IsInjective(b)
  PROVE  LET r == CodeRequests(CodeIds(b))
             cs == [k \in DOMAIN r |-> FlatCall(r[k])]
         IN /\ cs \in Seq(CallType) /\ Texts(cs) = ListNames(docs, CodeOf(docs, b))
            /\ r = <<>> => \A d \in Range(b) : docs[d].kind # "code"
<1> DEFINE ids == ListNames(docs, CodeOf(docs, b))
           r == CodeRequests(ids)
           cs == [k \in DOMAIN r |-> FlatCall(r[k])]
<1>1. CodeIds(b) = ids
  BY NamesAlike
<1>2. CodeOf(docs, b) \in Seq(DOMAIN docs)
      /\ \A d : d \in Range(CodeOf(docs, b)) <=> d \in Range(b) /\ docs[d].kind = "code"
  BY CodeOfIs
<1>3. ids \in Seq(ChunkName)
  BY <1>2, ListNamesAre
<1>4. \A d \in Range(CodeOf(docs, b)) : \A k \in 1..SizeOf(docs, d) : <<d, k>> \in Range(ids)
  BY <1>2, ListNamesOnce
<1> HIDE DEF ids
<1>5. r \in Seq(Seq(ChunkName)) /\ FlattenSeq(r) = ids
  BY <1>3, CodeRequestsFlat
<1> HIDE DEF r
<1>6. cs \in Seq(CallType) /\ Texts(cs) = ids
  BY <1>5, CodeCalls
<1>7. ASSUME r = <<>>, NEW d \in Range(b), docs[d].kind = "code" PROVE FALSE
  <2>1. ids = <<>>
    BY <1>5, <1>7, FlatEmpty
  <2>2. d \in DOMAIN docs
    BY ElementOfSeq DEF Range
  <2>3. 1 \in 1..SizeOf(docs, d)
    BY <2>2, NamesAre
  <2>4. <<d, 1>> \in Range(ids)
    BY <1>2, <1>4, <1>7, <2>3
  <2> QED BY <2>1, <2>4 DEF Range
<1> QED BY <1>1, <1>6, <1>7 DEF ids, r

(* The vectors are attached to the documents they were made for.            *)
LEMMA AttachHolds ==
  ASSUME Held, Attach
  PROVE  Held'
<1> USE DEF Held
<1> DEFINE r == CodeRequests(CodeIds(batch))
           new == Distribute(batch, vectors, general)
<1>1. /\ pc = "embed" /\ calls = <<>> /\ general' = new /\ vectors' = <<>>
      /\ run' = run /\ docs' = docs /\ carried' = carried /\ skipped' = skipped
      /\ todo' = todo /\ batch' = batch /\ code' = code /\ stored' = stored
      /\ conflicts' = conflicts /\ billed' = billed /\ lost' = lost /\ coded' = coded
      /\ \/ /\ coded /\ r # <<>> /\ calls' = [k \in DOMAIN r |-> FlatCall(r[k])]
            /\ pc' = "code" /\ puts' = puts
         \/ /\ ~(coded /\ r # <<>>) /\ pc' = "upload" /\ puts' = <<batch>> /\ calls' = calls
  BY DEF Attach, loop, server, ghosts, coded
<1>2. /\ batch \in Seq(DOMAIN docs) /\ IsInjective(batch) /\ DocsOK(docs)
      /\ \A d : d \in Range(CodeOf(docs, batch)) <=> d \in Range(batch) /\ docs[d].kind = "code"
      /\ CodeOf(docs, batch) \in Seq(DOMAIN docs)
  BY <1>1, BatchIs DEF PlanInv
<1>3. /\ [k \in DOMAIN r |-> FlatCall(r[k])] \in Seq(CallType)
      /\ Texts([k \in DOMAIN r |-> FlatCall(r[k])]) = ListNames(docs, CodeOf(docs, batch))
      /\ r = <<>> => \A d \in Range(batch) : docs[d].kind # "code"
  BY <1>2, CodeCallsAre
<1>4. vectors \in Seq(VectorType) /\ Ofs(vectors) = ListNames(docs, batch) /\ Texts(calls) = <<>>
  BY <1>1, Answered
<1>5. general \in [DOMAIN docs -> Seq(VectorType)] /\ code \in [DOMAIN docs -> Seq(VectorType)]
      /\ calls \in Seq(CallType)
  BY <1>1 DEF TypesInv
<1>6. new \in [DOMAIN docs -> Seq(VectorType)]
      /\ \A d \in Range(batch) : OwnVectors(docs, d, new[d])
  <2>1. /\ new \in [DOMAIN docs -> Seq(VectorType)]
        /\ \A d \in DOMAIN docs : IF d \in Range(batch) THEN OwnVectors(docs, d, new[d]) ELSE new[d] = general[d]
    BY <1>2, <1>4, <1>5, DistributeIs
  <2>2. Range(batch) \subseteq DOMAIN docs
    BY <1>2, ElementOfSeq DEF Range
  <2> QED BY <2>1, <2>2
<1>7. FlattenSeq(<<batch>>) = batch /\ <<batch>> \in Seq(Seq(DOMAIN docs))
  BY <1>2, FlatOne
<1> HIDE DEF new, r
<1>8. PlanInv' /\ Oversized' = Oversized
  BY <1>1, PlanKept
<1>9. SkippedInv'
  BY <1>1, SkippedKept
<1>10. TypesInv'
  <2>1. calls' \in Seq(CallType) /\ puts' \in Seq(Seq(DOMAIN docs))
    BY <1>1, <1>3, <1>5, <1>7 DEF TypesInv
  <2> QED BY <1>1, <1>6, <2>1 DEF TypesInv
<1>11. OnceInv'
  <2>1. Waiting(pc', batch', puts', todo') = Waiting(pc, batch, puts, todo)
    BY <1>1, <1>7 DEF Waiting
  <2> QED BY <1>1, <1>8, <2>1 DEF OnceInv
<1>12. \A d \in Range(batch) : code[d] = <<>>
  BY <1>1 DEF AttachedInv
<1>13. \A d \in Range(FlattenSeq(todo)) : code[d] = <<>>
  BY <1>1 DEF AttachedInv
<1>14. AttachedInv'
  <2>1. CASE pc' = "code"
    <3>1. Ofs(vectors') \o Texts(calls') = ListNames(docs, CodeOf(docs, batch))
      <4>1. Ofs(vectors') = <<>>
        BY <1>1 DEF Ofs
      <4>2. ListNames(docs, CodeOf(docs, batch)) \in Seq(ChunkName)
        BY <1>2, ListNamesAre
      <4> QED BY <1>1, <1>3, <2>1, <4>1, <4>2
    <3> QED BY <1>1, <1>6, <1>12, <1>13, <2>1, <3>1 DEF AttachedInv
  <2>2. CASE pc' = "upload"
    <3>1. \A d \in Range(batch) : ~(coded /\ docs[d].kind = "code")
      BY <1>1, <1>3, <2>2
    <3>2. \A d \in Range(batch) : WithOwn(docs, coded, d, new[d], code[d])
      BY <1>6, <1>12, <3>1 DEF WithOwn
    <3>3. Range(FlattenSeq(puts')) \subseteq Range(batch)
      BY <1>1, <1>7, <2>2
    <3> QED BY <1>1, <1>13, <2>2, <3>2, <3>3 DEF AttachedInv
  <2> QED BY <1>1, <2>1, <2>2
<1>15. StoredInv'
  BY <1>1 DEF StoredInv
<1>16. PaidInv'
  <2>1. ASSUME NEW d \in DOMAIN docs, NEW k \in 1..SizeOf(docs, d)
        PROVE  /\ billed[d][k] \in Nat /\ lost \in Nat
               /\ billed[d][k] <= lost + Ceiling(docs, coded, d)
               /\ d \in Range(FlattenSeq(todo)) => billed[d][k] <= lost
               /\ d \in Range(batch) => billed[d][k] <= lost + 1
               /\ d \in Range(CodeOf(docs, batch)) =>
                    <<d, k>> \in Range(ListNames(docs, CodeOf(docs, batch)))
    <3>1. <<d, k>> \notin Range(Texts(calls))
      BY <1>4 DEF Range
    <3>2. d \in Range(CodeOf(docs, batch)) => <<d, k>> \in Range(ListNames(docs, CodeOf(docs, batch)))
      BY <1>2, ListNamesOnce
    <3> QED BY <1>1, <3>1, <3>2 DEF PaidInv, TypesInv
  <2>2. /\ DOMAIN billed' = DOMAIN docs' /\ \A d \in DOMAIN docs : DOMAIN billed'[d] = 1..SizeOf(docs', d)
        /\ pc' = "upload" \/ (pc' = "code" /\ Texts(calls') = ListNames(docs, CodeOf(docs, batch)))
    BY <1>1, <1>3 DEF PaidInv
  <2> QED BY <1>1, <1>2, <2>1, <2>2 DEF PaidInv
<1> QED BY <1>8, <1>9, <1>10, <1>11, <1>14, <1>15, <1>16

(* Attaching the code vectors keeps the invariant: each code chunk gets the *)
(* vector that was computed for it, and no other document is touched.       *)
LEMMA AttachCodeHolds ==
  ASSUME Held, AttachCode
  PROVE  Held'
<1> USE DEF Held
<1> DEFINE b == CodeOf(docs, batch)
           new == Distribute(b, vectors, code)
<1>1. /\ pc = "code" /\ pc' = "upload" /\ calls = <<>> /\ code' = new /\ vectors' = <<>>
      /\ run' = run /\ docs' = docs /\ carried' = carried /\ skipped' = skipped
      /\ todo' = todo /\ batch' = batch /\ general' = general /\ stored' = stored
      /\ conflicts' = conflicts /\ billed' = billed /\ lost' = lost /\ coded' = coded
      /\ calls' = calls /\ puts' = <<batch>>
  BY NamesAlike DEF AttachCode, loop, server, ghosts, coded
<1>2. /\ batch \in Seq(DOMAIN docs) /\ IsInjective(batch) /\ DocsOK(docs)
      /\ Range(batch) \cap Range(FlattenSeq(todo)) = {}
      /\ \A d : d \in Range(b) <=> d \in Range(batch) /\ docs[d].kind = "code"
      /\ b \in Seq(DOMAIN docs) /\ IsInjective(b)
  BY <1>1, BatchIs DEF PlanInv
<1>3. vectors \in Seq(VectorType) /\ Ofs(vectors) = ListNames(docs, b) /\ coded
  BY <1>1, Answered
<1>4. general \in [DOMAIN docs -> Seq(VectorType)] /\ code \in [DOMAIN docs -> Seq(VectorType)]
  BY <1>1 DEF TypesInv
<1> HIDE DEF b
<1>5. /\ new \in [DOMAIN docs -> Seq(VectorType)]
      /\ \A d \in DOMAIN docs : IF d \in Range(b) THEN OwnVectors(docs, d, new[d]) ELSE new[d] = code[d]
  BY <1>2, <1>3, <1>4, DistributeIs
<1>6. FlattenSeq(<<batch>>) = batch /\ <<batch>> \in Seq(Seq(DOMAIN docs))
  BY <1>2, FlatOne
<1> HIDE DEF new
<1>7. PlanInv' /\ Oversized' = Oversized
  BY <1>1, PlanKept
<1>8. SkippedInv'
  BY <1>1, SkippedKept
<1>9. TypesInv'
  BY <1>1, <1>4, <1>5, <1>6 DEF TypesInv
<1>10. OnceInv'
  <2>1. Waiting(pc', batch', puts', todo') = Waiting(pc, batch, puts, todo)
    BY <1>1, <1>6 DEF Waiting
  <2> QED BY <1>1, <1>7, <2>1 DEF OnceInv
<1>11. AttachedInv'
  <2>1. Range(batch) \subseteq DOMAIN docs
    BY <1>2, ElementOfSeq DEF Range
  <2>2. Range(FlattenSeq(todo)) \subseteq DOMAIN docs
    <3>1. FlattenSeq(todo) \in Seq(DOMAIN docs)
      BY FlatType DEF TypesInv
    <3> QED BY <3>1, ElementOfSeq DEF Range
  <2>3. ASSUME NEW d \in Range(batch) PROVE WithOwn(docs, coded, d, general[d], new[d])
    <3>1. OwnVectors(docs, d, general[d]) /\ code[d] = <<>>
      BY <1>1 DEF AttachedInv
    <3>2. IF docs[d].kind = "code" THEN OwnVectors(docs, d, new[d]) ELSE new[d] = <<>>
      BY <1>2, <1>5, <2>1, <3>1
    <3> QED BY <1>3, <3>1, <3>2 DEF WithOwn
  <2>4. \A d \in Range(FlattenSeq(todo)) : new[d] = <<>>
    <3>1. \A d \in Range(FlattenSeq(todo)) : code[d] = <<>> /\ d \notin Range(b)
      BY <1>1, <1>2 DEF AttachedInv
    <3> QED BY <1>5, <2>2, <3>1
  <2> QED BY <1>1, <1>6, <2>3, <2>4 DEF AttachedInv
<1>12. StoredInv'
  BY <1>1 DEF StoredInv
<1>13. PaidInv'
  BY <1>1 DEF PaidInv
<1> QED BY <1>7, <1>8, <1>9, <1>10, <1>11, <1>12, <1>13

(* What is sent is no longer waiting.                                       *)
LEMMA Moved ==
  ASSUME NEW D, NEW A \in Seq(D), NEW C \in Seq(D), NEW h \in Seq(D), NEW w \in Seq(D), NEW T,
         Parted(A, C, h \o w, T)
  PROVE  Parted(A \o h, C, w, T) /\ Parted(A, C \o h, w, T)
<1>1. /\ Range(h \o w) = Range(h) \cup Range(w)
      /\ IsInjective(h) /\ IsInjective(w) /\ Range(h) \cap Range(w) = {}
  BY ConcatIs DEF Parted
<1>2. Range(A \o h) = Range(A) \cup Range(h)
      /\ (IsInjective(A) /\ IsInjective(h) /\ Range(A) \cap Range(h) = {} => IsInjective(A \o h))
  BY ConcatIs
<1>3. Range(C \o h) = Range(C) \cup Range(h)
      /\ (IsInjective(C) /\ IsInjective(h) /\ Range(C) \cap Range(h) = {} => IsInjective(C \o h))
  BY ConcatIs
<1>4. Parted(A \o h, C, w, T)
  <2>1. IsInjective(A \o h)
    BY <1>1, <1>2 DEF Parted
  <2> QED BY <1>1, <1>2, <2>1 DEF Parted
<1>5. Parted(A, C \o h, w, T)
  <2>1. IsInjective(C \o h)
    BY <1>1, <1>3 DEF Parted
  <2> QED BY <1>1, <1>3, <2>1 DEF Parted
<1> QED BY <1>4, <1>5

(* The part that is sent next.                                              *)
LEMMA PutIs ==
  ASSUME Held, pc = "upload", puts # <<>>
  PROVE  /\ Head(puts) \in Seq(DOMAIN docs) /\ Tail(puts) \in Seq(Seq(DOMAIN docs))
         /\ FlattenSeq(puts) \in Seq(DOMAIN docs) /\ FlattenSeq(Tail(puts)) \in Seq(DOMAIN docs)
         /\ FlattenSeq(todo) \in Seq(DOMAIN docs)
         /\ FlattenSeq(puts) = Head(puts) \o FlattenSeq(Tail(puts))
         /\ Range(Head(puts)) \subseteq Range(batch)
         /\ Range(FlattenSeq(Tail(puts))) \subseteq Range(batch)
         /\ FlattenSeq(Tail(puts)) \o FlattenSeq(todo) \in Seq(DOMAIN docs)
         /\ Parted(StoredDocs(stored), conflicts,
                   Head(puts) \o (FlattenSeq(Tail(puts)) \o FlattenSeq(todo)),
                   DOMAIN docs \ Oversized)
<1> DEFINE D == DOMAIN docs
           h == Head(puts)
           t == FlattenSeq(Tail(puts))
           o == FlattenSeq(todo)
<1>1. puts \in Seq(Seq(D)) /\ puts # <<>> /\ todo \in Seq(Seq(D))
  BY DEF Held, TypesInv
<1> HIDE DEF D
<1>2. h \in Seq(D) /\ Tail(puts) \in Seq(Seq(D)) /\ FlattenSeq(puts) = h \o t
  BY <1>1, HeadTailProperties, FlatHead
<1>3. t \in Seq(D) /\ FlattenSeq(puts) \in Seq(D) /\ o \in Seq(D)
  BY <1>1, <1>2, FlatType
<1>4. Range(FlattenSeq(puts)) \subseteq Range(batch)
  BY DEF Held, AttachedInv
<1> HIDE DEF h, t, o
<1>5. Range(h \o t) = Range(h) \cup Range(t) /\ t \o o \in Seq(D)
  BY <1>2, <1>3, ConcatIs
<1>6. Parted(StoredDocs(stored), conflicts, FlattenSeq(puts) \o o, DOMAIN docs \ Oversized)
  BY DEF Held, OnceInv, Waiting, o
<1>7. (h \o t) \o o = h \o (t \o o)
  <2>1. h \in Seq(D) /\ t \in Seq(D) /\ o \in Seq(D)
    BY <1>2, <1>3
  <2> QED BY <2>1, ConcatAssociative
<1> QED BY <1>2, <1>3, <1>4, <1>5, <1>6, <1>7 DEF D, h, t, o

(* The documents of stored rows.                                            *)
Appended(D, s, r, h) ==
  /\ StoredDocs(s) \in Seq(DOMAIN D)
  /\ s \o r \in Seq(StoredType(D)) /\ StoredDocs(s \o r) = StoredDocs(s) \o h
  /\ \A i \in DOMAIN (s \o r) : \/ \E j \in DOMAIN s : (s \o r)[i] = s[j]
                                \/ \E j \in 1..Len(h) : (s \o r)[i] = r[j]

(* The server's store after a body is added to it.                          *)
LEMMA StoredMore ==
  ASSUME NEW D, NEW s \in Seq(StoredType(D)), NEW r \in Seq(StoredType(D)),
         NEW h \in Seq(DOMAIN D), Len(r) = Len(h), \A k \in 1..Len(h) : r[k].doc = h[k]
  PROVE  Appended(D, s, r, h)
<1> DEFINE c == s \o r
           x == StoredDocs(s)
           z == StoredDocs(c)
           w == x \o h
<1>1. \A q \in Seq(StoredType(D)) :
        /\ StoredDocs(q) \in Seq(DOMAIN D) /\ Len(StoredDocs(q)) = Len(q)
        /\ DOMAIN q = 1..Len(q) /\ Len(q) \in Nat
        /\ \A k \in 1..Len(q) : StoredDocs(q)[k] = q[k].doc
  <2>1. ASSUME NEW q \in Seq(StoredType(D))
        PROVE  /\ StoredDocs(q) \in Seq(DOMAIN D) /\ Len(StoredDocs(q)) = Len(q)
               /\ DOMAIN q = 1..Len(q) /\ Len(q) \in Nat
               /\ \A k \in 1..Len(q) : StoredDocs(q)[k] = q[k].doc
    <3>1. DOMAIN q = 1..Len(q) /\ Len(q) \in Nat
      OBVIOUS
    <3>2. \A k \in 1..Len(q) : q[k].doc \in DOMAIN D
      <4>1. \A k \in 1..Len(q) : q[k] \in StoredType(D)
        BY ElementOfSeq
      <4> QED BY <4>1 DEF StoredType
    <3> QED BY <3>1, <3>2 DEF StoredDocs
  <2> QED BY <2>1
<1>2. /\ c \in Seq(StoredType(D)) /\ Len(c) = Len(s) + Len(r)
      /\ \A i \in 1..Len(s) : c[i] = s[i]
      /\ \A i \in 1..Len(r) : c[Len(s) + i] = r[i]
  <2>1. Joined(s, r, c, StoredType(D))
    BY JoinedIs
  <2> QED BY <2>1 DEF Joined
<1> HIDE DEF c
<1>3. /\ x \in Seq(DOMAIN D) /\ Len(x) = Len(s) /\ \A k \in 1..Len(s) : x[k] = s[k].doc
      /\ z \in Seq(DOMAIN D) /\ Len(z) = Len(c) /\ \A k \in 1..Len(c) : z[k] = c[k].doc
      /\ Len(s) \in Nat /\ Len(r) \in Nat /\ DOMAIN s = 1..Len(s) /\ DOMAIN c = 1..Len(c)
  BY <1>1, <1>2
<1> HIDE DEF x, z
<1>4. /\ w \in Seq(DOMAIN D) /\ Len(w) = Len(x) + Len(h)
      /\ \A i \in 1..Len(x) : w[i] = x[i]
      /\ \A i \in 1..Len(h) : w[Len(x) + i] = h[i]
  <2>1. x \in Seq(DOMAIN D)
    BY <1>3
  <2> QED BY <2>1, ConcatProperties
<1> HIDE DEF w
<1>5. ASSUME NEW k \in 1..Len(c)
      PROVE  /\ z[k] = w[k]
             /\ \/ \E j \in DOMAIN s : c[k] = s[j]
                \/ \E j \in 1..Len(h) : c[k] = r[j]
  <2>1. CASE k \in 1..Len(s)
    <3>1. c[k] = s[k] /\ w[k] = x[k]
      BY <1>2, <1>3, <1>4, <2>1
    <3>2. z[k] = c[k].doc /\ x[k] = s[k].doc
      BY <1>3, <2>1
    <3> QED BY <1>3, <2>1, <3>1, <3>2
  <2>2. CASE k \notin 1..Len(s)
    <3>1. k - Len(s) \in 1..Len(r) /\ Len(s) + (k - Len(s)) = k
      BY <1>2, <1>3, <2>2
    <3> DEFINE j == k - Len(s)
    <3>2. j \in 1..Len(r) /\ Len(s) + j = k
      BY <3>1
    <3> HIDE DEF j
    <3>3. c[Len(s) + j] = r[j] /\ w[Len(x) + j] = h[j]
      BY <1>2, <1>4, <3>2
    <3>4. z[k] = c[k].doc /\ r[j].doc = h[j]
      BY <1>3, <3>2
    <3> QED BY <1>3, <3>2, <3>3, <3>4
  <2> QED BY <2>1, <2>2
<1>6. z = w
  <2>1. z \in Seq(DOMAIN D) /\ w \in Seq(DOMAIN D) /\ Len(z) = Len(w)
        /\ \A k \in 1..Len(z) : z[k] = w[k]
    BY <1>2, <1>3, <1>4, <1>5
  <2> QED BY <2>1, SeqEqual
<1> QED BY <1>2, <1>3, <1>5, <1>6 DEF c, w, x, z, Appended

(* Two parts are one after the other.                                       *)
LEMMA PairJoined ==
  ASSUME NEW x, NEW y PROVE <<x, y>> = <<x>> \o <<y>>
<1> DEFINE S == {x, y}
           a == <<x>>
           b == <<y>>
           c == a \o b
           z == <<x, y>>
<1>1. /\ a \in Seq(S) /\ Len(a) = 1 /\ a[1] = x
      /\ b \in Seq(S) /\ Len(b) = 1 /\ b[1] = y
      /\ z \in Seq(S) /\ Len(z) = 2 /\ z[1] = x /\ z[2] = y
  OBVIOUS
<1> HIDE DEF S, a, b, z
<1>2. Joined(a, b, c, S)
  BY <1>1, JoinedIs
<1> HIDE DEF c
<1>3. /\ c \in Seq(S) /\ Len(c) = 2 /\ c[1] = a[1] /\ c[1 + 1] = b[1]
  BY <1>1, <1>2 DEF Joined
<1>4. \A k \in 1..Len(z) : z[k] = c[k]
  BY <1>1, <1>3
<1>5. z = c
  BY <1>1, <1>3, <1>4, SeqEqual
<1> QED BY <1>5 DEF a, b, c, z

(* A part is halved into two parts with the same documents.                 *)
LEMMA HalvedIs ==
  ASSUME NEW T, NEW h \in Seq(T)
  PROVE  Halved(h) \in Seq(Seq(T)) /\ FlattenSeq(Halved(h)) = h
<1> DEFINE mid == Len(h) \div 2
           x == SubSeq(h, 1, mid)
           y == SubSeq(h, mid + 1, Len(h))
<1>1. Len(h) \in Nat /\ mid \in Nat /\ mid <= Len(h)
  <2>1. Len(h) \in Nat
    OBVIOUS
  <2> QED BY <2>1
<1>2. Halved(h) = <<x, y>>
  BY DEF Halved
<1> HIDE DEF mid
<1>3. x \in Seq(T) /\ y \in Seq(T)
  <2>1. \A i \in 1..Len(h) : h[i] \in T
    BY ElementOfSeq
  <2>2. (\A i \in 1..mid : h[i] \in T) /\ \A i \in (mid + 1)..Len(h) : h[i] \in T
    BY <1>1, <2>1
  <2>3. 1 \in Int /\ mid \in Int /\ mid + 1 \in Int /\ Len(h) \in Int
    BY <1>1
  <2> QED BY <2>2, <2>3, SubSeqProperties
<1>4. x \o y = h
  <2>1. SubSeq(h, 1, mid) \o SubSeq(h, mid + 1, Len(h)) = SubSeq(h, 1, Len(h))
    <3>1. 1 \in 1..(Len(h) + 1) /\ mid \in (1 - 1)..Len(h) /\ Len(h) \in mid..Len(h)
      BY <1>1
    <3> QED BY <1>1, <3>1, ConcatAdjacentSubSeq
  <2> QED BY <1>1, <2>1, SubSeqFull
<1> HIDE DEF x, y
<1> DEFINE a == <<x>>
           b == <<y>>
<1>5. /\ a \in Seq(Seq(T)) /\ b \in Seq(Seq(T)) /\ <<x, y>> = a \o b
  <2>1. <<x, y>> = a \o b
    BY PairJoined
  <2>2. a \in Seq(Seq(T))
    BY <1>3
  <2>3. b \in Seq(Seq(T))
    BY <1>3
  <2> QED BY <2>1, <2>2, <2>3
<1>6. FlattenSeq(a) = x /\ FlattenSeq(b) = y
  BY <1>3, FlatOne
<1> HIDE DEF a, b
<1>8. FlattenSeq(a \o b) = x \o y
  BY <1>5, <1>6, FlatConcat
<1>7. <<x, y>> \in Seq(Seq(T))
  BY <1>3
<1> QED BY <1>2, <1>4, <1>5, <1>7, <1>8

(* A part that is stored holds documents with their own vectors.            *)
LEMMA PutHolds ==
  ASSUME Held, Put
  PROVE  Held'
<1> USE DEF Held
<1> DEFINE h == Head(puts)
           rows == [k \in DOMAIN h |-> Row(h[k])]
           w == FlattenSeq(Tail(puts)) \o FlattenSeq(todo)
<1>1. /\ pc = "upload" /\ pc' = pc /\ puts # <<>>
      /\ stored' = stored \o rows /\ puts' = Tail(puts)
      /\ run' = run /\ docs' = docs /\ carried' = carried /\ skipped' = skipped
      /\ todo' = todo /\ batch' = batch /\ general' = general /\ code' = code
      /\ calls' = calls /\ vectors' = vectors
      /\ conflicts' = conflicts /\ billed' = billed /\ lost' = lost /\ coded' = coded
  BY DEF Put, loop, embeds, ghosts, coded
<1>2. /\ h \in Seq(DOMAIN docs) /\ puts' \in Seq(Seq(DOMAIN docs))
      /\ Range(h) \subseteq Range(batch) /\ Range(FlattenSeq(puts')) \subseteq Range(batch)
      /\ w \in Seq(DOMAIN docs)
      /\ Parted(StoredDocs(stored), conflicts, h \o w, DOMAIN docs \ Oversized)
  BY <1>1, PutIs
<1>3. /\ general \in [DOMAIN docs -> Seq(VectorType)] /\ code \in [DOMAIN docs -> Seq(VectorType)]
      /\ stored \in Seq(StoredType(docs)) /\ conflicts \in Seq(DOMAIN docs)
  BY <1>1 DEF TypesInv
<1>4. \A d \in Range(batch) : WithOwn(docs, coded, d, general[d], code[d])
  BY <1>1 DEF AttachedInv
<1> HIDE DEF h
<1>5. DOMAIN h = 1..Len(h) /\ Len(h) \in Nat /\ \A k \in 1..Len(h) : h[k] \in DOMAIN docs /\ h[k] \in Range(batch)
  <2>1. DOMAIN h = 1..Len(h) /\ Len(h) \in Nat
    BY <1>2
  <2>2. \A k \in 1..Len(h) : h[k] \in DOMAIN docs
    BY <1>2, ElementOfSeq
  <2>3. \A k \in 1..Len(h) : h[k] \in Range(batch)
    BY <1>2, <2>1 DEF Range
  <2> QED BY <2>1, <2>2, <2>3
<1>6. /\ rows \in Seq(StoredType(docs)) /\ Len(rows) = Len(h)
      /\ \A k \in 1..Len(h) : rows[k] = Row(h[k]) /\ rows[k].doc = h[k]
  <2>1. \A d \in DOMAIN docs : Row(d) \in StoredType(docs) /\ Row(d).doc = d
    BY <1>3 DEF Row, StoredType
  <2>2. \A k \in 1..Len(h) : Row(h[k]) \in StoredType(docs) /\ Row(h[k]).doc = h[k]
    BY <1>5, <2>1
  <2> HIDE DEF Row
  <2> QED BY <1>5, <2>2
<1> HIDE DEF rows, w
<1>7. /\ StoredDocs(stored) \in Seq(DOMAIN docs)
      /\ stored' \in Seq(StoredType(docs)) /\ StoredDocs(stored') = StoredDocs(stored) \o h
      /\ \A i \in DOMAIN stored' : \/ \E j \in DOMAIN stored : stored'[i] = stored[j]
                                   \/ \E j \in 1..Len(h) : stored'[i] = rows[j]
  <2> DEFINE more == stored \o rows
  <2>1. /\ StoredDocs(stored) \in Seq(DOMAIN docs)
        /\ more \in Seq(StoredType(docs)) /\ StoredDocs(more) = StoredDocs(stored) \o h
        /\ \A i \in DOMAIN more : \/ \E j \in DOMAIN stored : more[i] = stored[j]
                                  \/ \E j \in 1..Len(h) : more[i] = rows[j]
    <3>1. /\ stored \in Seq(StoredType(docs)) /\ rows \in Seq(StoredType(docs))
          /\ h \in Seq(DOMAIN docs) /\ Len(rows) = Len(h) /\ \A k \in 1..Len(h) : rows[k].doc = h[k]
      BY <1>2, <1>3, <1>6
    <3>2. Appended(docs, stored, rows, h)
      BY <3>1, StoredMore
    <3> QED BY <3>2 DEF Appended
  <2> HIDE DEF more
  <2>2. stored' = more
    BY <1>1 DEF more
  <2> QED BY <2>1, <2>2
<1>8. PlanInv' /\ Oversized' = Oversized
  BY <1>1, PlanKept
<1>9. SkippedInv'
  BY <1>1, SkippedKept
<1>10. TypesInv'
  BY <1>1, <1>2, <1>7 DEF TypesInv
<1>11. OnceInv'
  <2>1. Parted(StoredDocs(stored'), conflicts, w, DOMAIN docs \ Oversized)
    BY <1>2, <1>3, <1>7, Moved
  <2>2. w = Waiting(pc', batch', puts', todo')
    BY <1>1 DEF Waiting, w
  <2> QED BY <1>1, <1>2, <1>8, <2>1, <2>2 DEF OnceInv
<1>12. AttachedInv'
  BY <1>1, <1>2 DEF AttachedInv
<1>13. StoredInv'
  <2>1. ASSUME NEW i \in DOMAIN stored'
        PROVE  WithOwn(docs, coded, stored'[i].doc, stored'[i].general, stored'[i].code)
    <3>1. CASE \E j \in DOMAIN stored : stored'[i] = stored[j]
      BY <3>1 DEF StoredInv
    <3>2. CASE \E j \in 1..Len(h) : stored'[i] = rows[j]
      <4>1. PICK j \in 1..Len(h) : stored'[i] = Row(h[j])
        BY <1>6, <3>2
      <4>2. /\ stored'[i].doc = h[j] /\ stored'[i].general = general[h[j]]
            /\ stored'[i].code = code[h[j]]
        BY <4>1 DEF Row
      <4> QED BY <1>4, <1>5, <4>2
    <3> QED BY <1>7, <3>1, <3>2
  <2> QED BY <1>1, <2>1 DEF StoredInv
<1>14. PaidInv'
  BY <1>1 DEF PaidInv
<1> QED BY <1>8, <1>9, <1>10, <1>11, <1>12, <1>13, <1>14

(* A part that is too large is halved, or is one document and given up.     *)
LEMMA PutTooLargeHolds ==
  ASSUME Held, PutTooLarge
  PROVE  Held'
<1> USE DEF Held
<1> DEFINE h == Head(puts)
           t == FlattenSeq(Tail(puts))
           o == FlattenSeq(todo)
<1>1. /\ pc = "upload" /\ pc' = pc /\ puts # <<>>
      /\ run' = run /\ docs' = docs /\ carried' = carried /\ skipped' = skipped
      /\ todo' = todo /\ batch' = batch /\ general' = general /\ code' = code
      /\ calls' = calls /\ vectors' = vectors /\ stored' = stored
      /\ billed' = billed /\ lost' = lost /\ coded' = coded
      /\ \/ puts' = Halved(h) \o Tail(puts) /\ conflicts' = conflicts
         \/ conflicts' = conflicts \o h /\ puts' = Tail(puts)
  BY DEF PutTooLarge, loop, embeds, ghosts, coded
<1>2. /\ h \in Seq(DOMAIN docs) /\ Tail(puts) \in Seq(Seq(DOMAIN docs))
      /\ FlattenSeq(puts) = h \o t /\ Range(FlattenSeq(puts)) \subseteq Range(batch)
      /\ t \in Seq(DOMAIN docs) /\ o \in Seq(DOMAIN docs) /\ t \o o \in Seq(DOMAIN docs)
      /\ Range(t) \subseteq Range(batch)
      /\ Parted(StoredDocs(stored), conflicts, h \o (t \o o), DOMAIN docs \ Oversized)
  BY <1>1, PutIs DEF AttachedInv
<1>3. /\ stored \in Seq(StoredType(docs)) /\ conflicts \in Seq(DOMAIN docs)
      /\ StoredDocs(stored) \in Seq(DOMAIN docs)
  <2>1. stored \in Seq(StoredType(docs)) /\ conflicts \in Seq(DOMAIN docs)
    BY DEF TypesInv
  <2>2. DOMAIN stored = 1..Len(stored) /\ Len(stored) \in Nat
    BY <2>1
  <2>3. \A i \in 1..Len(stored) : stored[i].doc \in DOMAIN docs
    <3>1. \A i \in 1..Len(stored) : stored[i] \in StoredType(docs)
      BY <2>1, ElementOfSeq
    <3> QED BY <3>1 DEF StoredType
  <2> QED BY <2>1, <2>2, <2>3 DEF StoredDocs
<1> HIDE DEF h, t, o
<1>4. PlanInv' /\ Oversized' = Oversized
  BY <1>1, PlanKept
<1>5. SkippedInv'
  BY <1>1, SkippedKept
<1>6. StoredInv' /\ PaidInv'
  BY <1>1 DEF StoredInv, PaidInv
<1>7. CASE puts' = Halved(h) \o Tail(puts) /\ conflicts' = conflicts
  <2>1. Halved(h) \in Seq(Seq(DOMAIN docs)) /\ FlattenSeq(Halved(h)) = h
    BY <1>2, HalvedIs
  <2>2. puts' \in Seq(Seq(DOMAIN docs)) /\ FlattenSeq(puts') = FlattenSeq(puts)
    <3> DEFINE D == DOMAIN docs
               a == Halved(h)
               b == Tail(puts)
    <3>1. a \in Seq(Seq(D)) /\ b \in Seq(Seq(D)) /\ FlattenSeq(a) = h /\ FlattenSeq(b) = t
      BY <1>2, <2>1 DEF t
    <3> HIDE DEF D, a, b
    <3>2. a \o b \in Seq(Seq(D))
      BY <3>1
    <3>3. FlattenSeq(a \o b) = FlattenSeq(a) \o FlattenSeq(b)
      BY <3>1, FlatConcat
    <3> QED BY <1>2, <1>7, <3>1, <3>2, <3>3 DEF D, a, b
  <2>3. TypesInv'
    BY <1>1, <1>7, <2>2 DEF TypesInv
  <2>4. OnceInv'
    <3>1. Waiting(pc', batch', puts', todo') = Waiting(pc, batch, puts, todo)
      BY <1>1, <2>2 DEF Waiting
    <3> QED BY <1>1, <1>4, <1>7, <3>1 DEF OnceInv
  <2>5. AttachedInv'
    BY <1>1, <1>2, <2>2 DEF AttachedInv
  <2> QED BY <1>4, <1>5, <1>6, <2>3, <2>4, <2>5
<1>8. CASE conflicts' = conflicts \o h /\ puts' = Tail(puts)
  <2>1. conflicts' \in Seq(DOMAIN docs) /\ FlattenSeq(puts') = t
    BY <1>2, <1>3, <1>8, ConcatIs DEF t
  <2>2. TypesInv'
    BY <1>1, <1>2, <1>8, <2>1 DEF TypesInv
  <2>3. OnceInv'
    <3>1. Parted(StoredDocs(stored), conflicts \o h, t \o o, DOMAIN docs \ Oversized)
      BY <1>2, <1>3, Moved
    <3>2. t \o o = Waiting(pc', batch', puts', todo')
      BY <1>1, <2>1 DEF Waiting, o
    <3> QED BY <1>1, <1>2, <1>4, <1>8, <3>1, <3>2 DEF OnceInv
  <2>4. AttachedInv'
    BY <1>1, <1>2, <2>1 DEF AttachedInv
  <2> QED BY <1>4, <1>5, <1>6, <2>2, <2>3, <2>4
<1> QED BY <1>1, <1>7, <1>8

(* A run that is aborted keeps what it has done.                            *)
LEMMA PutFailsHolds ==
  ASSUME Held, PutFails
  PROVE  Held'
<1> USE DEF Held
<1>1. /\ pc = "upload" /\ pc' = "failed"
      /\ run' = run /\ docs' = docs /\ carried' = carried /\ skipped' = skipped
      /\ todo' = todo /\ batch' = batch /\ general' = general /\ code' = code
      /\ calls' = calls /\ vectors' = vectors /\ puts' = puts /\ stored' = stored
      /\ conflicts' = conflicts /\ billed' = billed /\ lost' = lost /\ coded' = coded
  BY DEF PutFails, Fail, loop, embeds, server, ghosts, coded
<1>2. PlanInv' /\ Oversized' = Oversized
  BY <1>1, PlanKept
<1>3. SkippedInv'
  BY <1>1, SkippedKept
<1>4. TypesInv'
  BY <1>1 DEF TypesInv
<1>5. OnceInv'
  BY <1>1, <1>2 DEF OnceInv
<1>6. AttachedInv' /\ StoredInv' /\ PaidInv'
  BY <1>1 DEF AttachedInv, StoredInv, PaidInv
<1> QED BY <1>2, <1>3, <1>4, <1>5, <1>6

(* When the parts are sent the next batch is due, and in the end none.      *)
LEMMA NextBatchHolds ==
  ASSUME Held, NextBatch \/ Finish
  PROVE  Held'
<1> USE DEF Held
<1>1. /\ pc' # "pack" /\ pc # "pack" /\ batch' \in Seq(DOMAIN docs)
      /\ run' = run /\ docs' = docs /\ carried' = carried /\ skipped' = skipped
      /\ todo' = todo /\ general' = general /\ code' = code
      /\ calls' = calls /\ vectors' = vectors /\ puts' = puts /\ stored' = stored
      /\ conflicts' = conflicts /\ billed' = billed /\ lost' = lost /\ coded' = coded
      /\ \/ pc = "upload" /\ puts = <<>> /\ pc' = "next"
         \/ pc = "next" /\ todo = <<>> /\ pc' = "done"
  <2>1. batch \in Seq(DOMAIN docs) /\ <<>> \in Seq(DOMAIN docs)
    BY DEF TypesInv
  <2>2. CASE NextBatch
    BY <2>1, <2>2 DEF NextBatch, loop, embeds, server, ghosts, coded
  <2>3. CASE Finish
    BY <2>1, <2>3 DEF Finish, loop, embeds, server, ghosts, coded
  <2> QED BY <2>2, <2>3
<1>2. PlanInv' /\ Oversized' = Oversized
  BY <1>1, PlanKept
<1>3. SkippedInv'
  BY <1>1, SkippedKept
<1>4. TypesInv'
  BY <1>1 DEF TypesInv
<1>5. OnceInv'
  <2>1. FlattenSeq(todo) \in Seq(DOMAIN docs)
    BY FlatType DEF TypesInv
  <2>2. Waiting(pc', batch', puts', todo') = Waiting(pc, batch, puts, todo)
    <3>1. CASE pc = "upload"
      <4> DEFINE o == FlattenSeq(todo)
      <4>1. <<>> \o o = o
        <5>1. o \in Seq(DOMAIN docs)
          BY <2>1
        <5> HIDE DEF o
        <5> QED BY <5>1
      <4> QED BY <1>1, <3>1, <4>1, FlatEmpty DEF Waiting
    <3>2. CASE pc = "next"
      BY <1>1, <3>2, FlatEmpty DEF Waiting
    <3> QED BY <1>1, <3>1, <3>2
  <2> QED BY <1>1, <1>2, <2>2 DEF OnceInv
<1>6. AttachedInv' /\ StoredInv' /\ PaidInv'
  BY <1>1 DEF AttachedInv, StoredInv, PaidInv
<1> QED BY <1>2, <1>3, <1>4, <1>5, <1>6

-----------------------------------------------------------------------------
(* The theorems.                                                            *)

LEMMA StepHolds ==
  ASSUME UploadsInv, [Next]_vars
  PROVE  UploadsInv'
<1>1. CASE UNCHANGED vars
  <2>1. /\ run' = run /\ docs' = docs /\ carried' = carried /\ skipped' = skipped
        /\ pc' = pc /\ todo' = todo /\ batch' = batch /\ general' = general /\ code' = code
        /\ calls' = calls /\ vectors' = vectors /\ puts' = puts /\ stored' = stored
        /\ conflicts' = conflicts /\ billed' = billed /\ lost' = lost /\ coded' = coded
    BY <1>1 DEF vars, loop, embeds, server, ghosts, coded
  <2>2. CASE Refused
    BY <2>1, <2>2 DEF UploadsInv, Refused
  <2>3. CASE Held
    <3>1. PlanInv' /\ Oversized' = Oversized
      BY <2>1, <2>3, PlanKept DEF Held
    <3>2. SkippedInv'
      <4>1. Found' = Found /\ Regular' = Regular
        BY <2>1 DEF Found, Regular, File
      <4>2. Unchanged' = Unchanged /\ Empty' = Empty
        BY <2>1, <4>1 DEF Unchanged, Empty, File
      <4> QED BY <2>1, <2>3, <3>1, <4>1, <4>2 DEF Held, SkippedInv
    <3>3. TypesInv'
      BY <2>1, <2>3 DEF Held, TypesInv
    <3>4. OnceInv'
      BY <2>1, <2>3, <3>1 DEF Held, OnceInv
    <3>5. AttachedInv' /\ StoredInv' /\ PaidInv'
      BY <2>1, <2>3 DEF Held, AttachedInv, StoredInv, PaidInv
    <3> QED BY <3>1, <3>2, <3>3, <3>4, <3>5 DEF UploadsInv, Held
  <2> QED BY <2>2, <2>3 DEF UploadsInv
<1>2. CASE Next
  <2>1. pc # "failed"
    BY <1>2 DEF Next, PackBatches, StartBatch, Embedded, Rejected, RejectedByProxy, Unanswered,
                Embedding, Attach, AttachCode, Put, PutTooLarge, PutFails, NextBatch, Finish
  <2>2. Held
    BY <2>1 DEF UploadsInv, Refused
  <2>3. CASE PackBatches \/ StartBatch
    BY <2>2, <2>3, PackHolds, StartHolds DEF UploadsInv
  <2>4. CASE Embedded \/ Rejected \/ RejectedByProxy \/ Unanswered
    BY <2>2, <2>4, EmbeddedHolds, RejectedHolds, RejectedByProxyHolds, UnansweredHolds DEF UploadsInv
  <2>5. CASE Attach \/ AttachCode
    BY <2>2, <2>5, AttachHolds, AttachCodeHolds DEF UploadsInv
  <2>6. CASE Put \/ PutTooLarge \/ PutFails
    BY <2>2, <2>6, PutHolds, PutTooLargeHolds, PutFailsHolds DEF UploadsInv
  <2>7. CASE NextBatch \/ Finish
    BY <2>2, <2>7, NextBatchHolds DEF UploadsInv
  <2> QED BY <1>2, <2>3, <2>4, <2>5, <2>6, <2>7 DEF Next
<1> QED BY <1>1, <1>2

(* In every state of a run that was not refused, each planned document is   *)
(* stored, given up or waiting, once; what is embedded of a batch are its   *)
(* chunks in order; and what the provider was paid for a chunk is bounded   *)
(* by where it stands in the loop.                                          *)
THEOREM UploadsInvariant == Spec => []UploadsInv
<1>1. Init => UploadsInv
  BY InitHeld
<1>2. UploadsInv /\ [Next]_vars => UploadsInv'
  BY StepHolds
<1> QED BY <1>1, <1>2, PTL DEF Spec

(* The chunks of every planned document lie in its text in order, without   *)
(* overlap, lose no line that is not blank, and exceed the budget only as   *)
(* a single line, whatever the text and the limits are.                     *)
THEOREM ChunksAlwaysTile == Spec => []ChunksTile
<1>1. UploadsInv => ChunksTile
  <2>1. CASE Refused
    BY <2>1 DEF Refused, ChunksTile
  <2>2. CASE Held
    BY <2>2 DEF Held, PlanInv, ChunksTile, File
  <2> QED BY <2>1, <2>2 DEF UploadsInv
<1> QED BY <1>1, UploadsInvariant, PTL

(* Splitting and retrying never have a chunk embedded again that has been   *)
(* paid for, except where an answer was lost.                               *)
THEOREM NeverBilledTwice == Spec => []NothingBilledTwice
<1>1. UploadsInv => NothingBilledTwice
  <2>1. CASE billed = <<>>
    BY <2>1 DEF NothingBilledTwice
  <2>2. CASE Held /\ pc # "pack"
    <3>1. /\ DOMAIN billed = DOMAIN docs
          /\ \A d \in DOMAIN docs :
               /\ DOMAIN billed[d] = 1..SizeOf(docs, d)
               /\ \A k \in 1..SizeOf(docs, d) : billed[d][k] <= lost + Ceiling(docs, coded, d)
      BY <2>2 DEF Held, PaidInv
    <3> QED BY <3>1 DEF NothingBilledTwice, Ceiling
  <2>3. Refused => billed = <<>>
    BY DEF Refused
  <2>4. Held /\ pc = "pack" => billed = <<>>
    BY DEF Held, TypesInv
  <2> QED BY <2>1, <2>2, <2>3, <2>4 DEF UploadsInv
<1> QED BY <1>1, UploadsInvariant, PTL

(* The stored rows hold the vectors of their documents.                     *)
LEMMA HeldAligned ==
  ASSUME Held PROVE VectorsAligned
<1>1. \A d, vs : OwnVectors(docs, d, vs) <=> Own(d, vs)
  BY DEF OwnVectors, Own, SizeOf, ChunksOf
<1> QED BY <1>1 DEF Held, StoredInv, WithOwn, VectorsAligned

(* The documents sent so far.                                               *)
LEMMA SentIs ==
  ASSUME Held
  PROVE  /\ Sent \in Seq(DOMAIN docs) /\ IsInjective(Sent)
         /\ pc # "pack" => Range(Sent) \subseteq DOMAIN docs \ Oversized
         /\ pc = "done" => Range(Sent) = DOMAIN docs \ Oversized
         /\ pc = "pack" => Range(Sent) = {}
<1> DEFINE a == StoredDocs(stored)
           D == DOMAIN docs
<1>1. Sent = a \o conflicts
  BY DEF Sent, StoredDocs
<1>2. stored \in Seq(StoredType(docs)) /\ conflicts \in Seq(D)
  BY DEF Held, TypesInv
<1>3. a \in Seq(D)
  <2>1. DOMAIN stored = 1..Len(stored) /\ Len(stored) \in Nat
    BY <1>2
  <2>2. \A i \in 1..Len(stored) : stored[i].doc \in DOMAIN docs
    <3>1. \A i \in 1..Len(stored) : stored[i] \in StoredType(docs)
      BY <1>2, ElementOfSeq
    <3> QED BY <3>1 DEF StoredType
  <2> QED BY <2>1, <2>2 DEF StoredDocs
<1>4. pc = "pack" => a = <<>> /\ conflicts = <<>>
  BY DEF Held, TypesInv, StoredDocs
<1>5. pc # "pack" => \E W \in Seq(D) : Parted(a, conflicts, W, D \ Oversized)
                                      /\ (pc = "done" => W = <<>>)
  BY DEF Held, OnceInv, Waiting
<1> HIDE DEF a, D
<1>6. /\ a \o conflicts \in Seq(D) /\ Range(a \o conflicts) = Range(a) \cup Range(conflicts)
      /\ IsInjective(a) /\ IsInjective(conflicts) /\ Range(a) \cap Range(conflicts) = {}
           => IsInjective(a \o conflicts)
  BY <1>2, <1>3, ConcatIs
<1>7. CASE pc = "pack"
  BY <1>1, <1>4, <1>6, <1>7 DEF IsInjective, Range, D
<1>8. CASE pc # "pack"
  <2>1. PICK W \in Seq(D) : Parted(a, conflicts, W, D \ Oversized) /\ (pc = "done" => W = <<>>)
    BY <1>5, <1>8
  <2>2. IsInjective(a \o conflicts) /\ Range(a \o conflicts) \subseteq D \ Oversized
    BY <1>6, <2>1 DEF Parted
  <2>3. pc = "done" => Range(a \o conflicts) = D \ Oversized
    <3>1. Range(<<>>) = {}
      BY DEF Range
    <3> QED BY <1>6, <2>1, <3>1 DEF Parted
  <2> QED BY <1>1, <1>6, <1>8, <2>2, <2>3 DEF D
<1> QED BY <1>7, <1>8

(* No file is handled twice, or handled and skipped, and in the end none is *)
(* missed.                                                                  *)
LEMMA HeldOnce ==
  ASSUME Held PROVE EveryDocumentOnce
<1> DEFINE f == [i \in DOMAIN Sent |-> docs[Sent[i]].file]
           T == DOMAIN run.tree
<1>1. /\ Sent \in Seq(DOMAIN docs) /\ IsInjective(Sent)
      /\ pc # "pack" => Range(Sent) \subseteq DOMAIN docs \ Oversized
      /\ pc = "done" => Range(Sent) = DOMAIN docs \ Oversized
      /\ pc = "pack" => Range(Sent) = {}
  BY SentIs
<1>2. /\ \A d, e \in DOMAIN docs : docs[d].file = docs[e].file => d = e
      /\ {docs[d].file : d \in DOMAIN docs} = New \cap Range(Found)
      /\ carried \in Seq(T) /\ IsInjective(carried)
      /\ Range(carried) = Unchanged \cap Range(Found)
      /\ run \in Runs
  BY DEF Held, PlanInv
<1>3. Range(skipped) = (Range(Found) \ Regular) \cup ((Empty \ Unchanged) \cap Range(Found))
        \cup (IF pc = "pack" THEN {} ELSE {docs[d].file : d \in Oversized})
  BY DEF Held, SkippedInv
<1>4. /\ New = Regular \ (Unchanged \cup Empty) /\ Unchanged \subseteq Regular
      /\ Empty \subseteq Regular /\ Regular \subseteq T /\ Oversized \subseteq DOMAIN docs
  BY DEF New, Unchanged, Empty, Regular, Oversized
<1>5. DOMAIN Sent = 1..Len(Sent) /\ Len(Sent) \in Nat
      /\ \A i \in DOMAIN Sent : Sent[i] \in DOMAIN docs
  BY <1>1, ElementOfSeq
<1>6. \A d \in DOMAIN docs : docs[d].file \in T
  BY <1>2, <1>4
<1>7. f \in Seq(T) /\ IsInjective(f) /\ Range(f) = {docs[d].file : d \in Range(Sent)}
  <2>1. f \in Seq(T)
    BY <1>5, <1>6
  <2>2. IsInjective(f)
    BY <1>1, <1>2, <1>5 DEF IsInjective
  <2>3. Range(f) = {docs[d].file : d \in Range(Sent)}
    BY DEF Range
  <2> QED BY <2>1, <2>2, <2>3
<1>8. Range(Sent) \subseteq DOMAIN docs
  BY <1>5 DEF Range
<1>9. Range(f) \subseteq New \cap Range(Found)
  BY <1>2, <1>7, <1>8
<1>10. Handled = f \o carried
  BY DEF Handled
<1> HIDE DEF f, T
<1>11. IsInjective(Handled) /\ Range(Handled) = Range(f) \cup Range(carried)
  <2>1. Range(f) \cap Range(carried) = {}
    BY <1>2, <1>4, <1>9
  <2> QED BY <1>2, <1>7, <1>10, <2>1, ConcatIs
<1>12. Range(Handled) \cap Range(skipped) = {}
  <2>1. ASSUME pc # "pack" PROVE Range(f) \cap {docs[d].file : d \in Oversized} = {}
    BY <1>1, <1>2, <1>4, <1>7, <2>1
  <2> QED BY <1>2, <1>3, <1>4, <1>9, <1>11, <2>1
<1>13. ASSUME pc = "done"
       PROVE  Range(Handled) \cup Range(skipped) = Declared(run.manifest, run.tree, run.opts)
  <2>1. Range(f) \cup {docs[d].file : d \in Oversized} = New \cap Range(Found)
    BY <1>1, <1>2, <1>4, <1>7, <1>13
  <2>2. Range(Handled) \cup Range(skipped) = Range(Found)
    BY <1>2, <1>3, <1>4, <1>11, <1>13, <2>1
  <2> QED BY <1>2, <2>2, FoundIs
<1> QED BY <1>11, <1>12, <1>13 DEF EveryDocumentOnce

(* What is stored was declared, once, and carries its own vectors, whatever *)
(* the order of the answers and however requests and parts were split.      *)
THEOREM AlwaysStoredRight == Spec => []StoredRight
<1>1. UploadsInv => StoredRight
  <2>1. CASE Refused
    <3>1. VectorsAligned
      BY <2>1 DEF Refused, VectorsAligned
    <3>2. Sent = <<>>
      BY <2>1 DEF Refused, Sent
    <3>3. Handled = <<>>
      BY <2>1, <3>2 DEF Refused, Handled
    <3>4. EveryDocumentOnce
      BY <2>1, <3>3 DEF Refused, EveryDocumentOnce, IsInjective, Range
    <3> QED BY <3>1, <3>4 DEF StoredRight
  <2>2. CASE Held
    BY <2>2, HeldAligned, HeldOnce DEF StoredRight
  <2> QED BY <2>1, <2>2 DEF UploadsInv
<1> QED BY <1>1, UploadsInvariant, PTL
=============================================================================
