---------------------------- MODULE AgentProofs -----------------------------
(***************************************************************************)
(* Proofs about Agent, for every corpus, every first call and every limit: *)
(* a walk misses nothing, an offered call is not refused, and the offers   *)
(* of an empty answer lead to the results they hide.                       *)
(***************************************************************************)
EXTENDS Agent, CollectionTheorems

-----------------------------------------------------------------------------
(* Pages: parts of a document, and what the guard leaves of them.           *)

(* The lesser of two integers.                                              *)
LEMMA LesserIs ==
  ASSUME NEW a \in Int, NEW b \in Int
  PROVE  Min({a, b}) = IF a <= b THEN a ELSE b
<1>1. \E x \in {a, b} : \A y \in {a, b} : x <= y
  OBVIOUS
<1>2. Min({a, b}) \in {a, b} /\ \A y \in {a, b} : Min({a, b}) <= y
  BY <1>1 DEF Min
<1> QED BY <1>2

Id2 == (DOMAIN Corpus) \X Nat

(* The chunks of a document, named in their order.                          *)
LEMMA ChunksAre ==
  ASSUME NEW d \in DOMAIN Corpus
  PROVE  /\ ChunksOf(d) \in Seq(Id2) /\ DOMAIN ChunksOf(d) = DOMAIN Corpus[d].chunks
         /\ DOMAIN ChunksOf(d) = 1..Len(ChunksOf(d)) /\ Len(ChunksOf(d)) \in Nat
         /\ \A i \in 1..Len(ChunksOf(d)) : ChunksOf(d)[i] = <<d, i>>
<1> DEFINE n == Len(Corpus[d].chunks)
           all == ChunksOf(d)
<1>1. n \in Nat /\ DOMAIN Corpus[d].chunks = 1..n
  BY CorpusAssumption
<1>2. all = [i \in 1..n |-> <<d, i>>]
  BY <1>1 DEF ChunksOf
<1> HIDE DEF n, all
<1>3. all \in Seq(Id2)
  <2>1. \A i \in 1..n : <<d, i>> \in Id2
    BY <1>1 DEF Id2
  <2> QED BY <1>1, <1>2, <2>1
<1>4. DOMAIN all = 1..n /\ Len(all) = n
  BY <1>1, <1>2
<1> QED BY <1>1, <1>2, <1>3, <1>4 DEF all

(* A page of s: its items from lo to hi, numbered from one.                 *)
Part(p, s, lo, hi) ==
  /\ p \in Seq(Id2) /\ DOMAIN p = 1..Len(p)
  /\ Len(p) = IF lo <= hi THEN hi - lo + 1 ELSE 0
  /\ \A i \in 1..Len(p) : p[i] = s[lo + i - 1]

(* SubSeq gives it.                                                         *)
LEMMA PartIs ==
  ASSUME NEW s \in Seq(Id2), NEW lo \in Nat \ {0}, NEW hi \in Int, hi <= Len(s)
  PROVE  Part(SubSeq(s, lo, hi), s, lo, hi)
<1>1. \A i \in lo..hi : s[i] \in Id2
  BY ElementOfSeq
<1>2. /\ SubSeq(s, lo, hi) \in Seq(Id2)
      /\ Len(SubSeq(s, lo, hi)) = IF lo <= hi THEN hi - lo + 1 ELSE 0
      /\ \A i \in 1..(hi - lo + 1) : SubSeq(s, lo, hi)[i] = s[lo + i - 1]
  BY <1>1, SubSeqProperties
<1> DEFINE p == SubSeq(s, lo, hi)
<1>3. DOMAIN p = 1..Len(p)
  BY <1>2
<1>4. \A i \in 1..Len(p) : i \in 1..(hi - lo + 1)
  BY <1>2
<1> HIDE DEF p
<1> QED BY <1>2, <1>3, <1>4 DEF Part, p

(* What the guard keeps of a page is of the page, and is all that passes.   *)
LEMMA KeptIs ==
  ASSUME NEW T, NEW p \in Seq(T)
  PROVE  /\ Kept(p) \in Seq(T) /\ Len(Kept(p)) \in Nat /\ Len(Kept(p)) <= Len(p)
         /\ DOMAIN Kept(p) = 1..Len(Kept(p))
         /\ \A k \in DOMAIN Kept(p) : \E i \in DOMAIN p : Kept(p)[k] = p[i] /\ Passes(p[i])
         /\ \A i \in DOMAIN p : Passes(p[i]) => p[i] \in ToSet(Kept(p))
<1> DEFINE P == {k \in DOMAIN p : Passes(p[k])}
           q == Kept(p)
<1>1. q = Picked(p, P) /\ P \in SUBSET DOMAIN p
  BY DEF Kept
<1>0. \A k \in DOMAIN p : Passes(p[k]) => k \in P
  OBVIOUS
<1> HIDE DEF P, q
<1>2. q \in Seq(T) /\ \E at : PickedBy(at, p, P)
  BY <1>1, PicksAt
<1>3. PICK at : PickedBy(at, p, P)
  BY <1>2
<1>4. Len(q) \in Nat /\ DOMAIN q = 1..Len(q)
  BY <1>2
<1>5. \A k \in DOMAIN q : at[k] \in DOMAIN p /\ q[k] = p[at[k]] /\ Passes(p[at[k]])
  BY <1>1, <1>3 DEF PickedBy, P
<1>6. ASSUME NEW i \in DOMAIN p, Passes(p[i]) PROVE p[i] \in ToSet(q)
  <2>1. PICK k \in DOMAIN at : at[k] = i
    BY <1>0, <1>3, <1>6 DEF PickedBy
  <2>2. k \in DOMAIN q /\ q[k] = p[i]
    BY <1>1, <1>3, <2>1 DEF PickedBy
  <2> QED BY <2>2 DEF ToSet
<1>7. Len(q) <= Len(p)
  <2>1. IsFiniteSet(P) /\ Cardinality(P) <= Cardinality(DOMAIN p)
    BY <1>1, Positions, FS_Subset
  <2>2. P \in SUBSET Nat
    BY <1>1, Positions
  <2>3. InOrder(P) \in [1..Cardinality(P) -> P] /\ Cardinality(P) \in Nat
    BY <2>1, <2>2, Ascending
  <2>4. DOMAIN q = 1..Cardinality(P)
    BY <1>1, <2>3 DEF Picked
  <2>5. Len(q) = Cardinality(P)
    BY <1>2, <2>3, <2>4
  <2> QED BY <2>1, <2>5, Positions
<1> QED BY <1>2, <1>4, <1>5, <1>6, <1>7 DEF q

(* Two pages of the same items are the same.                                *)
LEMMA PartsAgree ==
  ASSUME NEW s, NEW lo \in Int, NEW hi \in Int, NEW p, NEW q, Part(p, s, lo, hi), Part(q, s, lo, hi)
  PROVE  p = q
<1>1. Len(p) = Len(q) /\ p \in Seq(Id2) /\ q \in Seq(Id2)
  BY DEF Part
<1>2. \A i \in 1..Len(p) : p[i] = q[i]
  BY <1>1 DEF Part
<1> QED BY <1>1, <1>2, SeqEqual

(* A page of a page.                                                        *)
LEMMA PartOfPart ==
  ASSUME NEW s, NEW lo \in Int, NEW hi \in Int, NEW p, Part(p, s, lo, hi),
         NEW a \in Nat \ {0}, NEW b \in Int, b <= Len(p)
  PROVE  Part(SubSeq(p, a, b), s, lo + a - 1, lo + b - 1)
<1>1. p \in Seq(Id2) /\ \A i \in 1..Len(p) : p[i] = s[lo + i - 1]
  BY DEF Part
<1> DEFINE q == SubSeq(p, a, b)
<1>2. Part(q, p, a, b)
  BY <1>1, PartIs
<1>3. /\ q \in Seq(Id2) /\ DOMAIN q = 1..Len(q) /\ Len(q) = IF a <= b THEN b - a + 1 ELSE 0
      /\ \A i \in 1..Len(q) : q[i] = p[a + i - 1]
  BY <1>2 DEF Part
<1> HIDE DEF q
<1>4. ASSUME NEW i \in 1..Len(q) PROVE q[i] = s[(lo + a - 1) + i - 1]
  <2>1. a + i - 1 \in 1..Len(p) /\ i \in Int
    BY <1>1, <1>3
  <2>2. lo + (a + i - 1) - 1 = (lo + a - 1) + i - 1
    BY <2>1
  <2> QED BY <1>1, <1>3, <2>1, <2>2
<1>5. Len(q) = IF lo + a - 1 <= lo + b - 1 THEN (lo + b - 1) - (lo + a - 1) + 1 ELSE 0
  BY <1>3
<1> QED BY <1>3, <1>4, <1>5 DEF Part, q

-----------------------------------------------------------------------------
(* What a walk has seen.                                                    *)

(* The guard at level lv lets a chunk through.                              *)
PassesAt(lv, id) == ~(lv = "strict" /\ Chunk(id).flagged)

(* Of the chunks lo to hi of d, all that pass are shown; and these chunks   *)
(* are what is shown, if nothing was lost.                                  *)
PageSeen(lv, d, lo, hi, shown, lost) ==
  /\ \A k \in DOMAIN ChunksOf(d) :
       lo <= k /\ k <= hi /\ PassesAt(lv, ChunksOf(d)[k]) => ChunksOf(d)[k] \in ToSet(shown)
  /\ ~lost => shown = SubSeq(ChunksOf(d), lo, hi)

(* One page, of which the items up to to, or from it on, are counted.       *)
LEMMA PageIsSeen ==
  ASSUME NEW d \in DOMAIN Corpus, NEW lo \in Nat \ {0}, NEW hi \in Int, hi <= Len(ChunksOf(d)),
         NEW p, p = SubSeq(ChunksOf(d), lo, hi),
         NEW a \in Int, NEW b \in Int, lo <= a, b <= hi,
         Kept(p) = p => a = lo /\ b = hi
  PROVE  PageSeen(level, d, a, b, Kept(p), Kept(p) # p)
<1> DEFINE all == ChunksOf(d)
<1>1. all \in Seq(Id2) /\ DOMAIN all = 1..Len(all) /\ Len(all) \in Nat
  BY ChunksAre
<1>2. Part(p, all, lo, hi)
  BY <1>1, PartIs
<1>3. p \in Seq(Id2) /\ DOMAIN p = 1..Len(p)
  BY <1>2 DEF Part
<1>4. ASSUME NEW k \in DOMAIN all, a <= k, k <= b, PassesAt(level, all[k])
      PROVE  all[k] \in ToSet(Kept(p))
  <2>1. k \in Int /\ lo <= k /\ k <= hi
    BY <1>1, <1>4
  <2> DEFINE i == k - lo + 1
  <2>2. Len(p) = hi - lo + 1
    BY <1>2, <2>1 DEF Part
  <2>3. i \in 1..Len(p) /\ lo + i - 1 = k
    BY <2>1, <2>2
  <2> HIDE DEF i
  <2>4. p[i] = all[k]
    BY <1>2, <2>3 DEF Part
  <2>5. Passes(p[i])
    BY <1>4, <2>4 DEF Passes, PassesAt
  <2> QED BY <1>3, <2>3, <2>4, <2>5, KeptIs
<1> QED BY <1>4 DEF PageSeen

(* Two pages that meet.                                                     *)
LEMMA SeenJoins ==
  ASSUME NEW lv, NEW d \in DOMAIN Corpus, NEW lo \in Nat \ {0}, NEW mid \in Int, NEW mid1 \in Int, NEW hi \in Int,
         mid1 = mid + 1, lo <= mid1, mid <= hi, hi <= Len(ChunksOf(d)),
         NEW s \in Seq(Id2), NEW t \in Seq(Id2), NEW l, NEW m, NEW k, ~k => ~l /\ ~m,
         PageSeen(lv, d, lo, mid, s, l), PageSeen(lv, d, mid1, hi, t, m)
  PROVE  PageSeen(lv, d, lo, hi, s \o t, k)
<1> DEFINE all == ChunksOf(d)
<1>1. all \in Seq(Id2) /\ DOMAIN all = 1..Len(all) /\ Len(all) \in Nat
  BY ChunksAre
<1>2. \A x : x \in ToSet(s) \/ x \in ToSet(t) => x \in ToSet(s \o t)
  <2>1. Range(s \o t) = Range(s) \cup Range(t)
    BY ConcatIs
  <2> QED BY <2>1 DEF Range, ToSet
<1>3. ASSUME NEW i \in DOMAIN all, lo <= i, i <= hi, PassesAt(lv, all[i])
      PROVE  all[i] \in ToSet(s \o t)
  <2>1. i <= mid \/ mid1 <= i
    BY <1>1
  <2> QED BY <1>2, <1>3, <2>1 DEF PageSeen
<1>4. ~k => s \o t = SubSeq(all, lo, hi)
  <2> SUFFICES ASSUME ~k PROVE s \o t = SubSeq(all, lo, hi)
    OBVIOUS
  <2>1. s = SubSeq(all, lo, mid) /\ t = SubSeq(all, mid1, hi)
    BY DEF PageSeen
  <2>2. mid1 = mid + 1 /\ lo \in 1..(Len(all) + 1) /\ mid \in (lo - 1)..Len(all) /\ hi \in mid..Len(all)
    BY <1>1
  <2> HIDE DEF all
  <2>3. SubSeq(all, lo, mid) \o SubSeq(all, mid1, hi) = SubSeq(all, lo, hi)
    BY <1>1, <2>2, ConcatAdjacentSubSeq
  <2> QED BY <2>1, <2>3
<1> QED BY <1>3, <1>4 DEF PageSeen

-----------------------------------------------------------------------------
(* The calls a walk is made of.                                             *)

(* A call with an id alone means what it says.                              *)
LEMMA OnIdIs ==
  ASSUME NEW tool \in ChunkTools \cup DocTools, NEW x
  PROVE  LET c == OnId(tool, x) IN
         /\ c.tool = tool /\ DOMAIN c.args = {"id"} /\ Rewritten(c) = c /\ Id(c) = x
         /\ c.args["id"].type = "string"
<1> DEFINE c == OnId(tool, x)
           a == [id |-> String(x)]
<1>1. c = [tool |-> tool, args |-> a]
  BY DEF OnId, Call
<1>2. a["id"] = [type |-> "string", items |-> <<x>>] /\ DOMAIN a = {"id"}
  BY DEF String
<1> HIDE DEF a, c
<1>3. c.tool = tool /\ c.args = a
  BY <1>1
<1>4. Id(c) = x
  BY <1>2, <1>3 DEF Id
<1>5. Rewritten(c) = c
  BY <1>2, <1>3 DEF Rewritten, ChunkTools, DocTools, NavTools
<1> QED BY <1>2, <1>3, <1>4, <1>5 DEF c

(* And so does a window from a chunk on.                                    *)
LEMMA WindowFromIs ==
  ASSUME NEW x, NEW n
  PROVE  LET c == WindowFrom(x, n) IN
         /\ c.tool = "get_document_chunks" /\ DOMAIN c.args = {"id", "from"}
         /\ Rewritten(c) = c /\ Id(c) = x /\ Value(c, "from", 0) = n
         /\ c.args["id"].type = "string"
         /\ c.args["from"] = Number(n)
<1> DEFINE c == WindowFrom(x, n)
           a == [id |-> String(x), from |-> Number(n)]
<1>1. c = [tool |-> "get_document_chunks", args |-> a]
  BY DEF WindowFrom, Call
<1>2. /\ a["id"] = [type |-> "string", items |-> <<x>>] /\ DOMAIN a = {"id", "from"}
      /\ a["from"] = [type |-> "number", items |-> <<n>>]
  BY DEF String, Number
<1> HIDE DEF a, c
<1>3. c.tool = "get_document_chunks" /\ c.args = a
  BY <1>1
<1>4. Id(c) = x
  BY <1>2, <1>3 DEF Id
<1>5. Rewritten(c) = c
  BY <1>2, <1>3 DEF Rewritten, ChunkTools, DocTools, NavTools
<1>6. Value(c, "from", 0) = n
  BY <1>2, <1>3 DEF Value, Reads, SearchTools, NavTools
<1> QED BY <1>2, <1>3, <1>4, <1>5, <1>6 DEF c, Number

(* The number of chunks a page of an accepted call may have.                *)
LEMMA CountIs ==
  ASSUME NEW r, Accepted(r)
  PROVE  /\ r.tool \in NavTools => Value(r, "count", NavCount) \in Nat \ {0}
         /\ r.tool = "get_document_chunks" => Value(r, "limit", WindowLimit) \in Nat \ {0}
         /\ r.tool = "get_document_chunks" /\ Typed(r) => Value(r, "from", 0) \in Nat
<1>0. \A p \in DOMAIN r.args \cap Reads(r.tool) : WellTyped(r.tool, p, r.args[p])
  BY DEF Accepted
<1>1. ASSUME r.tool \in NavTools PROVE Value(r, "count", NavCount) \in Nat \ {0}
  <2>1. CASE "count" \in DOMAIN r.args \cap Reads(r.tool)
    <3>1. WellTyped(r.tool, "count", r.args["count"])
      BY <1>0, <2>1
    <3>2. r.args["count"].items[1] \in 1..MaxCount
      BY <3>1 DEF WellTyped, Words, InBounds
    <3> QED BY <2>1, <3>2, AgentAssumption DEF Value
  <2>2. CASE "count" \notin DOMAIN r.args \cap Reads(r.tool)
    BY <2>2, AgentAssumption DEF Value
  <2> QED BY <2>1, <2>2
<1>2. ASSUME r.tool = "get_document_chunks" PROVE Value(r, "limit", WindowLimit) \in Nat \ {0}
  <2>1. CASE "limit" \in DOMAIN r.args \cap Reads(r.tool)
    <3>1. WellTyped(r.tool, "limit", r.args["limit"])
      BY <1>0, <2>1
    <3>2. r.args["limit"].items[1] \in 1..MaxCount
      BY <1>2, <3>1 DEF WellTyped, Words, InBounds, SearchTools
    <3> QED BY <2>1, <3>2, AgentAssumption DEF Value
  <2>2. CASE "limit" \notin DOMAIN r.args \cap Reads(r.tool)
    BY <2>2, AgentAssumption DEF Value
  <2> QED BY <2>1, <2>2
<1>3. ASSUME r.tool = "get_document_chunks", Typed(r) PROVE Value(r, "from", 0) \in Nat
  <2>1. CASE "from" \in DOMAIN r.args \cap Reads(r.tool)
    <3>1. WellTyped(r.tool, "from", r.args["from"])
      BY <1>0, <2>1
    <3>2. r.args["from"].type = "number" /\ r.args["from"].items[1] >= 0
      BY <3>1 DEF WellTyped, Words, InBounds
    <3>3. r.args["from"].items[1] \in Int
      BY <1>3, <2>1, <3>2 DEF Typed, Given
    <3> QED BY <2>1, <3>2, <3>3 DEF Value
  <2>2. CASE "from" \notin DOMAIN r.args \cap Reads(r.tool)
    BY <2>2 DEF Value
  <2> QED BY <2>1, <2>2
<1> QED BY <1>1, <1>2, <1>3

-----------------------------------------------------------------------------
(* Where a page leaves a walk.                                              *)

(* A page of a document.                                                    *)
Paged(p, d, lo, hi) == p = SubSeq(ChunksOf(d), lo, hi)

(* Its chunks, and what a reader has seen of the document who is shown it.  *)
LEMMA PagedIs ==
  ASSUME NEW d \in DOMAIN Corpus, NEW lo \in Nat \ {0}, NEW hi \in Int, hi <= Len(ChunksOf(d)),
         NEW p, Paged(p, d, lo, hi)
  PROVE  /\ p \in Seq(Id2) /\ DOMAIN p = 1..Len(p) /\ Len(p) \in Nat
         /\ Len(p) = IF lo <= hi THEN hi - lo + 1 ELSE 0
         /\ \A i \in 1..Len(p) : p[i] = <<d, lo + i - 1>> /\ lo + i - 1 \in 1..Len(ChunksOf(d))
         /\ \A a, b \in Int :
              lo <= a /\ b <= hi /\ (Kept(p) = p => a = lo /\ b = hi)
                => PageSeen(level, d, a, b, Kept(p), Kept(p) # p)
<1>1. /\ ChunksOf(d) \in Seq(Id2) /\ Len(ChunksOf(d)) \in Nat
      /\ \A i \in 1..Len(ChunksOf(d)) : ChunksOf(d)[i] = <<d, i>>
  BY ChunksAre
<1>2. p = SubSeq(ChunksOf(d), lo, hi)
  BY DEF Paged
<1>3. Part(p, ChunksOf(d), lo, hi)
  BY <1>1, <1>2, PartIs
<1>4. /\ p \in Seq(Id2) /\ DOMAIN p = 1..Len(p) /\ Len(p) \in Nat
      /\ Len(p) = IF lo <= hi THEN hi - lo + 1 ELSE 0
      /\ \A i \in 1..Len(p) : p[i] = ChunksOf(d)[lo + i - 1]
  BY <1>3 DEF Part
<1>5. ASSUME NEW i \in 1..Len(p) PROVE p[i] = <<d, lo + i - 1>> /\ lo + i - 1 \in 1..Len(ChunksOf(d))
  <2>1. lo + i - 1 \in 1..Len(ChunksOf(d))
    BY <1>1, <1>4
  <2> QED BY <1>1, <1>4, <2>1
<1>6. ASSUME NEW a \in Int, NEW b \in Int, lo <= a, b <= hi, Kept(p) = p => a = lo /\ b = hi
      PROVE  PageSeen(level, d, a, b, Kept(p), Kept(p) # p)
  BY <1>2, <1>6, PageIsSeen
<1> QED BY <1>4, <1>5, <1>6

(* The next n chunks, by FirstOf.                                           *)
LEMMA NextPageIs ==
  ASSUME NEW d \in DOMAIN Corpus, NEW at \in Nat, at <= Len(ChunksOf(d)), NEW n \in Nat \ {0}
  PROVE  \E hi \in Int :
           /\ at <= hi /\ hi <= Len(ChunksOf(d)) /\ (at < Len(ChunksOf(d)) => at < hi)
           /\ Paged(FirstOf(n, SubSeq(ChunksOf(d), at + 1, Len(ChunksOf(d)))), d, at + 1, hi)
<1> DEFINE all == ChunksOf(d)
           len == Len(all)
           lo == at + 1
           q == SubSeq(all, lo, len)
           m == Min({n, Len(q)})
           hi == at + m
<1>0. lo \in Nat \ {0} /\ lo \in Int /\ lo = at + 1 /\ at <= len
  OBVIOUS
<1>1. all \in Seq(Id2) /\ len \in Nat
  BY ChunksAre
<1> HIDE DEF lo, len
<1>2. Part(q, all, lo, len)
  BY <1>0, <1>1, PartIs DEF len
<1>3. Len(q) = len - at
  BY <1>0, <1>1, <1>2 DEF Part
<1>4. m \in Nat /\ m <= Len(q) /\ m <= n /\ (Len(q) > 0 => m > 0)
  BY <1>0, <1>1, <1>3, LesserIs
<1> HIDE DEF m, q, all
<1>6. hi \in Int /\ at <= hi /\ hi <= len /\ (at < len => at < hi)
  BY <1>0, <1>1, <1>3, <1>4
<1>5. Part(SubSeq(q, 1, m), all, lo, hi)
  <2>1. Part(SubSeq(q, 1, m), all, lo + 1 - 1, lo + m - 1)
    BY <1>0, <1>1, <1>2, <1>4, PartOfPart
  <2>2. lo + 1 - 1 = lo /\ lo + m - 1 = hi
    BY <1>0, <1>4
  <2> QED BY <2>1, <2>2
<1> HIDE DEF hi
<1>7. Part(SubSeq(all, lo, hi), all, lo, hi)
  BY <1>0, <1>1, <1>6, PartIs DEF len
<1>8. SubSeq(q, 1, m) = SubSeq(all, lo, hi)
  BY <1>0, <1>5, <1>6, <1>7, PartsAgree
<1>9. FirstOf(n, q) = SubSeq(all, lo, hi)
  BY <1>8 DEF FirstOf, m
<1>10. Paged(FirstOf(n, q), d, lo, hi)
  BY <1>9 DEF Paged, all
<1> QED BY <1>6, <1>10 DEF q, all, len, lo

(* The n chunks before, by LastOf.                                          *)
LEMMA PrevPageIs ==
  ASSUME NEW d \in DOMAIN Corpus, NEW at \in Nat, at <= Len(ChunksOf(d)), NEW n \in Nat \ {0}
  PROVE  \E lo \in Nat \ {0} :
           /\ lo <= at \/ lo = 1
           /\ 1 < at => lo < at
           /\ Paged(LastOf(n, SubSeq(ChunksOf(d), 1, at - 1)), d, lo, at - 1)
<1> DEFINE all == ChunksOf(d)
           hi == at - 1
           q == SubSeq(all, 1, hi)
           m == Min({n, Len(q)})
           a == Len(q) + 1 - m
<1>0. hi \in Int /\ hi <= Len(all) /\ hi = at - 1
  BY ChunksAre
<1>1. all \in Seq(Id2) /\ Len(all) \in Nat
  BY ChunksAre
<1> HIDE DEF hi
<1>2. Part(q, all, 1, hi)
  BY <1>0, <1>1, PartIs
<1>3. Len(q) = IF at = 0 THEN 0 ELSE at - 1
  BY <1>0, <1>2 DEF Part
<1> HIDE DEF q, all
<1>4. m \in Nat /\ m <= Len(q) /\ (Len(q) > 0 => m > 0)
  <2>1. Len(q) \in Int /\ n \in Int /\ Len(q) >= 0
    BY <1>3
  <2>2. m = IF n <= Len(q) THEN n ELSE Len(q)
    BY <2>1, LesserIs
  <2> HIDE DEF m
  <2> QED BY <2>1, <2>2
<1> HIDE DEF m
<1>5. a \in Nat \ {0} /\ a \in Int /\ (a <= at \/ a = 1) /\ (1 < at => a < at)
  BY <1>3, <1>4
<1>6. LastOf(n, q) = SubSeq(q, a, Len(q))
  BY DEF LastOf, m
<1> HIDE DEF a
<1>7. Part(SubSeq(q, a, Len(q)), all, a, hi)
  <2>1. Part(SubSeq(q, a, Len(q)), all, 1 + a - 1, 1 + Len(q) - 1)
    BY <1>0, <1>2, <1>3, <1>5, PartOfPart
  <2>2. 1 + a - 1 = a /\ 1 + Len(q) - 1 = Len(q)
    BY <1>3, <1>5
  <2>3. Part(SubSeq(q, a, Len(q)), all, a, Len(q))
    BY <2>1, <2>2
  <2>4. CASE at = 0
    <3>1. Len(q) = 0 /\ hi = -1 /\ a = 1
      BY <1>0, <1>3, <1>4, <2>4 DEF a
    <3> QED BY <2>3, <3>1 DEF Part
  <2>5. CASE at # 0
    <3>1. Len(q) = hi
      BY <1>0, <1>3, <2>5
    <3> QED BY <2>3, <3>1
  <2> QED BY <2>4, <2>5
<1>8. Part(SubSeq(all, a, hi), all, a, hi)
  BY <1>0, <1>1, <1>5, PartIs
<1>9. SubSeq(q, a, Len(q)) = SubSeq(all, a, hi)
  BY <1>0, <1>5, <1>7, <1>8, PartsAgree
<1>10. Paged(LastOf(n, q), d, a, hi)
  BY <1>6, <1>9 DEF Paged, all
<1> QED BY <1>5, <1>10 DEF q, all, hi

(* After the chunks from at on, a walk stands behind the last one shown.    *)
LEMMA NextLeaves ==
  ASSUME NEW d \in DOMAIN Corpus, NEW at \in Nat, NEW hi \in Int,
         at <= hi, hi <= Len(ChunksOf(d)), at < Len(ChunksOf(d)) => at < hi,
         NEW p, Paged(p, d, at + 1, hi)
  PROVE  \E to \in Nat :
           /\ at <= to /\ to <= Len(ChunksOf(d))
           /\ PageSeen(level, d, at + 1, to, Kept(p), Kept(p) # p)
           /\ Kept(p) = <<>> => p # <<>> \/ to = Len(ChunksOf(d))
           /\ Kept(p) # <<>> => Last(Kept(p)) = <<d, to>>
<1> DEFINE len == Len(ChunksOf(d))
           q == Kept(p)
           lo == at + 1
           Seen(b) == PageSeen(level, d, lo, b, q, q # p)
<1>0. lo \in Nat \ {0} /\ lo = at + 1 /\ len \in Nat /\ hi <= len /\ (at < len => at < hi)
  BY ChunksAre
<1> HIDE DEF lo, len
<1>1. /\ p \in Seq(Id2) /\ DOMAIN p = 1..Len(p) /\ Len(p) \in Nat
      /\ Len(p) = IF lo <= hi THEN hi - lo + 1 ELSE 0
      /\ \A i \in 1..Len(p) : p[i] = <<d, lo + i - 1>> /\ lo + i - 1 \in 1..len
      /\ \A a, b \in Int :
              lo <= a /\ b <= hi /\ (Kept(p) = p => a = lo /\ b = hi)
                => PageSeen(level, d, a, b, Kept(p), Kept(p) # p)
  BY <1>0, PagedIs DEF lo, len
<1>2. q \in Seq(Id2) /\ Len(q) \in Nat /\ DOMAIN q = 1..Len(q)
  BY <1>1, KeptIs
<1>3. \A k \in DOMAIN q : \E i \in DOMAIN p : q[k] = p[i]
  BY <1>1, KeptIs
<1>4. ASSUME NEW b \in Int, b <= hi, q = p => b = hi PROVE Seen(b)
  <2>1. lo \in Int /\ lo <= lo
    BY <1>0
  <2> QED BY <1>1, <1>4, <2>1
<1>5. Len(p) = hi - at
  BY <1>0, <1>1
<1> HIDE DEF q, Seen
<1>6. CASE q = <<>> /\ p = <<>>
  <2>1. Len(p) = 0
    BY <1>6
  <2>2. hi = at /\ hi = len
    BY <1>0, <1>5, <2>1
  <2>3. Seen(at)
    BY <1>4, <2>2
  <2> QED BY <1>0, <1>6, <2>2, <2>3 DEF q, len, lo, Seen
<1>7. CASE q = <<>> /\ p # <<>>
  <2>1. Seen(at)
    BY <1>4, <1>7
  <2> QED BY <1>0, <1>7, <2>1 DEF q, len, lo, Seen
<1>8. CASE q # <<>>
  <2>1. Len(q) \in DOMAIN q /\ Last(q) = q[Len(q)]
    BY <1>2, <1>8 DEF Last
  <2>2. PICK i \in DOMAIN p : q[Len(q)] = p[i] /\ (q = p => i = Len(p))
    BY <1>3, <2>1
  <2> DEFINE to == at + i
  <2>3. i \in 1..Len(p) /\ lo + i - 1 = to
    BY <1>0, <1>1, <2>2
  <2>4. Last(q) = <<d, to>> /\ to \in 1..len
    BY <1>1, <2>1, <2>2, <2>3
  <2>5. to \in Nat /\ at <= to /\ to <= len /\ to <= hi /\ (q = p => to = hi)
    BY <1>0, <1>5, <2>2, <2>3, <2>4
  <2> HIDE DEF to
  <2>6. Seen(to)
    BY <1>4, <2>5
  <2> QED BY <1>8, <2>4, <2>5, <2>6 DEF q, len, lo, Seen
<1> QED BY <1>6, <1>7, <1>8

(* And after those before at, ahead of the first one shown.                 *)
LEMMA PrevLeaves ==
  ASSUME NEW d \in DOMAIN Corpus, NEW at \in Nat, at <= Len(ChunksOf(d)), NEW lo \in Nat \ {0},
         lo <= at \/ lo = 1, 1 < at => lo < at,
         NEW p, Paged(p, d, lo, at - 1)
  PROVE  \E to \in Nat \ {0} :
           /\ to <= at \/ to = 1
           /\ PageSeen(level, d, to, at - 1, Kept(p), Kept(p) # p)
           /\ Kept(p) = <<>> => p # <<>> \/ to = 1
           /\ Kept(p) # <<>> => Head(Kept(p)) = <<d, to>> /\ to <= at
<1> DEFINE len == Len(ChunksOf(d))
           q == Kept(p)
           hi == at - 1
           Seen(a) == PageSeen(level, d, a, hi, q, q # p)
<1>0. hi \in Int /\ hi = at - 1 /\ len \in Nat /\ hi <= len
  BY ChunksAre
<1> HIDE DEF hi, len
<1>1. /\ p \in Seq(Id2) /\ DOMAIN p = 1..Len(p) /\ Len(p) \in Nat
      /\ Len(p) = IF lo <= hi THEN hi - lo + 1 ELSE 0
      /\ \A i \in 1..Len(p) : p[i] = <<d, lo + i - 1>> /\ lo + i - 1 \in 1..len
      /\ \A a, b \in Int :
              lo <= a /\ b <= hi /\ (Kept(p) = p => a = lo /\ b = hi)
                => PageSeen(level, d, a, b, Kept(p), Kept(p) # p)
  BY <1>0, PagedIs DEF hi, len
<1>2. q \in Seq(Id2) /\ Len(q) \in Nat /\ DOMAIN q = 1..Len(q)
  BY <1>1, KeptIs
<1>3. \A k \in DOMAIN q : \E i \in DOMAIN p : q[k] = p[i]
  BY <1>1, KeptIs
<1>4. ASSUME NEW a \in Int, lo <= a, q = p => a = lo PROVE Seen(a)
  BY <1>0, <1>1, <1>4
<1>5. Len(p) = IF lo < at THEN at - lo ELSE 0
  BY <1>0, <1>1
<1> HIDE DEF q, Seen
<1>6. CASE q = <<>> /\ p = <<>>
  <2>1. Len(p) = 0
    BY <1>6
  <2>2. lo = 1
    BY <1>5, <2>1
  <2>3. Seen(lo)
    BY <1>4
  <2> QED BY <1>6, <2>2, <2>3 DEF q, hi, Seen
<1>7. CASE q = <<>> /\ p # <<>>
  <2>1. lo < at
    <3> SUFFICES ASSUME ~(lo < at) PROVE FALSE
      OBVIOUS
    <3>1. Len(p) = 0
      BY <1>5
    <3> QED BY <1>1, <1>7, <3>1
  <2>2. at \in Int /\ at \in Nat \ {0} /\ lo <= at
    BY <2>1
  <2>3. Seen(at)
    BY <1>4, <1>7, <2>2
  <2> QED BY <1>7, <2>2, <2>3 DEF q, hi, Seen
<1>8. CASE q # <<>>
  <2>1. 1 \in DOMAIN q /\ Head(q) = q[1]
    BY <1>2, <1>8
  <2>2. PICK i \in DOMAIN p : q[1] = p[i] /\ (q = p => i = 1)
    BY <1>3, <2>1
  <2> DEFINE to == lo + i - 1
  <2>3. i \in 1..Len(p)
    BY <1>1, <2>2
  <2>4. Head(q) = <<d, to>>
    BY <1>1, <2>1, <2>2, <2>3
  <2>5. to \in Nat \ {0} /\ to \in Int /\ lo <= to /\ to <= at /\ (q = p => to = lo)
    BY <1>1, <1>5, <2>2, <2>3
  <2> HIDE DEF to
  <2>6. Seen(to)
    BY <1>4, <2>5
  <2> QED BY <1>8, <2>4, <2>5, <2>6 DEF q, hi, Seen
<1> QED BY <1>6, <1>7, <1>8

(* After a window, it stands at the number of chunks shown from at on.      *)
LEMMA WindowLeaves ==
  ASSUME NEW d \in DOMAIN Corpus, NEW at \in Nat, NEW n \in Nat \ {0},
         NEW p, Paged(p, d, at + 1, Min({at + n, Len(ChunksOf(d))}))
  PROVE  /\ at + Len(Kept(p)) \in Nat /\ at <= at + Len(Kept(p))
         /\ at + Len(Kept(p)) <= Len(ChunksOf(d)) \/ at + Len(Kept(p)) = at
         /\ PageSeen(level, d, at + 1, at + Len(Kept(p)), Kept(p), Kept(p) # p)
         /\ at + Len(Kept(p)) < Len(ChunksOf(d)) =>
              at < at + Len(Kept(p)) \/ (Kept(p) = <<>> /\ p # <<>>)
<1> DEFINE all == ChunksOf(d)
           len == Len(all)
           q == Kept(p)
           lo == at + 1
           hi == Min({at + n, len})
           to == at + Len(q)
           Seen(b) == PageSeen(level, d, lo, b, q, q # p)
<1>0. all \in Seq(Id2) /\ lo \in Nat \ {0} /\ lo = at + 1 /\ len \in Nat
  BY ChunksAre
<1>1. hi \in Int /\ hi \in Nat /\ hi <= len /\ (at < len => at < hi)
  BY <1>0, LesserIs
<1>2. Paged(p, d, lo, hi)
  OBVIOUS
<1> HIDE DEF lo, hi, len
<1>3. /\ p \in Seq(Id2) /\ DOMAIN p = 1..Len(p) /\ Len(p) \in Nat
      /\ Len(p) = IF lo <= hi THEN hi - lo + 1 ELSE 0
      /\ \A a, b \in Int :
              lo <= a /\ b <= hi /\ (Kept(p) = p => a = lo /\ b = hi)
                => PageSeen(level, d, a, b, Kept(p), Kept(p) # p)
  BY <1>0, <1>1, <1>2, PagedIs DEF len
<1>4. q \in Seq(Id2) /\ Len(q) \in Nat /\ Len(q) <= Len(p)
  BY <1>3, KeptIs
<1>5. ASSUME NEW b \in Int, b <= hi, q = p => b = hi PROVE Seen(b)
  BY <1>0, <1>3, <1>5
<1>6. Len(p) = IF at < hi THEN hi - at ELSE 0
  BY <1>0, <1>1, <1>3
<1> HIDE DEF q, Seen, all
<1>7. to \in Nat /\ at <= to
  BY <1>4
<1>8. /\ to <= len \/ to = at
      /\ Seen(to)
      /\ to < len => at < to \/ (q = <<>> /\ p # <<>>)
  <2>1. CASE at < hi
    <3>1. to <= hi /\ Len(p) = hi - at /\ to \in Int
      BY <1>1, <1>4, <1>6, <2>1
    <3>2. q = p => to = hi
      BY <1>1, <3>1
    <3> HIDE DEF to
    <3>3. Seen(to)
      BY <1>5, <3>1, <3>2
    <3>4. p # <<>>
      BY <1>1, <2>1, <3>1
    <3>5. q # <<>> => at < to
      BY <1>4 DEF to
    <3> QED BY <1>0, <1>1, <3>1, <3>3, <3>4, <3>5
  <2>2. CASE ~(at < hi)
    <3>1. Len(p) = 0 /\ Len(q) = 0
      BY <1>1, <1>4, <1>6, <2>2
    <3>2. p = <<>> /\ q = <<>> /\ to = at
      BY <1>3, <1>4, <3>1
    <3>3. SubSeq(all, lo, at) = <<>>
      <4>1. SubSeq(all, lo, at) \in Seq(Id2) /\ Len(SubSeq(all, lo, at)) = 0
        BY <1>0, SubSeqProperties
      <4> QED BY <4>1
    <3>4. ~\E k \in DOMAIN all : lo <= k /\ k <= at
      <4>1. DOMAIN all = 1..Len(all)
        BY <1>0
      <4> QED BY <1>0, <4>1 DEF len
    <3>5. PageSeen(level, d, lo, at, <<>>, FALSE)
      BY <3>3, <3>4 DEF PageSeen, all
    <3>6. Seen(at)
      BY <3>2, <3>5 DEF Seen
    <3>7. ~(at < len)
      BY <1>1, <2>2
    <3> QED BY <3>2, <3>6, <3>7
  <2> QED BY <1>1, <2>1, <2>2
<1> QED BY <1>7, <1>8 DEF q, all, len, lo, Seen

(* A call keeps its tool when its arguments are renamed.                    *)
LEMMA RewrittenTool ==
  ASSUME NEW c
  PROVE  Rewritten(c) = c \/ Rewritten(c).tool = c.tool
<1>1. \A old, new, type : Renamed(c, old, new, type).tool = c.tool
  BY DEF Renamed, Call
<1> QED BY <1>1 DEF Rewritten

(* A row that exists is of the corpus.                                      *)
LEMMA ExistsIs ==
  ASSUME NEW id, Exists(id), stored \subseteq DOMAIN Corpus
  PROVE  id[1] \in DOMAIN Corpus /\ id[2] \in Nat /\ id[2] <= Len(ChunksOf(id[1]))
<1>1. id[1] \in DOMAIN Corpus /\ id[2] \in {0} \cup DOMAIN Corpus[id[1]].chunks
  BY DEF Exists
<1>2. /\ DOMAIN ChunksOf(id[1]) = DOMAIN Corpus[id[1]].chunks
      /\ DOMAIN ChunksOf(id[1]) = 1..Len(ChunksOf(id[1])) /\ Len(ChunksOf(id[1])) \in Nat
  BY <1>1, ChunksAre
<1> QED BY <1>1, <1>2

-----------------------------------------------------------------------------
(* A walk covers what lies between its start and where it stands, to.       *)

GoesOn(lv, w, d, s, to) ==
  /\ w.tool = "get_chunk_next" /\ s <= to /\ to <= Len(ChunksOf(d))
  /\ PageSeen(lv, d, s + 1, to, w.shown, w.lost)
  /\ \/ w.next = {} /\ (w.removed \/ to = Len(ChunksOf(d)))
     \/ w.next = {OnId(w.tool, <<d, to>>)}
GoesBack(lv, w, d, s, to) ==
  /\ w.tool = "get_chunk_prev" /\ 1 <= to /\ (to <= s \/ to = 1) /\ s <= Len(ChunksOf(d))
  /\ PageSeen(lv, d, to, s - 1, w.shown, w.lost)
  /\ \/ w.next = {} /\ (w.removed \/ to = 1)
     \/ w.next = {OnId(w.tool, <<d, to>>)} /\ to <= s
GoesBy(lv, w, d, s, to) ==
  /\ w.tool = "get_document_chunks" /\ s <= to /\ (to <= Len(ChunksOf(d)) \/ to = s)
  /\ PageSeen(lv, d, s + 1, to, w.shown, w.lost)
  /\ \/ w.next = {} /\ Len(ChunksOf(d)) <= to
     \/ /\ to < Len(ChunksOf(d)) /\ (w.removed \/ w.at < to)
        /\ \E x : x[1] = d /\ w.next = {WindowFrom(x, to)}
Goes(lv, w, d, s, to) == GoesOn(lv, w, d, s, to) \/ GoesBack(lv, w, d, s, to) \/ GoesBy(lv, w, d, s, to)
WalkHolds(lv, w) ==
  /\ w.tool = "none" => w.next = {}
  /\ w.tool # "none" =>
       /\ w.start \in Id2 /\ w.at \in Nat /\ w.shown \in Seq(Id2) /\ w.lost \in BOOLEAN
       /\ \E to \in Nat : Goes(lv, w, w.start[1], w.start[2], to)

(* A call that a walk offers is for where it stands.                        *)
LEMMA WalkOffers ==
  ASSUME WalkHolds(level, walk), NEW c \in walk.next
  PROVE  /\ walk.start \in Id2 /\ walk.shown \in Seq(Id2) /\ walk.lost \in BOOLEAN
         /\ c.tool = walk.tool /\ c.tool # "none" /\ Rewritten(c) = c
         /\ Id(c)[1] = walk.start[1]
         /\ c.tool = "get_chunk_next" => GoesOn(level, walk, walk.start[1], walk.start[2], Id(c)[2])
         /\ c.tool = "get_chunk_prev" =>
              GoesBack(level, walk, walk.start[1], walk.start[2], Id(c)[2]) /\ Id(c)[2] <= walk.start[2]
         /\ c.tool = "get_document_chunks" =>
              /\ GoesBy(level, walk, walk.start[1], walk.start[2], Value(c, "from", 0))
              /\ Value(c, "from", 0) < Len(ChunksOf(walk.start[1]))
              /\ Value(c, "from", 0) \in Nat
<1> DEFINE d == walk.start[1]
           s == walk.start[2]
<1>1. walk.tool # "none" /\ walk.start \in Id2 /\ walk.shown \in Seq(Id2) /\ walk.lost \in BOOLEAN
  BY DEF WalkHolds
<1>2. PICK to \in Nat : Goes(level, walk, d, s, to)
  BY <1>1 DEF WalkHolds
<1> HIDE DEF d, s
<1>3. CASE GoesOn(level, walk, d, s, to)
  <2>1. c = OnId("get_chunk_next", <<d, to>>) /\ walk.tool = "get_chunk_next"
    BY <1>3 DEF GoesOn
  <2>2. c.tool = "get_chunk_next" /\ Rewritten(c) = c /\ Id(c) = <<d, to>>
    BY <2>1, OnIdIs DEF ChunkTools, NavTools
  <2> QED BY <1>1, <1>3, <2>1, <2>2 DEF d, s
<1>4. CASE GoesBack(level, walk, d, s, to)
  <2>1. c = OnId("get_chunk_prev", <<d, to>>) /\ walk.tool = "get_chunk_prev" /\ to <= s
    BY <1>4 DEF GoesBack
  <2>2. c.tool = "get_chunk_prev" /\ Rewritten(c) = c /\ Id(c) = <<d, to>>
    BY <2>1, OnIdIs DEF ChunkTools, NavTools
  <2> QED BY <1>1, <1>4, <2>1, <2>2 DEF d, s
<1>5. CASE GoesBy(level, walk, d, s, to)
  <2>1. PICK x : x[1] = d /\ c = WindowFrom(x, to)
    BY <1>5 DEF GoesBy
  <2>2. walk.tool = "get_document_chunks" /\ to < Len(ChunksOf(d))
    BY <1>5 DEF GoesBy
  <2>3. c.tool = "get_document_chunks" /\ Rewritten(c) = c /\ Id(c) = x /\ Value(c, "from", 0) = to
    BY <2>1, WindowFromIs
  <2> QED BY <1>1, <1>2, <1>5, <2>1, <2>2, <2>3 DEF d, s
<1> QED BY <1>2, <1>3, <1>4, <1>5 DEF Goes

(* The next chunks carry it on.                                             *)
LEMMA NextWalks ==
  ASSUME WalkHolds(level, walk), stored \subseteq DOMAIN Corpus,
         NEW c, c.tool = "get_chunk_next", Accepted(Rewritten(c)), Nav(c)
  PROVE  WalkHolds(level, walk')
<1> DEFINE r == Rewritten(c)
           id == Id(r)
           d == id[1]
           at == id[2]
           n == Value(r, "count", NavCount)
           all == ChunksOf(d)
           p == FirstOf(n, SubSeq(all, at + 1, Len(all)))
           q == Kept(p)
           next == IF q = <<>> THEN {} ELSE {OnId(c.tool, Last(q))}
           goesOn == c \in walk.next
<1>1. CASE ~Exists(id)
  <2>1. walk' = walk
    BY <1>1 DEF Nav
  <2> QED BY <2>1
<1>2. CASE Exists(id)
  <2>1. d \in DOMAIN Corpus /\ at \in Nat /\ at <= Len(all)
    BY <1>2, ExistsIs
  <2>2. n \in Nat \ {0}
    <3>1. r.tool = c.tool
      BY RewrittenTool
    <3> QED BY <3>1, CountIs DEF NavTools
  <2>3. walk' = [tool |-> c.tool, start |-> IF goesOn THEN walk.start ELSE <<d, at>>, at |-> at,
                 shown |-> IF goesOn THEN walk.shown \o q ELSE q,
                 removed |-> q = <<>> /\ p # <<>>,
                 lost |-> q # p \/ (goesOn /\ walk.lost),
                 next |-> next]
    BY <1>2 DEF Nav, Walked
  <2>4. PICK hi \in Int : at <= hi /\ hi <= Len(all) /\ (at < Len(all) => at < hi) /\ Paged(p, d, at + 1, hi)
    BY <2>1, <2>2, NextPageIs
  <2>5. q \in Seq(Id2)
    <3>1. p \in Seq(Id2)
      BY <2>1, <2>4, PagedIs
    <3> QED BY <3>1, KeptIs
  <2> HIDE DEF p
  <2>6. PICK to \in Nat :
           /\ at <= to /\ to <= Len(all)
           /\ PageSeen(level, d, at + 1, to, q, q # p)
           /\ q = <<>> => p # <<>> \/ to = Len(all)
           /\ q # <<>> => Last(q) = <<d, to>>
    BY <2>1, <2>4, NextLeaves
  <2>7. \/ next = {} /\ ((q = <<>> /\ p # <<>>) \/ to = Len(all))
        \/ next = {OnId(c.tool, <<d, to>>)}
    BY <2>6
  <2> HIDE DEF q, next
  <2>8. CASE ~goesOn
    <3> DEFINE w == walk'
    <3>1. /\ w.tool = c.tool /\ w.start = <<d, at>> /\ w.at = at /\ w.shown = q /\ w.next = next
          /\ w.removed = (q = <<>> /\ p # <<>>) /\ w.lost = (q # p)
      BY <2>3, <2>8
    <3> HIDE DEF w, id, goesOn
    <3>2. w.start \in Id2 /\ w.start[1] = d /\ w.start[2] = at
      BY <2>1, <3>1 DEF Id2
    <3>3. GoesOn(level, w, d, at, to)
      BY <2>6, <2>7, <3>1 DEF GoesOn, PageSeen
    <3>4. w.lost \in BOOLEAN
      BY <3>1
    <3>5. WalkHolds(level, w)
      BY <2>1, <2>5, <3>1, <3>2, <3>3, <3>4 DEF WalkHolds, Goes
    <3> QED BY <3>5 DEF w
  <2>9. CASE goesOn
    <3> DEFINE s == walk.start[2]
               w == walk'
               sh == walk.shown
               lo == walk.lost
    <3>1. /\ r = c /\ walk.start \in Id2 /\ sh \in Seq(Id2) /\ lo \in BOOLEAN
          /\ d = walk.start[1] /\ GoesOn(level, walk, d, s, at)
      BY <2>9, WalkOffers
    <3>2. /\ w.tool = c.tool /\ w.start = walk.start /\ w.at = at /\ w.shown = sh \o q /\ w.next = next
          /\ w.removed = (q = <<>> /\ p # <<>>) /\ w.lost = ((q # p) \/ lo)
      BY <2>3, <2>9
    <3>3. s <= at /\ PageSeen(level, d, s + 1, at, sh, lo)
      BY <3>1 DEF GoesOn
    <3>4. s \in Nat /\ s + 1 \in Nat \ {0} /\ s + 1 <= at + 1
      BY <2>1, <3>1, <3>3 DEF Id2
    <3> HIDE DEF w, id, goesOn, sh, lo, s
    <3>5. PageSeen(level, d, s + 1, to, sh \o q, lo \/ (q # p))
      <4>1. at \in Int /\ at + 1 \in Int /\ to \in Int /\ (q # p) \in BOOLEAN
        BY <2>1
      <4> DEFINE x == (q # p)
                 k == lo \/ x
      <4>2. PageSeen(level, d, at + 1, to, q, x) /\ (~k => ~lo /\ ~x)
        BY <2>6
      <4> HIDE DEF at, d, x, k
      <4>3. PageSeen(level, d, s + 1, to, sh \o q, k)
        BY <2>1, <2>5, <2>6, <3>1, <3>3, <3>4, <4>1, <4>2, SeenJoins
      <4> QED BY <4>3 DEF k, x
    <3>6. GoesOn(level, w, d, s, to)
      <4>1. PageSeen(level, d, s + 1, to, w.shown, w.lost)
        BY <3>2, <3>5 DEF PageSeen
      <4>2. s <= to
        BY <2>1, <2>6, <3>3, <3>4
      <4> QED BY <2>6, <2>7, <3>2, <4>1, <4>2 DEF GoesOn
    <3>7. sh \o q \in Seq(Id2) /\ w.lost \in BOOLEAN
      BY <2>5, <3>1, <3>2
    <3>8. WalkHolds(level, w)
      BY <2>1, <3>1, <3>2, <3>6, <3>7 DEF WalkHolds, Goes, s
    <3> QED BY <3>8 DEF w
  <2> QED BY <2>8, <2>9
<1> QED BY <1>1, <1>2

(* The chunks before carry it back.                                         *)
LEMMA PrevWalks ==
  ASSUME WalkHolds(level, walk), stored \subseteq DOMAIN Corpus,
         NEW c, c.tool = "get_chunk_prev", Accepted(Rewritten(c)), Nav(c)
  PROVE  WalkHolds(level, walk')
<1> DEFINE r == Rewritten(c)
           id == Id(r)
           d == id[1]
           at == id[2]
           n == Value(r, "count", NavCount)
           all == ChunksOf(d)
           p == LastOf(n, SubSeq(all, 1, at - 1))
           q == Kept(p)
           next == IF q = <<>> THEN {} ELSE {OnId(c.tool, Head(q))}
           goesOn == c \in walk.next
<1>1. CASE ~Exists(id)
  <2>1. walk' = walk
    BY <1>1 DEF Nav
  <2> QED BY <2>1
<1>2. CASE Exists(id)
  <2>1. d \in DOMAIN Corpus /\ at \in Nat /\ at <= Len(all) /\ Len(all) \in Nat
    BY <1>2, ExistsIs, ChunksAre
  <2>2. n \in Nat \ {0}
    <3>1. r.tool = c.tool
      BY RewrittenTool
    <3> QED BY <3>1, CountIs DEF NavTools
  <2>3. walk' = [tool |-> c.tool, start |-> IF goesOn THEN walk.start ELSE <<d, at>>, at |-> at,
                 shown |-> IF goesOn THEN q \o walk.shown ELSE q,
                 removed |-> q = <<>> /\ p # <<>>,
                 lost |-> q # p \/ (goesOn /\ walk.lost),
                 next |-> next]
    BY <1>2 DEF Nav, Walked
  <2>4. PICK lo \in Nat \ {0} : (lo <= at \/ lo = 1) /\ (1 < at => lo < at) /\ Paged(p, d, lo, at - 1)
    BY <2>1, <2>2, PrevPageIs
  <2>5. q \in Seq(Id2)
    <3>1. at - 1 \in Int /\ at - 1 <= Len(all)
      BY <2>1
    <3>2. p \in Seq(Id2)
      BY <2>1, <2>4, <3>1, PagedIs
    <3> QED BY <3>2, KeptIs
  <2> HIDE DEF p
  <2>6. PICK to \in Nat \ {0} :
           /\ to <= at \/ to = 1
           /\ PageSeen(level, d, to, at - 1, q, q # p)
           /\ q = <<>> => p # <<>> \/ to = 1
           /\ q # <<>> => Head(q) = <<d, to>> /\ to <= at
    BY <2>1, <2>4, PrevLeaves
  <2>7. \/ next = {} /\ ((q = <<>> /\ p # <<>>) \/ to = 1)
        \/ next = {OnId(c.tool, <<d, to>>)} /\ to <= at
    BY <2>6
  <2> HIDE DEF q, next
  <2>8. CASE ~goesOn
    <3> DEFINE w == walk'
    <3>1. /\ w.tool = c.tool /\ w.start = <<d, at>> /\ w.at = at /\ w.shown = q /\ w.next = next
          /\ w.removed = (q = <<>> /\ p # <<>>) /\ w.lost = (q # p)
      BY <2>3, <2>8
    <3> HIDE DEF w, id, goesOn
    <3>2. w.start \in Id2 /\ w.start[1] = d /\ w.start[2] = at
      BY <2>1, <3>1 DEF Id2
    <3>3. GoesBack(level, w, d, at, to)
      <4>1. PageSeen(level, d, to, at - 1, w.shown, w.lost)
        BY <2>6, <3>1 DEF PageSeen
      <4>2. 1 <= to
        BY <2>6
      <4> QED BY <2>1, <2>6, <2>7, <3>1, <4>1, <4>2 DEF GoesBack
    <3>4. w.lost \in BOOLEAN
      BY <3>1
    <3>5. WalkHolds(level, w)
      BY <2>1, <2>5, <3>1, <3>2, <3>3, <3>4 DEF WalkHolds, Goes
    <3> QED BY <3>5 DEF w
  <2>9. CASE goesOn
    <3> DEFINE s == walk.start[2]
               w == walk'
               sh == walk.shown
               l == walk.lost
    <3>1. /\ r = c /\ walk.start \in Id2 /\ sh \in Seq(Id2) /\ l \in BOOLEAN
          /\ d = walk.start[1] /\ GoesBack(level, walk, d, s, at) /\ at <= s
      BY <2>9, WalkOffers
    <3>2. /\ w.tool = c.tool /\ w.start = walk.start /\ w.at = at /\ w.shown = q \o sh /\ w.next = next
          /\ w.removed = (q = <<>> /\ p # <<>>) /\ w.lost = ((q # p) \/ l)
      BY <2>3, <2>9
    <3>3. 1 <= at /\ s <= Len(all) /\ PageSeen(level, d, at, s - 1, sh, l)
      BY <3>1 DEF GoesBack
    <3>4. s \in Nat
      BY <3>1 DEF Id2
    <3> HIDE DEF w, id, goesOn, sh, l, s, all
    <3>5. PageSeen(level, d, to, s - 1, q \o sh, (q # p) \/ l)
      <4> DEFINE mid == at - 1
                 hi == s - 1
                 x == (q # p)
                 k == x \/ l
      <4>1. mid \in Int /\ at \in Int /\ hi \in Int /\ (~k => ~x /\ ~l) /\ at = mid + 1
            /\ to <= at /\ mid <= hi /\ hi <= Len(all)
        BY <2>1, <2>6, <3>1, <3>3, <3>4
      <4>2. PageSeen(level, d, to, mid, q, x) /\ PageSeen(level, d, at, hi, sh, l)
        BY <2>6, <3>3
      <4>3. d \in DOMAIN Corpus /\ sh \in Seq(Id2) /\ l \in BOOLEAN /\ hi <= Len(ChunksOf(d))
        BY <2>1, <3>1, <4>1 DEF all
      <4> HIDE DEF mid, hi, d, at, x, k
      <4>4. PageSeen(level, d, to, hi, q \o sh, k)
        BY <2>5, <4>1, <4>2, <4>3, SeenJoins
      <4> QED BY <4>4 DEF hi, k, x
    <3>6. GoesBack(level, w, d, s, to)
      <4>1. PageSeen(level, d, to, s - 1, w.shown, w.lost)
        BY <3>2, <3>5
      <4>2. 1 <= to /\ (to <= s \/ to = 1) /\ (to <= at => to <= s)
        BY <2>1, <2>6, <3>1, <3>3, <3>4
      <4> QED BY <2>7, <3>2, <3>3, <4>1, <4>2 DEF GoesBack, all
    <3>7. q \o sh \in Seq(Id2) /\ w.lost \in BOOLEAN
      BY <2>5, <3>1, <3>2
    <3>8. WalkHolds(level, w)
      BY <2>1, <3>1, <3>2, <3>6, <3>7 DEF WalkHolds, Goes, s
    <3> QED BY <3>8 DEF w
  <2> QED BY <2>8, <2>9
<1> QED BY <1>1, <1>2

(* And so does the next window.                                             *)
LEMMA WindowWalks ==
  ASSUME WalkHolds(level, walk), stored \subseteq DOMAIN Corpus,
         NEW c, c.tool = "get_document_chunks", Typed(Rewritten(c)), Accepted(Rewritten(c)), Window(c)
  PROVE  WalkHolds(level, walk')
<1> DEFINE r == Rewritten(c)
           id == Id(r)
           d == id[1]
           at == Value(r, "from", 0)
           n == Value(r, "limit", WindowLimit)
           all == ChunksOf(d)
           p == SubSeq(all, at + 1, Min({at + n, Len(all)}))
           q == Kept(p)
           to == at + Len(q)
           next == IF to < Len(all) THEN {WindowFrom(id, to)} ELSE {}
           goesOn == c \in walk.next
<1>1. CASE ~Exists(id)
  <2>1. walk' = walk
    BY <1>1 DEF Window
  <2> QED BY <2>1
<1>2. CASE Exists(id)
  <2>1. d \in DOMAIN Corpus /\ Len(all) \in Nat
    BY <1>2, ExistsIs, ChunksAre
  <2>2. n \in Nat \ {0} /\ at \in Nat
    <3>1. r.tool = c.tool
      BY RewrittenTool
    <3> QED BY <3>1, CountIs
  <2>3. walk' = [tool |-> c.tool, start |-> IF goesOn THEN walk.start ELSE <<d, at>>, at |-> at,
                 shown |-> IF goesOn THEN walk.shown \o q ELSE q,
                 removed |-> q = <<>> /\ p # <<>>,
                 lost |-> q # p \/ (goesOn /\ walk.lost),
                 next |-> next]
    BY <1>2 DEF Window, Walked, AfterShown
  <2>4. Paged(p, d, at + 1, Min({at + n, Len(all)}))
    BY DEF Paged
  <2>5. q \in Seq(Id2)
    <3>0. Min({at + n, Len(all)}) \in Int /\ Min({at + n, Len(all)}) <= Len(all)
      BY <2>1, <2>2, LesserIs
    <3>1. p \in Seq(Id2)
      <4>1. at + 1 \in Nat \ {0}
        BY <2>2
      <4> QED BY <2>1, <2>4, <3>0, <4>1, PagedIs
    <3> QED BY <3>1, KeptIs
  <2> HIDE DEF p
  <2>6. /\ to \in Nat /\ at <= to
        /\ to <= Len(all) \/ to = at
        /\ PageSeen(level, d, at + 1, to, q, q # p)
        /\ to < Len(all) => at < to \/ (q = <<>> /\ p # <<>>)
    BY <2>1, <2>2, <2>4, WindowLeaves
  <2>7. \/ next = {} /\ Len(all) <= to
        \/ to < Len(all) /\ next = {WindowFrom(id, to)}
    BY <2>1, <2>6
  <2> HIDE DEF q, next, to
  <2>8. CASE ~goesOn
    <3> DEFINE w == walk'
    <3>1. /\ w.tool = c.tool /\ w.start = <<d, at>> /\ w.at = at /\ w.shown = q /\ w.next = next
          /\ w.removed = (q = <<>> /\ p # <<>>) /\ w.lost = (q # p)
      BY <2>3, <2>8
    <3> HIDE DEF w, goesOn
    <3>2. w.start \in Id2 /\ w.start[1] = d /\ w.start[2] = at
      BY <2>1, <2>2, <3>1 DEF Id2
    <3>3. GoesBy(level, w, d, at, to)
      <4>1. PageSeen(level, d, at + 1, to, w.shown, w.lost)
        BY <2>6, <3>1
      <4> HIDE DEF at
      <4> QED BY <2>6, <2>7, <3>1, <4>1 DEF GoesBy
    <3>4. w.lost \in BOOLEAN
      BY <3>1
    <3>5. WalkHolds(level, w)
      BY <2>2, <2>5, <2>6, <3>1, <3>2, <3>3, <3>4 DEF WalkHolds, Goes
    <3> QED BY <3>5 DEF w
  <2>9. CASE goesOn
    <3> DEFINE s == walk.start[2]
               w == walk'
               sh == walk.shown
               l == walk.lost
    <3>1. /\ r = c /\ walk.start \in Id2 /\ sh \in Seq(Id2) /\ l \in BOOLEAN
          /\ d = walk.start[1] /\ GoesBy(level, walk, d, s, at) /\ at < Len(all)
      BY <2>9, WalkOffers
    <3>2. /\ w.tool = c.tool /\ w.start = walk.start /\ w.at = at /\ w.shown = sh \o q /\ w.next = next
          /\ w.removed = (q = <<>> /\ p # <<>>) /\ w.lost = ((q # p) \/ l)
      BY <2>3, <2>9
    <3>3. s <= at /\ PageSeen(level, d, s + 1, at, sh, l)
      BY <3>1 DEF GoesBy
    <3>4. s \in Nat /\ s + 1 \in Nat \ {0} /\ s + 1 <= at + 1
      BY <2>2, <3>1, <3>3 DEF Id2
    <3> HIDE DEF w, goesOn, sh, l, s, all
    <3>5. PageSeen(level, d, s + 1, to, sh \o q, l \/ (q # p))
      <4>1. at \in Int /\ at + 1 \in Int /\ to \in Int /\ (q # p) \in BOOLEAN /\ to <= Len(all)
        BY <2>1, <2>2, <2>6, <3>1
      <4> DEFINE x == (q # p)
                 k == l \/ x
      <4>2. PageSeen(level, d, at + 1, to, q, x) /\ (~k => ~l /\ ~x)
        BY <2>6
      <4> HIDE DEF at, d, x, k
      <4>3. PageSeen(level, d, s + 1, to, sh \o q, k)
        BY <2>1, <2>5, <2>6, <3>1, <3>3, <3>4, <4>1, <4>2, SeenJoins DEF all
      <4> QED BY <4>3 DEF k, x
    <3>6. GoesBy(level, w, d, s, to)
      <4>1. PageSeen(level, d, s + 1, to, w.shown, w.lost)
        BY <3>2, <3>5 DEF PageSeen
      <4>2. s <= to /\ to <= Len(all)
        BY <2>1, <2>2, <2>6, <3>1, <3>3, <3>4
      <4> HIDE DEF at
      <4> QED BY <2>6, <2>7, <3>2, <4>1, <4>2 DEF GoesBy, all
    <3>7. sh \o q \in Seq(Id2) /\ w.lost \in BOOLEAN
      BY <2>5, <3>1, <3>2
    <3>8. WalkHolds(level, w)
      BY <2>2, <2>6, <3>1, <3>2, <3>6, <3>7 DEF WalkHolds, Goes, s
    <3> QED BY <3>8 DEF w
  <2> QED BY <2>8, <2>9
<1> QED BY <1>1, <1>2

-----------------------------------------------------------------------------
(* The calls that are offered.                                              *)

(* What an id names is of the corpus.                                       *)
Row(id) == id[1] \in DOMAIN Corpus /\ id[2] \in {0} \cup DOMAIN Corpus[id[1]].chunks /\ id # NotAnId

(* A sample value of a facet of objects, written as a string.               *)
Sample(c) == \E f \in DOMAIN FiltersOf(c) \cap ObjectFacets : \E x \in FiltersOf(c)[f].any : x.shape = "string"

(* The facet that a call lists is one that is listed.                       *)
ListsFacet(c) ==
  "facet" \in DOMAIN c.args =>
    /\ ListBounds(c)
    /\ c.args["facet"].items[1] \in IF "within" \in DOMAIN c.args THEN Drills ELSE Drillable

(* A call that is not refused.                                              *)
Lands(c) ==
  /\ Typed(c) /\ Rewritten(c) = c
  /\ c.tool \in SearchTools => Sample(c) \/ (Accepted(c) /\ (ServerRefuses(SearchOf(c)) => Blank(c)))
  /\ c.tool \notin SearchTools => Accepted(c)
  /\ c.tool \in ChunkTools \cup DocTools => Row(Id(c))
  /\ c.tool = "list_sources" => ListBounds(c)
  /\ c.tool = "facets" => ListsFacet(c)

(* A string or a number is given as it should.                              *)
LEMMA ArgumentIs ==
  ASSUME NEW x, NEW p
  PROVE  /\ Given(p, String(x)) /\ String(x).items = <<x>> /\ String(x).type = "string"
         /\ x \in Int => Given(p, Number(x))
         /\ Number(x).items = <<x>> /\ Number(x).type = "number"
<1>1. ToSet(<<x>>) = {x} /\ Len(<<x>>) = 1 /\ <<x>>[1] = x
  BY DEF ToSet
<1>2. <<x>> \in Seq({x})
  OBVIOUS
<1> QED BY <1>1, <1>2 DEF Given, String, Number

(* And a list.                                                              *)
LEMMA ListIs ==
  ASSUME NEW T, NEW s \in Seq(T), NEW p
  PROVE  Given(p, Array(s)) /\ Array(s).items = s /\ Array(s).type = "array"
<1>1. s \in Seq(ToSet(s))
  <2>1. Len(s) \in Nat /\ DOMAIN s = 1..Len(s) /\ s = [i \in 1..Len(s) |-> s[i]]
    OBVIOUS
  <2>2. \A i \in 1..Len(s) : s[i] \in ToSet(s)
    BY <2>1 DEF ToSet
  <2> QED BY <2>1, <2>2
<1> QED BY <1>1 DEF Given, Array

(* A call on the id of a row.                                               *)
LEMMA OnIdLands ==
  ASSUME NEW tool \in ChunkTools \cup DocTools, NEW x, Row(x)
  PROVE  Lands(OnId(tool, x))
<1> DEFINE c == OnId(tool, x)
<1>1. /\ c.tool = tool /\ DOMAIN c.args = {"id"} /\ Rewritten(c) = c /\ Id(c) = x
      /\ c.args["id"].type = "string"
  BY OnIdIs
<1>2. Given("id", c.args["id"])
  <2>1. c.args["id"] = String(x)
    BY DEF OnId, Call
  <2> QED BY <2>1, ArgumentIs
<1> HIDE DEF c
<1>3. Typed(c)
  BY <1>1, <1>2 DEF Typed
<1>4. x # NotAnId
  BY DEF Row
<1>5. "id" \notin Reads(tool)
  BY DEF Reads, ChunkTools, DocTools, NavTools
<1>6. Accepted(c)
  BY <1>1, <1>4, <1>5 DEF Accepted, ChunkTools, DocTools, NavTools, SearchTools
<1>7. tool \notin SearchTools /\ tool # "list_sources" /\ tool # "facets"
  BY DEF ChunkTools, DocTools, NavTools, SearchTools
<1> QED BY <1>1, <1>3, <1>6, <1>7 DEF Lands, c

(* A window on the document of a row.                                       *)
LEMMA WindowLands ==
  ASSUME NEW x, Row(x), NEW n \in Nat
  PROVE  Lands(WindowFrom(x, n))
<1> DEFINE c == WindowFrom(x, n)
<1>1. /\ c.tool = "get_document_chunks" /\ DOMAIN c.args = {"id", "from"}
      /\ Rewritten(c) = c /\ Id(c) = x /\ c.args["id"].type = "string"
      /\ c.args["from"] = Number(n)
  BY WindowFromIs
<1>2. Given("id", c.args["id"]) /\ Given("from", c.args["from"])
  <2>1. c.args["id"] = String(x)
    BY DEF WindowFrom, Call
  <2> QED BY <1>1, <2>1, ArgumentIs
<1> HIDE DEF c
<1>3. Typed(c)
  BY <1>1, <1>2 DEF Typed
<1>4. x # NotAnId
  BY DEF Row
<1>5. WellTyped("get_document_chunks", "from", c.args["from"])
  BY <1>1 DEF WellTyped, Words, InBounds, Number
<1>6. Reads("get_document_chunks") = {"from", "limit"}
  BY DEF Reads, NavTools
<1>7. \A p \in DOMAIN c.args \cap Reads(c.tool) : WellTyped(c.tool, p, c.args[p])
  BY <1>1, <1>5, <1>6
<1>8. Accepted(c)
  BY <1>1, <1>4, <1>7 DEF Accepted, SearchTools
<1> QED BY <1>1, <1>3, <1>8 DEF Lands, c, SearchTools

(* The chunks of some ids.                                                  *)
LEMMA FetchLands ==
  ASSUME NEW T, NEW s \in Seq(T), Len(s) \in 1..MaxIds, NotAnId \notin ToSet(s)
  PROVE  Lands(Fetch(s))
<1> DEFINE c == Fetch(s)
           a == [ids |-> Array(s)]
<1>1. c.tool = "get_chunks" /\ c.args = a
  BY DEF Fetch, Call
<1>2. DOMAIN a = {"ids"} /\ a["ids"] = Array(s)
  OBVIOUS
<1>3. Array(s).items = s /\ Array(s).type = "array" /\ Given("ids", Array(s))
  BY ListIs
<1> HIDE DEF c, a
<1>4. Rewritten(c) = c
  BY <1>1, <1>2 DEF Rewritten, ChunkTools, DocTools, NavTools
<1>5. Typed(c)
  BY <1>1, <1>2, <1>3 DEF Typed
<1>6. "ids" \notin Reads("get_chunks")
  BY DEF Reads, NavTools
<1>7. Accepted(c)
  BY <1>1, <1>2, <1>3, <1>6 DEF Accepted, SearchTools, ChunkTools, DocTools, NavTools
<1> QED BY <1>1, <1>4, <1>5, <1>7 DEF Lands, c, SearchTools, ChunkTools, DocTools, NavTools

(* What a follow-up search asks for: modes and match as they are by default.*)
Offer(texts, filters) ==
  [texts |-> texts, mode |-> "hybrid", code |-> "none", floor |-> 0, match |-> "permissive",
   limit |-> SearchLimit, filters |-> filters]

Extras == {<<>>, [version_match |-> String("permissive")], [mode |-> String("hybrid")]}

(* The arguments of a follow-up search.                                     *)
LEMMA AdvancedIs ==
  ASSUME NEW texts, NEW filters, Shaped(filters), NEW more \in Extras
  PROVE  LET c == Advanced(texts, filters, more) IN
         /\ c.tool = "advanced_search"
         /\ DOMAIN c.args \subseteq {"queries", "filters", "version_match", "mode"}
         /\ "queries" \in DOMAIN c.args /\ c.args["queries"] = Array(texts)
         /\ "filters" \in DOMAIN c.args => c.args["filters"] = filters
         /\ FiltersOf(c) = filters /\ Queries(c) = texts
         /\ "version_match" \in DOMAIN c.args => c.args["version_match"] = String("permissive")
         /\ "mode" \in DOMAIN c.args => c.args["mode"] = String("hybrid")
         /\ SearchOf(c) = Offer(texts, filters)
         /\ Rewritten(c) = c
<1> DEFINE c == Advanced(texts, filters, more)
           q == [queries |-> Array(texts)]
           fs == IF DOMAIN filters = {} THEN <<>> ELSE [filters |-> filters]
           rest == Merged(fs, more)
           a == Merged(q, rest)
<1>1. c.tool = "advanced_search" /\ c.args = a
  BY DEF Advanced, Call
<1>2. DOMAIN q = {"queries"} /\ q["queries"] = Array(texts)
  OBVIOUS
<1>3. /\ DOMAIN fs = IF DOMAIN filters = {} THEN {} ELSE {"filters"}
      /\ "filters" \in DOMAIN fs => fs["filters"] = filters
  <2>1. DOMAIN <<>> = {}
    OBVIOUS
  <2>2. DOMAIN [filters |-> filters] = {"filters"} /\ [filters |-> filters]["filters"] = filters
    OBVIOUS
  <2> QED BY <2>1, <2>2
<1>4. /\ DOMAIN more \subseteq {"version_match", "mode"}
      /\ "version_match" \in DOMAIN more => more["version_match"] = String("permissive")
      /\ "mode" \in DOMAIN more => more["mode"] = String("hybrid")
  <2>1. CASE more = <<>>
    BY <2>1
  <2>2. CASE more = [version_match |-> String("permissive")]
    <3>1. DOMAIN more = {"version_match"} /\ more["version_match"] = String("permissive")
      BY <2>2
    <3> QED BY <3>1
  <2>3. CASE more = [mode |-> String("hybrid")]
    <3>1. DOMAIN more = {"mode"} /\ more["mode"] = String("hybrid")
      BY <2>3
    <3> QED BY <3>1
  <2> QED BY <2>1, <2>2, <2>3 DEF Extras
<1> HIDE DEF c, q, fs
<1>5. /\ DOMAIN rest = DOMAIN fs \cup DOMAIN more
      /\ \A p : p \in DOMAIN fs \/ p \in DOMAIN more => rest[p] = IF p \in DOMAIN fs THEN fs[p] ELSE more[p]
  BY DEF Merged
<1> HIDE DEF rest
<1>6. /\ DOMAIN a = {"queries"} \cup DOMAIN rest
      /\ \A p : p = "queries" \/ p \in DOMAIN rest => a[p] = IF p = "queries" THEN Array(texts) ELSE rest[p]
  BY <1>2 DEF Merged
<1> HIDE DEF a
<1>7. /\ DOMAIN a \subseteq {"queries", "filters", "version_match", "mode"}
      /\ "queries" \in DOMAIN a /\ a["queries"] = Array(texts)
      /\ "filters" \in DOMAIN a <=> DOMAIN filters # {}
      /\ "filters" \in DOMAIN a => a["filters"] = filters
      /\ "version_match" \in DOMAIN a => a["version_match"] = String("permissive")
      /\ "mode" \in DOMAIN a => a["mode"] = String("hybrid")
  BY <1>3, <1>4, <1>5, <1>6
<1>8. Array(texts).items = texts /\ Array(texts).type = "array"
  BY DEF Array
<1>9. FiltersOf(c) = filters
  <2>1. CASE DOMAIN filters # {}
    BY <1>1, <1>7, <2>1 DEF FiltersOf
  <2>2. CASE DOMAIN filters = {}
    <3>1. FiltersOf(c) = NoFilters
      BY <1>1, <1>7, <2>2 DEF FiltersOf
    <3>2. filters = [f \in DOMAIN filters |-> filters[f]]
      BY DEF Shaped
    <3>3. filters = NoFilters
      BY <2>2, <3>2 DEF NoFilters
    <3> QED BY <3>1, <3>3
  <2> QED BY <2>1, <2>2
<1>10. Queries(c) = texts
  BY <1>1, <1>7, <1>8 DEF Queries
<1>11. String("permissive").items[1] = "permissive" /\ String("hybrid").items[1] = "hybrid"
  BY DEF String
<1>12. SearchOf(c) = Offer(texts, filters)
  <2>1. Value(c, "mode", "hybrid") = "hybrid"
    BY <1>1, <1>7, <1>11 DEF Value
  <2>2. Value(c, "version_match", "permissive") = "permissive"
    BY <1>1, <1>7, <1>11 DEF Value
  <2>3. /\ Value(c, "code_mode", "none") = "none" /\ Value(c, "min_confidence", 0) = 0
        /\ Value(c, "limit", SearchLimit) = SearchLimit
    BY <1>1, <1>7 DEF Value
  <2> QED BY <1>9, <1>10, <2>1, <2>2, <2>3 DEF SearchOf, Offer
<1>13. Rewritten(c) = c
  BY <1>1, <1>7 DEF Rewritten, ChunkTools, DocTools, NavTools
<1> QED BY <1>1, <1>7, <1>9, <1>10, <1>12, <1>13 DEF c

(* It lands, if its texts and its filters are fit.                          *)
LEMMA AdvancedLands ==
  ASSUME NEW T, NEW texts \in Seq(T), Len(texts) \in 1..MaxQueries, Len(texts) <= ServerCap,
         NoText \notin ToSet(texts),
         NEW filters, Shaped(filters), NEW more \in Extras,
         ValidFilters(filters) \/ \E f \in DOMAIN filters \cap ObjectFacets : \E x \in filters[f].any : x.shape = "string"
  PROVE  Lands(Advanced(texts, filters, more))
<1> DEFINE c == Advanced(texts, filters, more)
<1>0. Len(texts) \in Nat
  OBVIOUS
<1>1. /\ c.tool = "advanced_search"
      /\ DOMAIN c.args \subseteq {"queries", "filters", "version_match", "mode"}
      /\ "queries" \in DOMAIN c.args /\ c.args["queries"] = Array(texts)
      /\ "filters" \in DOMAIN c.args => c.args["filters"] = filters
      /\ FiltersOf(c) = filters /\ Queries(c) = texts
      /\ "version_match" \in DOMAIN c.args => c.args["version_match"] = String("permissive")
      /\ "mode" \in DOMAIN c.args => c.args["mode"] = String("hybrid")
      /\ SearchOf(c) = Offer(texts, filters)
      /\ Rewritten(c) = c
  BY AdvancedIs
<1> HIDE DEF c
<1>2. Typed(c)
  <2>1. Given("queries", Array(texts))
    BY ListIs
  <2>2. \A p : Given(p, String("permissive")) /\ Given(p, String("hybrid"))
    BY ArgumentIs
  <2> QED BY <1>1, <2>1, <2>2 DEF Typed
<1>3. CASE \E f \in DOMAIN filters \cap ObjectFacets : \E x \in filters[f].any : x.shape = "string"
  <2>1. Sample(c)
    BY <1>1, <1>3 DEF Sample
  <2> QED BY <1>1, <1>2, <2>1 DEF Lands, c, SearchTools, ChunkTools, DocTools, NavTools
<1>4. CASE ValidFilters(filters)
  <2>1. ASSUME NEW p \in DOMAIN c.args \cap Reads(c.tool) PROVE WellTyped(c.tool, p, c.args[p])
    <3>1. p \in {"version_match", "mode"}
      BY <1>1 DEF Reads, SearchTools, NavTools
    <3>2. /\ String("permissive").items = <<"permissive">> /\ String("permissive").type = "string"
          /\ String("hybrid").items = <<"hybrid">> /\ String("hybrid").type = "string"
      BY ArgumentIs
    <3>3. DOMAIN Words = {"mode", "code_mode", "version_match", "sort_by", "response_format",
                          "rerank_model", "rerank_instructions"}
          /\ Words["mode"] = {"hybrid", "vector", "fts"} /\ Words["version_match"] = {"strict", "permissive"}
      BY DEF Words
    <3>4. CASE p = "mode"
      <4>1. c.args[p].items = <<"hybrid">> /\ c.args[p].type = "string"
        BY <1>1, <3>2, <3>4
      <4> QED BY <3>3, <3>4, <4>1 DEF WellTyped
    <3>5. CASE p = "version_match"
      <4>1. c.args[p].items = <<"permissive">> /\ c.args[p].type = "string"
        BY <1>1, <3>2, <3>5
      <4> QED BY <3>3, <3>5, <4>1 DEF WellTyped
    <3> QED BY <3>1, <3>4, <3>5
  <2>2. Array(texts).items = texts /\ Array(texts).type = "array"
    BY DEF Array
  <2>3. \A i \in DOMAIN texts : texts[i] # NoText
    BY DEF ToSet
  <2>4. CodeModeFits(c)
    BY <1>1 DEF CodeModeFits, Value
  <2>5. Accepted(c)
    BY <1>1, <1>4, <2>1, <2>2, <2>3, <2>4 DEF Accepted, SearchTools, ChunkTools, DocTools, NavTools
  <2>6. ServerRefuses(SearchOf(c)) => Blank(c)
    <3> DEFINE s == Offer(texts, filters)
    <3>1. s.mode = "hybrid" /\ s.texts = texts /\ s.filters = filters
      BY DEF Offer
    <3> HIDE DEF s
    <3> SUFFICES ASSUME ServerRefuses(s) PROVE Blank(c)
      BY <1>1 DEF s
    <3>2. ~(Len(texts) > ServerCap)
      BY <1>0, AgentAssumption
    <3>3. ToSet(texts) \subseteq {NoText, BlankText}
      BY <1>4, <3>1, <3>2 DEF ServerRefuses
    <3> QED BY <1>1, <3>3 DEF Blank
  <2> QED BY <1>1, <1>2, <2>5, <2>6 DEF Lands, c, SearchTools, ChunkTools, DocTools, NavTools
<1> QED BY <1>3, <1>4

(* The calls that say nothing of a row or a filter.                         *)
LEMMA PlainLands ==
  /\ Lands(InstallCall) /\ Lands(StatusCall)
  /\ \A f \in Drillable : Lands(DrillInto(f))
<1>1. Lands(InstallCall)
  <2> DEFINE c == InstallCall
             a == [skill |-> Array(<<"search">>)]
  <2>1. c.tool = "install_skill" /\ c.args = a
    BY DEF InstallCall, Call
  <2>2. DOMAIN a = {"skill"} /\ a["skill"] = Array(<<"search">>)
    OBVIOUS
  <2>3. Given("skill", Array(<<"search">>))
    <3>1. <<"search">> \in Seq({"search"})
      OBVIOUS
    <3> QED BY <3>1, ListIs
  <2> HIDE DEF c, a
  <2>4. Typed(c)
    BY <2>1, <2>2, <2>3 DEF Typed
  <2>5. Rewritten(c) = c
    BY <2>1 DEF Rewritten, ChunkTools, DocTools, NavTools
  <2>6. Accepted(c)
    BY <2>1 DEF Accepted, Reads, SearchTools, ChunkTools, DocTools, NavTools
  <2> QED BY <2>1, <2>4, <2>5, <2>6 DEF Lands, SearchTools, ChunkTools, DocTools, NavTools, c
<1>2. Lands(StatusCall)
  <2> DEFINE c == StatusCall
  <2>1. c.tool = "status" /\ c.args = <<>>
    BY DEF StatusCall, Call
  <2>2. DOMAIN c.args = {}
    BY <2>1
  <2> HIDE DEF c
  <2>4. Typed(c)
    BY <2>2 DEF Typed
  <2>5. Rewritten(c) = c
    BY <2>1 DEF Rewritten, ChunkTools, DocTools, NavTools
  <2>6. Accepted(c)
    BY <2>1, <2>2 DEF Accepted, SearchTools, ChunkTools, DocTools, NavTools
  <2> QED BY <2>1, <2>4, <2>5, <2>6 DEF Lands, SearchTools, ChunkTools, DocTools, NavTools, c
<1>3. ASSUME NEW f \in Drillable PROVE Lands(DrillInto(f))
  <2> DEFINE c == DrillInto(f)
             a == [facet |-> String(f)]
  <2>1. c.tool = "facets" /\ c.args = a
    BY DEF DrillInto, Call
  <2>2. DOMAIN a = {"facet"} /\ a["facet"] = String(f)
    OBVIOUS
  <2>3. Given("facet", String(f)) /\ String(f).items = <<f>>
    BY ArgumentIs
  <2> HIDE DEF c, a
  <2>4. Typed(c)
    BY <2>1, <2>2, <2>3 DEF Typed
  <2>5. Rewritten(c) = c
    BY <2>1 DEF Rewritten, ChunkTools, DocTools, NavTools
  <2>6. Accepted(c)
    BY <2>1 DEF Accepted, Reads, SearchTools, ChunkTools, DocTools, NavTools
  <2>7. ListsFacet(c)
    BY <2>1, <2>2, <2>3 DEF ListsFacet, ListBounds
  <2> QED BY <2>1, <2>4, <2>5, <2>6, <2>7 DEF Lands, SearchTools, ChunkTools, DocTools, NavTools, c
<1> QED BY <1>1, <1>2, <1>3

(* The search offered for a row that is not found.                          *)
LEMMA TermsLand == Lands(Call("search", [query |-> String("<terms>")]))
<1> DEFINE c == Call("search", [query |-> String("<terms>")])
           a == [query |-> String("<terms>")]
<1>1. c.tool = "search" /\ c.args = a
  BY DEF Call
<1>2. DOMAIN a = {"query"} /\ a["query"] = String("<terms>")
  OBVIOUS
<1>3. Given("query", a["query"]) /\ a["query"].items = <<"<terms>">> /\ a["query"].type = "string"
  BY <1>2, ArgumentIs
<1>4. "<terms>" \notin {NoText, BlankText} /\ "<terms>" # NoText
  BY DEF NoText, BlankText
<1> HIDE DEF c, a
<1>5. Typed(c)
  BY <1>1, <1>2, <1>3 DEF Typed
<1>6. Rewritten(c) = c
  BY <1>1, <1>2 DEF Rewritten, ChunkTools, DocTools, NavTools
<1>7. Queries(c) = <<"<terms>">>
  BY <1>1, <1>3 DEF Queries
<1>8. \A q, v : q # "query" => Value(c, q, v) = v
  BY <1>1, <1>2 DEF Value
<1>9. Accepted(c)
  <2>1. DOMAIN c.args \cap Reads(c.tool) = {}
    BY <1>1, <1>2 DEF Reads
  <2>2. CodeModeFits(c)
    BY <1>8 DEF CodeModeFits
  <2>3. \A i \in DOMAIN Queries(c) : Queries(c)[i] # NoText
    BY <1>4, <1>7
  <2> QED BY <1>1, <1>2, <1>3, <2>1, <2>2, <2>3 DEF Accepted, SearchTools, ChunkTools, DocTools, NavTools
<1>10. ~ServerRefuses(SearchOf(c))
  <2> DEFINE s == SearchOf(c)
  <2>1. s.texts = <<"<terms>">> /\ s.code = "none" /\ s.filters = NoFilters
    BY <1>1, <1>7, <1>8 DEF SearchOf, FiltersOf
  <2> HIDE DEF s
  <2>2. ~(Len(s.texts) > ServerCap)
    BY <2>1, AgentAssumption
  <2>3. "<terms>" \in ToSet(s.texts)
    BY <2>1 DEF ToSet
  <2>4. ValidFilters(s.filters)
    BY <2>1 DEF ValidFilters, NoFilters
  <2> QED BY <1>4, <2>1, <2>2, <2>3, <2>4 DEF ServerRefuses, s
<1> QED BY <1>1, <1>5, <1>6, <1>9, <1>10 DEF Lands, SearchTools, ChunkTools, DocTools, NavTools, c

(* A search for the first value of a facet that is listed.                  *)
LEMMA TryLands ==
  ASSUME NEW facet, NEW page,
         \/ facet \in Drillable
         \/ facet = "attribution" /\ page[1] \in ClosedValues["attribution"],
         NEW o \in TrySearch(facet, page)
  PROVE  Lands(o)
<1> DEFINE e == Element("string", page[1], {})
           filters == [f \in {facet} |-> OneOf({e})]
           texts == <<YourQuery>>
<1>1. o = Advanced(texts, filters, <<>>)
  BY DEF TrySearch
<1>2. e = [shape |-> "string", name |-> page[1], version |-> {}]
  BY DEF Element
<1>3. e.shape = "string" /\ e.name = page[1] /\ e = Element(e.shape, e.name, e.version)
  BY <1>2 DEF Element
<1> HIDE DEF e
<1>4. DOMAIN filters = {facet} /\ filters[facet] = [any |-> {e}, none |-> {}]
      /\ filters = [f \in DOMAIN filters |-> filters[f]]
  BY DEF OneOf
<1> HIDE DEF filters
<1>5. filters[facet].any = {e} /\ filters[facet].none = {}
  BY <1>4
<1>6. Shaped(filters)
  BY <1>3, <1>4, <1>5 DEF Shaped
<1>7. ValidFilters(filters) \/ \E f \in DOMAIN filters \cap ObjectFacets : \E x \in filters[f].any : x.shape = "string"
  <2>1. CASE facet \in ObjectFacets
    BY <1>3, <1>4, <1>5, <2>1
  <2>2. CASE facet \notin ObjectFacets
    <3>1. facet \in {"source_slug", "language", "tags", "attribution"}
      BY <2>2 DEF Drillable, ObjectFacets
    <3>2. facet \in AllFacets /\ facet \notin Ranges /\ facet \notin VersionFacets
          /\ (facet \in ClosedFacets => facet = "attribution") /\ facet \notin Drillable \ {"source_slug", "language", "tags"}
      BY <3>1 DEF AllFacets, SetFacets, TextFacets, ClosedFacets, Ranges, VersionFacets, Drillable
    <3>3. facet = "attribution" => page[1] \in ClosedValues["attribution"]
      BY DEF Drillable, VersionFacets
    <3>4. Names({e} \cup {}) = {page[1]}
      BY <1>3 DEF Names
    <3>5. ValidSet(facet, filters[facet])
      BY <1>3, <1>5, <2>2, <3>2, <3>3, <3>4, ClosedAssumption DEF ValidSet, ShapeOf
    <3> QED BY <1>4, <3>2, <3>5 DEF ValidFilters
  <2> QED BY <2>1, <2>2
<1>8. /\ texts \in Seq({YourQuery}) /\ Len(texts) = 1 /\ ToSet(texts) = {YourQuery}
      /\ 1 \in 1..MaxQueries /\ 1 <= ServerCap
  <2>1. \A x : <<x>> \in Seq({x}) /\ Len(<<x>>) = 1
    OBVIOUS
  <2>2. ToSet(texts) = {YourQuery}
    BY DEF ToSet
  <2> QED BY <2>1, <2>2, AgentAssumption
<1>9. YourQuery # NoText
  BY DEF NoText, YourQuery
<1>10. <<>> \in Extras
  BY DEF Extras
<1> HIDE DEF texts
<1> QED BY <1>1, <1>6, <1>7, <1>8, <1>9, <1>10, AdvancedLands

(* The next page of a list.                                                 *)
LEMMA PageLands ==
  ASSUME NEW c, Typed(c), NEW values, NEW args, NEW o \in NextPage(c, values, args),
         \/ c.tool = "list_sources" /\ args = <<>>
         \/ /\ c.tool = "facets" /\ DOMAIN args \subseteq {"facet", "within"} /\ DOMAIN args \subseteq DOMAIN c.args
            /\ \A p \in DOMAIN args : args[p] = c.args[p]
            /\ "facet" \in DOMAIN args
            /\ args["facet"].items[1] \in IF "within" \in DOMAIN args THEN Drills ELSE Drillable
  PROVE  Lands(o)
<1> DEFINE q == [cursor |-> String(Until(c))]
           a == Merged(q, args)
<1>1. o = Call(c.tool, a)
  BY DEF NextPage
<1>2. o.tool = c.tool /\ o.args = a
  BY <1>1 DEF Call
<1>3. DOMAIN q = {"cursor"} /\ q["cursor"] = String(Until(c))
  OBVIOUS
<1>4. String(Until(c)).items # <<>> /\ Given("cursor", String(Until(c)))
  <2>1. String(Until(c)).items = <<Until(c)>> /\ Given("cursor", String(Until(c)))
    BY ArgumentIs
  <2> QED BY <2>1
<1> HIDE DEF q
<1>5. DOMAIN a = {"cursor"} \cup DOMAIN args /\ a["cursor"] = String(Until(c))
      /\ \A p \in DOMAIN args : p # "cursor" => a[p] = args[p]
  BY <1>3 DEF Merged
<1> HIDE DEF a
<1>6. c.tool \notin SearchTools \cup ChunkTools \cup DocTools \cup {"get_chunks", "advanced_search", "search"}
  BY DEF SearchTools, ChunkTools, DocTools, NavTools
<1>7. Rewritten(o) = o
  BY <1>2, <1>6 DEF Rewritten
<1>8. Accepted(o)
  <2>1. Reads(c.tool) = {}
    BY DEF Reads, NavTools
  <2> QED BY <1>2, <1>6, <2>1 DEF Accepted, SearchTools
<1>9. CASE c.tool = "list_sources" /\ args = <<>>
  <2>1. DOMAIN args = {}
    BY <1>9
  <2>2. DOMAIN a = {"cursor"}
    BY <1>5, <2>1
  <2>3. Typed(o)
    BY <1>2, <1>4, <1>5, <2>2 DEF Typed
  <2>4. ListBounds(o)
    BY <1>2, <1>4, <1>5, <2>2 DEF ListBounds
  <2> QED BY <1>2, <1>6, <1>7, <1>8, <1>9, <2>3, <2>4 DEF Lands
<1>10. CASE /\ c.tool = "facets" /\ DOMAIN args \subseteq {"facet", "within"} /\ DOMAIN args \subseteq DOMAIN c.args
            /\ \A p \in DOMAIN args : args[p] = c.args[p]
            /\ "facet" \in DOMAIN args
            /\ args["facet"].items[1] \in IF "within" \in DOMAIN args THEN Drills ELSE Drillable
  <2>1. "limit" \notin DOMAIN a /\ "filters" \notin DOMAIN a /\ ("within" \in DOMAIN a <=> "within" \in DOMAIN args)
        /\ a["facet"] = args["facet"] /\ DOMAIN a \subseteq {"cursor", "facet", "within"}
    BY <1>5, <1>10
  <2>2. \A p \in DOMAIN a : Given(p, a[p])
    <3> TAKE p \in DOMAIN a
    <3>1. CASE p = "cursor"
      BY <1>4, <1>5, <3>1
    <3>2. CASE p # "cursor"
      <4>1. p \in DOMAIN args /\ a[p] = c.args[p] /\ p \in DOMAIN c.args \ {"filters"}
        BY <1>5, <1>10, <3>2
      <4> QED BY <4>1 DEF Typed
    <3> QED BY <3>1, <3>2
  <2>3. Typed(o)
    BY <1>2, <2>1, <2>2 DEF Typed
  <2>4. ListBounds(o)
    BY <1>2, <1>4, <1>5, <2>1 DEF ListBounds
  <2>5. ListsFacet(o)
    BY <1>2, <1>10, <2>1, <2>4 DEF ListsFacet
  <2> QED BY <1>2, <1>6, <1>7, <1>8, <1>10, <2>3, <2>5 DEF Lands
<1> QED BY <1>9, <1>10

(* A call is typed under whichever names it is made.                        *)
LEMMA RenamedTyped ==
  ASSUME NEW c, Typed(c), NEW old \in DOMAIN c.args \ {"filters"}, NEW new \in {"queries", "query", "ids", "id"},
         NEW type \in {"array", "string"}, type = "string" => Len(c.args[old].items) = 1
  PROVE  Typed(Renamed(c, old, new, type))
<1> DEFINE args == c.args
           r == Renamed(c, old, new, type)
           x == [args[old] EXCEPT !.type = type]
           N == (DOMAIN args \ {old}) \cup {new}
<1>1. Given(old, args[old])
  BY DEF Typed
<1>2. args[old] = [type |-> args[old].type, items |-> args[old].items]
  BY <1>1 DEF Given
<1>3. x = [type |-> type, items |-> args[old].items]
  BY <1>2
<1> HIDE DEF x
<1>4. x.type = type /\ x.items = args[old].items
  BY <1>3
<1>5. Given(new, x)
  BY <1>1, <1>3, <1>4 DEF Given
<1>6. DOMAIN r.args = N /\ \A p \in N : r.args[p] = IF p = new THEN x ELSE args[p]
  <2>1. r.args = [p \in N |-> IF p = new THEN x ELSE args[p]]
    BY DEF Renamed, Call, x
  <2> HIDE DEF r, N
  <2> QED BY <2>1
<1>7. "filters" \in N <=> "filters" \in DOMAIN args
  OBVIOUS
<1>8. \A p \in N \ {"filters"} : Given(p, r.args[p])
  BY <1>5, <1>6 DEF Typed
<1>9. "filters" \in N => Shaped(r.args["filters"])
  BY <1>6, <1>7 DEF Typed
<1> HIDE DEF r, N
<1> QED BY <1>6, <1>8, <1>9 DEF Typed, r

(* And so is what it is rewritten to.                                       *)
LEMMA RewrittenTyped ==
  ASSUME NEW c, Typed(c)
  PROVE  Typed(Rewritten(c))
<1>1. \A old \in {"query", "queries", "chunk_id", "id", "document_id"},
         new \in {"queries", "query", "ids", "id"}, type \in {"array", "string"} :
         old \in DOMAIN c.args /\ (type = "string" => Len(c.args[old].items) = 1)
           => Typed(Renamed(c, old, new, type))
  BY RenamedTyped
<1>2. \A q \in DOMAIN c.args \ {"filters"} : c.args[q].type = "string" => Len(c.args[q].items) = 1
  BY DEF Typed, Given
<1> QED BY <1>1, <1>2 DEF Rewritten

-----------------------------------------------------------------------------
(* What a search offers.                                                    *)

AllIds == UNION {ToSet(ChunksOf(d)) : d \in DOMAIN Corpus}

(* The chunks are rows, and so are their documents.                         *)
LEMMA ChunkRows ==
  /\ \A x \in AllIds : Row(x) /\ Chunk(x).sure \in Int
  /\ \A x : x[1] \in DOMAIN Corpus => Row(<<x[1], 0>>)
<1>1. ASSUME NEW x \in AllIds PROVE Row(x) /\ Chunk(x).sure \in Int
  <2>1. PICK d \in DOMAIN Corpus : x \in ToSet(ChunksOf(d))
    BY DEF AllIds
  <2>2. PICK i \in DOMAIN Corpus[d].chunks : x = <<d, i>>
    BY <2>1 DEF ToSet, ChunksOf
  <2>3. DOMAIN Corpus[d].chunks \subseteq Nat \ {0} /\ Corpus[d].chunks[i].sure \in Int
    BY CorpusAssumption
  <2>4. x[1] = d /\ x[2] = i /\ x # NotAnId
    BY <2>2, <2>3 DEF NotAnId
  <2> QED BY <2>2, <2>3, <2>4 DEF Row, Chunk
<1>2. ASSUME NEW x, x[1] \in DOMAIN Corpus PROVE Row(<<x[1], 0>>)
  <2>1. x[1] # 0
    BY <1>2, CorpusAssumption
  <2> QED BY <1>2, <2>1 DEF Row, NotAnId
<1> QED BY <1>1, <1>2

(* An item of what is picked by membership.                                 *)
LEMMA OnlyIs ==
  ASSUME NEW T, NEW s \in Seq(T), NEW S
  PROVE  /\ Only(s, S) \in Seq(T)
         /\ \A k \in DOMAIN Only(s, S) : Only(s, S)[k] \in S /\ Only(s, S)[k] \in ToSet(s)
         /\ (\E k \in DOMAIN s : s[k] \in S) => Only(s, S) # <<>>
<1> DEFINE P == {k \in DOMAIN s : s[k] \in S}
           q == Only(s, S)
<1>1. q = Picked(s, P) /\ P \in SUBSET DOMAIN s
  BY DEF Only
<1>2. \A k \in P : k \in DOMAIN s /\ s[k] \in S
  OBVIOUS
<1>3. (\E k \in DOMAIN s : s[k] \in S) => \E k \in P : TRUE
  OBVIOUS
<1> HIDE DEF P, q
<1>4. q \in Seq(T) /\ \E at : PickedBy(at, s, P)
  BY <1>1, PicksAt
<1>5. PICK at : PickedBy(at, s, P)
  BY <1>4
<1>6. \A k \in DOMAIN q : at[k] \in P /\ q[k] = s[at[k]]
  BY <1>1, <1>5 DEF PickedBy
<1>7. \A k \in DOMAIN q : q[k] \in S /\ q[k] \in ToSet(s)
  BY <1>2, <1>6 DEF ToSet
<1>8. (\E k \in P : TRUE) => q # <<>>
  <2> SUFFICES ASSUME NEW j \in P PROVE q # <<>>
    OBVIOUS
  <2>1. \E k \in DOMAIN at : at[k] = j
    BY <1>5 DEF PickedBy
  <2>2. \E k : k \in DOMAIN q
    BY <1>1, <1>5, <2>1 DEF PickedBy
  <2> QED BY <2>2
<1> QED BY <1>3, <1>4, <1>7, <1>8 DEF q

(* What is ranked is chunks.                                                *)
LEMMA RankedIs ==
  ASSUME NEW S
  PROVE  Ranked(S) \in Seq(AllIds)
<1> DEFINE docs == [d \in DOMAIN Corpus |-> ChunksOf(d)]
           hits == Only(AllChunks, S)
           key == [k \in DOMAIN hits |-> Chunk(hits[k]).sure]
<1>1. \A d \in DOMAIN Corpus : ChunksOf(d) \in Seq(AllIds)
  <2> TAKE d \in DOMAIN Corpus
  <2>1. ChunksOf(d) \in Seq(Id2)
    BY ChunksAre
  <2>2. \A i \in 1..Len(ChunksOf(d)) : ChunksOf(d)[i] \in AllIds
    BY ChunksAre DEF AllIds, ToSet
  <2> QED BY <2>1, <2>2
<1>2. docs \in Seq(Seq(AllIds))
  BY <1>1, CorpusAssumption
<1>3. AllChunks \in Seq(AllIds)
  BY <1>2, FlatType DEF AllChunks
<1>4. hits \in Seq(AllIds)
  BY <1>3, OnlyIs
<1>5. key \in [DOMAIN hits -> Int]
  <2>1. \A k \in DOMAIN hits : hits[k] \in AllIds
    BY <1>4
  <2> QED BY <2>1, ChunkRows
<1> HIDE DEF hits, key
<1>6. Descending(hits, key) \in Seq(AllIds)
  BY <1>4, <1>5, Sorts
<1> QED BY <1>6 DEF Ranked, hits, key

(* The first items of a sequence.                                           *)
LEMMA FirstOfIs ==
  ASSUME NEW T, NEW s \in Seq(T), NEW n \in Nat
  PROVE  FirstOf(n, s) \in Seq(T) /\ Len(FirstOf(n, s)) = IF n <= Len(s) THEN n ELSE Len(s)
<1> DEFINE m == Min({n, Len(s)})
<1>1. Len(s) \in Nat
  OBVIOUS
<1>2. m = IF n <= Len(s) THEN n ELSE Len(s)
  BY <1>1, LesserIs
<1>3. \A i \in 1..m : s[i] \in T
  BY <1>1, <1>2, ElementOfSeq
<1> HIDE DEF m
<1>4. SubSeq(s, 1, m) \in Seq(T) /\ Len(SubSeq(s, 1, m)) = IF 1 <= m THEN m - 1 + 1 ELSE 0
  BY <1>1, <1>2, <1>3, SubSeqProperties
<1>5. Len(SubSeq(s, 1, m)) = m
  BY <1>1, <1>2, <1>4
<1> QED BY <1>2, <1>4, <1>5 DEF FirstOf, m

(* What is offered for the chunks that a search shows.                      *)
LEMMA ResultsLand ==
  ASSUME NEW s \in Seq(AllIds), NEW o \in AfterResults(s)
  PROVE  Lands(o)
<1>1. s # <<>> /\ Len(s) \in Nat /\ Len(s) > 0 /\ s[1] \in AllIds
  BY DEF AfterResults
<1>2. Row(s[1]) /\ Row(<<s[1][1], 0>>)
  BY <1>1, ChunkRows DEF Row
<1>3. NotAnId \notin AllIds
  BY ChunkRows DEF Row
<1>4. \A t \in Seq(AllIds) : NotAnId \notin ToSet(t)
  BY <1>3 DEF ToSet
<1>5. MaxIds \in Nat /\ 5 <= MaxIds
  BY AgentAssumption
<1>6. CASE o = Fetch(<<s[1]>>)
  <2>1. <<s[1]>> \in Seq(AllIds) /\ Len(<<s[1]>>) = 1
    BY <1>1
  <2>2. 1 \in 1..MaxIds
    BY <1>5
  <2> QED BY <1>4, <1>6, <2>1, <2>2, FetchLands
<1>7. CASE o \in Around(s[1])
  BY <1>2, <1>7, OnIdLands DEF Around, Document, ChunkTools, DocTools
<1>8. CASE o = Fetch(FirstOf(5, s))
  <2>1. FirstOf(5, s) \in Seq(AllIds) /\ Len(FirstOf(5, s)) = IF 5 <= Len(s) THEN 5 ELSE Len(s)
    BY FirstOfIs
  <2>2. Len(FirstOf(5, s)) \in 1..MaxIds
    <3> DEFINE m == Len(FirstOf(5, s))
               l == Len(s)
    <3>1. l \in Nat /\ l > 0 /\ m = IF 5 <= l THEN 5 ELSE l
      BY <1>1, <2>1
    <3> HIDE DEF m, l
    <3>2. m \in 1..MaxIds
      BY <1>5, <3>1
    <3> QED BY <3>2 DEF m
  <2> QED BY <1>4, <1>8, <2>1, <2>2, FetchLands
<1> QED BY <1>1, <1>6, <1>7, <1>8 DEF AfterResults

(* Filters without some facets.                                             *)
LEMMA WithoutIs ==
  ASSUME NEW filters, Shaped(filters), NEW facets
  PROVE  /\ Shaped(Without(filters, facets))
         /\ ValidFilters(filters) => ValidFilters(Without(filters, facets))
<1> DEFINE w == Without(filters, facets)
<1>1. DOMAIN w = DOMAIN filters \ facets /\ \A f \in DOMAIN w : w[f] = filters[f]
  BY DEF Without
<1>2. w = [f \in DOMAIN w |-> w[f]]
  BY DEF Without
<1> HIDE DEF w
<1>3. Shaped(w)
  BY <1>1, <1>2 DEF Shaped
<1>4. ValidFilters(filters) => ValidFilters(w)
  BY <1>1 DEF ValidFilters
<1> QED BY <1>3, <1>4 DEF w

(* Elements without their versions.                                         *)
Bare(elements) == {[x EXCEPT !.version = {}] : x \in elements}

(* They are named as before.                                                *)
LEMMA BareIs ==
  ASSUME NEW S, \A x \in S : x = Element(x.shape, x.name, x.version)
  PROVE  /\ \A x \in S : [x EXCEPT !.version = {}] = Element(x.shape, x.name, {})
         /\ \A y \in Bare(S) : y = Element(y.shape, y.name, y.version) /\ y.version = {}
         /\ \A y \in Bare(S) : \E x \in S : y.shape = x.shape /\ y.name = x.name
         /\ \A x \in S : \E y \in Bare(S) : y.shape = x.shape /\ y.name = x.name
<1>1. ASSUME NEW x \in S PROVE [x EXCEPT !.version = {}] = Element(x.shape, x.name, {})
  <2>1. x = [shape |-> x.shape, name |-> x.name, version |-> x.version]
    BY DEF Element
  <2> QED BY <2>1 DEF Element
<1>2. \A a, b, c : /\ Element(a, b, c).shape = a /\ Element(a, b, c).name = b /\ Element(a, b, c).version = c
  BY DEF Element
<1>3. Bare(S) = {Element(x.shape, x.name, {}) : x \in S}
  BY <1>1 DEF Bare
<1> QED BY <1>1, <1>2, <1>3

(* Filters without the versions they ask for.                               *)
LEMMA StrippedIs ==
  ASSUME NEW filters, Shaped(filters)
  PROVE  /\ Shaped(Stripped(filters)) /\ DOMAIN Stripped(filters) = DOMAIN filters
         /\ ValidFilters(filters) => ValidFilters(Stripped(filters))
         /\ \A f \in DOMAIN filters :
              IF f \in VersionFacets
                THEN /\ Stripped(filters)[f].any = Bare(filters[f].any)
                     /\ Stripped(filters)[f].none = filters[f].none
                ELSE Stripped(filters)[f] = filters[f]
<1> DEFINE w == Stripped(filters)
<1>1. /\ DOMAIN w = DOMAIN filters /\ w = [f \in DOMAIN w |-> w[f]]
      /\ \A f \in DOMAIN w : f \notin VersionFacets => w[f] = filters[f]
      /\ \A f \in DOMAIN w : f \in VersionFacets => w[f] = [filters[f] EXCEPT !.any = Bare(filters[f].any)]
  BY DEF Stripped, Bare
<1> HIDE DEF w
<1>2. VersionFacets \subseteq SetFacets /\ VersionFacets \cap (ClosedFacets \cup Ranges) = {}
  BY DEF SetFacets, ObjectFacets, VersionFacets, ClosedFacets, Ranges
<1>3. ASSUME NEW f \in DOMAIN w, f \in VersionFacets
      PROVE  /\ w[f].any = Bare(filters[f].any) /\ w[f].none = filters[f].none
             /\ w[f] = [any |-> w[f].any, none |-> w[f].none]
             /\ \A x \in filters[f].any : x = Element(x.shape, x.name, x.version)
  <2>1. /\ filters[f] = [any |-> filters[f].any, none |-> filters[f].none]
        /\ \A x \in filters[f].any : x = Element(x.shape, x.name, x.version)
    BY <1>1, <1>2, <1>3 DEF Shaped
  <2>2. w[f] = [any |-> Bare(filters[f].any), none |-> filters[f].none]
    BY <1>1, <1>3, <2>1
  <2> QED BY <2>1, <2>2
<1>4. Shaped(w)
  <2>1. ASSUME NEW f \in DOMAIN w \cap SetFacets
        PROVE  /\ w[f] = [any |-> w[f].any, none |-> w[f].none]
               /\ \A x \in w[f].any : x = Element(x.shape, x.name, x.version)
    <3>1. CASE f \in VersionFacets
      BY <1>3, <3>1, BareIs
    <3>2. CASE f \notin VersionFacets
      BY <1>1, <3>2 DEF Shaped
    <3> QED BY <3>1, <3>2
  <2> QED BY <1>1, <2>1 DEF Shaped
<1>5. ValidFilters(filters) => ValidFilters(w)
  <2> SUFFICES ASSUME ValidFilters(filters) PROVE ValidFilters(w)
    OBVIOUS
  <2>1. ASSUME NEW f \in DOMAIN w \cap SetFacets PROVE ValidSet(f, w[f])
    <3>0. ValidSet(f, filters[f])
      BY <1>1 DEF ValidFilters
    <3>1. CASE f \in VersionFacets
      <4>1. \A x \in filters[f].any \cup filters[f].none : x.shape = ShapeOf(f)
        BY <3>0 DEF ValidSet
      <4>2. /\ w[f].any = Bare(filters[f].any) /\ w[f].none = filters[f].none
            /\ \A x \in filters[f].any : x = Element(x.shape, x.name, x.version)
        BY <1>3, <3>1
      <4>3. \A y \in w[f].any : y.version = {} /\ \E x \in filters[f].any : y.shape = x.shape
        BY <4>2, BareIs
      <4>4. f \notin DOMAIN ClosedValues
        BY <1>2, <3>1, ClosedAssumption
      <4>5. w[f].none = {}
        BY <3>0, <3>1, <4>2 DEF ValidSet
      <4> QED BY <4>1, <4>2, <4>3, <4>4, <4>5 DEF ValidSet
    <3>2. CASE f \notin VersionFacets
      BY <1>1, <3>0, <3>2
    <3> QED BY <3>1, <3>2
  <2>2. ASSUME NEW f \in DOMAIN w \cap Ranges PROVE ValidRange(w[f])
    BY <1>1, <1>2 DEF ValidFilters
  <2> QED BY <1>1, <2>1, <2>2 DEF ValidFilters
<1> QED BY <1>1, <1>3, <1>4, <1>5 DEF w

(* A search whose texts and filters are fit.                                *)
Sane(s) ==
  /\ s.texts \in Seq(ToSet(s.texts)) /\ Len(s.texts) \in 1..MaxQueries /\ Len(s.texts) <= ServerCap
  /\ NoText \notin ToSet(s.texts)
  /\ Shaped(s.filters) /\ ValidFilters(s.filters)

(* What is offered for it when nothing is found.                            *)
LEMMA NothingLands ==
  ASSUME NEW s, Sane(s), NEW o \in AfterNothing(s)
  PROVE  Lands(o)
<1>1. \A filters, more : Shaped(filters) /\ ValidFilters(filters) /\ more \in Extras
        => Lands(Advanced(s.texts, filters, more))
  BY AdvancedLands DEF Sane
<1>2. Shaped(s.filters) /\ ValidFilters(s.filters)
  BY DEF Sane
<1>3. <<>> \in Extras /\ [mode |-> String("hybrid")] \in Extras /\ Loosened(s) \in Extras
  BY DEF Extras, Loosened
<1>4. CASE o \in Hybrid(s)
  BY <1>1, <1>2, <1>3, <1>4 DEF Hybrid
<1>5. CASE o = Advanced(s.texts, NoFilters, <<>>)
  <2>1. Shaped(NoFilters) /\ ValidFilters(NoFilters)
    BY DEF Shaped, ValidFilters, NoFilters
  <2> QED BY <1>1, <1>3, <1>5, <2>1
<1>6. CASE o \in Relaxed(s)
  <2> DEFINE dated == Only(Dated, DOMAIN s.filters)
  <2>1. \/ o = Advanced(s.texts, Without(s.filters, {dated[1]}), <<>>)
        \/ o = Advanced(s.texts, s.filters, Loosened(s))
        \/ o = Advanced(s.texts, Stripped(s.filters), <<>>)
    BY <1>6 DEF Relaxed
  <2> HIDE DEF dated
  <2> QED BY <1>1, <1>2, <1>3, <2>1, WithoutIs, StrippedIs
<1>7. CASE \E f \in Drillable : o = DrillInto(f)
  BY <1>7, PlainLands
<1>8. ASSUME NEW open, open = Only(OpenFacets, DOMAIN s.filters), open # <<>>
      PROVE  open[1] \in Drillable
  <2>1. OpenFacets \in Seq(Drillable)
    BY DEF OpenFacets, Drillable
  <2>2. open \in Seq(Drillable)
    BY <1>8, <2>1, OnlyIs
  <2> QED BY <1>8, <2>2
<1>9. ASSUME o \notin Hybrid(s), o # Advanced(s.texts, NoFilters, <<>>), o \notin Relaxed(s)
      PROVE  \E f \in Drillable : o = DrillInto(f)
  <2> DEFINE open == Only(OpenFacets, DOMAIN s.filters)
  <2>1. open # <<>> /\ o = DrillInto(open[1])
    BY <1>9 DEF AfterNothing
  <2> QED BY <1>8, <2>1
<1> QED BY <1>4, <1>5, <1>6, <1>7, <1>9

-----------------------------------------------------------------------------
(* Every answer: what it offers lands, and why it refuses.                  *)

Answers(c, r) ==
  /\ \A o \in r.offers : Lands(o)
  /\ r.verdict \in {"INVALID_INPUT", "BAD_REQUEST"} => r.offers = {}
  /\ r.verdict = "NOT_FOUND" => c.tool \in ChunkTools \cup DocTools /\ \A o \in r.offers : o.tool = "search"
  /\ r.verdict = "BAD_REQUEST" /\ c.tool \in SearchTools =>
       Blank(Rewritten(c)) \/ Len(Queries(Rewritten(c))) > ServerCap

(* A call that lands is refused for a sample or a blank query alone, and    *)
(* finds its row unless it was swept.                                       *)
Landed(c, r) ==
  /\ r.verdict \in {"INVALID_INPUT", "BAD_REQUEST"} => c.tool \in SearchTools /\ (Sample(c) \/ Blank(c))
  /\ r.verdict = "NOT_FOUND" => Id(c)[1] \in DOMAIN Corpus \ stored

(* The fields of an answer.                                                 *)
LEMMA ReplyIs ==
  /\ \A x, y, z : Ok(x, y, z).verdict = "OK" /\ Ok(x, y, z).offers = z /\ Ok(x, y, z).shown = x
                  /\ Ok(x, y, z).removed = y
  /\ \A x, z : Failed(x, z).verdict = x /\ Failed(x, z).offers = z
  /\ BadRequest.verdict = "BAD_REQUEST" /\ BadRequest.offers = {}
  /\ NotFound.verdict = "NOT_FOUND" /\ NotFound.offers = {Call("search", [query |-> String("<terms>")])}
BY DEF Ok, Failed, BadRequest, NotFound

(* An answer that is OK needs offers that land, and no more.                *)
LEMMA OkAnswers ==
  ASSUME NEW c, NEW x, NEW y, NEW z, \A o \in z : Lands(o)
  PROVE  Answers(c, Ok(x, y, z)) /\ Landed(c, Ok(x, y, z))
<1>1. Ok(x, y, z).verdict = "OK" /\ Ok(x, y, z).offers = z
  BY ReplyIs
<1> QED BY <1>1 DEF Answers, Landed

(* And nothing is found where there is no row.                              *)
LEMMA NotFoundAnswers ==
  ASSUME NEW c, c.tool \in ChunkTools \cup DocTools, ~Exists(Id(Rewritten(c)))
  PROVE  Answers(c, NotFound) /\ (Lands(c) => Landed(c, NotFound))
<1>1. NotFound.verdict = "NOT_FOUND" /\ NotFound.offers = {Call("search", [query |-> String("<terms>")])}
  BY ReplyIs
<1>2. Lands(Call("search", [query |-> String("<terms>")]))
      /\ Call("search", [query |-> String("<terms>")]).tool = "search"
  BY TermsLand DEF Call
<1>3. Answers(c, NotFound)
  BY <1>1, <1>2 DEF Answers
<1>4. Lands(c) => Id(c)[1] \in DOMAIN Corpus \ stored
  BY DEF Lands, Row, Exists
<1> QED BY <1>1, <1>3, <1>4 DEF Landed

(* The server refuses no search that the tool accepts, but for these.       *)
LEMMA SearchRefused ==
  ASSUME NEW r, r.tool \in SearchTools, Accepted(r), ServerRefuses(SearchOf(r))
  PROVE  Blank(r) \/ Len(Queries(r)) > ServerCap
<1> DEFINE s == SearchOf(r)
<1>1. /\ s.texts = Queries(r) /\ s.mode = Value(r, "mode", "hybrid") /\ s.code = Value(r, "code_mode", "none")
      /\ s.filters = FiltersOf(r)
  BY DEF SearchOf
<1> HIDE DEF s
<1>2. ~(s.mode = "fts" /\ s.code \notin {"none", "off"})
  <2> SUFFICES ASSUME s.mode = "fts" PROVE s.code \in {"none", "off"}
    OBVIOUS
  <2>1. Value(r, "code_mode", "off") = "off"
    BY <1>1 DEF Accepted, CodeModeFits
  <2> QED BY <1>1, <2>1 DEF Value
<1>3. ValidFilters(s.filters)
  <2>1. CASE r.tool = "advanced_search"
    BY <1>1, <2>1 DEF Accepted
  <2>2. CASE r.tool # "advanced_search"
    <3>1. s.filters = NoFilters
      BY <1>1, <2>2 DEF FiltersOf
    <3> QED BY <3>1 DEF ValidFilters, NoFilters
  <2> QED BY <2>1, <2>2
<1>4. NoText \notin ToSet(Queries(r))
  BY DEF Accepted, ToSet
<1>5. CASE ToSet(s.texts) \subseteq {NoText, BlankText}
  BY <1>1, <1>4, <1>5 DEF Blank
<1> QED BY <1>1, <1>2, <1>3, <1>5 DEF ServerRefuses, s

(* One that it does not refuse is fit.                                      *)
LEMMA SearchIsSane ==
  ASSUME NEW r, r.tool \in SearchTools, Typed(r), Accepted(r), ~ServerRefuses(SearchOf(r))
  PROVE  Sane(SearchOf(r)) /\ SearchOf(r).limit \in Nat \ {0}
<1> DEFINE s == SearchOf(r)
<1>1. /\ s.texts = Queries(r) /\ s.filters = FiltersOf(r) /\ s.limit = Value(r, "limit", SearchLimit)
  BY DEF SearchOf
<1> HIDE DEF s
<1>2. s.texts \in Seq(ToSet(s.texts)) /\ Len(s.texts) \in 1..MaxQueries
  <2>1. CASE r.tool = "search"
    <3>1. "query" \in DOMAIN r.args /\ r.args["query"].type = "string" /\ s.texts = r.args["query"].items
      BY <1>1, <2>1 DEF Accepted, Queries
    <3>2. Given("query", r.args["query"])
      BY <3>1 DEF Typed
    <3>3. s.texts \in Seq(ToSet(s.texts)) /\ Len(s.texts) = 1
      BY <3>1, <3>2 DEF Given
    <3> QED BY <3>3, AgentAssumption
  <2>2. CASE r.tool = "advanced_search"
    <3>1. "queries" \in DOMAIN r.args /\ s.texts = r.args["queries"].items /\ Len(s.texts) \in 1..MaxQueries
      BY <1>1, <2>2 DEF Accepted, Queries
    <3>2. Given("queries", r.args["queries"])
      BY <3>1 DEF Typed
    <3> QED BY <3>1, <3>2 DEF Given
  <2> QED BY <2>1, <2>2 DEF SearchTools
<1>3. Len(s.texts) <= ServerCap
  <2>1. Len(s.texts) \in Nat /\ ServerCap \in Nat
    BY <1>2, AgentAssumption
  <2>2. ~(Len(s.texts) > ServerCap)
    BY DEF ServerRefuses, s
  <2> QED BY <2>1, <2>2
<1>4. NoText \notin ToSet(s.texts)
  BY <1>1 DEF Accepted, ToSet
<1>5. ValidFilters(s.filters)
  BY DEF ServerRefuses, s
<1>6. Shaped(s.filters)
  <2>1. CASE r.tool = "advanced_search" /\ "filters" \in DOMAIN r.args
    BY <1>1, <2>1 DEF FiltersOf, Typed
  <2>2. CASE ~(r.tool = "advanced_search" /\ "filters" \in DOMAIN r.args)
    <3>1. s.filters = NoFilters
      BY <1>1, <2>2 DEF FiltersOf
    <3> QED BY <3>1 DEF Shaped, NoFilters
  <2> QED BY <2>1, <2>2
<1>7. s.limit \in Nat \ {0}
  <2>1. CASE "limit" \in DOMAIN r.args \cap Reads(r.tool)
    <3>1. WellTyped(r.tool, "limit", r.args["limit"])
      BY <2>1 DEF Accepted
    <3>2. r.args["limit"].items[1] \in 1..MaxLimit
      BY <3>1 DEF WellTyped, Words, InBounds
    <3> QED BY <1>1, <2>1, <3>2, AgentAssumption DEF Value
  <2>2. CASE "limit" \notin DOMAIN r.args \cap Reads(r.tool)
    BY <1>1, <2>2, AgentAssumption DEF Value
  <2> QED BY <2>1, <2>2
<1> QED BY <1>2, <1>3, <1>4, <1>5, <1>6, <1>7 DEF Sane, s

(* A search.                                                                *)
LEMMA SearchAnswers ==
  ASSUME NEW c, Typed(c), c.tool \in SearchTools, Accepted(Rewritten(c)), Search(c)
  PROVE  Answers(c, reply') /\ (Lands(c) => Landed(c, reply'))
<1> DEFINE r == Rewritten(c)
           s == SearchOf(r)
           results == FirstOf(s.limit, Ranked(Found(s)))
           shown == Kept(results)
           nudge == IF Cardinality(Candidates(s)) < Few /\ ~skill THEN {InstallCall} ELSE {}
           none == IF results = <<>> THEN AfterNothing(s) ELSE {}
<1>1. reply' = IF ServerRefuses(s) THEN BadRequest
               ELSE Ok(shown, shown # results, nudge \cup AfterResults(shown) \cup none)
  BY DEF Search
<1>2. r.tool \in SearchTools /\ Typed(r)
  BY RewrittenTool, RewrittenTyped
<1>3. CASE ServerRefuses(s)
  <2>1. reply'.verdict = "BAD_REQUEST" /\ reply'.offers = {}
    BY <1>1, <1>3, ReplyIs
  <2>2. Blank(r) \/ Len(Queries(r)) > ServerCap
    BY <1>2, <1>3, SearchRefused
  <2>3. Lands(c) => Sample(c) \/ Blank(c)
    BY <1>3 DEF Lands
  <2> HIDE DEF r, s
  <2> QED BY <2>1, <2>2, <2>3 DEF Answers, Landed, r
<1>4. CASE ~ServerRefuses(s)
  <2>1. Sane(s) /\ s.limit \in Nat \ {0}
    BY <1>2, <1>4, SearchIsSane
  <2>2. results \in Seq(AllIds)
    BY <2>1, RankedIs, FirstOfIs
  <2>3. shown \in Seq(AllIds)
    BY <2>2, KeptIs
  <2> HIDE DEF r, s, results, shown
  <2>4. \A o \in nudge \cup AfterResults(shown) \cup none : Lands(o)
    BY <2>1, <2>3, ResultsLand, NothingLands, PlainLands
  <2> HIDE DEF nudge, none
  <2>5. reply' = Ok(shown, shown # results, nudge \cup AfterResults(shown) \cup none)
    BY <1>1, <1>4
  <2> QED BY <2>4, <2>5, OkAnswers
<1> QED BY <1>3, <1>4

(* Chunks by their ids.                                                     *)
LEMMA GetChunksAnswers ==
  ASSUME NEW c, Typed(c), c.tool = "get_chunks", Accepted(Rewritten(c)), stored \subseteq DOMAIN Corpus, GetChunks(c)
  PROVE  Answers(c, reply') /\ Landed(c, reply')
<1> DEFINE r == Rewritten(c)
           asked == r.args["ids"].items
           P == {k \in DOMAIN asked : Exists(asked[k])}
           found == Picked(asked, P)
           shown == Kept(found)
           T == {x \in ToSet(asked) : Exists(x)}
<1>1. reply' = Ok(shown, shown # found, IF shown = <<>> THEN {} ELSE Around(shown[1]))
  BY DEF GetChunks
<1>2. r.tool = "get_chunks" /\ Typed(r)
  BY RewrittenTool, RewrittenTyped
<1>3. "ids" \in DOMAIN r.args /\ NotAnId \notin ToSet(asked)
  BY <1>2 DEF Accepted
<1>4. asked \in Seq(ToSet(asked))
  <2>1. Given("ids", r.args["ids"])
    BY <1>2, <1>3 DEF Typed
  <2> QED BY <2>1 DEF Given
<1>5. P \in SUBSET DOMAIN asked /\ \A k \in P : Exists(asked[k]) /\ asked[k] \in T
  BY DEF ToSet
<1>6. \A x \in T : Row(x)
  BY <1>3 DEF Exists, Row
<1> HIDE DEF asked, P, T
<1>7. found \in Seq(T)
  <2>1. found \in Seq(ToSet(asked)) /\ \E at : PickedBy(at, asked, P)
    BY <1>4, <1>5, PicksAt
  <2>2. PICK at : PickedBy(at, asked, P)
    BY <2>1
  <2>3. \A k \in DOMAIN found : at[k] \in P /\ found[k] = asked[at[k]]
    BY <2>2 DEF PickedBy
  <2>4. \A k \in DOMAIN found : found[k] \in T
    BY <1>5, <2>3
  <2> HIDE DEF found
  <2> QED BY <2>1, <2>4
<1>8. shown \in Seq(T)
  BY <1>7, KeptIs
<1> HIDE DEF found, shown
<1>9. shown # <<>> => shown[1] \in T
  BY <1>8
<1>10. ASSUME NEW o \in IF shown = <<>> THEN {} ELSE Around(shown[1]) PROVE Lands(o)
  <2>1. Row(shown[1]) /\ Row(<<shown[1][1], 0>>)
    BY <1>6, <1>9, <1>10, ChunkRows DEF Row
  <2> QED BY <1>10, <2>1, OnIdLands DEF Around, Document, ChunkTools, DocTools
<1> QED BY <1>1, <1>10, OkAnswers

(* A page of a document is chunks.                                          *)
LEMMA PagedIn ==
  ASSUME NEW d \in DOMAIN Corpus, NEW lo \in Nat \ {0}, NEW hi \in Int, hi <= Len(ChunksOf(d)),
         NEW p, Paged(p, d, lo, hi)
  PROVE  p \in Seq(AllIds)
<1>1. /\ p \in Seq(Id2) /\ DOMAIN p = 1..Len(p) /\ Len(p) \in Nat
      /\ \A i \in 1..Len(p) : p[i] = <<d, lo + i - 1>> /\ lo + i - 1 \in 1..Len(ChunksOf(d))
  BY PagedIs
<1>2. ASSUME NEW j \in 1..Len(ChunksOf(d)) PROVE <<d, j>> \in AllIds
  <2>1. j \in DOMAIN ChunksOf(d) /\ ChunksOf(d)[j] = <<d, j>>
    BY ChunksAre
  <2>2. <<d, j>> \in ToSet(ChunksOf(d))
    BY <2>1 DEF ToSet
  <2> QED BY <2>2 DEF AllIds
<1>3. \A i \in 1..Len(p) : p[i] \in AllIds
  BY <1>1, <1>2
<1>4. p = [i \in 1..Len(p) |-> p[i]]
  BY <1>1
<1> HIDE DEF AllIds
<1> QED BY <1>1, <1>3, <1>4

(* A step from a chunk.                                                     *)
LEMMA NavAnswers ==
  ASSUME NEW c, Typed(c), c.tool \in NavTools, Accepted(Rewritten(c)), stored \subseteq DOMAIN Corpus, Nav(c)
  PROVE  Answers(c, reply') /\ (Lands(c) => Landed(c, reply'))
<1> DEFINE r == Rewritten(c)
           id == Id(r)
           n == Value(r, "count", NavCount)
           all == ChunksOf(id[1])
           onward == c.tool = "get_chunk_next"
           fetched == IF onward THEN FirstOf(n, SubSeq(all, id[2] + 1, Len(all)))
                                ELSE LastOf(n, SubSeq(all, 1, id[2] - 1))
           shown == Kept(fetched)
           next == IF shown = <<>> THEN {} ELSE {OnId(c.tool, IF onward THEN Last(shown) ELSE Head(shown))}
<1>1. CASE ~Exists(id)
  <2>1. reply' = NotFound
    BY <1>1 DEF Nav
  <2> QED BY <1>1, <2>1, NotFoundAnswers DEF ChunkTools
<1>2. CASE Exists(id)
  <2>1. reply' = Ok(shown, shown # fetched, next)
    BY <1>2 DEF Nav
  <2>2. id[1] \in DOMAIN Corpus /\ id[2] \in Nat /\ id[2] <= Len(all)
    BY <1>2, ExistsIs
  <2>3. n \in Nat \ {0}
    BY RewrittenTool, CountIs
  <2>4. fetched \in Seq(AllIds)
    <3>1. CASE onward
      <4>1. PICK hi \in Int : hi <= Len(all) /\ Paged(fetched, id[1], id[2] + 1, hi)
        BY <2>2, <2>3, <3>1, NextPageIs
      <4>2. id[2] + 1 \in Nat \ {0}
        BY <2>2
      <4> QED BY <2>2, <4>1, <4>2, PagedIn
    <3>2. CASE ~onward
      <4>1. PICK lo \in Nat \ {0} : Paged(fetched, id[1], lo, id[2] - 1)
        BY <2>2, <2>3, <3>2, PrevPageIs
      <4>2. id[2] - 1 \in Int /\ id[2] - 1 <= Len(all)
        BY <2>2, ChunksAre
      <4> QED BY <2>2, <4>1, <4>2, PagedIn
    <3> QED BY <3>1, <3>2
  <2> HIDE DEF fetched
  <2>5. shown \in Seq(AllIds)
    BY <2>4, KeptIs
  <2> HIDE DEF shown, all, id
  <2>6. ASSUME shown # <<>> PROVE Row(Last(shown)) /\ Row(Head(shown))
    <3>1. Last(shown) \in AllIds /\ Head(shown) \in AllIds
      BY <2>5, <2>6 DEF Last
    <3> QED BY <3>1, ChunkRows
  <2>7. \A o \in next : Lands(o)
    BY <2>6, OnIdLands DEF ChunkTools
  <2> QED BY <2>1, <2>7, OkAnswers
<1> QED BY <1>1, <1>2

(* What lies around a chunk, above it, or in a document.                    *)
LEMMA DocumentAnswers ==
  ASSUME NEW c, Typed(c), c.tool \in ChunkTools \cup DocTools, Accepted(Rewritten(c)), stored \subseteq DOMAIN Corpus,
         \/ Neighbors(c)
         \/ Parents(c)
         \/ GetDocument(c)
         \/ c.tool = "get_document_chunks" /\ Window(c)
  PROVE  Answers(c, reply') /\ (Lands(c) => Landed(c, reply'))
<1> DEFINE r == Rewritten(c)
           id == Id(r)
<1>0. r.tool = c.tool /\ Typed(r)
  BY RewrittenTool, RewrittenTyped
<1>1. CASE ~Exists(id)
  <2>1. reply' = NotFound
    BY <1>1 DEF Neighbors, Parents, GetDocument, Window
  <2> QED BY <1>1, <2>1, NotFoundAnswers
<1>2. CASE Exists(id)
  <2>1. id[1] \in DOMAIN Corpus
    BY <1>2, ExistsIs
  <2>2. Row(id)
    <3>1. id # NotAnId
      BY <1>0 DEF Accepted
    <3> QED BY <1>2, <2>1, <3>1 DEF Row, Exists
  <2>3. Lands(Document(id))
    BY <2>1, ChunkRows, OnIdLands DEF Document, DocTools
  <2>4. \A n \in Nat : Lands(WindowFrom(id, n))
    BY <2>2, WindowLands
  <2>5. \E x, y, z : reply' = Ok(x, y, z) /\ \A o \in z : Lands(o)
    <3>1. CASE Neighbors(c)
      <4>1. \E x, y : reply' = Ok(x, y, {Document(id)})
        BY <1>2, <3>1 DEF Neighbors
      <4>2. \A o \in {Document(id)} : Lands(o)
        BY <2>3
      <4> QED BY <4>1, <4>2
    <3>2. CASE Parents(c)
      <4>1. \E y : reply' = Ok(<<>>, y, {Document(id)})
        BY <1>2, <3>2 DEF Parents
      <4>2. \A o \in {Document(id)} : Lands(o)
        BY <2>3
      <4> QED BY <4>1, <4>2
    <3>3. CASE GetDocument(c)
      <4>1. \E y : reply' = Ok(<<>>, y, {WindowFrom(id, 0)})
        BY <1>2, <3>3 DEF GetDocument
      <4>2. \A o \in {WindowFrom(id, 0)} : Lands(o)
        BY <2>4
      <4> QED BY <4>1, <4>2
    <3>4. CASE c.tool = "get_document_chunks" /\ Window(c)
      <4> DEFINE from == Value(r, "from", 0)
                 n == Value(r, "limit", WindowLimit)
                 all == ChunksOf(id[1])
                 fetched == SubSeq(all, from + 1, Min({from + n, Len(all)}))
                 shown == Kept(fetched)
                 to == from + Len(shown)
                 next == IF to < Len(all) THEN {WindowFrom(id, to)} ELSE {}
      <4>1. reply' = Ok(shown, shown # fetched, next \cup {Document(id)})
        BY <1>2, <3>4 DEF Window, AfterShown
      <4>2. from \in Nat /\ n \in Nat \ {0}
        BY <1>0, <3>4, CountIs
      <4>3. to \in Nat
        <5>1. Paged(fetched, id[1], from + 1, Min({from + n, Len(all)}))
          BY DEF Paged
        <5> HIDE DEF fetched
        <5> QED BY <2>1, <4>2, <5>1, WindowLeaves
      <4> HIDE DEF to
      <4>4. \A o \in next \cup {Document(id)} : Lands(o)
        BY <2>3, <2>4, <4>3
      <4> HIDE DEF next, shown, fetched
      <4> QED BY <4>1, <4>4
    <3> QED BY <3>1, <3>2, <3>3, <3>4
  <2> QED BY <2>5, OkAnswers
<1> QED BY <1>1, <1>2

(* A nonempty finite set, listed, begins with one of its members.           *)
LEMMA ListedIs ==
  ASSUME NEW S, IsFiniteSet(S), S # {}
  PROVE  SetToSeq(S)[1] \in S
<1> DEFINE n == Cardinality(S)
           F == {f \in [1..n -> S] : IsInjective(f)}
<1>1. n \in Nat /\ n # 0 /\ ExistsBijection(1..n, S)
  BY FS_CardinalityType, FS_EmptySet
<1>2. PICK f \in Bijection(1..n, S) : TRUE
  BY <1>1 DEF ExistsBijection
<1>3. f \in [1..n -> S] /\ IsInjective(f)
  BY <1>2 DEF Bijection, Injection, Surjection, IsInjective
<1>4. SetToSeq(S) = CHOOSE g \in [1..n -> S] : IsInjective(g)
  BY DEF SetToSeq
<1>5. SetToSeq(S) \in [1..n -> S]
  BY <1>3, <1>4
<1>6. 1 \in 1..n
  BY <1>1
<1> HIDE DEF n
<1> QED BY <1>5, <1>6

(* The sources.                                                             *)
LEMMA SourcesAnswer ==
  ASSUME NEW c, Typed(c), c.tool = "list_sources", ListSources(c)
  PROVE  Answers(c, reply') /\ (Lands(c) => Landed(c, reply'))
<1> DEFINE slugs == UNION {Corpus[d].facts["source_slug"] : d \in DOMAIN Corpus}
           offers == NextPage(c, slugs, <<>>) \cup TrySearch("source_slug", Page(c, slugs))
<1>1. reply' = IF ~ListBounds(c) THEN BadRequest ELSE Ok(<<>>, FALSE, offers)
  BY DEF ListSources
<1> HIDE DEF slugs
<1>2. \A o \in offers : Lands(o)
  <2>1. \A o \in NextPage(c, slugs, <<>>) : Lands(o)
    BY PageLands
  <2>2. \A o \in TrySearch("source_slug", Page(c, slugs)) : Lands(o)
    BY TryLands DEF Drillable
  <2> QED BY <2>1, <2>2
<1> HIDE DEF offers
<1>3. CASE ListBounds(c)
  <2>1. \E y : reply' = Ok(<<>>, y, offers)
    BY <1>1, <1>3
  <2> QED BY <1>2, <2>1, OkAnswers
<1>4. CASE ~ListBounds(c)
  <2>1. reply'.verdict = "BAD_REQUEST" /\ reply'.offers = {}
    BY <1>1, <1>4, ReplyIs
  <2>2. ~Lands(c)
    BY <1>4 DEF Lands
  <2> QED BY <2>1, <2>2 DEF Answers, SearchTools
<1> QED BY <1>3, <1>4

(* The values of a facet.                                                   *)
LEMMA FacetsAnswer ==
  ASSUME NEW c, Typed(c), c.tool = "facets", Facets(c)
  PROVE  Answers(c, reply') /\ (Lands(c) => Landed(c, reply'))
<1> DEFINE within == "within" \in DOMAIN c.args
           facet  == c.args["facet"].items[1]
           values == IF within THEN Names2 ELSE Names1(facet)
           rest   == IF within THEN [within |-> c.args["within"]] ELSE <<>>
           first  == [facet |-> c.args["facet"]]
           again  == Merged(first, rest)
           fits   == "facet" \in DOMAIN c.args /\ ListBounds(c) /\ facet \in (IF within THEN Drills ELSE Drillable)
           top    == {DrillInto("tags")} \cup TrySearch("attribution", SetToSeq(ClosedValues["attribution"]))
           page   == NextPage(c, values, again) \cup TrySearch(facet, Page(c, values))
<1>1. /\ "facet" \notin DOMAIN c.args => \E y : reply' = Ok(<<>>, y, top)
      /\ fits => \E y : reply' = Ok(<<>>, y, page)
      /\ "facet" \in DOMAIN c.args /\ ~fits => reply' = BadRequest
  BY DEF Facets
<1>2. \A o \in top : Lands(o)
  <2>1. "attribution" \in ClosedFacets /\ "tags" \in Drillable
    BY DEF ClosedFacets, Drillable
  <2>2. SetToSeq(ClosedValues["attribution"])[1] \in ClosedValues["attribution"]
    BY <2>1, ClosedAssumption, ListedIs
  <2> DEFINE q == SetToSeq(ClosedValues["attribution"])
  <2> HIDE DEF q
  <2>3. q[1] \in ClosedValues["attribution"]
    BY <2>2 DEF q
  <2>4. \A o \in TrySearch("attribution", q) : Lands(o)
    BY <2>3, TryLands
  <2> QED BY <2>1, <2>4, PlainLands DEF q
<1>3. ASSUME fits PROVE \A o \in page : Lands(o)
  <2>1. facet \in Drillable
    BY <1>3 DEF Drills, Drillable
  <2>2. \A o \in TrySearch(facet, Page(c, values)) : Lands(o)
    BY <2>1, TryLands
  <2>3. DOMAIN rest = (IF within THEN {"within"} ELSE {}) /\ (within => rest["within"] = c.args["within"])
    <3>1. DOMAIN <<>> = {}
      OBVIOUS
    <3> QED BY <3>1
  <2>4. DOMAIN first = {"facet"} /\ first["facet"] = c.args["facet"]
    OBVIOUS
  <2> HIDE DEF rest, first
  <2>5. /\ DOMAIN again = {"facet"} \cup DOMAIN rest /\ again["facet"] = c.args["facet"]
        /\ (within => again["within"] = c.args["within"])
    BY <2>3, <2>4 DEF Merged
  <2> HIDE DEF again, values
  <2>6. /\ DOMAIN again \subseteq {"facet", "within"} /\ DOMAIN again \subseteq DOMAIN c.args
        /\ \A p \in DOMAIN again : again[p] = c.args[p]
        /\ "facet" \in DOMAIN again
        /\ again["facet"].items[1] \in IF "within" \in DOMAIN again THEN Drills ELSE Drillable
    BY <1>3, <2>3, <2>5
  <2>7. \A o \in NextPage(c, values, again) : Lands(o)
    BY <2>6, PageLands
  <2> QED BY <2>2, <2>7
<1> HIDE DEF top, page, fits
<1>4. CASE "facet" \notin DOMAIN c.args
  BY <1>1, <1>2, <1>4, OkAnswers
<1>5. CASE fits
  BY <1>1, <1>3, <1>5, OkAnswers
<1>6. CASE "facet" \in DOMAIN c.args /\ ~fits
  <2>1. reply'.verdict = "BAD_REQUEST" /\ reply'.offers = {}
    BY <1>1, <1>6, ReplyIs
  <2>2. ~Lands(c)
    BY <1>6 DEF Lands, ListsFacet, fits
  <2> QED BY <2>1, <2>2 DEF Answers, SearchTools
<1> QED BY <1>4, <1>5, <1>6

-----------------------------------------------------------------------------
(* The invariant.                                                           *)

AgentInv ==
  /\ stored \subseteq DOMAIN Corpus
  /\ Typed(call)
  /\ Answers(call, reply)
  /\ WalkHolds(level, walk)

(* A call that can be made is typed, and lands if it was offered.           *)
LEMMA CallableIs ==
  ASSUME AgentInv, NEW c \in Callable
  PROVE  Typed(c) /\ (c \in reply.offers => Lands(c))
<1>1. \A o \in reply.offers : Lands(o) /\ Typed(o)
  BY DEF AgentInv, Answers, Lands
<1>2. \A d \in FirstCalls : Typed(d)
  BY CallAssumption
<1> QED BY <1>1, <1>2 DEF Callable, AgentInv

(* How an answer leaves the invariant.                                      *)
LEMMA AnsweredHolds ==
  ASSUME AgentInv, Answered
  PROVE  /\ AgentInv'
         /\ call' \in reply.offers => Landed(call', reply')
<1>1. /\ stored \subseteq DOMAIN Corpus /\ WalkHolds(level, walk)
      /\ stored' = stored /\ level' = level
  BY DEF AgentInv, Answered
<1>2. ASSUME NEW c \in Callable, call' = c, Answers(c, reply') /\ (Lands(c) => Landed(c, reply')),
             WalkHolds(level, walk')
      PROVE  /\ AgentInv'
             /\ call' \in reply.offers => Landed(call', reply')
  <2>1. Typed(c) /\ (c \in reply.offers => Lands(c))
    BY <1>2, CallableIs
  <2>2. /\ stored' \subseteq DOMAIN Corpus /\ Typed(call') /\ Answers(call', reply')
        /\ WalkHolds(level', walk')
    BY <1>1, <1>2, <2>1
  <2>3. AgentInv'
    BY <2>2 DEF AgentInv, Typed, Answers, WalkHolds, Lands, Sample, ListsFacet, Goes, GoesOn, GoesBack, GoesBy,
                PageSeen, PassesAt, Row
  <2> QED BY <1>2, <2>1, <2>3
<1> DEFINE Done == AgentInv' /\ (call' \in reply.offers => Landed(call', reply'))
<1> HIDE DEF Done
<1>3. \A tools, c : c \in Dispatched(tools) => c \in Callable /\ c.tool \in tools /\ Accepted(Rewritten(c)) /\ Typed(c)
  BY CallableIs DEF Dispatched
<1>4. ASSUME NEW c \in Dispatched(SearchTools), call' = c, Search(c) PROVE Done
  <2>1. walk' = walk
    BY <1>4 DEF Search
  <2> QED BY <1>1, <1>2, <1>3, <1>4, <2>1, SearchAnswers DEF Done
<1>5. ASSUME NEW c \in Dispatched({"get_chunks"}), call' = c, GetChunks(c) PROVE Done
  <2>1. walk' = walk
    BY <1>5 DEF GetChunks
  <2> QED BY <1>1, <1>2, <1>3, <1>5, <2>1, GetChunksAnswers DEF Done
<1>6. ASSUME NEW c \in Dispatched(NavTools), call' = c, Nav(c) PROVE Done
  <2>1. WalkHolds(level, walk')
    BY <1>1, <1>3, <1>6, NextWalks, PrevWalks DEF NavTools
  <2> QED BY <1>1, <1>2, <1>3, <1>6, <2>1, NavAnswers DEF Done
<1>7. ASSUME NEW c \in Dispatched({"get_chunk_neighbors"}), call' = c, Neighbors(c) PROVE Done
  <2>1. walk' = walk
    BY <1>7 DEF Neighbors
  <2> QED BY <1>1, <1>2, <1>3, <1>7, <2>1, DocumentAnswers DEF Done, ChunkTools
<1>8. ASSUME NEW c \in Dispatched({"get_chunk_parents"}), call' = c, Parents(c) PROVE Done
  <2>1. walk' = walk
    BY <1>8 DEF Parents
  <2> QED BY <1>1, <1>2, <1>3, <1>8, <2>1, DocumentAnswers DEF Done, ChunkTools
<1>9. ASSUME NEW c \in Dispatched({"get_document"}), call' = c, GetDocument(c) PROVE Done
  <2>1. walk' = walk
    BY <1>9 DEF GetDocument
  <2> QED BY <1>1, <1>2, <1>3, <1>9, <2>1, DocumentAnswers DEF Done, DocTools
<1>10. ASSUME NEW c \in Dispatched({"get_document_chunks"}), call' = c, Window(c) PROVE Done
  <2>1. WalkHolds(level, walk')
    BY <1>1, <1>3, <1>10, WindowWalks, RewrittenTyped
  <2> QED BY <1>1, <1>2, <1>3, <1>10, <2>1, DocumentAnswers DEF Done, DocTools
<1>11. ASSUME NEW c \in Dispatched({"list_sources"}), call' = c, ListSources(c) PROVE Done
  <2>1. walk' = walk
    BY <1>11 DEF ListSources
  <2> QED BY <1>1, <1>2, <1>3, <1>11, <2>1, SourcesAnswer DEF Done
<1>12. ASSUME NEW c \in Dispatched({"facets"}), call' = c, Facets(c) PROVE Done
  <2>1. walk' = walk
    BY <1>12 DEF Facets
  <2> QED BY <1>1, <1>2, <1>3, <1>12, <2>1, FacetsAnswer DEF Done
<1>13. ASSUME NEW c \in Dispatched({"status"}), call' = c, Status(c) PROVE Done
  <2>1. walk' = walk /\ \E y : reply' = Ok(<<>>, y, {})
    BY <1>13 DEF Status
  <2>2. Answers(c, reply') /\ Landed(c, reply')
    BY <2>1, OkAnswers
  <2> QED BY <1>1, <1>2, <1>3, <1>13, <2>1, <2>2 DEF Done
<1>14. ASSUME NEW c \in Dispatched({"install_skill"}), call' = c, InstallSkill(c) PROVE Done
  <2>1. walk' = walk
    BY <1>14 DEF InstallSkill
  <2>2. Answers(c, reply') /\ Landed(c, reply')
    <3>1. CASE \E y : reply' = Ok(<<>>, y, {})
      BY <3>1, OkAnswers
    <3>2. CASE reply' = Failed("INSTALL_FAILED", {})
      <4>1. reply'.verdict = "INSTALL_FAILED" /\ reply'.offers = {}
        BY <3>2, ReplyIs
      <4> QED BY <4>1 DEF Answers, Landed
    <3> QED BY <1>14, <3>1, <3>2 DEF InstallSkill
  <2> QED BY <1>1, <1>2, <1>3, <1>14, <2>1, <2>2 DEF Done
<1>15. Done
  BY <1>4, <1>5, <1>6, <1>7, <1>8, <1>9, <1>10, <1>11, <1>12, <1>13, <1>14 DEF Answered
<1> QED BY <1>15 DEF Done


(* How a refusal does.                                                      *)
LEMMA RefusedHolds ==
  ASSUME AgentInv, Refused
  PROVE  /\ AgentInv'
         /\ call' \in reply.offers => Landed(call', reply')
<1>1. PICK c \in Callable : ~Accepted(Rewritten(c)) /\ call' = c /\ reply' = Failed("INVALID_INPUT", {})
  BY DEF Refused
<1>2. Typed(c) /\ (c \in reply.offers => Lands(c))
  BY CallableIs
<1>3. reply'.verdict = "INVALID_INPUT" /\ reply'.offers = {}
  BY <1>1, ReplyIs
<1>4. stored' = stored /\ level' = level /\ walk' = walk
  BY DEF Refused
<1>5. Answers(c, reply') /\ (Lands(c) => Landed(c, reply'))
  BY <1>1, <1>3 DEF Answers, Landed, Lands
<1>6. /\ stored' \subseteq DOMAIN Corpus /\ Typed(call') /\ Answers(call', reply')
      /\ WalkHolds(level', walk')
  BY <1>1, <1>2, <1>4, <1>5 DEF AgentInv
<1>7. AgentInv'
  BY <1>6 DEF AgentInv, Typed, Answers, WalkHolds, Lands, Sample, ListsFacet, Goes, GoesOn, GoesBack, GoesBy,
              PageSeen, PassesAt, Row
<1> QED BY <1>1, <1>2, <1>5, <1>7

(* How a failure of the cloud does.                                         *)
LEMMA FailsHolds ==
  ASSUME AgentInv, Fails
  PROVE  /\ AgentInv'
         /\ call' \in reply.offers => Landed(call', reply')
<1>1. PICK c \in Callable : call' = c /\ reply' \in Failures(c.tool)
  BY DEF Fails, Dispatched
<1>2. Typed(c)
  BY CallableIs
<1>3. stored' = stored /\ level' = level /\ walk' = walk
  BY DEF Fails
<1>4. Lands(StatusCall)
  BY PlainLands DEF StatusCall
<1>5. /\ reply'.verdict \notin {"INVALID_INPUT", "BAD_REQUEST", "NOT_FOUND"}
      /\ reply'.offers \subseteq {StatusCall}
  <2>1. \E v \in {"RATE_LIMITED", "AUTH_FAILED", "CLOUD_ERROR", "INSTALL_FAILED", "EMBEDDING_MODEL_MISMATCH"},
           z \in {{}, {StatusCall}} : reply' = Failed(v, z)
    BY <1>1 DEF Failures, OfTheCloud
  <2> QED BY <2>1, ReplyIs
<1>6. Answers(c, reply') /\ Landed(c, reply')
  BY <1>4, <1>5 DEF Answers, Landed
<1>7. /\ stored' \subseteq DOMAIN Corpus /\ Typed(call') /\ Answers(call', reply')
      /\ WalkHolds(level', walk')
  BY <1>1, <1>2, <1>3, <1>6 DEF AgentInv
<1>8. AgentInv'
  BY <1>7 DEF AgentInv, Typed, Answers, WalkHolds, Lands, Sample, ListsFacet, Goes, GoesOn, GoesBack, GoesBy,
              PageSeen, PassesAt, Row
<1> QED BY <1>1, <1>6, <1>8

(* A sweep leaves the answer as it is, and no call is made.                 *)
LEMMA SweepHolds ==
  ASSUME AgentInv, Sweep \/ UNCHANGED vars
  PROVE  /\ AgentInv'
         /\ call' \in reply.offers => Landed(call', reply')
<1>1. stored' \subseteq stored /\ level' = level /\ call' = call /\ reply' = reply /\ walk' = walk
  BY DEF Sweep, vars
<1>2. /\ stored' \subseteq DOMAIN Corpus /\ Typed(call') /\ Answers(call', reply')
      /\ WalkHolds(level', walk')
  BY <1>1 DEF AgentInv
<1>3. AgentInv'
  BY <1>2 DEF AgentInv, Typed, Answers, WalkHolds, Lands, Sample, ListsFacet, Goes, GoesOn, GoesBack, GoesBy,
              PageSeen, PassesAt, Row
<1>4. call \in reply.offers => Landed(call, reply)
  <2>1. \A tool \in ChunkTools \cup DocTools : tool # "search"
    BY DEF ChunkTools, NavTools, DocTools
  <2> QED BY <2>1 DEF AgentInv, Answers, Landed
<1> QED BY <1>1, <1>3, <1>4

(* Before the first call.                                                   *)
LEMMA InitHolds ==
  ASSUME Init
  PROVE  AgentInv
<1>1. Typed(call)
  BY DEF Init, NoCall, Call, Typed
<1>2. Answers(call, reply)
  BY OkAnswers DEF Init
<1>3. WalkHolds(level, walk)
  BY DEF Init, WalkHolds
<1> QED BY <1>1, <1>2, <1>3 DEF AgentInv, Init

(* Every step.                                                              *)
LEMMA StepHolds ==
  ASSUME AgentInv, [Next]_vars
  PROVE  /\ AgentInv'
         /\ call' \in reply.offers => Landed(call', reply')
BY AnsweredHolds, RefusedHolds, FailsHolds, SweepHolds DEF Next

(* What holds in every state: what the answer to the last call offers lands *)
(* unless it was swept, and the walk has seen what lies behind it.          *)
THEOREM AgentInvariant == Spec => []AgentInv
<1>1. Init => AgentInv
  BY InitHolds
<1>2. AgentInv /\ [Next]_vars => AgentInv'
  BY StepHolds
<1> QED BY <1>1, <1>2, PTL DEF Spec

(* A call that an answer offered is refused for a sample of a facet of      *)
(* objects or a blank query alone, and names a row that is there or was     *)
(* swept; and the server refuses a search for a blank query or its cap.     *)
THEOREM CallsLandHolds == Spec => CallsLand
<1> DEFINE r == Rewritten(call')
           sample == \E f \in DOMAIN FiltersOf(r) \cap ObjectFacets :
                       \E x \in FiltersOf(r)[f].any : x.shape = "string"
           search == call'.tool \in SearchTools
           Fine == /\ call' \in reply.offers =>
                       /\ reply'.verdict \in {"INVALID_INPUT", "BAD_REQUEST"} => search /\ (sample \/ Blank(r))
                       /\ reply'.verdict = "NOT_FOUND" => Id(r)[1] \in DOMAIN Corpus \ stored
                   /\ reply'.verdict = "BAD_REQUEST" /\ search => Blank(r) \/ Len(Queries(r)) > ServerCap
<1>1. ASSUME AgentInv, [Next]_vars
      PROVE  Fine
  <2>1. AgentInv' /\ (call' \in reply.offers => Landed(call', reply'))
    BY <1>1, StepHolds
  <2>2. Answers(call', reply')
    <3>1. Answers(call, reply)'
      BY <2>1 DEF AgentInv
    <3> QED BY <3>1 DEF Answers, Lands, Typed, Sample, ListsFacet, Row
  <2>3. reply'.verdict = "BAD_REQUEST" /\ search => Blank(r) \/ Len(Queries(r)) > ServerCap
    BY <2>2 DEF Answers
  <2>4. ASSUME call' \in reply.offers
        PROVE  /\ reply'.verdict \in {"INVALID_INPUT", "BAD_REQUEST"} => search /\ (sample \/ Blank(r))
               /\ reply'.verdict = "NOT_FOUND" => Id(r)[1] \in DOMAIN Corpus \ stored
    <3>1. r = call'
      BY <1>1, <2>4 DEF AgentInv, Answers, Lands
    <3>2. Landed(call', reply')
      BY <2>1, <2>4
    <3> QED BY <3>1, <3>2 DEF Landed, Sample
  <2> QED BY <2>3, <2>4
<1>2. AgentInv /\ [Next]_vars => [Fine]_vars
  BY <1>1
<1>3. Spec => [][Fine]_vars
  BY <1>2, AgentInvariant, PTL DEF Spec
<1> QED BY <1>3 DEF CallsLand


(* What lies ahead of a walk is seen when its last step stands at the end.  *)
LEMMA EndIsSeen ==
  ASSUME NEW d \in DOMAIN Corpus, NEW lo \in Nat \ {0}, NEW hi \in Int, hi <= Len(ChunksOf(d)),
         NEW end \in Int, \/ end = hi
                          \/ /\ \A k \in DOMAIN ChunksOf(d) : ~(lo <= k /\ k <= hi)
                             /\ ~(lo <= end) /\ ~(lo <= hi),
         NEW w, PageSeen(level, d, lo, end, w.shown, w.lost)
  PROVE  LET ahead == SubSeq(ChunksOf(d), lo, hi) IN
         /\ ToSet(Kept(ahead)) \subseteq ToSet(w.shown)
         /\ ~w.lost => w.shown = ahead
<1> DEFINE all == ChunksOf(d)
           ahead == SubSeq(all, lo, hi)
<1>1. all \in Seq(Id2) /\ DOMAIN all = 1..Len(all) /\ Len(all) \in Nat
  BY ChunksAre
<1>2. Part(ahead, all, lo, hi)
  BY <1>1, PartIs
<1>3. ahead \in Seq(Id2) /\ DOMAIN ahead = 1..Len(ahead)
  BY <1>2 DEF Part
<1>4. ASSUME NEW x \in ToSet(Kept(ahead)) PROVE x \in ToSet(w.shown)
  <2>1. PICK k \in DOMAIN Kept(ahead) : x = Kept(ahead)[k]
    BY <1>4 DEF ToSet
  <2>2. PICK i \in 1..Len(ahead) : x = ahead[i] /\ Passes(ahead[i])
    BY <1>3, <2>1, KeptIs
  <2>3. /\ ahead[i] = all[lo + i - 1] /\ lo <= lo + i - 1 /\ lo + i - 1 <= hi
        /\ lo + i - 1 \in DOMAIN all
    BY <1>1, <1>2, <2>2 DEF Part
  <2>4. end = hi
    BY <2>3
  <2>5. PassesAt(level, all[lo + i - 1])
    BY <2>2, <2>3 DEF Passes, PassesAt
  <2> QED BY <2>2, <2>3, <2>4, <2>5 DEF PageSeen
<1>5. ASSUME ~w.lost PROVE w.shown = ahead
  <2>1. w.shown = SubSeq(all, lo, end)
    BY <1>5 DEF PageSeen
  <2>2. CASE end = hi
    BY <2>1, <2>2
  <2>3. CASE end # hi
    <3>1. Len(ahead) = 0 /\ ~(lo <= end)
      BY <1>2, <2>3 DEF Part
    <3>2. SubSeq(all, lo, end) \in Seq(Id2) /\ Len(SubSeq(all, lo, end)) = 0
      BY <3>1, SubSeqProperties
    <3> QED BY <1>3, <2>1, <3>1, <3>2
  <2> QED BY <2>2, <2>3
<1> QED BY <1>4, <1>5

(* A walk that was followed to its end has shown all that lies ahead of its *)
(* start and that the guard lets through; and a window begins after the one *)
(* before it.                                                               *)
LEMMA WalkCovers ==
  ASSUME WalkHolds(level, walk)
  PROVE  WindowsCover
<1> SUFFICES ASSUME walk.tool # "none" PROVE WindowsCover
  BY DEF WindowsCover
<1> DEFINE d == walk.start[1]
           s == walk.start[2]
           all == ChunksOf(d)
<1>1. d \in DOMAIN Corpus /\ s \in Nat
  BY DEF WalkHolds, Id2
<1>2. PICK to \in Nat : Goes(level, walk, d, s, to)
  BY DEF WalkHolds
<1>3. DOMAIN all = 1..Len(all) /\ Len(all) \in Nat
  BY <1>1, ChunksAre
<1> HIDE DEF d, s, all
<1> DEFINE Covered == /\ ToSet(Kept(Ahead(walk))) \subseteq ToSet(walk.shown)
                      /\ ~walk.lost => walk.shown = Ahead(walk)
           Onward == \A c \in walk.next : Value(c, "from", 0) > walk.at
<1>4. CASE GoesOn(level, walk, d, s, to)
  <2>1. walk.tool = "get_chunk_next"
    BY <1>4 DEF GoesOn
  <2>2. ASSUME walk.next = {}, ~walk.removed PROVE Covered
    <3>1. to = Len(all) /\ PageSeen(level, d, s + 1, to, walk.shown, walk.lost)
      BY <1>4, <2>2 DEF GoesOn, all
    <3>2. Ahead(walk) = SubSeq(all, s + 1, Len(all))
      BY <2>1 DEF Ahead, all, d, s
    <3>3. s + 1 \in Nat \ {0} /\ Len(all) <= Len(all)
      BY <1>1, <1>3
    <3> QED BY <1>1, <1>3, <3>1, <3>2, <3>3, EndIsSeen DEF all
  <2> HIDE DEF Covered
  <2>3. walk.tool \in NavTools
    BY <2>1 DEF NavTools
  <2> QED BY <2>1, <2>2, <2>3 DEF WindowsCover, Covered
<1>5. CASE GoesBack(level, walk, d, s, to)
  <2>1. walk.tool = "get_chunk_prev" /\ s <= Len(all)
    BY <1>5 DEF GoesBack, all
  <2>2. ASSUME walk.next = {}, ~walk.removed PROVE Covered
    <3>1. to = 1 /\ PageSeen(level, d, to, s - 1, walk.shown, walk.lost)
      BY <1>5, <2>2 DEF GoesBack
    <3>2. Ahead(walk) = SubSeq(all, 1, s - 1)
      BY <2>1 DEF Ahead, all, d, s
    <3>3. s - 1 \in Int /\ s - 1 <= Len(all) /\ 1 \in Nat \ {0}
      BY <1>1, <1>3, <2>1
    <3> QED BY <1>1, <3>1, <3>2, <3>3, EndIsSeen DEF all
  <2> HIDE DEF Covered
  <2>3. walk.tool \in NavTools
    BY <2>1 DEF NavTools
  <2> QED BY <2>1, <2>2, <2>3 DEF WindowsCover, Covered
<1>6. CASE GoesBy(level, walk, d, s, to)
  <2>1. walk.tool = "get_document_chunks"
    BY <1>6 DEF GoesBy
  <2>2. ASSUME walk.next = {} PROVE Covered
    <3>1. Len(all) <= to /\ (to <= Len(all) \/ to = s) /\ s <= to
      BY <1>6, <2>2 DEF GoesBy, all
    <3>6. PageSeen(level, d, s + 1, to, walk.shown, walk.lost)
      BY <1>6 DEF GoesBy
    <3>2. Ahead(walk) = SubSeq(all, s + 1, Len(all))
      BY <2>1 DEF Ahead, all, d, s
    <3>3. s + 1 \in Nat \ {0} /\ Len(all) <= Len(all)
      BY <1>1, <1>3
    <3>4. CASE to = Len(all)
      BY <1>1, <1>3, <3>6, <3>2, <3>3, <3>4, EndIsSeen DEF all
    <3>5. CASE to # Len(all)
      <4> DEFINE len == Len(all)
      <4>0. len \in Nat /\ len <= to /\ to # len /\ (to <= len \/ to = s)
        BY <1>3, <3>1, <3>5
      <4>1. Len(all) < s + 1 /\ to < s + 1 /\ to \in Int
        <5> HIDE DEF len
        <5>1. to = s
          BY <4>0
        <5>2. len < s + 1 /\ s < s + 1
          BY <1>1, <4>0, <5>1
        <5> QED BY <5>1, <5>2 DEF len
      <4>2. \A k \in DOMAIN all : ~(s + 1 <= k /\ k <= Len(all))
        BY <1>1, <1>3, <4>1
      <4>3. ~(s + 1 <= to) /\ ~(s + 1 <= Len(all))
        BY <1>1, <1>3, <4>1
      <4> HIDE DEF Covered
      <4>4. Covered
        BY <1>1, <1>3, <3>6, <3>2, <3>3, <4>1, <4>2, <4>3, EndIsSeen DEF all, Covered
      <4> QED BY <4>4
    <3> QED BY <3>4, <3>5
  <2>3. ASSUME ~walk.removed PROVE Onward
    <3>1. ASSUME NEW c \in walk.next PROVE Value(c, "from", 0) > walk.at
      <4>1. walk.at < to /\ walk.at \in Nat /\ \E x : walk.next = {WindowFrom(x, to)}
        BY <1>6, <2>3, <3>1 DEF GoesBy, WalkHolds
      <4>2. Value(c, "from", 0) = to
        BY <3>1, <4>1, WindowFromIs
      <4> QED BY <4>1, <4>2
    <3> QED BY <3>1
  <2> HIDE DEF Covered, Onward
  <2> QED BY <2>1, <2>2, <2>3 DEF WindowsCover, Covered, Onward
<1> QED BY <1>2, <1>4, <1>5, <1>6 DEF Goes

(* A walk that follows the offers to the end misses no chunk that the guard *)
(* lets through, whatever the corpus, the page and the level.               *)
THEOREM WindowsCoverHolds == Spec => []WindowsCover
<1>1. AgentInv => WindowsCover
  BY WalkCovers DEF AgentInv
<1> QED BY <1>1, AgentInvariant, PTL


-----------------------------------------------------------------------------
(* The ladder: what the searches that are offered for nothing relax.        *)

DatedFacets == ToSet(Dated)
DatedOf(filters) == DatedFacets \cap DOMAIN filters

(* The foot of the ladder.                                                  *)
Foot(filters) == Stripped(Without(filters, DatedFacets))

(* Which facet the ladder drops first.                                      *)
LEMMA DatedIs ==
  ASSUME NEW filters
  PROVE  LET dated == Only(Dated, DOMAIN filters) IN
         /\ dated = <<>> <=> DatedOf(filters) = {}
         /\ dated # <<>> => dated[1] \in DatedOf(filters)
         /\ DatedFacets = {"source_modified_at", "ingested_at", "verified"}
<1> DEFINE T == {"source_modified_at", "ingested_at", "verified"}
           S == DOMAIN filters
           dated == Only(Dated, S)
<1>1. Dated \in Seq(T) /\ DOMAIN Dated = 1..3
  BY DEF Dated
<1>2. DatedFacets = T
  <2>1. Dated[1] = "source_modified_at" /\ Dated[2] = "ingested_at" /\ Dated[3] = "verified"
    BY DEF Dated
  <2> QED BY <1>1, <2>1 DEF DatedFacets, ToSet
<1> HIDE DEF T, S
<1>3. /\ dated \in Seq(T)
      /\ \A k \in DOMAIN dated : dated[k] \in S /\ dated[k] \in DatedFacets
      /\ (\E k \in DOMAIN Dated : Dated[k] \in S) => dated # <<>>
  BY <1>1, OnlyIs DEF DatedFacets
<1>4. dated = <<>> => DatedOf(filters) = {}
  BY <1>3 DEF DatedOf, DatedFacets, ToSet, S
<1>5. dated # <<>> => dated[1] \in DatedOf(filters)
  <2> HIDE DEF dated
  <2>1. dated # <<>> => 1 \in DOMAIN dated
    BY <1>3
  <2> QED BY <1>3, <2>1 DEF DatedOf, S
<1> QED BY <1>2, <1>4, <1>5 DEF T, S

(* A facet that is dated is dropped on the way to the foot.                 *)
LEMMA FootStays ==
  ASSUME NEW filters, Shaped(filters), NEW x \in DatedFacets
  PROVE  LET w == Without(filters, {x}) IN
         /\ Foot(w) = Foot(filters)
         /\ DatedOf(w) = DatedOf(filters) \ {x}
<1> DEFINE w == Without(filters, {x})
<1>1. DOMAIN w = DOMAIN filters \ {x} /\ \A f \in DOMAIN w : w[f] = filters[f]
  BY DEF Without
<1> HIDE DEF w
<1>2. Without(w, DatedFacets) = Without(filters, DatedFacets)
  <2>1. DOMAIN w \ DatedFacets = DOMAIN filters \ DatedFacets
    BY <1>1
  <2>2. \A f \in DOMAIN w \ DatedFacets : w[f] = filters[f]
    BY <1>1
  <2> QED BY <2>1, <2>2 DEF Without
<1> QED BY <1>1, <1>2 DEF Foot, DatedOf, w

(* Without versions there is nothing to strip.                              *)
LEMMA StrippedStays ==
  ASSUME NEW filters, Shaped(filters), ~HasVersion(filters)
  PROVE  Stripped(filters) = filters
<1> DEFINE w == Stripped(filters)
<1>1. DOMAIN w = DOMAIN filters /\ w = [f \in DOMAIN w |-> w[f]]
  BY DEF Stripped
<1>2. ASSUME NEW f \in DOMAIN filters PROVE w[f] = filters[f]
  <2>1. CASE f \notin VersionFacets
    BY <2>1 DEF Stripped
  <2>2. CASE f \in VersionFacets
    <3>0. f \in SetFacets
      BY <2>2 DEF SetFacets, ObjectFacets
    <3>1. /\ filters[f] = [any |-> filters[f].any, none |-> filters[f].none]
          /\ \A x \in filters[f].any : x = Element(x.shape, x.name, x.version)
      BY <3>0 DEF Shaped
    <3>2. \A x \in filters[f].any : x.version = {}
      BY <2>2 DEF HasVersion
    <3>3. \A x \in filters[f].any : [x EXCEPT !.version = {}] = x
      <4>1. \A x \in filters[f].any : [x EXCEPT !.version = {}] = Element(x.shape, x.name, {})
        BY <3>1, BareIs
      <4> QED BY <3>1, <3>2, <4>1
    <3>4. Bare(filters[f].any) = filters[f].any
      BY <3>3 DEF Bare
    <3>5. w[f] = [filters[f] EXCEPT !.any = Bare(filters[f].any)]
      BY <2>2 DEF Stripped, Bare
    <3> QED BY <3>1, <3>4, <3>5
  <2> QED BY <2>1, <2>2
<1> HIDE DEF w
<1>3. filters = [f \in DOMAIN filters |-> filters[f]]
  BY DEF Shaped
<1>4. w = filters
  BY <1>1, <1>2, <1>3
<1> QED BY <1>4 DEF w

(* Stripped filters ask for no version.                                     *)
LEMMA StrippedBare ==
  ASSUME NEW filters, Shaped(filters)
  PROVE  ~HasVersion(Stripped(filters))
<1> DEFINE w == Stripped(filters)
<1>1. ASSUME NEW f \in DOMAIN w \cap VersionFacets, NEW x \in w[f].any
      PROVE  x.version = {}
  <2>1. f \in DOMAIN filters /\ w[f].any = Bare(filters[f].any)
    BY StrippedIs
  <2>2. f \in SetFacets
    BY DEF SetFacets, ObjectFacets
  <2>3. \A y \in filters[f].any : y = Element(y.shape, y.name, y.version)
    BY <2>1, <2>2 DEF Shaped
  <2> QED BY <2>1, <2>3, BareIs
<1> QED BY <1>1 DEF HasVersion

(* The foot of what has no dated facet.                                     *)
LEMMA FootIs ==
  ASSUME NEW filters, Shaped(filters), DatedOf(filters) = {}
  PROVE  /\ Foot(filters) = Stripped(filters)
         /\ Foot(Stripped(filters)) = Stripped(filters)
         /\ DatedOf(Stripped(filters)) = {}
         /\ ~HasVersion(filters) => Foot(filters) = filters
<1>1. \A F : Shaped(F) /\ DatedOf(F) = {} => Without(F, DatedFacets) = F
  <2>1. ASSUME NEW F, Shaped(F), DatedOf(F) = {} PROVE Without(F, DatedFacets) = F
    <3>1. DOMAIN F \ DatedFacets = DOMAIN F
      BY <2>1 DEF DatedOf
    <3>2. F = [f \in DOMAIN F |-> F[f]]
      BY <2>1 DEF Shaped
    <3> QED BY <3>1, <3>2 DEF Without
  <2> QED BY <2>1
<1>2. Shaped(Stripped(filters)) /\ DOMAIN Stripped(filters) = DOMAIN filters
  BY StrippedIs
<1>3. DatedOf(Stripped(filters)) = {}
  BY <1>2 DEF DatedOf
<1>4. Stripped(Stripped(filters)) = Stripped(filters)
  BY <1>2, StrippedBare, StrippedStays
<1> QED BY <1>1, <1>2, <1>3, <1>4, StrippedStays DEF Foot


(* What a search finds, the same search by default settings finds.          *)
LEMMA OfferFinds ==
  ASSUME stored \subseteq DOMAIN Corpus,
         NEW s, ValidFilters(s.filters), s.match \in {"strict", "permissive"}
  PROVE  Found(s) \subseteq Found(Offer(s.texts, s.filters))
<1> DEFINE o == Offer(s.texts, s.filters)
<1>1. /\ o.texts = s.texts /\ o.filters = s.filters /\ o.mode = "hybrid" /\ o.code = "none"
      /\ o.match = "permissive" /\ o.floor = 0
  BY DEF Offer
<1> HIDE DEF o
<1> SUFFICES ASSUME NEW id \in Found(s) PROVE id \in Found(o)
  BY DEF o
<1>2. /\ id \in StoredChunks /\ Selected(s.filters, s.match, Facts(id))
      /\ Fits(s.filters, s.match, Facts(id))
  BY DEF Found, Candidates
<1>3. InLists(o, id)
  BY <1>1 DEF InLists
<1>4. Selected(o.filters, o.match, Facts(id))
  <2> DEFINE facts == Facts(id)
             F == s.filters
  <2>1. \A f \in DOMAIN F : f \in Flags \cup Ranges \cup SetFacets
    BY DEF ValidFilters, AllFacets
  <2>2. /\ Flags \cap (Ranges \cup SetFacets) = {} /\ Ranges \cap SetFacets = {}
        /\ VersionFacets \subseteq SetFacets
    BY DEF Flags, Ranges, SetFacets, TextFacets, ObjectFacets, VersionFacets, ClosedFacets
  <2>3. Selected(F, s.match, facts)
    BY <1>2
  <2> HIDE DEF F, facts
  <2>4. ASSUME NEW f \in DOMAIN F
        PROVE  /\ f \in Flags => F[f] = facts[f]
               /\ f \in Ranges => InRangeOf(F[f], facts[f])
               /\ f \in SetFacets \ VersionFacets => InSet(F[f], facts[f])
    BY <2>2, <2>3, <2>4 DEF Selected
  <2>5. Selected(F, "permissive", facts)
    BY <2>1, <2>2, <2>4 DEF Selected
  <2> QED BY <1>1, <2>5 DEF F, facts
<1>5. Fits(o.filters, o.match, Facts(id))
  <2>1. \A outcomes : Keeps(s.match, outcomes) => Keeps("permissive", outcomes)
    <3>1. Breaking # Satisfies
      BY DEF Breaking, Satisfies
    <3> QED BY <3>1 DEF Keeps
  <2> QED BY <1>1, <1>2, <2>1 DEF Fits
<1>6. Chunk(id).sure >= 0
  <2>1. PICK d \in stored : id \in ToSet(ChunksOf(d))
    BY <1>2 DEF StoredChunks
  <2>2. d \in DOMAIN Corpus
    BY <2>1
  <2>3. PICK i \in DOMAIN Corpus[d].chunks : id = <<d, i>>
    BY <2>1, <2>2 DEF ToSet, ChunksOf
  <2>4. Corpus[d].chunks[i].sure \in Nat
    BY <2>2, CorpusAssumption
  <2> QED BY <2>3, <2>4 DEF Chunk
<1> QED BY <1>1, <1>2, <1>3, <1>4, <1>5, <1>6 DEF Found, Candidates

(* A search that is offered is one the agent arrives at.                    *)
LEMMA OfferedIs ==
  ASSUME NEW texts, NEW filters, Shaped(filters), NEW more \in Extras,
         NEW calls, Advanced(texts, filters, more) \in calls
  PROVE  Offer(texts, filters) \in Searches(calls)
<1> DEFINE c == Advanced(texts, filters, more)
<1>1. c.tool = "advanced_search" /\ SearchOf(c) = Offer(texts, filters) /\ Rewritten(c) = c
  BY AdvancedIs
<1> HIDE DEF c
<1>2. c \in {d \in calls : d.tool \in SearchTools}
  BY <1>1 DEF SearchTools, c
<1> QED BY <1>1, <1>2 DEF Searches

(* On the way to the foot.                                                  *)
OnTheWay(G, H) == Shaped(H) /\ ValidFilters(H) /\ Foot(H) = Foot(G)

(* The first step down.                                                     *)
LEMMA FirstRung ==
  ASSUME stored \subseteq DOMAIN Corpus,
         NEW texts, NEW mode, NEW code, NEW floor, NEW match \in {"strict", "permissive"}, NEW limit, NEW F,
         Shaped(F), ValidFilters(F),
         NEW s, s = [texts |-> texts, mode |-> mode, code |-> code, floor |-> floor, match |-> match,
                     limit |-> limit, filters |-> F],
         Found(s) = {}, Found(Loosest(s)) # {}
  PROVE  /\ Found(Offer(texts, Foot(F))) # {}
         /\ \E H : OnTheWay(F, H) /\ Offer(texts, H) \in Searches(AfterNothing(s))
<1> DEFINE l == Loosest(s)
           rungs == DatedFacets \cap DOMAIN F # {} \/ HasVersion(F)
           dated == Only(Dated, DOMAIN F)
<1>1. /\ s.texts = texts /\ s.filters = F /\ s.match = match /\ s.mode = mode
  OBVIOUS
<1>2. l = [texts |-> texts, mode |-> IF mode = "fts" THEN "hybrid" ELSE mode, code |-> code, floor |-> floor,
           match |-> IF rungs THEN "permissive" ELSE match, limit |-> limit, filters |-> Foot(F)]
  <2> DEFINE cut == Foot(F)
             kind == IF rungs THEN "permissive" ELSE match
             by == IF mode = "fts" THEN "hybrid" ELSE mode
  <2>1. l = [s EXCEPT !.filters = cut, !.match = kind, !.mode = by]
    BY <1>1 DEF Loosest, Foot, DatedFacets
  <2> HIDE DEF cut, kind, by, l
  <2>2. l = [texts |-> texts, mode |-> by, code |-> code, floor |-> floor, match |-> kind, limit |-> limit,
             filters |-> cut]
    BY <2>1
  <2> QED BY <2>2 DEF cut, kind, by
<1>3. Found(Offer(texts, Foot(F))) # {}
  <2>1. ValidFilters(Foot(F))
    BY WithoutIs, StrippedIs DEF Foot
  <2>2. l.texts = texts /\ l.filters = Foot(F) /\ l.match \in {"strict", "permissive"}
    BY <1>2
  <2>3. Found(l) # {}
    OBVIOUS
  <2> HIDE DEF l
  <2> QED BY <2>1, <2>2, <2>3, OfferFinds
<1> HIDE DEF l
<1>4. <<>> \in Extras /\ [mode |-> String("hybrid")] \in Extras /\ Loosened(s) \in Extras
  BY DEF Extras, Loosened
<1>5. \A H, more : OnTheWay(F, H) /\ more \in Extras /\ Advanced(texts, H, more) \in AfterNothing(s)
        => \E G : OnTheWay(F, G) /\ Offer(texts, G) \in Searches(AfterNothing(s))
  BY OfferedIs DEF OnTheWay
<1>6. Hybrid(s) \subseteq AfterNothing(s)
  BY DEF AfterNothing
<1>7. CASE DOMAIN F = {}
  <2>1. F = NoFilters
    BY <1>7 DEF Shaped, NoFilters
  <2>2. Advanced(texts, F, <<>>) \in AfterNothing(s)
    BY <1>1, <1>7, <2>1 DEF AfterNothing
  <2>3. OnTheWay(F, F)
    BY DEF OnTheWay
  <2> QED BY <1>3, <1>4, <1>5, <2>2, <2>3
<1>8. CASE DOMAIN F # {}
  <2>0. Relaxed(s) \subseteq AfterNothing(s)
    BY <1>1, <1>8 DEF AfterNothing
  <2>1. CASE dated # <<>>
    <3> DEFINE x == dated[1]
               H == Without(F, {x})
    <3>1. x \in DatedFacets
      BY <2>1, DatedIs DEF DatedOf
    <3>2. Advanced(texts, H, <<>>) \in Relaxed(s)
      BY <1>1, <2>1 DEF Relaxed
    <3> HIDE DEF x
    <3>3. OnTheWay(F, H)
      BY <3>1, WithoutIs, FootStays DEF OnTheWay
    <3> QED BY <1>3, <1>4, <1>5, <2>0, <3>2, <3>3
  <2>2. CASE dated = <<>> /\ HasVersion(F) /\ match = "strict"
    <3>1. Advanced(texts, F, Loosened(s)) \in Relaxed(s)
      BY <1>1, <2>2 DEF Relaxed
    <3>2. OnTheWay(F, F)
      BY DEF OnTheWay
    <3> QED BY <1>3, <1>4, <1>5, <2>0, <3>1, <3>2
  <2>3. CASE dated = <<>> /\ HasVersion(F) /\ match # "strict"
    <3>1. Advanced(texts, Stripped(F), <<>>) \in Relaxed(s)
      BY <1>1, <2>3 DEF Relaxed
    <3>2. OnTheWay(F, Stripped(F))
      BY <2>3, DatedIs, StrippedIs, FootIs DEF OnTheWay
    <3> QED BY <1>3, <1>4, <1>5, <2>0, <3>1, <3>2
  <2>4. CASE dated = <<>> /\ ~HasVersion(F)
    <3>1. DatedOf(F) = {} /\ Foot(F) = F
      BY <2>4, DatedIs, FootIs
    <3>2. ~rungs
      BY <2>4, <3>1 DEF DatedOf
    <3>3. mode = "fts"
      <4>1. ASSUME mode # "fts" PROVE FALSE
        <5>1. l = s
          BY <1>2, <3>1, <3>2, <4>1
        <5> QED BY <5>1 DEF l
      <4> QED BY <4>1
    <3>4. Advanced(texts, F, [mode |-> String("hybrid")]) \in Hybrid(s)
      BY <1>1, <3>3 DEF Hybrid
    <3>5. OnTheWay(F, F)
      BY DEF OnTheWay
    <3> QED BY <1>3, <1>4, <1>5, <1>6, <3>4, <3>5
  <2> QED BY <2>1, <2>2, <2>3, <2>4
<1> QED BY <1>7, <1>8

(* And the next.                                                            *)
LEMMA NextRung ==
  ASSUME NEW texts, NEW G, NEW F, OnTheWay(F, G),
         Found(Offer(texts, Foot(F))) # {}, Found(Offer(texts, G)) = {}
  PROVE  \E H : /\ OnTheWay(F, H) /\ Offer(texts, H) \in Searches(AfterNothing(Offer(texts, G)))
                /\ \/ DatedOf(G) = {} /\ H = Foot(F)
                   \/ \E x \in DatedOf(G) : DatedOf(H) = DatedOf(G) \ {x}
<1> DEFINE s == Offer(texts, G)
           dated == Only(Dated, DOMAIN G)
<1>1. s.texts = texts /\ s.filters = G /\ s.match = "permissive"
  BY DEF Offer
<1>2. Shaped(G) /\ ValidFilters(G) /\ Foot(G) = Foot(F)
  BY DEF OnTheWay
<1> HIDE DEF s
<1>3. <<>> \in Extras
  BY DEF Extras
<1>4. CASE dated # <<>>
  <2> DEFINE x == dated[1]
             H == Without(G, {x})
  <2>1. x \in DatedOf(G)
    BY <1>4, DatedIs
  <2>2. Advanced(texts, H, <<>>) \in Relaxed(s)
    BY <1>1, <1>4 DEF Relaxed
  <2> HIDE DEF x
  <2>3. DOMAIN G # {} /\ x \in DatedFacets
    BY <2>1 DEF DatedOf
  <2>4. Advanced(texts, H, <<>>) \in AfterNothing(s)
    BY <1>1, <2>2, <2>3 DEF AfterNothing
  <2>5. OnTheWay(F, H) /\ DatedOf(H) = DatedOf(G) \ {x}
    BY <1>2, <2>3, WithoutIs, FootStays DEF OnTheWay
  <2>6. Offer(texts, H) \in Searches(AfterNothing(s))
    BY <1>3, <2>4, <2>5, OfferedIs DEF OnTheWay
  <2> QED BY <2>1, <2>5, <2>6 DEF s
<1>5. CASE dated = <<>>
  <2>1. DatedOf(G) = {}
    BY <1>5, DatedIs
  <2> DEFINE H == Stripped(G)
  <2>2. HasVersion(G)
    <3>1. ASSUME ~HasVersion(G) PROVE FALSE
      <4>1. Foot(F) = G
        BY <1>2, <2>1, <3>1, FootIs
      <4> QED BY <4>1
    <3> QED BY <3>1
  <2>3. DOMAIN G # {}
    BY <2>2 DEF HasVersion
  <2>4. Advanced(texts, H, <<>>) \in Relaxed(s)
    BY <1>1, <1>5, <2>2 DEF Relaxed
  <2>5. Advanced(texts, H, <<>>) \in AfterNothing(s)
    BY <1>1, <2>3, <2>4 DEF AfterNothing
  <2>6. OnTheWay(F, H) /\ H = Foot(F)
    BY <1>2, <2>1, StrippedIs, FootIs DEF OnTheWay
  <2>7. Offer(texts, H) \in Searches(AfterNothing(s))
    BY <1>3, <2>5, <2>6, OfferedIs DEF OnTheWay
  <2> QED BY <2>1, <2>6, <2>7 DEF s
<1> QED BY <1>4, <1>5


(* The searches that are reached, round by round.                           *)
LEMMA ReachedIs ==
  ASSUME NEW calls
  PROVE  \E r : /\ r[0] = Searches(calls) /\ Reached(calls) = r[6]
                /\ \A n \in 1..6 : r[n] = Follow(r[n - 1])
<1> DEFINE S == Searches(calls)
           Rounds(r) == r = [n \in 0..6 |-> IF n = 0 THEN S ELSE Follow(r[n - 1])]
           r1 == Follow(S)
           r2 == Follow(r1)
           r3 == Follow(r2)
           r4 == Follow(r3)
           r5 == Follow(r4)
           r6 == Follow(r5)
           q == [n \in 0..6 |-> CASE n = 0 -> S [] n = 1 -> r1 [] n = 2 -> r2 [] n = 3 -> r3
                                  [] n = 4 -> r4 [] n = 5 -> r5 [] n = 6 -> r6]
           r == CHOOSE f : Rounds(f)
<1>1. Reached(calls) = r[6]
  BY DEF Reached
<1>2. Rounds(q)
  <2> HIDE DEF S
  <2>1. r1 = Follow(S) /\ r2 = Follow(r1) /\ r3 = Follow(r2) /\ r4 = Follow(r3) /\ r5 = Follow(r4) /\ r6 = Follow(r5)
    OBVIOUS
  <2> HIDE DEF r1, r2, r3, r4, r5, r6
  <2>2. /\ q = [n \in 0..6 |-> q[n]]
        /\ q[0] = S /\ q[1] = r1 /\ q[2] = r2 /\ q[3] = r3 /\ q[4] = r4 /\ q[5] = r5 /\ q[6] = r6
    OBVIOUS
  <2> HIDE DEF q
  <2>3. \A n \in 0..6 : q[n] = IF n = 0 THEN S ELSE Follow(q[n - 1])
    <3>1. \A n \in 0..6 : n = 0 \/ n = 1 \/ n = 2 \/ n = 3 \/ n = 4 \/ n = 5 \/ n = 6
      OBVIOUS
    <3> QED BY <2>1, <2>2, <3>1
  <2>4. q = [n \in 0..6 |-> IF n = 0 THEN S ELSE Follow(q[n - 1])]
    BY <2>2, <2>3
  <2> QED BY <2>4
<1> HIDE DEF Rounds, q
<1>3. Rounds(r)
  BY <1>2
<1> HIDE DEF r, S
<1>4. r[0] = S /\ \A n \in 1..6 : r[n] = Follow(r[n - 1])
  BY <1>3 DEF Rounds
<1> QED BY <1>1, <1>4 DEF S

(* A round keeps what was reached, and adds what is offered for nothing.    *)
LEMMA FollowIs ==
  ASSUME NEW S
  PROVE  /\ S \subseteq Follow(S)
         /\ \A x \in S : Found(x) = {} => Searches(AfterNothing(x)) \subseteq Follow(S)
BY DEF Follow

(* From anywhere on the way, four rounds lead down to what can be found.    *)
LEMMA LadderFinds ==
  ASSUME NEW texts, NEW F, Found(Offer(texts, Foot(F))) # {},
         NEW calls, NEW H0, OnTheWay(F, H0), Offer(texts, H0) \in Searches(calls)
  PROVE  \E s \in Reached(calls) : Found(s) # {}
<1>1. PICK r : /\ r[0] = Searches(calls) /\ Reached(calls) = r[6]
               /\ \A n \in 1..6 : r[n] = Follow(r[n - 1])
  BY ReachedIs
<1>2. r[0] \subseteq r[1] /\ r[1] \subseteq r[2] /\ r[2] \subseteq r[3] /\ r[3] \subseteq r[4]
      /\ r[4] \subseteq r[5] /\ r[5] \subseteq r[6]
  <2>1. r[1] = Follow(r[0]) /\ r[2] = Follow(r[1]) /\ r[3] = Follow(r[2]) /\ r[4] = Follow(r[3])
        /\ r[5] = Follow(r[4]) /\ r[6] = Follow(r[5])
    BY <1>1
  <2> QED BY <2>1, FollowIs
<1> SUFFICES ASSUME \A s \in r[6] : Found(s) = {} PROVE FALSE
  BY <1>1
<1> DEFINE At(n, G) == OnTheWay(F, G) /\ Offer(texts, G) \in r[n]
<1>3. ASSUME NEW n \in 0..3, NEW G, At(n, G)
      PROVE  \E H : At(n + 1, H) /\ \E x \in DatedOf(G) : DatedOf(H) = DatedOf(G) \ {x}
  <2>1. Offer(texts, G) \in r[6]
    BY <1>2, <1>3
  <2>2. Found(Offer(texts, G)) = {}
    BY <2>1
  <2>3. PICK H : /\ OnTheWay(F, H) /\ Offer(texts, H) \in Searches(AfterNothing(Offer(texts, G)))
                 /\ \/ DatedOf(G) = {} /\ H = Foot(F)
                    \/ \E x \in DatedOf(G) : DatedOf(H) = DatedOf(G) \ {x}
    BY <1>3, <2>2, NextRung
  <2>4. r[n + 1] = Follow(r[n])
    BY <1>1
  <2>5. Offer(texts, H) \in r[n + 1]
    BY <1>3, <2>2, <2>3, <2>4, FollowIs
  <2>6. r[n + 1] \subseteq r[6]
    <3>1. n = 0 \/ n = 1 \/ n = 2 \/ n = 3
      OBVIOUS
    <3> QED BY <1>2, <3>1
  <2>7. H # Foot(F)
    BY <2>5, <2>6
  <2> QED BY <2>3, <2>5, <2>7
<1> HIDE DEF At
<1>4. At(0, H0)
  BY <1>1 DEF At
<1>5. PICK H1 : At(1, H1) /\ \E x \in DatedOf(H0) : DatedOf(H1) = DatedOf(H0) \ {x}
  <2>1. \E H : At(0 + 1, H) /\ \E x \in DatedOf(H0) : DatedOf(H) = DatedOf(H0) \ {x}
    BY <1>3, <1>4
  <2> QED BY <2>1
<1>6. PICK H2 : At(2, H2) /\ \E x \in DatedOf(H1) : DatedOf(H2) = DatedOf(H1) \ {x}
  <2>1. \E H : At(1 + 1, H) /\ \E x \in DatedOf(H1) : DatedOf(H) = DatedOf(H1) \ {x}
    BY <1>3, <1>5
  <2> QED BY <2>1
<1>7. PICK H3 : At(3, H3) /\ \E x \in DatedOf(H2) : DatedOf(H3) = DatedOf(H2) \ {x}
  <2>1. \E H : At(2 + 1, H) /\ \E x \in DatedOf(H2) : DatedOf(H) = DatedOf(H2) \ {x}
    BY <1>3, <1>6
  <2> QED BY <2>1
<1>8. DatedOf(H3) # {}
  <2>1. \E H : At(3 + 1, H) /\ \E x \in DatedOf(H3) : DatedOf(H) = DatedOf(H3) \ {x}
    BY <1>3, <1>7
  <2> QED BY <2>1
<1>9. DatedOf(H0) \subseteq {"source_modified_at", "ingested_at", "verified"}
  BY DatedIs DEF DatedOf
<1> QED BY <1>5, <1>6, <1>7, <1>8, <1>9

-----------------------------------------------------------------------------
(* An answer without results.                                               *)

FoundIn(st, s) ==
  {id \in UNION {ToSet(ChunksOf(d)) : d \in st} :
     /\ InLists(s, id) /\ Selected(s.filters, s.match, Facts(id))
     /\ Fits(s.filters, s.match, Facts(id)) /\ Chunk(id).sure >= s.floor}

(* The server let it through, found nothing, and offers the way on.         *)
Emptied(st, c, r) ==
  c.tool \in SearchTools /\ r.verdict = "OK" /\ r.shown = <<>> /\ ~r.removed =>
    LET s == SearchOf(Rewritten(c)) IN
    /\ Rewritten(c).tool \in SearchTools /\ Accepted(Rewritten(c)) /\ ~ServerRefuses(s)
    /\ FoundIn(st, s) = {} /\ AfterNothing(s) \subseteq r.offers

(* What is found among the rows there are.                                  *)
LEMMA FoundIs ==
  /\ \A s : Found(s) = FoundIn(stored, s)
  /\ \A s, st, sub : sub \subseteq st => FoundIn(sub, s) \subseteq FoundIn(st, s)
BY DEF Found, Candidates, StoredChunks, FoundIn

(* Chunks that rank nowhere are not there.                                  *)
LEMMA NothingRanks ==
  ASSUME NEW S, S \subseteq AllIds, Ranked(S) = <<>>
  PROVE  S = {}
<1> DEFINE docs == [d \in DOMAIN Corpus |-> ChunksOf(d)]
           hits == Only(AllChunks, S)
           key == [k \in DOMAIN hits |-> Chunk(hits[k]).sure]
<1>1. \A d \in DOMAIN Corpus : ChunksOf(d) \in Seq(AllIds)
  <2> TAKE d \in DOMAIN Corpus
  <2>1. ChunksOf(d) \in Seq(Id2)
    BY ChunksAre
  <2>2. \A i \in 1..Len(ChunksOf(d)) : ChunksOf(d)[i] \in AllIds
    BY ChunksAre DEF AllIds, ToSet
  <2> QED BY <2>1, <2>2
<1>2. docs \in Seq(Seq(AllIds)) /\ DOMAIN docs = DOMAIN Corpus
  BY <1>1, CorpusAssumption
<1>3. AllChunks \in Seq(AllIds)
  BY <1>2, FlatType DEF AllChunks
<1>4. hits \in Seq(AllIds) /\ ((\E k \in DOMAIN AllChunks : AllChunks[k] \in S) => hits # <<>>)
  BY <1>3, OnlyIs
<1>5. key \in [DOMAIN hits -> Int]
  <2>1. \A k \in DOMAIN hits : hits[k] \in AllIds
    BY <1>4
  <2> QED BY <2>1, ChunkRows
<1>6. Ranked(S) = Descending(hits, key)
  BY DEF Ranked
<1> HIDE DEF hits, key, docs
<1>7. DOMAIN hits = {}
  <2>1. DOMAIN Descending(hits, key) = DOMAIN hits
    BY <1>4, <1>5, Sorts
  <2> QED BY <1>6, <2>1
<1>8. hits = <<>>
  BY <1>4, <1>7
<1>9. \A x \in AllIds : \E k \in DOMAIN AllChunks : AllChunks[k] = x
  <2> SUFFICES ASSUME NEW x \in AllIds PROVE \E k \in DOMAIN AllChunks : AllChunks[k] = x
    OBVIOUS
  <2>1. PICK d \in DOMAIN Corpus : x \in Range(ChunksOf(d))
    BY DEF AllIds, ToSet, Range
  <2>2. d \in DOMAIN docs /\ docs[d] = ChunksOf(d)
    BY <1>2 DEF docs
  <2>3. x \in Range(AllChunks)
    BY <1>2, <2>1, <2>2, FlatRange DEF AllChunks, docs
  <2> QED BY <2>3 DEF Range
<1> QED BY <1>4, <1>8, <1>9


(* A search that shows nothing, and of which the guard removed nothing.     *)
LEMMA SearchEmptied ==
  ASSUME stored \subseteq DOMAIN Corpus,
         NEW c, Typed(c), c.tool \in SearchTools, Accepted(Rewritten(c)), Search(c)
  PROVE  Emptied(stored, c, reply')
<1> DEFINE r == Rewritten(c)
           s == SearchOf(r)
           results == FirstOf(s.limit, Ranked(Found(s)))
           shown == Kept(results)
           nudge == IF Cardinality(Candidates(s)) < Few /\ ~skill THEN {InstallCall} ELSE {}
           none == IF results = <<>> THEN AfterNothing(s) ELSE {}
<1>1. reply' = IF ServerRefuses(s) THEN BadRequest
               ELSE Ok(shown, shown # results, nudge \cup AfterResults(shown) \cup none)
  BY DEF Search
<1>2. r.tool \in SearchTools /\ Typed(r)
  BY RewrittenTool, RewrittenTyped
<1>3. CASE ServerRefuses(s)
  <2>1. reply'.verdict = "BAD_REQUEST"
    BY <1>1, <1>3, ReplyIs
  <2> QED BY <2>1 DEF Emptied
<1>4. CASE ~ServerRefuses(s)
  <2>1. s.limit \in Nat \ {0}
    BY <1>2, <1>4, SearchIsSane
  <2>2. /\ reply'.shown = shown /\ reply'.removed = (shown # results)
        /\ none \subseteq reply'.offers
    <3> HIDE DEF r, s, results, shown, nudge, none
    <3>1. reply' = Ok(shown, shown # results, nudge \cup AfterResults(shown) \cup none)
      BY <1>1, <1>4
    <3> QED BY <3>1, ReplyIs
  <2>3. ASSUME reply'.shown = <<>>, ~reply'.removed
        PROVE  FoundIn(stored, s) = {} /\ AfterNothing(s) \subseteq reply'.offers
    <3>1. results = <<>>
      BY <2>2, <2>3
    <3>2. AfterNothing(s) \subseteq reply'.offers
      BY <2>2, <3>1
    <3>3. Found(s) \subseteq AllIds
      BY DEF Found, Candidates, StoredChunks, AllIds
    <3> DEFINE ids == Found(s)
               n == s.limit
               all == Ranked(ids)
    <3>4. FirstOf(n, all) = <<>> /\ n \in Nat \ {0} /\ ids \subseteq AllIds
      BY <2>1, <3>1, <3>3
    <3> HIDE DEF r, s, results, shown, nudge, none, ids, n
    <3>5. all \in Seq(AllIds)
      BY RankedIs
    <3> HIDE DEF all
    <3>6. Len(all) = 0
      <4>1. Len(FirstOf(n, all)) = 0
        BY <3>4
      <4>2. Len(FirstOf(n, all)) = IF n <= Len(all) THEN n ELSE Len(all)
        BY <3>4, <3>5, FirstOfIs
      <4> QED BY <3>4, <4>1, <4>2
    <3>7. all = <<>>
      BY <3>5, <3>6
    <3>8. ids = {}
      BY <3>4, <3>7, NothingRanks DEF all
    <3> QED BY <3>2, <3>8, FoundIs DEF ids
  <2> HIDE DEF results, shown, nudge, none
  <2> QED BY <1>2, <1>4, <2>3 DEF Emptied
<1> QED BY <1>3, <1>4

(* Every step leaves it so.                                                 *)
LEMMA EmptiedHolds ==
  ASSUME AgentInv, Emptied(stored, call, reply), [Next]_vars
  PROVE  Emptied(stored', call', reply')
<1>1. CASE Answered
  <2>0. stored' = stored
    BY <1>1 DEF Answered
  <2>1. \A tools, c : c \in Dispatched(tools) => c \in Callable /\ c.tool \in tools /\ Accepted(Rewritten(c)) /\ Typed(c)
    BY CallableIs DEF Dispatched
  <2>2. CASE \E c \in Dispatched(SearchTools) : call' = c /\ Search(c)
    <3>1. PICK c \in Dispatched(SearchTools) : call' = c /\ Search(c)
      BY <2>2
    <3> QED BY <2>0, <2>1, <3>1, SearchEmptied DEF AgentInv
  <2>3. CASE ~\E c \in Dispatched(SearchTools) : call' = c /\ Search(c)
    <3>1. PICK tools \in {{"get_chunks"}, NavTools, {"get_chunk_neighbors"}, {"get_chunk_parents"}, {"get_document"},
                     {"get_document_chunks"}, {"list_sources"}, {"facets"}, {"status"}, {"install_skill"}} :
            \E c \in Dispatched(tools) : call' = c
      BY <1>1, <2>3 DEF Answered
    <3>2. tools \cap SearchTools = {}
      BY DEF NavTools, SearchTools
    <3> QED BY <2>1, <3>1, <3>2 DEF Emptied
  <2> QED BY <2>2, <2>3
<1>2. CASE Refused
  <2>1. reply'.verdict = "INVALID_INPUT"
    BY <1>2, ReplyIs DEF Refused
  <2> QED BY <2>1 DEF Emptied
<1>3. CASE Fails
  <2>1. \E v \in {"RATE_LIMITED", "AUTH_FAILED", "CLOUD_ERROR", "INSTALL_FAILED", "EMBEDDING_MODEL_MISMATCH"},
           z \in {{}, {StatusCall}} : reply' = Failed(v, z)
    BY <1>3 DEF Fails, Failures, OfTheCloud
  <2>2. reply'.verdict # "OK"
    BY <2>1, ReplyIs
  <2> QED BY <2>2 DEF Emptied
<1>4. CASE Sweep \/ UNCHANGED vars
  <2>1. stored' \subseteq stored /\ call' = call /\ reply' = reply
    BY <1>4 DEF Sweep, vars
  <2>2. \A s : FoundIn(stored', s) \subseteq FoundIn(stored, s)
    BY <2>1, FoundIs
  <2> QED BY <2>1, <2>2 DEF Emptied
<1> QED BY <1>1, <1>2, <1>3, <1>4 DEF Next

(* An empty answer offers the way to what it hides.                         *)
LEMMA EmptiedRecovers ==
  ASSUME AgentInv, Emptied(stored, call, reply)
  PROVE  RecoveryFinds
<1> DEFINE r == Rewritten(call)
           s == SearchOf(r)
           F == s.filters
<1> SUFFICES ASSUME EmptySearch, Found(Loosest(s)) # {}
             PROVE  \E x \in Reached(reply.offers) : Found(x) # {}
  BY DEF RecoveryFinds
<1>1. /\ r.tool \in SearchTools /\ Accepted(r) /\ ~ServerRefuses(s)
      /\ FoundIn(stored, s) = {} /\ AfterNothing(s) \subseteq reply.offers
  BY DEF Emptied, EmptySearch
<1>2. Typed(r) /\ stored \subseteq DOMAIN Corpus
  BY RewrittenTyped DEF AgentInv
<1>3. Shaped(F) /\ ValidFilters(F)
  BY <1>1, <1>2, SearchIsSane DEF Sane
<1>4. s.match \in {"strict", "permissive"}
  <2>1. s.match = Value(r, "version_match", "permissive")
    BY DEF SearchOf
  <2>2. CASE "version_match" \in DOMAIN r.args \cap Reads(r.tool)
    <3>1. WellTyped(r.tool, "version_match", r.args["version_match"])
      BY <1>1, <2>2 DEF Accepted
    <3> QED BY <2>1, <2>2, <3>1 DEF WellTyped, Words, Value
  <2>3. CASE "version_match" \notin DOMAIN r.args \cap Reads(r.tool)
    BY <2>1, <2>3 DEF Value
  <2> QED BY <2>2, <2>3
<1>5. s = [texts |-> s.texts, mode |-> s.mode, code |-> s.code, floor |-> s.floor, match |-> s.match,
           limit |-> s.limit, filters |-> F]
  BY DEF SearchOf
<1>6. Found(s) = {}
  BY <1>1, FoundIs
<1> DEFINE texts == s.texts
           offers == AfterNothing(s)
<1> HIDE DEF r, s
<1>7. /\ Found(Offer(texts, Foot(F))) # {}
      /\ \E H : OnTheWay(F, H) /\ Offer(texts, H) \in Searches(offers)
  BY <1>2, <1>3, <1>4, <1>5, <1>6, FirstRung
<1>8. Searches(offers) \subseteq Searches(reply.offers)
  BY <1>1 DEF Searches
<1> HIDE DEF texts, F, offers
<1> QED BY <1>7, <1>8, LadderFinds

(* Whatever the corpus, the filters and what is swept: an agent that only   *)
(* follows the searches offered for empty answers arrives at results, if    *)
(* recency, verified, versions and full text are all that hides them.       *)
THEOREM RecoveryFindsHolds == Spec => []RecoveryFinds
<1> DEFINE E == Emptied(stored, call, reply)
<1>1. Init => E
  <2>1. NoCall.tool \notin SearchTools
    BY DEF NoCall, Call, SearchTools
  <2> QED BY <2>1 DEF Init, Emptied
<1>2. AgentInv /\ E /\ [Next]_vars => E'
  BY EmptiedHolds DEF Emptied, FoundIn
<1>3. AgentInv /\ E => RecoveryFinds
  BY EmptiedRecovers
<1> HIDE DEF E
<1> QED BY <1>1, <1>2, <1>3, AgentInvariant, PTL DEF Spec

=============================================================================
