---------------------------- MODULE VersionMatch ----------------------------
(***************************************************************************)
(* How the version a query asks for is matched with the constraints a       *)
(* document declares: comparators desugared to an interval, the class of a  *)
(* pair of intervals, the best class of a facet, and the decision to drop   *)
(* or keep a candidate.                                                     *)
(*                                                                         *)
(* A version component is a u64; Top stands for u64::MAX.  Pre-releases are *)
(* left out.  A requirement is a set of comparators.                        *)
(***************************************************************************)
EXTENDS Integers, FiniteSetsExt

CONSTANT Top    \* the largest value of a version component

ASSUME TopAssumption == Top \in Nat \ {0}

Component == 0..Top
Semvers  == Component \X Component \X Component
Absent    == -1
Pos(v)    == (v[1] * (Top + 1) + v[2]) * (Top + 1) + v[3]

Ops == {"exact", "greater", "greatereq", "less", "lesseq", "tilde", "caret", "wildcard"}
Partial(c) == c.pat = Absent
Comparators ==
  {c \in [op : Ops, maj : Component, min : Component \cup {Absent}, pat : Component \cup {Absent}] :
     /\ c.min = Absent => Partial(c)
     /\ c.op = "wildcard" => Partial(c)}

Or0(n)  == IF n = Absent THEN 0 ELSE n
Base(c) == <<c.maj, Or0(c.min), Or0(c.pat)>>

\* A bound, and an interval of at most one bound on either side.
Incl(v) == {[at |-> v, inc |-> TRUE]}
Excl(v) == {[at |-> v, inc |-> FALSE]}
Interval(lo, hi) == [lo |-> lo, hi |-> hi]

\* checked_add: there is no next component after the largest.
Successor(n) == {n + 1} \cap Component
NextMajor(c) == {<<n, 0, 0>> : n \in Successor(c.maj)}
NextMinor(c) == {<<c.maj, n, 0>> : n \in Successor(Or0(c.min))}
NextPatch(c) == {<<c.maj, Or0(c.min), n>> : n \in Successor(Or0(c.pat))}
NextOf(c)    == IF c.min = Absent THEN NextMajor(c) ELSE NextMinor(c)

\* The first version a caret leaves out.
CaretEnd(c) ==
  CASE c.maj > 0       -> NextMajor(c)
    [] c.maj = 0 /\ Or0(c.min) > 0 -> NextMinor(c)
    [] c.maj = 0 /\ Or0(c.min) = 0 /\ ~Partial(c) -> NextPatch(c)
    [] OTHER           -> {<<1, 0, 0>>}

\* comparator_interval: no interval when a component overflows.
Desugar(c) ==
  CASE c.op = "exact"     -> IF Partial(c) THEN {Interval(Incl(Base(c)), Excl(n)) : n \in NextOf(c)}
                             ELSE {Interval(Incl(Base(c)), Incl(Base(c)))}
    [] c.op = "greater"   -> IF Partial(c) THEN {Interval(Incl(n), {}) : n \in NextOf(c)}
                             ELSE {Interval(Excl(Base(c)), {})}
    [] c.op = "greatereq" -> {Interval(Incl(Base(c)), {})}
    [] c.op = "less"      -> {Interval({}, Excl(Base(c)))}
    [] c.op = "lesseq"    -> IF Partial(c) THEN {Interval({}, Excl(n)) : n \in NextOf(c)}
                             ELSE {Interval({}, Incl(Base(c)))}
    [] c.op \in {"tilde", "wildcard"} -> {Interval(Incl(Base(c)), Excl(n)) : n \in NextOf(c)}
    [] c.op = "caret"     -> {Interval(Incl(Base(c)), Excl(n)) : n \in CaretEnd(c)}

\* intersect: of two bounds on one side the tighter stays.
TightestLo(B) == {b \in B : \A d \in B : Pos(d.at) < Pos(b.at) \/ (d.at = b.at /\ (b.inc => d.inc))}
TightestHi(B) == {b \in B : \A d \in B : Pos(d.at) > Pos(b.at) \/ (d.at = b.at /\ (b.inc => d.inc))}
Intersect(I)  == Interval(TightestLo(UNION {i.lo : i \in I}), TightestHi(UNION {i.hi : i \in I}))

\* from_req: the conjunction of the comparators, none if one has no interval.
FromReq(cs) ==
  IF \E c \in cs : Desugar(c) = {} THEN {}
  ELSE {Intersect(UNION {Desugar(c) : c \in cs})}

IsEmpty(i) ==
  \E l \in i.lo, h \in i.hi : Pos(l.at) > Pos(h.at) \/ (l.at = h.at /\ ~(l.inc /\ h.inc))
Intersects(i, j) == ~IsEmpty(Intersect({i, j}))

----------------------------------------------------------------------------
Satisfies == <<"satisfies", 0>>
NearMissPatch(d) == <<"patch", d>>
NearMissMinor(d) == <<"minor", d>>
Unknown   == <<"unknown", 0>>
Breaking  == <<"breaking", 0>>

\* class_rank: a smaller one is better.
ClassRank(class) ==
  LET order == [satisfies |-> 0, patch |-> 1, minor |-> 2, unknown |-> 3, breaking |-> 4]
  IN  order[class[1]] * (Top + 2) + class[2]
BestOf(classes) == CHOOSE a \in classes : \A b \in classes : ClassRank(a) <= ClassRank(b)

\* Mutant: an excluded bound stands for its own nearest member.
RepresentativeAsIs(b, isUpper) == b.at

\* The nearest member of an interval on the side of a bound.
Representative(b, isUpper) ==
  LET v == b.at IN
  IF b.inc THEN v
  ELSE IF isUpper
    THEN CASE v[3] > 0 -> <<v[1], v[2], v[3] - 1>>
           [] v[3] = 0 /\ v[2] > 0 -> <<v[1], v[2] - 1, Top>>
           [] v[3] = 0 /\ v[2] = 0 /\ v[1] > 0 -> <<v[1] - 1, Top, Top>>
           [] OTHER -> v
    ELSE CASE v[3] < Top -> <<v[1], v[2], v[3] + 1>>
           [] v[3] = Top /\ v[2] < Top -> <<v[1], v[2] + 1, 0>>
           [] v[3] = Top /\ v[2] = Top /\ v[1] < Top -> <<v[1] + 1, 0, 0>>
           [] OTHER -> v

\* gap_pair: the members nearest to each other, request below declared or above.
GapPair(req, decl) ==
  LET below == {<<Representative(p[1], TRUE), Representative(p[2], FALSE)>> :
                  p \in {q \in req.hi \X decl.lo : Pos(q[1].at) <= Pos(q[2].at)}}
      above == {<<Representative(p[1], FALSE), Representative(p[2], TRUE)>> :
                  p \in {q \in req.lo \X decl.hi : Pos(q[1].at) >= Pos(q[2].at)}}
  IN  IF below # {} THEN below ELSE above

Dist(x, y) == IF x < y THEN y - x ELSE x - y

\* Below 1.0 the minor plays the major's part and the patch the minor's.
MismatchClass(a, b) ==
  LET k == IF a[1] # b[1] THEN 1 ELSE IF a[2] # b[2] THEN 2 ELSE 3
      breaks == k = 1 \/ (a[1] = 0 /\ (k = 2 \/ a[2] = 0))
      d == Dist(a[k], b[k])
  IN  CASE a = b -> NearMissPatch(1)
        [] a # b /\ breaks -> Breaking
        [] a # b /\ ~breaks /\ (k = 2 \/ a[1] = 0) -> NearMissMinor(d)
        [] a # b /\ ~breaks /\ k = 3 /\ a[1] # 0 -> NearMissPatch(d)

\* semver's VersionReq::matches, for one comparator.
Matches(c, v) ==
  LET agrees == v[1] = c.maj /\ c.min \in {Absent, v[2]} /\ c.pat \in {Absent, v[3]}
      later  == \/ v[1] > c.maj
                \/ v[1] = c.maj /\ c.min # Absent /\ v[2] > c.min
                \/ v[1] = c.maj /\ c.min = v[2] /\ ~Partial(c) /\ v[3] > c.pat
      caret  == /\ v[1] = c.maj
                /\ \/ c.min = Absent
                   \/ Partial(c) /\ (IF c.maj > 0 THEN v[2] >= c.min ELSE v[2] = c.min)
                   \/ ~Partial(c) /\ c.maj > 0 /\ (v[2] > c.min \/ (v[2] = c.min /\ v[3] >= c.pat))
                   \/ ~Partial(c) /\ c.maj = 0 /\ v[2] = c.min
                      /\ (IF c.min > 0 THEN v[3] >= c.pat ELSE v[3] = c.pat)
      tilde  == v[1] = c.maj /\ c.min \in {Absent, v[2]} /\ (Partial(c) \/ v[3] >= c.pat)
  IN  CASE c.op \in {"exact", "wildcard"} -> agrees
        [] c.op = "greater"   -> later
        [] c.op = "greatereq" -> later \/ agrees
        [] c.op = "less"      -> ~later /\ ~agrees
        [] c.op = "lesseq"    -> ~later
        [] c.op = "tilde"     -> tilde
        [] c.op = "caret"     -> caret

Matched(cs) == {v \in Semvers : \A c \in cs : Matches(c, v)}

----------------------------------------------------------------------------
\* A requested version is concrete or a range; one whose range is empty, or has
\* no interval, does not parse.
Concrete(v) == [at |-> {v}, cs |-> {}]
InRange(cs) == [at |-> {}, cs |-> cs]
Asked(r) == {Interval(Incl(v), Incl(v)) : v \in r.at}
            \cup (IF r.at = {} THEN {i \in FromReq(r.cs) : ~IsEmpty(i)} ELSE {})
Valid(r) == Asked(r) # {}

\* A declared constraint: absent, not parsed, or a requirement.
Garbled       == [parses |-> FALSE, some |-> TRUE,  cs |-> {}]
Declared(cs)  == [parses |-> TRUE,  some |-> TRUE,  cs |-> cs]

Overlap(r, cs) ==
  IF r.at # {} THEN r.at \subseteq Matched(cs)
  ELSE \E i \in Asked(r), j \in FromReq(cs) : Intersects(i, j)

Classify(r, decl) ==
  LET gap == UNION {GapPair(i, j) : i \in Asked(r), j \in FromReq(decl.cs)}
  IN  CASE ~decl.some    -> Satisfies
        [] ~decl.parses  -> Unknown
        [] decl.some /\ decl.parses /\ Overlap(r, decl.cs) -> Satisfies
        [] OTHER -> IF gap = {} THEN Unknown ELSE LET p == CHOOSE p \in gap : TRUE IN MismatchClass(p[1], p[2])

\* What either side may be.
RequestedVersions == [at : SUBSET Semvers, cs : SUBSET Comparators]
Constraints == [parses : BOOLEAN, some : BOOLEAN, cs : SUBSET Comparators]

\* An element of a facet asks for a name and perhaps a version; a target of the
\* document has a name and a constraint.
Want(name, version) == [name |-> name, version |-> version]
ClassFor(want, decl) ==
  CASE want.version = {} -> Satisfies
    [] want.version # {} -> LET r == CHOOSE r \in want.version : TRUE
                            IN  IF Valid(r) THEN Classify(r, decl) ELSE Unknown

\* best_facet_outcome: nothing for a facet the request leaves open, silence for
\* a document that declares none of the names, else the best class of all pairs.
Silent == <<"silent", 0>>
FacetOutcome(wants, targets) ==
  LET pairs == {p \in wants \X targets : p[1].name = p[2].name}
  IN  CASE wants = {} -> {}
        [] wants # {} /\ pairs = {} -> {Silent}
        [] wants # {} /\ pairs # {} -> {BestOf({ClassFor(p[1], p[2].decl) : p \in pairs})}

\* version_decision: strict keeps what satisfies every facet, permissive what
\* breaks none.
Keeps(mode, outcomes) ==
  CASE mode = "strict"     -> outcomes \subseteq {Satisfies}
    [] mode = "permissive" -> Breaking \notin outcomes

\* version_multiplier, in hundredths, with the default policy; of two facets the
\* smaller one counts.
Multiplier(class) ==
  CASE class[1] = "satisfies" -> 115
    [] class[1] \in {"unknown", "silent"} -> 100
    [] class[1] = "breaking" -> 30
    [] class[1] = "patch"    -> Max({30, 100 - 5 * class[2]})
    [] class[1] = "minor"    -> Max({30, 100 - 15 * class[2]})
VersionMultiplier(outcomes) ==
  IF outcomes = {} THEN 100 ELSE Min({Multiplier(c) : c \in outcomes})

=============================================================================
