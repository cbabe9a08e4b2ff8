----------------------------- MODULE MCRanking -----------------------------
(* Two documents and four chunks.  In d1, a and b overlap in one cell, b is    *)
(* otherwise white space, and c is a code chunk with a breadcrumb over both.   *)
EXTENDS Ranking, TLC

Req(op, maj, min, pat) == [op |-> op, maj |-> maj, min |-> min, pat |-> pat]

MCChunks == ("a" :> [doc |-> "d1", span |-> {1, 2}, aligned |-> TRUE])
         @@ ("b" :> [doc |-> "d1", span |-> {2, 3}, aligned |-> TRUE])
         @@ ("c" :> [doc |-> "d1", span |-> {1, 2, 4}, aligned |-> FALSE])
         @@ ("d" :> [doc |-> "d2", span |-> {1}, aligned |-> TRUE])
MCBlank == {3}
Halves  == {<<"a", "b", "c">>, <<"b", "a", "d">>, <<"c", "b">>, <<"d", "c", "a">>, <<>>}

Open    == [f \in Facets |-> {}]
Language(name, version) == [Open EXCEPT !["language_target"] = {Want(name, version)}]
SomeWants ==
  {Open, Language("compact", {Concrete(<<0, 1, 0>>)}),
   [language_target |-> {Want("compact", {}), Want("rust", {Concrete(<<1, 0, 0>>)})},
    sdk_dependency  |-> {Want("sdk", {InRange({Req("greatereq", 1, 1, Absent)})})}]}
SomeTargets ==
  ("d1" :> [language_target |-> {[name |-> "compact", decl |-> Declared({Req("caret", 0, 1, 1)})]},
            sdk_dependency  |-> {[name |-> "sdk", decl |-> Declared({Req("tilde", 1, 0, Absent)})]}])
  @@ ("d2" :> [language_target |-> {[name |-> "compact", decl |-> Garbled]}, sdk_dependency |-> {}])

\* Every list, order and placement, over a few constraints.
Broad ==
  [lists : Halves \X Halves, wants : SomeWants, targets : {SomeTargets}, mode : {"strict", "permissive"},
   trusts : {("d1" :> 1) @@ ("d2" :> 2), ("d1" :> 1) @@ ("d2" :> 1)}, floor : {0, 500000}, limit : {1, 3},
   sort : {"confidence", "trust", "relevance", "score"}, placement : {"server", "local", "off"}]

\* Every requested version or one-comparator range with every declared comparator,
\* and with every interval between two excluded versions: components are 0, 1 and
\* the largest.  A document, which the search does not find, declares those of one
\* operator, or of one lower major.
Excluded(op) == {c \in Comparators : c.op = op /\ ~Partial(c)}
Declarations ==
  {{{c} : c \in {d \in Comparators : d.op = op}} : op \in Ops}
  \cup {{{l, u} : l \in {c \in Excluded("greater") : c.maj = n}, u \in Excluded("less")} : n \in Component}
Asks   == {Concrete(v) : v \in Semvers} \cup {InRange({c}) : c \in Comparators}
Target(reqs) ==
  ("d2" :> Open)
  @@ ("d1" :> [Open EXCEPT !["language_target"] = {[name |-> "compact", decl |-> Declared(cs)] : cs \in reqs}])
Deep ==
  [lists : {<< <<>>, <<"d">> >>}, wants : {Language("compact", {r}) : r \in Asks},
   targets : {Target(reqs) : reqs \in Declarations}, mode : {"permissive"}, trusts : {("d1" :> 1) @@ ("d2" :> 1)},
   floor : {0}, limit : {1}, sort : {"confidence"}, placement : {"off"}]

MCSearches == {r \in Broad : r.placement = "local" => r.sort = "confidence"} \cup Deep

=============================================================================
