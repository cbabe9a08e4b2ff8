------------------------------ MODULE Filters -------------------------------
(***************************************************************************)
(* The facet filters of a search: which ones are valid, and which chunks    *)
(* they let through, in SQL and by the version decision after it.           *)
(*                                                                         *)
(* A filter object is a function from the facets it names.  A set facet     *)
(* holds elements to have one of and elements to have none of; an element   *)
(* is a name, or an object with a name and perhaps a version.  Facts gives  *)
(* what a chunk, its document and its source declare of every facet.        *)
(***************************************************************************)
EXTENDS VersionMatch

CONSTANT ClosedValues   \* facet with an enumerated set of names -> that set

ClosedFacets == {"attribution", "content_type", "kind", "source_kind"}
TextFacets   == ClosedFacets \cup {"source_slug", "language", "tags", "heading_path"}
VersionFacets == {"language_target", "sdk_dependency"}
ObjectFacets == VersionFacets \cup {"symbol", "package"}
Flags        == {"verified", "deprecated"}
Ranges       == {"ingested_at", "source_modified_at", "token_count"}
SetFacets    == TextFacets \cup ObjectFacets
AllFacets    == SetFacets \cup Flags \cup Ranges

ASSUME ClosedAssumption ==
  /\ DOMAIN ClosedValues = ClosedFacets
  /\ \A f \in ClosedFacets : IsFiniteSet(ClosedValues[f]) /\ ClosedValues[f] # {}

Element(shape, name, version) == [shape |-> shape, name |-> name, version |-> version]
OneOf(elements) == [any |-> elements, none |-> {}]
Between(from, to) == [min |-> from, max |-> to]   \* each a set of at most one bound
NoFilters == [f \in {} |-> {}]

Names(elements) == {x.name : x \in elements}
ShapeOf(facet)  == IF facet \in ObjectFacets THEN "object" ELSE "string"

\* An object that deserializes (no other facet, no other shape) and validates.
ValidSet(facet, set) ==
  /\ \A x \in set.any \cup set.none : x.shape = ShapeOf(facet)
  /\ facet \in DOMAIN ClosedValues => Names(set.any \cup set.none) \subseteq ClosedValues[facet]
  /\ facet \in VersionFacets =>
       /\ set.none = {}
       /\ \A x \in set.any : \A r \in x.version : Valid(r)
ValidRange(r) == \A a \in r.min, b \in r.max : a <= b
ValidFilters(filters) ==
  /\ DOMAIN filters \subseteq AllFacets
  /\ \A f \in DOMAIN filters \cap SetFacets : ValidSet(f, filters[f])
  /\ \A f \in DOMAIN filters \cap Ranges : ValidRange(filters[f])

\* push_filter_predicates.  A NULL timestamp passes no bound.  Under strict the
\* names of a version facet are already asked for here.
InSet(set, have) ==
  /\ set.any # {} => Names(set.any) \cap have # {}
  /\ Names(set.none) \cap have = {}
InRangeOf(r, have) ==
  /\ \A a \in r.min : \E x \in have : x >= a
  /\ \A b \in r.max : \E x \in have : x <= b
Selected(filters, match, facts) ==
  \A f \in DOMAIN filters :
    CASE f \in Flags  -> filters[f] = facts[f]
      [] f \in Ranges -> InRangeOf(filters[f], facts[f])
      [] f \in SetFacets \ VersionFacets -> InSet(filters[f], facts[f])
      [] f \in VersionFacets -> match = "strict" => InSet(filters[f], Names(facts[f]))

\* version_outcomes and version_decision, on what SQL selected.
Fits(filters, match, facts) ==
  Keeps(match, UNION {FacetOutcome(filters[f].any, facts[f]) : f \in DOMAIN filters \cap VersionFacets})

Without(filters, facets) == [f \in DOMAIN filters \ facets |-> filters[f]]
=============================================================================
