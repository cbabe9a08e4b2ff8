------------------------------ MODULE MCAgent -------------------------------
EXTENDS Agent, TLC

Zero == <<0, 1, 0>>
One  == <<1, 0, 0>>
Caret(v) == {[op |-> "caret", maj |-> v[1], min |-> v[2], pat |-> v[3]]}
Target(name, v) == [name |-> name, decl |-> Declared(Caret(v))]
Overflow == {[op |-> "greater", maj |-> Top, min |-> Absent, pat |-> Absent]}

\* The document fits the first version, the second or declares none; chunks with
\* and without words, code and what the guard flags.
MCFacts(slug, targets, modified, verified) ==
  [source_slug |-> {slug}, source_kind |-> {"mixed"}, attribution |-> {"unknown"}, content_type |-> {"doc"},
   kind |-> {"markdown"}, language |-> {"en"}, tags |-> {slug}, package |-> {"npm:sdk"},
   verified |-> verified, deprecated |-> FALSE, language_target |-> targets, sdk_dependency |-> {},
   ingested_at |-> {5}, source_modified_at |-> modified]
Piece(words, code, sure, flagged) ==
  [words |-> words, code |-> code, sure |-> sure, flagged |-> flagged,
   facts |-> [heading_path |-> {}, symbol |-> {}, token_count |-> {10}]]
MCCorpus ==
  <<[facts |-> MCFacts("a", {Target("compact", Zero)}, {3}, FALSE),
     chunks |-> <<Piece({"q"}, FALSE, 80, FALSE), Piece({}, TRUE, 60, TRUE), Piece({"q"}, FALSE, 60, FALSE),
                  Piece({}, FALSE, 40, FALSE), Piece({}, FALSE, 20, TRUE)>>],
    [facts |-> MCFacts("b", {Target("compact", One)}, {}, TRUE),
     chunks |-> <<Piece({}, FALSE, 50, FALSE), Piece({}, FALSE, 30, FALSE)>>],
    [facts |-> MCFacts("c", {}, {7}, FALSE), chunks |-> <<Piece({}, FALSE, 10, TRUE)>>]>>
MCClosed ==
  [attribution |-> {"foundation", "unknown"}, content_type |-> {"doc"}, kind |-> {"markdown", "code"},
   source_kind |-> {"mixed"}]

Asking(v) == OneOf({Element("object", "compact", {Concrete(v)})})
Named(facet, name) == facet :> OneOf({Element(ShapeOf(facet), name, {})})
MCFilters ==
  LET recent == "source_modified_at" :> Between({9}, {})
      since  == "ingested_at" :> Between({6}, {})
      sure   == "verified" :> TRUE
      version(v) == "language_target" :> Asking(v)
  IN  {NoFilters, recent, since @@ recent, sure @@ Named("source_slug", "a"), version(<<2, 0, 0>>),
       version(<<2, 0, 0>>) @@ sure @@ recent, version(One) @@ Named("tags", "c"),
       version(<<2, 0, 0>>) @@ Named("source_slug", "a"), Named("kind", "code"), Named("kind", "prose"),
       Named("tags", "none") @@ sure, Named("package", "npm:sdk") @@ since, Named("symbol", "f"),
       Named("attribution", "foundation"), Named("colour", "red"), "deprecated" :> TRUE,
       "language_target" :> [any |-> {}, none |-> {Element("object", "compact", {})}],
       "language_target" :> OneOf({Element("object", "compact", {InRange(Overflow)})}),
       "tags" :> [any |-> {}, none |-> {Element("string", "a", {}), Element("string", "b", {}), Element("string", "c", {})}],
       "package" :> OneOf({Element("string", "npm:sdk", {})}),
       "token_count" :> Between({7}, {3}), "token_count" :> Between({}, {3})}

Modes == {<<>>} \cup {"mode" :> String(m) : m \in {"vector", "fts", "fuzzy"}}
         \cup {"mode" :> String("fts") @@ "code_mode" :> String(c) : c \in {"on", "off"}}
         \cup {"code_mode" :> String("exclusive"), "mode" :> IllTyped}
Basics == {("query" :> String(t)) @@ m : t \in {"q", "?", " ", ""}, m \in Modes}
          \cup {"queries" :> Array(<<"q">>), "queries" :> Array(<<"q", "?">>),
                "query" :> String("q") @@ "limit" :> Number(0), "query" :> String("q") @@ "limit" :> Number(1),
                "query" :> String("q") @@ "filters" :> NoFilters}
Advanceds ==
  {("queries" :> Array(<<"?">>)) @@ ("filters" :> f) @@ m @@ v :
     f \in MCFilters, m \in {<<>>, "mode" :> String("fts"), "mode" :> String("vector")},
     v \in {<<>>, "version_match" :> String("strict"), "min_confidence" :> Number(70)}}
  \cup {"query" :> String("q"), "queries" :> Array(<<>>), "queries" :> Array(<<"q", "?", " ">>),
        "queries" :> Array(<<"q", "?">>) @@ "rerank" :> IllTyped, "queries" :> Array(<<"q", "?", "q", "?">>),
        "queries" :> Array(<<" ">>) @@ "sort_by" :> String("age")}

Ids == {<<1, 1>>, <<1, 4>>, <<2, 1>>, <<3, 1>>, <<9, 1>>, NotAnId}
ByChunk(tool) ==
  {Call(tool, p :> String(id)) : p \in {"id", "chunk_id"}, id \in Ids \ {<<9, 1>>}}
  \cup {Call(tool, "id" :> String(<<1, 1>>) @@ "count" :> Number(n)) : n \in {0, 1, 3}}
ByDocument(tool) == {Call(tool, p :> String(<<d, 0>>)) : p \in {"id", "document_id"}, d \in 0..3}
MCFirstCalls ==
  {Call("search", a) : a \in Basics} \cup {Call("advanced_search", a) : a \in Advanceds}
  \cup UNION {ByChunk(t) : t \in ChunkTools} \cup UNION {ByDocument(t) : t \in DocTools}
  \cup {Call("get_document_chunks", "id" :> String(<<1, 0>>) @@ a) :
          a \in {"from" :> Number(1), "from" :> Number(-1), "from" :> Number(7), "limit" :> Number(1), "limit" :> Number(4)}}
  \cup {Call("get_chunks", a) :
          a \in {"ids" :> Array(<<<<1, 2>>, <<2, 1>>>>), "ids" :> Array(<<>>), "id" :> String(<<3, 1>>),
                 "chunk_id" :> String(<<1, 1>>), "ids" :> Array(<<NotAnId>>)}}
  \cup {Call("list_sources", a) : a \in {<<>>, "cursor" :> String(1), "limit" :> Number(0), "limit" :> Number(2)}}
  \cup {Call("facets", a) :
          a \in {<<>>, "facet" :> String("language_target"), "facet" :> String("source_slug"), "facet" :> String("kind"),
                 "facet" :> String("package") @@ "within" :> String("npm:sdk"),
                 "facet" :> String("tags") @@ "within" :> String("a")}}
  \cup {Call("status", <<>>)}
  \cup {Call("install_skill", a) : a \in {<<>>, "skill" :> Array(<<"unheard of">>)}}
=============================================================================
