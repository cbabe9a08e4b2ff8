------------------------------- MODULE Agent --------------------------------
(***************************************************************************)
(* An agent's session with the MCP server: a tool is called, its arguments  *)
(* are rewritten and parsed, the cloud is asked, the content guard looks at *)
(* what comes back, and the answer offers further calls.  The agent follows *)
(* an offer, or repeats a call that it was told to retry, while versions    *)
(* are swept from the corpus between its calls.                             *)
(*                                                                         *)
(* The corpus is a sequence of documents.  <<d, i>> names chunk i of        *)
(* document d, those that have a vector, and <<d, 0>> the document itself.  *)
(***************************************************************************)
EXTENDS Filters, Arrangements, SequencesExt

CONSTANTS
  Corpus,       \* for each document: [facts, chunks]
  FirstCalls,   \* what an agent may begin with
  Levels,       \* the levels the content guard may be set to
  MaxQueries, MaxIds, MaxLimit, MaxCount,           \* the tools' own limits
  SearchLimit, NavCount, NeighborCount, WindowLimit, \* and their defaults
  ServerCap,    \* the server's cap on the queries of a search
  PageLimit,    \* page size of sources and facet values
  Few,          \* candidates below which the skill is recommended
  MaxFaults,    \* bound: calls of the cloud that fail
  MaxSweeps     \* bound: documents swept

ASSUME AgentAssumption ==
  /\ {MaxQueries, MaxIds, MaxLimit, MaxCount, SearchLimit, NavCount, NeighborCount, WindowLimit,
      ServerCap, PageLimit} \subseteq Nat \ {0}
  /\ MaxIds >= 5      \* what AfterResults fetches
  /\ {Few, MaxFaults, MaxSweeps} \subseteq Nat

ASSUME CorpusAssumption ==
  /\ DOMAIN Corpus = 1..Len(Corpus) /\ Len(Corpus) \in Nat
  /\ \A d \in DOMAIN Corpus :
       /\ DOMAIN Corpus[d].chunks = 1..Len(Corpus[d].chunks) /\ Len(Corpus[d].chunks) \in Nat
       /\ \A i \in DOMAIN Corpus[d].chunks : Corpus[d].chunks[i].sure \in Nat

\* Filters as they are parsed: sets of elements.  And arguments: a string or a
\* number is one item, and where a window begins is an integer.
Shaped(filters) ==
  /\ filters = [f \in DOMAIN filters |-> filters[f]]
  /\ \A f \in DOMAIN filters \cap SetFacets :
       /\ filters[f] = [any |-> filters[f].any, none |-> filters[f].none]
       /\ \A x \in filters[f].any : x = Element(x.shape, x.name, x.version)
Given(p, arg) ==
  /\ arg = [type |-> arg.type, items |-> arg.items]
  /\ arg.items \in Seq(ToSet(arg.items))
  /\ arg.type \in {"string", "number"} => Len(arg.items) = 1
  /\ p = "from" /\ arg.type = "number" => arg.items[1] \in Int
Typed(c) ==
  /\ \A p \in DOMAIN c.args \ {"filters"} : Given(p, c.args[p])
  /\ "filters" \in DOMAIN c.args => Shaped(c.args["filters"])
ASSUME CallAssumption == \A c \in FirstCalls : Typed(c)

VARIABLES
  stored,   \* the documents whose rows exist
  skill,    \* the search skill is installed
  level,    \* the level of the content guard
  call,     \* the last call, as the agent made it
  reply,    \* what it was answered
  walk,     \* a walk from chunk to chunk, or window to window
  faults

vars == <<stored, skill, level, call, reply, walk, faults>>

-----------------------------------------------------------------------------
(* Calls.  An argument has a JSON type and the items it holds; a filter     *)
(* object is kept as it is.                                                 *)

String(x) == [type |-> "string", items |-> <<x>>]
Number(n) == [type |-> "number", items |-> <<n>>]
Array(s)  == [type |-> "array", items |-> s]
IllTyped  == [type |-> "other", items |-> <<>>]
NotAnId   == <<0, 0>>
NoText    == ""
BlankText == " "

Call(tool, args) == [tool |-> tool, args |-> args]
Merged(f, g) == [p \in DOMAIN f \cup DOMAIN g |-> IF p \in DOMAIN f THEN f[p] ELSE g[p]]
NoCall == Call("none", <<>>)

SearchTools == {"search", "advanced_search"}
NavTools    == {"get_chunk_next", "get_chunk_prev"}
ChunkTools  == NavTools \cup {"get_chunk_neighbors", "get_chunk_parents"}
DocTools    == {"get_document", "get_document_chunks"}

\* rewrite_param_aliases
Renamed(c, old, new, type) ==
  LET args == c.args IN
  Call(c.tool, [p \in (DOMAIN args \ {old}) \cup {new} |->
                  IF p = new THEN [args[old] EXCEPT !.type = type] ELSE args[p]])
Rewritten(c) ==
  LET has(p) == p \in DOMAIN c.args
      string(p) == has(p) /\ c.args[p].type = "string"
  IN  CASE c.tool = "advanced_search" /\ ~has("queries") /\ string("query") ->
             Renamed(c, "query", "queries", "array")
        [] c.tool = "search" /\ ~has("query") /\ has("queries")
             /\ c.args["queries"].type = "array" /\ Len(c.args["queries"].items) = 1 ->
             Renamed(c, "queries", "query", "string")
        [] c.tool = "get_chunks" /\ ~has("ids") /\ ~has("id") /\ string("chunk_id") ->
             Renamed(c, "chunk_id", "ids", "array")
        [] c.tool = "get_chunks" /\ ~has("ids") /\ ~has("chunk_id") /\ string("id") ->
             Renamed(c, "id", "ids", "array")
        [] c.tool \in ChunkTools /\ ~has("id") /\ string("chunk_id") ->
             Renamed(c, "chunk_id", "id", "string")
        [] c.tool \in DocTools /\ ~has("id") /\ string("document_id") ->
             Renamed(c, "document_id", "id", "string")
        [] OTHER -> c

\* The optional arguments a tool reads; what it does not read it does not check.
Reads(tool) ==
  CASE tool = "search" -> {"mode", "code_mode", "limit"}
    [] tool = "advanced_search" ->
         {"mode", "code_mode", "limit", "min_confidence", "version_match", "sort_by",
          "response_format", "rerank_model", "rerank_instructions"}
    [] tool \in NavTools \cup {"get_chunk_neighbors"} -> {"count"}
    [] tool = "get_document_chunks" -> {"from", "limit"}
    [] OTHER -> {}
Words ==
  [mode |-> {"hybrid", "vector", "fts"}, code_mode |-> {"on", "off", "exclusive"},
   version_match |-> {"strict", "permissive"}, sort_by |-> {"confidence", "trust", "relevance", "score"},
   response_format |-> {"detailed", "concise"}, rerank_model |-> {"rerank-2.5", "rerank-2.5-lite"},
   rerank_instructions |-> {"short enough"}]
InBounds(tool, p, n) ==
  CASE p = "min_confidence" -> n \in 0..100     \* in hundredths
    [] p = "from"  -> n >= 0
    [] p = "limit" /\ tool \in SearchTools -> n \in 1..MaxLimit
    [] OTHER -> n \in 1..MaxCount
WellTyped(tool, p, arg) ==
  /\ arg.items # <<>>
  /\ IF p \in DOMAIN Words THEN arg.type = "string" /\ arg.items[1] \in Words[p]
                           ELSE arg.type = "number" /\ InBounds(tool, p, arg.items[1])

\* An argument, or its default; c has been accepted.
Value(c, p, default) == IF p \in DOMAIN c.args \cap Reads(c.tool) THEN c.args[p].items[1] ELSE default

\* parse_code_mode_arg; the mutant leaves it to the server.
AnyCodeMode(c) == TRUE
CodeModeFits(c) == Value(c, "mode", "hybrid") = "fts" => Value(c, "code_mode", "off") = "off"

Queries(c) == IF c.tool = "search" THEN c.args["query"].items ELSE c.args["queries"].items
FiltersOf(c) == IF c.tool = "advanced_search" /\ "filters" \in DOMAIN c.args THEN c.args["filters"] ELSE NoFilters
Id(c) == c.args["id"].items[1]

\* What the tools themselves demand of a rewritten call.
Accepted(c) ==
  LET has(p) == p \in DOMAIN c.args IN
  /\ \A p \in DOMAIN c.args \cap Reads(c.tool) : WellTyped(c.tool, p, c.args[p])
  /\ c.tool = "search" =>
       /\ ~has("queries") /\ ~has("rerank") /\ ~has("filters")
       /\ has("query") /\ c.args["query"].type = "string"
  /\ c.tool = "advanced_search" =>
       /\ ~has("query")
       /\ has("queries") /\ c.args["queries"].type = "array"
       /\ Len(Queries(c)) \in 1..MaxQueries
       /\ ValidFilters(FiltersOf(c))
  /\ c.tool \in SearchTools => (\A i \in DOMAIN Queries(c) : Queries(c)[i] # NoText) /\ CodeModeFits(c)
  /\ c.tool = "get_chunks" =>
       /\ has("ids") /\ c.args["ids"].type = "array"
       /\ Len(c.args["ids"].items) \in 1..MaxIds
       /\ NotAnId \notin ToSet(c.args["ids"].items)
  /\ c.tool \in ChunkTools \cup DocTools => has("id") /\ c.args["id"].type = "string" /\ Id(c) # NotAnId

-----------------------------------------------------------------------------
(* The corpus, and what the server makes of a search.                       *)

ChunksOf(d) == [i \in DOMAIN Corpus[d].chunks |-> <<d, i>>]
StoredChunks == UNION {ToSet(ChunksOf(d)) : d \in stored}
Chunk(id) == Corpus[id[1]].chunks[id[2]]
Facts(id) == Merged(Chunk(id).facts, Corpus[id[1]].facts)
Exists(id) == id[1] \in stored /\ id[2] \in {0} \cup DOMAIN Corpus[id[1]].chunks

SearchOf(c) ==
  [texts |-> Queries(c), mode |-> Value(c, "mode", "hybrid"), code |-> Value(c, "code_mode", "none"),
   floor |-> Value(c, "min_confidence", 0), match |-> Value(c, "version_match", "permissive"),
   limit |-> Value(c, "limit", SearchLimit), filters |-> FiltersOf(c)]

\* effective_code_mode, the cap, empty text for full text search, validate.
ServerRefuses(s) ==
  \/ s.mode = "fts" /\ s.code \notin {"none", "off"}
  \/ Len(s.texts) > ServerCap
  \/ s.mode # "vector" /\ ToSet(s.texts) \subseteq {NoText, BlankText}
  \/ ~ValidFilters(s.filters)

\* The lists of a search: full text, general vectors, code vectors.  A vector
\* list holds every chunk there is a vector for.
InLists(s, id) ==
  \/ s.mode # "vector" /\ ToSet(s.texts) \cap Chunk(id).words # {}
  \/ s.mode # "fts" /\ s.code # "exclusive"
  \/ s.mode # "fts" /\ s.code # "off" /\ Chunk(id).code
Candidates(s) == {id \in StoredChunks : InLists(s, id) /\ Selected(s.filters, s.match, Facts(id))}
Found(s) == {id \in Candidates(s) : Fits(s.filters, s.match, Facts(id)) /\ Chunk(id).sure >= s.floor}

FirstOf(n, s) == SubSeq(s, 1, Min({n, Len(s)}))
LastOf(n, s)  == SubSeq(s, Len(s) + 1 - Min({n, Len(s)}), Len(s))
Only(s, S)    == Picked(s, {k \in DOMAIN s : s[k] \in S})
AllChunks     == FlattenSeq([d \in DOMAIN Corpus |-> ChunksOf(d)])
Ranked(ids) ==
  LET hits == Only(AllChunks, ids)
  IN  Descending(hits, [k \in DOMAIN hits |-> Chunk(hits[k]).sure])

\* The guard removes what it flags only when strict, and wraps it otherwise.
Passes(id) == ~(level = "strict" /\ Chunk(id).flagged)
Kept(ids)  == Picked(ids, {k \in DOMAIN ids : Passes(ids[k])})

-----------------------------------------------------------------------------
(* The calls an answer offers.                                              *)

OnId(tool, id) == Call(tool, [id |-> String(id)])
Document(id)   == OnId("get_document", <<id[1], 0>>)
Around(id)     == {OnId("get_chunk_neighbors", id), Document(id)}
Fetch(ids)     == Call("get_chunks", [ids |-> Array(ids)])
WindowFrom(id, n) == Call("get_document_chunks", [id |-> String(id), from |-> Number(n)])
DrillInto(facet) == Call("facets", [facet |-> String(facet)])
InstallCall    == Call("install_skill", [skill |-> Array(<<"search">>)])
Advanced(texts, filters, more) ==
  Call("advanced_search",
       Merged([queries |-> Array(texts)],
             Merged(IF DOMAIN filters = {} THEN <<>> ELSE [filters |-> filters], more)))

AfterResults(ids) ==
  IF ids = <<>> THEN {}
  ELSE {Fetch(<<ids[1]>>)} \cup Around(ids[1]) \cup (IF Len(ids) > 1 THEN {Fetch(FirstOf(5, ids))} ELSE {})

\* most_restrictive_relaxation: one rung, the first that applies.
Dated == <<"source_modified_at", "ingested_at", "verified">>
HasVersion(filters) ==
  \E f \in DOMAIN filters \cap VersionFacets : \E x \in filters[f].any : x.version # {}
Stripped(filters) ==
  [f \in DOMAIN filters |->
     IF f \in VersionFacets THEN [filters[f] EXCEPT !.any = {[x EXCEPT !.version = {}] : x \in @}]
     ELSE filters[f]]
\* Mutant: the rung keeps the mode it is about.
StillStrict(s) == [version_match |-> String(s.match)]
Loosened(s) == [version_match |-> String("permissive")]
Relaxed(s) ==
  LET dated == Only(Dated, DOMAIN s.filters) IN
  CASE dated # <<>> -> {Advanced(s.texts, Without(s.filters, {dated[1]}), <<>>)}
    [] dated = <<>> /\ HasVersion(s.filters) /\ s.match = "strict" ->
         {Advanced(s.texts, s.filters, Loosened(s))}
    [] dated = <<>> /\ HasVersion(s.filters) /\ s.match # "strict" ->
         {Advanced(s.texts, Stripped(s.filters), <<>>)}
    [] OTHER -> {}

OpenFacets == <<"source_slug", "language", "tags", "package">>
Hybrid(s) == IF s.mode = "fts" THEN {Advanced(s.texts, s.filters, [mode |-> String("hybrid")])} ELSE {}
\* zero_result_filtered and zero_result_unfiltered
AfterNothing(s) ==
  LET open == Only(OpenFacets, DOMAIN s.filters) IN
  Hybrid(s) \cup
    (IF DOMAIN s.filters = {} THEN {Advanced(s.texts, NoFilters, <<>>)}
     ELSE Relaxed(s) \cup (IF open = <<>> THEN {} ELSE {DrillInto(open[1])}))

-----------------------------------------------------------------------------
(* Answers.                                                                 *)

Ok(shown, removed, offers) == [verdict |-> "OK", shown |-> shown, removed |-> removed, offers |-> offers]
Failed(verdict, offers)    == [verdict |-> verdict, shown |-> <<>>, removed |-> FALSE, offers |-> offers]
NotFound == Failed("NOT_FOUND", {Call("search", [query |-> String("<terms>")])})
\* The server answers 400, which an agent sees as a CLOUD_ERROR to retry.
BadRequest == Failed("BAD_REQUEST", {})

Retryable == {"INVALID_INPUT", "BAD_REQUEST", "CLOUD_ERROR", "RATE_LIMITED", "INSTALL_FAILED"}
Callable ==
  IF call = NoCall THEN FirstCalls
  ELSE reply.offers \cup (IF reply.verdict \in Retryable THEN {call} ELSE {})

\* A call that reaches its handler, rewritten.
Dispatched(tools) == {c \in Callable : c.tool \in tools /\ Accepted(Rewritten(c))}

Search(c) ==
  LET s == SearchOf(Rewritten(c))
      results == FirstOf(s.limit, Ranked(Found(s)))
      shown == Kept(results)
      nudge == IF Cardinality(Candidates(s)) < Few /\ ~skill THEN {InstallCall} ELSE {}
  IN  /\ reply' = IF ServerRefuses(s) THEN BadRequest
                  ELSE Ok(shown, shown # results,
                          nudge \cup AfterResults(shown) \cup
                            (IF results = <<>> THEN AfterNothing(s) ELSE {}))
      /\ UNCHANGED <<skill, walk>>

GetChunks(c) ==
  LET asked == Rewritten(c).args["ids"].items
      found == Picked(asked, {k \in DOMAIN asked : Exists(asked[k])})
      shown == Kept(found)
  IN  /\ reply' = Ok(shown, shown # found, IF shown = <<>> THEN {} ELSE Around(shown[1]))
      /\ UNCHANGED <<skill, walk>>

\* A walk goes on when the agent makes the call its last step offered.
Walked(c, id, at, fetched, onward, next) ==
  LET goesOn == c \in walk.next
      shown == Kept(fetched)
  IN  walk' = [tool |-> c.tool, start |-> IF goesOn THEN walk.start ELSE <<id[1], at>>, at |-> at,
               shown |-> CASE ~goesOn -> shown
                           [] goesOn /\ onward -> walk.shown \o shown
                           [] goesOn /\ ~onward -> shown \o walk.shown,
               removed |-> shown = <<>> /\ fetched # <<>>,
               lost |-> shown # fetched \/ (goesOn /\ walk.lost),
               next |-> next]

Nav(c) ==
  LET r == Rewritten(c)
      id == Id(r)
      n == Value(r, "count", NavCount)
      all == ChunksOf(id[1])
      onward == c.tool = "get_chunk_next"
      fetched == IF onward THEN FirstOf(n, SubSeq(all, id[2] + 1, Len(all)))
                           ELSE LastOf(n, SubSeq(all, 1, id[2] - 1))
      shown == Kept(fetched)
      next == IF shown = <<>> THEN {} ELSE {OnId(c.tool, IF onward THEN Last(shown) ELSE Head(shown))}
  IN  /\ IF Exists(id)
           THEN reply' = Ok(shown, shown # fetched, next) /\ Walked(c, id, id[2], fetched, onward, next)
           ELSE reply' = NotFound /\ UNCHANGED walk
      /\ UNCHANGED skill

\* The anchor stays even when it is flagged, without its content.
Neighbors(c) ==
  LET r == Rewritten(c)
      id == Id(r)
      n == Value(r, "count", NeighborCount)
      all == ChunksOf(id[1])
      near == Picked(all, {i \in DOMAIN all : i # id[2] /\ i \in (id[2] - n)..(id[2] + n)})
  IN  /\ reply' = IF Exists(id) THEN Ok(Kept(near), Kept(near) # near, {Document(id)}) ELSE NotFound
      /\ UNCHANGED <<skill, walk>>

Parents(c) ==
  LET id == Id(Rewritten(c)) IN
  /\ reply' = IF Exists(id) THEN Ok(<<>>, FALSE, {Document(id)}) ELSE NotFound
  /\ UNCHANGED <<skill, walk>>

GetDocument(c) ==
  LET id == Id(Rewritten(c)) IN
  /\ reply' = IF Exists(id) THEN Ok(<<>>, FALSE, {WindowFrom(id, 0)}) ELSE NotFound
  /\ UNCHANGED <<skill, walk>>

\* Where the next window begins; the mutant counts chunks from one.
AfterLast(from, n, shown) == from + Len(shown) + 1
AfterShown(from, n, shown) == from + Len(shown)
Window(c) ==
  LET r == Rewritten(c)
      id == Id(r)
      from == Value(r, "from", 0)
      n == Value(r, "limit", WindowLimit)
      all == ChunksOf(id[1])
      fetched == SubSeq(all, from + 1, Min({from + n, Len(all)}))
      shown == Kept(fetched)
      to == AfterShown(from, n, shown)
      next == IF to < Len(all) THEN {WindowFrom(id, to)} ELSE {}
  IN  /\ IF Exists(id)
           THEN reply' = Ok(shown, shown # fetched, next \cup {Document(id)})
                /\ Walked(c, id, from, fetched, TRUE, next)
           ELSE reply' = NotFound /\ UNCHANGED walk
      /\ UNCHANGED skill

\* Lists.  A cursor is opaque; here it counts what was shown.
Drillable == {"source_slug", "language", "tags", "package"} \cup VersionFacets
Drills    == VersionFacets \cup {"package"}    \* those with a second level
Names1(facet) ==
  UNION {IF facet \in VersionFacets THEN Names(Corpus[d].facts[facet]) ELSE Corpus[d].facts[facet] :
           d \in IF facet = "source_slug" THEN DOMAIN Corpus ELSE stored}
Names2 == {"a version", "another version"}     \* of the name drilled into
ListBounds(c) ==
  /\ "limit" \in DOMAIN c.args => c.args["limit"].items # <<>> /\ c.args["limit"].items[1] \in 1..MaxCount
  /\ "cursor" \in DOMAIN c.args => c.args["cursor"].items # <<>>
Cursor(c) == IF "cursor" \in DOMAIN c.args THEN c.args["cursor"].items[1] ELSE 0
Until(c) == Cursor(c) + (IF "limit" \in DOMAIN c.args THEN c.args["limit"].items[1] ELSE PageLimit)
Page(c, values) == SubSeq(SetToSeq(values), Cursor(c) + 1, Min({Until(c), Cardinality(values)}))
NextPage(c, values, args) ==
  IF Until(c) < Cardinality(values) THEN {Call(c.tool, Merged([cursor |-> String(Until(c))], args))} ELSE {}
YourQuery == "<your query>"
TrySearch(facet, page) ==
  IF page = <<>> THEN {}
  ELSE {Advanced(<<YourQuery>>, [f \in {facet} |-> OneOf({Element("string", page[1], {})})], <<>>)}

ListSources(c) ==
  /\ LET slugs == UNION {Corpus[d].facts["source_slug"] : d \in DOMAIN Corpus} IN
     reply' = IF ~ListBounds(c) THEN BadRequest
              ELSE Ok(<<>>, FALSE, NextPage(c, slugs, <<>>) \cup TrySearch("source_slug", Page(c, slugs)))
  /\ UNCHANGED <<skill, walk>>

Facets(c) ==
  LET within == "within" \in DOMAIN c.args
      facet  == c.args["facet"].items[1]
      values == IF within THEN Names2 ELSE Names1(facet)
      again  == Merged([facet |-> c.args["facet"]],
                       IF within THEN [within |-> c.args["within"]] ELSE <<>>)
  IN  /\ reply' =
           CASE "facet" \notin DOMAIN c.args ->
                  Ok(<<>>, FALSE, {DrillInto("tags")} \cup
                       TrySearch("attribution", SetToSeq(ClosedValues["attribution"])))
             [] "facet" \in DOMAIN c.args /\ ListBounds(c) /\ facet \in (IF within THEN Drills ELSE Drillable) ->
                  Ok(<<>>, FALSE, NextPage(c, values, again) \cup TrySearch(facet, Page(c, values)))
             [] OTHER -> BadRequest
      /\ UNCHANGED <<skill, walk>>

Status(c) == reply' = Ok(<<>>, FALSE, {}) /\ UNCHANGED <<skill, walk>>

\* There is one skill; no name installs every skill.
InstallSkill(c) ==
  LET named == IF "skill" \in DOMAIN c.args THEN ToSet(c.args["skill"].items) ELSE {} IN
  /\ IF named \subseteq {"search"}
       THEN reply' = Ok(<<>>, FALSE, {}) /\ skill' = TRUE
       ELSE reply' = Failed("INSTALL_FAILED", {}) /\ UNCHANGED skill
  /\ UNCHANGED walk

-----------------------------------------------------------------------------
Refused ==
  /\ \E c \in Callable :
       /\ ~Accepted(Rewritten(c))
       /\ call' = c /\ reply' = Failed("INVALID_INPUT", {})
  /\ UNCHANGED <<stored, skill, level, walk, faults>>

Answered ==
  /\ \/ \E c \in Dispatched(SearchTools) : call' = c /\ Search(c)
     \/ \E c \in Dispatched({"get_chunks"}) : call' = c /\ GetChunks(c)
     \/ \E c \in Dispatched(NavTools) : call' = c /\ Nav(c)
     \/ \E c \in Dispatched({"get_chunk_neighbors"}) : call' = c /\ Neighbors(c)
     \/ \E c \in Dispatched({"get_chunk_parents"}) : call' = c /\ Parents(c)
     \/ \E c \in Dispatched({"get_document"}) : call' = c /\ GetDocument(c)
     \/ \E c \in Dispatched({"get_document_chunks"}) : call' = c /\ Window(c)
     \/ \E c \in Dispatched({"list_sources"}) : call' = c /\ ListSources(c)
     \/ \E c \in Dispatched({"facets"}) : call' = c /\ Facets(c)
     \/ \E c \in Dispatched({"status"}) : call' = c /\ Status(c)
     \/ \E c \in Dispatched({"install_skill"}) : call' = c /\ InstallSkill(c)
  /\ UNCHANGED <<stored, level, faults>>

\* What a failing call is reported as, and what is offered for it.
StatusCall == Call("status", <<>>)
OfTheCloud == {Failed("RATE_LIMITED", {StatusCall}), Failed("AUTH_FAILED", {}), Failed("CLOUD_ERROR", {})}
Failures(tool) ==
  CASE tool = "install_skill" -> {Failed("INSTALL_FAILED", {})}
    [] tool \in SearchTools -> OfTheCloud \cup {Failed("EMBEDDING_MODEL_MISMATCH", {}), Failed("RATE_LIMITED", {})}
    [] OTHER -> OfTheCloud
Fails ==
  /\ faults < MaxFaults /\ faults' = faults + 1
  /\ \E c \in Dispatched({x.tool : x \in Callable} \ {"status"}) :
       call' = c /\ reply' \in Failures(c.tool)
  /\ UNCHANGED <<stored, skill, level, walk>>

Sweep ==
  /\ Cardinality(DOMAIN Corpus \ stored) < MaxSweeps
  /\ \E d \in stored : stored' = stored \ {d}
  /\ UNCHANGED <<skill, level, call, reply, walk, faults>>

Init ==
  /\ stored = DOMAIN Corpus
  /\ skill \in BOOLEAN /\ level \in Levels
  /\ call = NoCall /\ reply = Ok(<<>>, FALSE, {})
  /\ walk = [tool |-> "none", start |-> NotAnId, at |-> 0, shown |-> <<>>, removed |-> FALSE, lost |-> FALSE, next |-> {}]
  /\ faults = 0
Next == Refused \/ Answered \/ Fails \/ Sweep
Spec == Init /\ [][Next]_vars

-----------------------------------------------------------------------------
(* Properties.                                                              *)

\* A call that an answer offers is not refused, by the tool or by the server,
\* and a thing it names is there unless it was swept since.  Left out are what
\* the lists offer for a facet of objects, whose sample value is written as a
\* string, and the retry of a blank query.  Nor does the server refuse a search
\* that the tool let through, but for a blank query or more queries than its cap.
Blank(c) == ToSet(Queries(c)) \subseteq {BlankText}
CallsLand ==
  [][LET r == Rewritten(call')
         sample == \E f \in DOMAIN FiltersOf(r) \cap ObjectFacets :
                     \E x \in FiltersOf(r)[f].any : x.shape = "string"
         search == call'.tool \in SearchTools
     IN  /\ call' \in reply.offers =>
              /\ reply'.verdict \in {"INVALID_INPUT", "BAD_REQUEST"} => search /\ (sample \/ Blank(r))
              /\ reply'.verdict = "NOT_FOUND" => Id(r)[1] \in DOMAIN Corpus \ stored
         /\ reply'.verdict = "BAD_REQUEST" /\ search => Blank(r) \/ Len(Queries(r)) > ServerCap]_vars

\* An agent that only follows the searches offered for empty answers arrives at
\* results, if what the ladder of offers relaxes (recency, verified, versions, full
\* text) is all that hides them: no rung leads back, and none is missing.
EmptySearch == call.tool \in SearchTools /\ reply.verdict = "OK" /\ reply.shown = <<>> /\ ~reply.removed
Searches(calls) == {SearchOf(Rewritten(c)) : c \in {d \in calls : d.tool \in SearchTools}}
Follow(S) == S \cup UNION {Searches(AfterNothing(s)) : s \in {x \in S : Found(x) = {}}}
Reached(calls) ==
  LET reached[n \in 0..6] == IF n = 0 THEN Searches(calls) ELSE Follow(reached[n - 1])
  IN  reached[6]
Loosest(s) ==
  LET rungs == ToSet(Dated) \cap DOMAIN s.filters # {} \/ HasVersion(s.filters)
  IN  [s EXCEPT !.filters = Stripped(Without(@, ToSet(Dated))),
                !.match = IF rungs THEN "permissive" ELSE @,
                !.mode = IF @ = "fts" THEN "hybrid" ELSE @]
RecoveryFinds ==
  EmptySearch /\ Found(Loosest(SearchOf(Rewritten(call)))) # {} =>
    \E s \in Reached(reply.offers) : Found(s) # {}

\* A walk that follows the offered calls to the end has shown every chunk from its
\* start that the guard does not remove, in order and once if the guard removed
\* none, and every window begins after the one before unless all of it was removed.
Ahead(w) ==
  LET all == ChunksOf(w.start[1])
  IN  IF w.tool = "get_chunk_prev" THEN SubSeq(all, 1, w.start[2] - 1)
                                   ELSE SubSeq(all, w.start[2] + 1, Len(all))
WindowsCover ==
  walk.tool # "none" =>
    /\ walk.next = {} /\ (walk.tool \in NavTools => ~walk.removed) =>
         /\ ToSet(Kept(Ahead(walk))) \subseteq ToSet(walk.shown)
         /\ ~walk.lost => walk.shown = Ahead(walk)
    /\ walk.tool = "get_document_chunks" /\ ~walk.removed =>
         \A c \in walk.next : Value(c, "from", 0) > walk.at
=============================================================================
