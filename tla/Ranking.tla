------------------------------ MODULE Ranking ------------------------------
(***************************************************************************)
(* One search, from the ranked lists of its halves to the page its caller   *)
(* sees: fusion, the version decision, scoring, the optional rerank with    *)
(* its token reservation, the confidence floor, the requested order, the    *)
(* overlap dedup, the limit, and the rerank a client does itself.           *)
(*                                                                         *)
(* A chunk is a model value: Chunks gives its document, the cells of the    *)
(* document it spans and whether its content is that span verbatim.  Blank  *)
(* is the set of cells that hold only whitespace.                           *)
(***************************************************************************)
EXTENDS VersionMatch, Arrangements

CONSTANTS
  Chunks,      \* chunk -> [doc, span, aligned]
  Blank,       \* the cells of white space
  Searches,    \* the possible requests, each with what it meets in the database
  Relevances,  \* the possible relevances of a reranked chunk
  RerankPool,  \* the smallest pool that is reranked
  RerankFetch  \* the smallest page a client that reranks asks for

VARIABLES
  req,     \* the request and what it meets in the database
  phase,   \* the stage the search is in
  scored,  \* the candidates, in order
  early,   \* the dedup ran before the rerank
  meta,    \* search_metadata.rerank of the response
  ledger,  \* the token reservation of the server's rerank
  local,   \* what the client's own rerank came to
  page     \* the results, in order, each with the cells it shows

vars == <<req, phase, scored, early, meta, ledger, local, page>>

Chunk == DOMAIN Chunks
Span(c) == Chunks[c].span
Doc(c)  == Chunks[c].doc
Elems(s) == {s[i] : i \in DOMAIN s}

----------------------------------------------------------------------------
\* Reciprocal rank fusion: 1 / (60 + rank), over 61 * 62 * 63, summed over the
\* two lists; ties by the first list a chunk is in, then its rank there.
Share(rank) == (61 * 62 * 63) \div (60 + rank)
ShareIn(list, c) == IF c \in Elems(list) THEN Share(CHOOSE k \in DOMAIN list : list[k] = c) ELSE 0
Rrf(lists, c) == ShareIn(lists[1], c) + ShareIn(lists[2], c)
FirstSeen(lists) ==
  lists[1] \o Picked(lists[2], {k \in DOMAIN lists[2] : lists[2][k] \notin Elems(lists[1])})
Fuse(lists) ==
  LET seen == FirstSeen(lists) IN Descending(seen, [k \in DOMAIN seen |-> Rrf(lists, seen[k])])

\* A search: the lists its halves return, the elements it wants of each facet, its
\* mode, floor, limit, sort and placement; the targets the documents declare and
\* their trust but for the version.
Facets == {"language_target", "sdk_dependency"}
Outcomes(r, c)  == UNION {FacetOutcome(r.wants[f], r.targets[Doc(c)][f]) : f \in Facets}
Trust(r, c)     == r.trusts[Doc(c)] * VersionMultiplier(Outcomes(r, c))
Confidence(c)   == c.trust * c.relevance
Candidate(r, c) ==
  LET rrf == Rrf(r.lists, c)
  IN  [id |-> c, rrf |-> rrf, relevance |-> rrf, trust |-> Trust(r, c), reranked |-> FALSE, content |-> Span(c)]

SortKey(by, c) ==
  CASE by = "confidence" -> Confidence(c)
    [] by = "trust"      -> c.trust
    [] by = "relevance"  -> c.relevance
    [] by = "score"      -> c.rrf
\* The sort is stable: equal keys keep their fused order.
SortBy(s, by) == Descending(s, [k \in DOMAIN s |-> SortKey(by, s[k])])

\* trim_overlaps: every earlier chunk of the document covers its span, whether
\* it was kept or not; verbatim content loses what is covered, and goes when
\* only white space is left of it.
Earlier(s, k) == {j \in 1..(k - 1) : Doc(s[j].id) = Doc(s[k].id)}
Gaps(s, k)  == Span(s[k].id) \ UNION {Span(s[j].id) : j \in Earlier(s, k)}
Trims(s, k) == Chunks[s[k].id].aligned /\ Gaps(s, k) # Span(s[k].id)
Stays(s, k) == Gaps(s, k) # {} /\ (Trims(s, k) => ~(Gaps(s, k) \subseteq Blank))
Trimmed(s) ==
  [k \in DOMAIN s |-> IF Trims(s, k) THEN [s[k] EXCEPT !.content = Gaps(s, k)] ELSE s[k]]
Dedup(s) == Picked(Trimmed(s), {k \in DOMAIN s : Stays(s, k)})

----------------------------------------------------------------------------
\* Placement local asks the server for no rerank and for a deeper list in
\* fused order, whatever order it will show.
Reranks(r)   == r.placement = "server"
LimitOf(r)   == IF r.placement = "local" THEN Max({r.limit, RerankFetch}) ELSE r.limit
OrderOf(r)   == IF r.placement = "local" THEN "score" ELSE r.sort

SortKeys   == {"confidence", "trust", "relevance", "score"}
Placements == {"server", "local", "off"}
Docs == {Doc(c) : c \in Chunk}
ASSUME RankingAssumption ==
  /\ {RerankPool, RerankFetch} \subseteq Nat /\ Relevances \subseteq Nat
  /\ \A r \in Searches :
       /\ r.lists \in Seq(Chunk) \X Seq(Chunk)
       /\ \A f \in Facets : \A w \in r.wants[f] : w.version \subseteq RequestedVersions
       /\ \A doc \in Docs, f \in Facets : \A t \in r.targets[doc][f] : t.decl \in Constraints
       /\ r.trusts \in [Docs -> Nat] /\ r.floor \in Nat /\ r.limit \in Nat \ {0}
       /\ r.sort \in SortKeys /\ r.placement \in Placements

NotRequested == [applied |-> FALSE, reason |-> "not_requested"]
Applied      == [applied |-> TRUE, reason |-> "none"]
Degraded(why) == [applied |-> FALSE, reason |-> why]

Init ==
  /\ req \in Searches
  /\ phase = "retrieved" /\ scored = <<>> /\ early = FALSE
  /\ meta = NotRequested /\ ledger = "none" /\ local = "none" /\ page = <<>>

\* The fused candidates are scored in order; a row deleted since is skipped.
Score ==
  /\ phase = "retrieved"
  /\ \E gone \in {{}} \cup {{c} : c \in Elems(req.lists[1])} :
       LET fused == Fuse(req.lists)
           kept  == Picked(fused, {k \in DOMAIN fused : /\ fused[k] \notin gone
                                                        /\ Keeps(req.mode, Outcomes(req, fused[k]))})
       IN  scored' = [i \in DOMAIN kept |-> Candidate(req, kept[i])]
  /\ phase' = IF Reranks(req) THEN "pool" ELSE "finish"
  /\ UNCHANGED <<req, early, meta, ledger, local, page>>

\* The rerank's pool is in fused order, deduped so that nothing is paid twice.
Pool ==
  /\ phase = "pool"
  /\ scored' = Truncate(Dedup(SortBy(scored, "score")), Max({req.limit, RerankPool}))
  /\ early' = TRUE
  /\ phase' = "rerank"
  /\ UNCHANGED <<req, meta, ledger, local, page>>

Degrade(why) ==
  /\ meta' = Degraded(why)
  /\ phase' = "finish"
  /\ UNCHANGED <<req, scored, early, local, page>>

Disabled ==
  /\ phase = "rerank"
  /\ Degrade("disabled")
  /\ UNCHANGED ledger
NothingToRerank ==
  /\ phase = "rerank"
  /\ scored = <<>>
  /\ meta' = Applied
  /\ phase' = "finish"
  /\ UNCHANGED <<req, scored, early, ledger, local, page>>
Reserve ==
  /\ phase = "rerank"
  /\ scored # <<>>
  /\ ledger' = "reserved"
  /\ phase' = "voyage"
  /\ UNCHANGED <<req, scored, early, meta, local, page>>
Refused ==
  /\ phase = "rerank"
  /\ scored # <<>>
  /\ Degrade("token_budget_exhausted")
  /\ UNCHANGED ledger
\* Mutant: the reservation is left to its time-to-live.
VoyageFailsQuietly ==
  /\ phase = "voyage"
  /\ Degrade("provider_error")
  /\ UNCHANGED ledger
VoyageFails ==
  /\ phase = "voyage"
  /\ ledger' = "released"
  /\ Degrade("provider_error")

\* The connection goes while the handler waits for the answer: the reservation is
\* left to its time-to-live.
HandlerDropped ==
  /\ phase = "voyage"
  /\ phase' = "gone"
  /\ UNCHANGED <<req, scored, early, meta, ledger, local, page>>

\* A relevance for every candidate the provider answers about; nothing is asked
\* of the answer, an index it leaves out keeps the relevance it had.
Rescored(s, got) ==
  [i \in DOMAIN s |-> IF i \in DOMAIN got THEN [s[i] EXCEPT !.relevance = got[i], !.reranked = TRUE] ELSE s[i]]
VoyageAnswers ==
  /\ phase = "voyage"
  /\ \E D \in SUBSET DOMAIN scored : \E got \in [D -> Relevances] : scored' = Rescored(scored, got)
  /\ ledger' = "settled"
  /\ meta' = Applied
  /\ phase' = "finish"
  /\ UNCHANGED <<req, early, local, page>>

AboveFloor(s, floor) == Picked(s, {k \in DOMAIN s : Confidence(s[k]) >= floor})
Ordered(s) == SortBy(AboveFloor(s, req.floor), OrderOf(req))
\* Mutant: the overlaps are trimmed from the page, after the limit.
FinishTrimsThePage ==
  /\ phase = "finish"
  /\ page' = LET cut == Truncate(Ordered(scored), LimitOf(req)) IN IF early THEN cut ELSE Dedup(cut)
  /\ phase' = IF req.placement = "local" THEN "client" ELSE "shown"
  /\ UNCHANGED <<req, scored, early, meta, ledger, local>>
Finish ==
  /\ phase = "finish"
  /\ page' = Truncate(IF early THEN Ordered(scored) ELSE Dedup(Ordered(scored)), LimitOf(req))
  /\ phase' = IF req.placement = "local" THEN "client" ELSE "shown"
  /\ UNCHANGED <<req, scored, early, meta, ledger, local>>

\* The CLI orders by the reranker's score, the MCP server by the confidence it
\* recomputes with it.
LocalOrders == {"relevance", "confidence"}

\* The orders in which the provider may answer about the positions D.
AnswerOrders(D) == {order \in [1..Cardinality(D) -> D] : \A i, j \in DOMAIN order : i # j => order[i] # order[j]}
\* apply_rerank, rerank_postprocess: what was not answered about is dropped.
Reordered(s, got, order) == [k \in DOMAIN order |-> Rescored(s, got)[order[k]]]

\* The client reranks what it was given, or shows an empty page as it is; its
\* reranker's failure fails the search.
ClientReranks ==
  /\ phase = "client"
  /\ page # <<>>
  /\ \E D \in SUBSET DOMAIN page :
       \E got \in [D -> Relevances], order \in AnswerOrders(D), by \in LocalOrders :
         page' = Truncate(SortBy(Reordered(page, got, order), by), req.limit)
  /\ local' = "billed"
  /\ phase' = "shown"
  /\ UNCHANGED <<req, scored, early, meta, ledger>>
ClientShowsNothing ==
  /\ phase = "client"
  /\ page = <<>>
  /\ phase' = "shown"
  /\ UNCHANGED <<req, scored, early, meta, ledger, local, page>>
ClientRerankFails ==
  /\ phase = "client"
  /\ page # <<>>
  /\ phase' = "failed"
  /\ UNCHANGED <<req, scored, early, meta, ledger, local, page>>

Next ==
  \/ Score \/ Pool \/ Disabled \/ NothingToRerank \/ Reserve \/ Refused
  \/ VoyageFails \/ VoyageAnswers \/ HandlerDropped \/ Finish
  \/ ClientReranks \/ ClientShowsNothing \/ ClientRerankFails

Spec == Init /\ [][Next]_vars

----------------------------------------------------------------------------
\* The overlap dedup walks the candidates in one order and the page may show
\* them in another: no cell of a document is shown by two results whose content
\* is the document's text.
ShownOnce ==
  \A i, j \in DOMAIN page :
    /\ i # j
    /\ Doc(page[i].id) = Doc(page[j].id)
    /\ Chunks[page[i].id].aligned /\ Chunks[page[j].id].aligned
    => page[i].content \cap page[j].content = {}

Told(n, doc) == UNION {page[i].content : i \in {i \in 1..n : Doc(page[i].id) = doc}}

\* Without a rerank the floor, the order, the dedup and the limit together lose
\* no text: read from the top, a result and those above it show all it spans, and
\* a page that is not full shows every candidate above the floor, but for cells of
\* white space.
ReadsWhole ==
  phase = "shown" /\ req.placement = "off" =>
    /\ \A i \in DOMAIN page : Span(page[i].id) \ Blank \subseteq Told(i, Doc(page[i].id))
    /\ Len(page) < req.limit =>
         \A i \in DOMAIN scored :
           Confidence(scored[i]) >= req.floor =>
             Span(scored[i].id) \ Blank \subseteq Told(Len(page), Doc(scored[i].id))

\* What is shown, read from the top, is each text once and nothing less.
PageReads == ShownOnce /\ ReadsWhole

\* However much of a rerank is answered: a search pays for one at most, on the
\* server or at the client, and reports the server's when it was paid; a reservation
\* stays open only behind a handler that was dropped; no shown relevance comes from
\* a rerank that was not paid, and a client that paid shows nothing else.
PaidOnce ==
  /\ ledger = "reserved" => phase \in {"voyage", "gone"}
  /\ ledger = "settled" => meta.applied
  /\ meta.applied => ledger = "settled" \/ scored = <<>>
  /\ ~(ledger = "settled" /\ local = "billed")
  /\ \A i \in DOMAIN page :
       /\ page[i].reranked => ledger = "settled" \/ local = "billed"
       /\ local = "billed" => page[i].reranked

\* classify compares the two members nearest to each other across the gap, found by
\* stepping over excluded bounds, with carries up to the largest component: its class
\* is the best that any pair of versions which the two sides admit would have.  A
\* declaration that has no interval because a component overflows is never said to
\* miss.  Left out are ranges that meet only between two releases, and the caret of
\* 0.0, which the code reads as any 0.x and cargo as 0.0.x.
ClassIsBest ==
  phase = "retrieved" =>
    \A doc \in DOMAIN req.targets, f \in Facets :
      \A w \in req.wants[f], t \in req.targets[doc][f] :
        \A r \in w.version :
          LET cs    == t.decl.cs
              odd(c) == c.op = "caret" /\ c.maj = 0 /\ c.min = 0 /\ Partial(c)
              asked == IF r.at # {} THEN r.at ELSE Matched(r.cs)
              meant == Matched(cs)
              both  == asked \cap meant
              best  == IF both # {} THEN Satisfies
                       ELSE BestOf({MismatchClass(p[1], p[2]) : p \in asked \X meant})
              class == ClassFor(w, t.decl)
          IN  /\ w.name = t.name /\ cs # {} /\ Valid(r)
              /\ asked # {} /\ meant # {}
              /\ \A c \in cs \cup r.cs : ~odd(c)
              /\ Overlap(r, cs) => both # {}
              => IF FromReq(cs) = {} THEN class = Unknown \/ (class = Satisfies /\ both # {})
                                     ELSE class = best

=============================================================================
