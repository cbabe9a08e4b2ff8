------------------------------ MODULE Reading -------------------------------
(***************************************************************************)
(* Browsing the corpus while it changes: the cached overview of            *)
(* /v1/facets, the paged lists of facet values and of sources, and the     *)
(* reading of a document from a search hit onwards.  A reader holds no     *)
(* transaction: every statement sees the corpus as it is at that moment,   *)
(* and between two of them a version may be switched or deleted.           *)
(*                                                                         *)
(* What may happen to the versions is the abstract ServingPointer, which   *)
(* SourceVersions implements.  The three kinds of reading share nothing    *)
(* but the corpus, so a behaviour follows one of them.                     *)
(***************************************************************************)
EXTENDS Arrangements, SequencesExt

CONSTANTS
  Sources,      \* numbers, in the order of the slugs
  Versions, SourceOf, NoVersion,
  ValuesOf,     \* the values of one facet in a version; numbers, in their order
  Ready,        \* a version's document: for each chunk, that it has a vector
  Readers,      \* of the overview
  Starts,       \* what may be served, and listed, at the start
  Limit,        \* page size and count
  Ttl,          \* of the overview's cache, in ticks
  MaxChanges,   \* bound: changes to the corpus
  MaxFaults     \* bound: statements that fail

ASSUME ReadingAssumption ==
  /\ Sources \subseteq Nat /\ IsFiniteSet(Sources) /\ SourceOf \in [Versions -> Sources]
  /\ \A v \in Versions : ValuesOf[v] \subseteq Nat /\ IsFiniteSet(ValuesOf[v])
  /\ Ready \in [Versions -> Seq(BOOLEAN)]
  /\ NoVersion \notin Versions
  /\ \A start \in Starts :
       /\ start.listed \subseteq Sources
       /\ start.serving \in [Sources -> {NoVersion} \cup Versions]
       /\ \A s \in Sources : start.serving[s] \in {NoVersion} \cup {v \in Versions : SourceOf[v] = s}
  /\ Limit \in Nat \ {0} /\ Ttl \in Nat \ {0} /\ MaxChanges \in Nat /\ MaxFaults \in Nat

VARIABLES
  serving,      \* the version each source serves
  dead,         \* the versions whose rows are gone
  listed,       \* the sources with retired_at NULL
  task,         \* which reading this behaviour follows
  cache,        \* AppState::facets_cache: the body and its age
  overview,     \* per reader, its request for the overview
  walk,         \* a client that pages through a list
  doc,          \* a client that reads around a chunk
  changes, faults

corpus == <<serving, dead, listed, changes>>
readingVars == <<serving, dead, listed, task, cache, overview, walk, doc, changes, faults>>

Pointer == INSTANCE ServingPointer

Served == {serving[s] : s \in Sources} \ {NoVersion}
Values == UNION {ValuesOf[v] : v \in Served}

\* What a list offers at this moment.
Offers(list) == IF list = "sources" THEN listed ELSE Values

-----------------------------------------------------------------------------
(* The corpus.                                                              *)

\* The history of a walk: what was offered throughout, and what at any time.
Witness ==
  \E list \in {walk.list} :
    walk' = IF walk.pc = "done" THEN walk
            ELSE [walk EXCEPT !.always = @ \cap Offers(list)', !.ever = @ \cup Offers(list)']

Switch(v) == serving[SourceOf[v]] # v /\ Pointer!SwitchTo(v) /\ UNCHANGED listed
Delete(v) == v \notin dead /\ Pointer!Discard({v}) /\ UNCHANGED listed
Register(s) == s \notin listed /\ listed' = listed \cup {s} /\ UNCHANGED <<serving, dead>>
\* Its versions stay, and keep being served.
Retire(s) == s \in listed /\ listed' = listed \ {s} /\ UNCHANGED <<serving, dead>>

Change ==
  /\ changes < MaxChanges /\ changes' = changes + 1
  /\ \/ \E v \in Versions : Switch(v) \/ Delete(v)
     \/ \E s \in Sources : Register(s) \/ Retire(s)
  /\ Witness
  /\ UNCHANGED <<task, cache, overview, doc, faults>>

-----------------------------------------------------------------------------
(* The overview.  Its statements are grouped by what they read: the values  *)
(* of the served versions, the sources listed, and both for the rollups.    *)

Nothing == [values |-> {}, slugs |-> {}, rollups |-> <<{}, {}>>]
Now == [values |-> Values, slugs |-> listed, rollups |-> <<Served, listed>>]

Fresh == cache.age < Ttl

\* get_facets without a facet: a body that is fresh enough is the answer.
\* (The second form, in which asking keeps it fresh, is for the mutants.)
HitTouching(r) ==
  /\ cache' = [cache EXCEPT !.age = 0]
  /\ overview' = [overview EXCEPT ![r].shown = cache.body]
Hit(r) ==
  /\ UNCHANGED cache
  /\ overview' = [overview EXCEPT ![r].shown = cache.body]

Ask(r) ==
  /\ overview[r].pc = "idle"
  /\ \/ Fresh /\ Hit(r)
     \/ ~Fresh /\ overview' = [overview EXCEPT ![r].pc = "values"] /\ UNCHANGED cache

ReadPart(r) ==
  /\ \/ /\ overview[r].pc = "values"
        /\ overview' = [overview EXCEPT ![r].body.values = Values, ![r].pc = "slugs"]
     \/ /\ overview[r].pc = "slugs"
        /\ overview' = [overview EXCEPT ![r].body.slugs = listed, ![r].pc = "rollups"]
     \/ /\ overview[r].pc = "rollups"
        /\ overview' = [overview EXCEPT ![r].body.rollups = <<Served, listed>>, ![r].pc = "store"]
  /\ UNCHANGED cache

\* The body is stamped with the time it is stored, not with that of its reads.
Store(r) ==
  /\ overview[r].pc = "store"
  /\ cache' = [body |-> overview[r].body, age |-> 0]
  /\ overview' = [overview EXCEPT ![r].pc = "idle", ![r].shown = overview[r].body, ![r].body = Nothing]

\* A statement fails: 503, and nothing is stored.
Unavailable(r) ==
  /\ overview[r].pc \in {"values", "slugs", "rollups"}
  /\ faults < MaxFaults /\ faults' = faults + 1
  /\ overview' = [overview EXCEPT ![r].pc = "idle", ![r].body = Nothing]
  /\ UNCHANGED <<corpus, task, cache, walk, doc>>

Overview(r) ==
  /\ Ask(r) \/ ReadPart(r) \/ Store(r)
  /\ UNCHANGED <<corpus, task, walk, doc, faults>>

Tick ==
  /\ task = "overview" /\ Fresh
  /\ cache' = [cache EXCEPT !.age = @ + 1]
  /\ UNCHANGED <<corpus, task, overview, walk, doc, faults>>

-----------------------------------------------------------------------------
(* The lists.  A page is every row after the cursor, and one more to know   *)
(* whether there are others; the count before it is a statement of its own  *)
(* and is left out.                                                         *)

\* Plausible slip, for the mutants: pages by offset.
RowsByOffset(list, cursor, seen) ==
  SubSeq(InOrder(Offers(list)), Len(seen) + 1, Cardinality(Offers(list)))
Rows(list, cursor, seen) == InOrder({x \in Offers(list) : x > cursor})

Page ==
  /\ walk.pc = "walking"
  /\ LET rows == Truncate(Rows(walk.list, walk.cursor, walk.seen), Limit + 1)
         kept == Truncate(rows, Limit)
     IN  walk' = [walk EXCEPT !.seen = @ \o kept,
                              !.cursor = IF Len(rows) > Limit THEN Last(kept) ELSE @,
                              !.pc = IF Len(rows) > Limit THEN @ ELSE "done"]
  /\ UNCHANGED <<corpus, task, cache, overview, doc, faults>>

-----------------------------------------------------------------------------
(* A document.  A tool asks one or more requests about an anchor chunk; the *)
(* statements of different requests interleave.                             *)

Requests == [onward |-> {"next"}, back |-> {"prev"}, neighbours |-> {"prev", "chunk", "next"},
             window |-> {"window"}, parents |-> {"parents"}]
Todo(op) == [q \in Requests[op] |-> [st |-> "todo", rows |-> <<>>]]

Stored == doc.ver \notin dead
ReadyIn(v) == {i \in DOMAIN Ready[v] : Ready[v][i]}
After(v, at) == InOrder({i \in ReadyIn(v) : i > at})
Before(v, at) == InOrder({i \in ReadyIn(v) : i < at})
\* The window counts the chunks that are ready, not the positions.
Window(v, at) == LET ready == InOrder(ReadyIn(v)) IN SubSeq(ready, at, Len(ready))
LastOf(s, n) == SubSeq(s, IF n < Len(s) THEN Len(s) - n + 1 ELSE 1, Len(s))
Chain(v) == <<SourceOf[v]>>      \* the nodes up to the root

Wanted(q) ==
  CASE q = "next"    -> Truncate(After(doc.ver, doc.at), Limit)
    [] q = "prev"    -> LastOf(Before(doc.ver, doc.at), Limit)
    [] q = "chunk"   -> IF Ready[doc.ver][doc.at] THEN <<doc.at>> ELSE <<>>
    [] q = "window"  -> Truncate(Window(doc.ver, doc.at), Limit)
    [] q = "parents" -> Chain(doc.ver)

Answer(q, st, rows) == doc' = [doc EXCEPT !.req[q] = [st |-> st, rows |-> rows]]
Found(q) == IF Stored THEN Wanted(q) ELSE <<>>

\* get_with_context: a chunk without a vector is not found either.
GetChunk(q, then) ==
  Answer(q, IF Stored /\ Ready[doc.ver][doc.at] THEN then ELSE "missing",
            IF then = "done" THEN Found(q) ELSE <<>>)

\* ensure_chunk_exists, after the query came back empty.
AnyEmptyIsEnd(st) == "done"      \* plausible slip, for the mutants
EmptyMeans(exists) == IF exists THEN "done" ELSE "missing"

Statement(q) ==
  LET st == doc.req[q].st IN
  \/ /\ q \in {"next", "prev"} /\ st = "todo"
     /\ Answer(q, IF Found(q) = <<>> THEN "empty" ELSE "done", Found(q))
  \/ st = "empty" /\ Answer(q, EmptyMeans(Stored), <<>>)
  \/ q = "chunk" /\ st = "todo" /\ GetChunk(q, "done")
  \/ q = "parents" /\ st = "todo" /\ GetChunk(q, "found")
  \* list_chunks_window: the document, its source, then the chunks.
  \/ q = "window" /\ st = "todo" /\ Answer(q, IF Stored THEN "placed" ELSE "missing", <<>>)
  \/ st = "placed" /\ Answer(q, IF Stored THEN "found" ELSE "missing", <<>>)
  \/ st = "found" /\ Answer(q, "done", Found(q))

Conclude ==
  LET answered == \A q \in DOMAIN doc.req : doc.req[q].st = "done"
      page == doc.req[CHOOSE q \in DOMAIN doc.req : TRUE].rows
      more == doc.op \in {"onward", "back"} /\ page # <<>>
  IN  \/ /\ \E q \in DOMAIN doc.req : doc.req[q].st = "missing"
         /\ doc' = [doc EXCEPT !.pc = "failed"]
      \/ /\ answered /\ ~more
         /\ doc' = [doc EXCEPT !.pc = "answered"]
      \* The reader goes on from the last chunk it was shown, or the first.
      \/ /\ answered /\ more
         /\ doc' = [doc EXCEPT !.at = IF doc.op = "onward" THEN Last(page) ELSE Head(page),
                               !.read = IF doc.op = "onward" THEN @ \o page ELSE page \o @,
                               !.req = Todo(doc.op)]

Read ==
  /\ doc.pc = "asking"
  /\ Conclude \/ \E q \in DOMAIN doc.req : Statement(q)
  /\ UNCHANGED <<corpus, task, cache, overview, walk, faults>>

-----------------------------------------------------------------------------
ReadingInit ==
  /\ \E start \in Starts : serving = start.serving /\ listed = start.listed
  /\ dead = {}
  /\ task \in {"overview", "walk", "document"}
  /\ cache = [body |-> Nothing, age |-> Ttl]
  /\ overview = [r \in Readers |-> [pc |-> IF task = "overview" THEN "idle" ELSE "off",
                                    body |-> Nothing, shown |-> Nothing]]
  /\ \E list \in IF task = "walk" THEN {"values", "sources"} ELSE {"values"} :
       walk = [pc |-> IF task = "walk" THEN "walking" ELSE "done", list |-> list, cursor |-> -1,
               seen |-> <<>>, always |-> Offers(list), ever |-> Offers(list)]
  /\ \E op \in IF task = "document" THEN DOMAIN Requests ELSE {"window"} :
     \E v \in IF task = "document" THEN Versions ELSE {CHOOSE w \in Versions : TRUE} :
     \E at \in IF task = "document" THEN DOMAIN Ready[v] ELSE {1} :
       doc = [pc |-> IF task = "document" THEN "asking" ELSE "off", op |-> op, ver |-> v,
              start |-> at, at |-> at, read |-> <<>>, req |-> Todo(op)]
  /\ changes = 0 /\ faults = 0

ReadingNext ==
  \/ Change \/ Tick \/ Page \/ Read
  \/ \E r \in Readers : Overview(r) \/ Unavailable(r)

\* Readers of the overview keep asking, and time goes on.
ReadingSpec ==
  /\ ReadingInit /\ [][ReadingNext]_readingVars
  /\ WF_readingVars(Tick) /\ \A r \in Readers : WF_readingVars(Overview(r))

-----------------------------------------------------------------------------
(* Properties.                                                              *)

\* Once the corpus rests, every overview that is answered soon shows it as it
\* is: neither a body whose statements saw two states of the corpus, nor one
\* stored late by a request that began before the change, is shown for ever,
\* however often it is asked for.
OverviewCatchesUp ==
  <>[](task = "overview" => \A r \in Readers : overview[r].shown = Now)

\* A client that pages to the end has seen, once and in order, everything
\* that was offered the whole time, and nothing that never was, whatever was
\* added, removed or switched between its pages.
WalkExact ==
  task = "walk" /\ walk.pc = "done" =>
    /\ \A i \in 1..(Len(walk.seen) - 1) : walk.seen[i] < walk.seen[i + 1]
    /\ walk.always \subseteq ToSet(walk.seen)
    /\ ToSet(walk.seen) \subseteq walk.ever

\* An answer about a chunk's surroundings is complete: a reader who is told
\* that a document ends has read all of it, and the neighbours are those that
\* touch the anchor, although the version may be deleted between any two
\* statements.  The window and the chain of parents can come back empty then,
\* and only then.
EndIsTheEnd ==
  doc.pc = "answered" =>
    LET gone == doc.ver \in dead IN
    CASE doc.op = "onward" -> doc.read = After(doc.ver, doc.start)
      [] doc.op = "back"   -> doc.read = Before(doc.ver, doc.start)
      [] OTHER -> \A q \in DOMAIN doc.req :
                    \/ doc.req[q].rows = Wanted(q)
                    \/ doc.op \in {"window", "parents"} /\ gone /\ doc.req[q].rows = <<>>

\* Whoever follows a list or a document to where it is said to end missed nothing.
ReadersMissNothing == WalkExact /\ EndIsTheEnd
=============================================================================
