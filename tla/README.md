# A TLA+ model of midnight-manual

midnight-manual keeps a searchable corpus of documentation and code. A CLI walks a
source tree, embeds its chunks and uploads them, run by run, to a server; the server
keeps every run as a *version* of the source in Postgres and serves one version of
each source; readers search and browse through the CLI or an MCP server. This directory
models the parts of it in which order, concurrency and failure decide whether the result
is right, and the algorithms whose results a test can hardly enumerate. It checks them
with TLC on small instances, and proves with TLAPS, for every value of the constants, the
safety properties of the version table, the ingest runs, the two limiters, the override
cache, the logins, the corpus label, the administration, the search and the read routes.

`PROJECT.json` maps every definition to the lines it models. Paths below are relative to
the repository: SV is `crates/mnm-store/src/entities/source_version.rs`, AI
`crates/midnight-manual-server/src/routes/admin_ingest.rs`, RUN
`crates/midnight-manual/src/commands/ingest/run.rs`, and other files are named by their
last part.

## 1. Inventory

| Component | State | Operations | Hard because |
|---|---|---|---|
| Source versions (SV, `admin_versions.rs`) | table `source_version`: status, is_active, revision | create, finalize, promote (rollback), abort, retire, delete | several transactions of several statements at READ COMMITTED; a partial unique index |
| Source registry (`source.rs`, `admin_sources.rs`) | table `source` | create, update, soft delete | deletes cascade to all versions |
| Retention daemon (`jobs/source_retention.rs`) | none of its own | three deleting passes a tick | selects on a snapshot, deletes after lock waits |
| Ingest handlers (AI) | rows of `document` and `chunk` | start, upload, finalize, abort | an upload is many autocommitted statements, and reads the active version as it goes |
| CLI ingest pipeline (RUN, `ingest/plan.rs`) | the plan, the batches left, the conflicts | plan, embed, upload, split on 413, retry, finalize, abort | answers are lost or come out of order, the server acts on its own |
| Manifest, walker, filter, chunkers, planner (`mnm-content`) | none | select, read, chunk, group, plan | long chains of pure steps, each of which may drop a document or a line |
| Embedding clients (`mnm-embedding`) | none | embed, retry, order the answer | not idempotent; attached by position |
| Embedding token limiter (`tokenlimit.rs`) | minute and hour buckets and reservations per subject; site-wide window; snapshot table | reserve, settle, release, prune, snapshot, load | requests in flight, rolling windows, crashes |
| Embeddings route (`routes/embeddings.rs`) | a request's clock reading and reservation | reserve, call, settle or release, be cancelled | one clock reading used much later |
| Overrides (`ratelimit_override`, `tokenlimit_override`, admin routes) | two tables, a cache of each | set, delete, reread in the background | query and install are two steps, and overlap |
| Request rate limiter (`ratelimit.rs`, `middleware/rate_limit.rs`) | token buckets | charge, refund, reap | clock read outside the lock; refunds of a bucket that has changed |
| Login stores (`challenge.rs`, `oauth_state.rs`) and `auth.toml` | outstanding tickets; a file shared by all CLIs of a user | mint, consume once, evict; read, edit, rename | expiry, cap, two consumers; two writers |
| Corpus label (`corpus_model.rs`), proxy model, migration (`commands/models.rs`) | the active model, kept by the server | refresh on finalize, migrate source by source | read then install; rollbacks do not refresh; stops half way |
| Search (`routes/search.rs`, `mnm-retrieval`, `version_match.rs`, client rerank) | none | fuse, classify, score, rerank, dedup, cut | an order of pure steps, and a paid call among them |
| Read routes (`facets.rs`, `sources.rs`, `documents.rs`, `chunks.rs`) | a cached overview | overview, pages, neighbours, window, parents | several statements, with no transaction, over a corpus that moves |
| Injection scan | none | accept, reject, unavailable | decides whether a document is dropped |
| Tokens and roles (`commands/users.rs`, `keys.rs`, `auth_state.rs`, `middleware/bearer.rs`) | key files, `users.toml`, the deployed store, tokens in hand | generate, add, update, remove, deploy, log in, check | tokens outlive edits and deployments; two operators, one file, no lock |
| MCP server (`mnm-mcp`) | a session: the last answer and what it offers | tool calls, the guard, offers, retries | arguments are checked in three places; offers are built in a fourth |
| Observability, skills installer, telemetry, configuration | see `PROJECT.json` | | sequential, stateless or best effort |

How they interact: the CLI calls the handlers over HTTP; the handlers, the version
routes and the daemon share the tables; a finalize also refreshes the corpus label, which
searches are checked against; the CLI's embedding calls (when it has no key of its own)
and the readers' go through the embeddings route and so through the token limiter; the
rate limiter stands before every route; both limiters ask the override caches; a search
may reserve tokens for a rerank; readers see the versions switch and disappear. Logins
turn keys into the tokens that the admin routes ask for; an agent reaches search and the
read routes through the MCP server, which adds checks of its own and offers the next call.

The hazards in `PROJECT.json` list what is hard to test here, line by line, with the
properties that watch over it.

## 2. Modules

| Module | Models | Uses |
|---|---|---|
| `ServingPointer` | abstract: what a reader may rely on | |
| `SourceVersions` | version table, its transactions, retention daemon, source deletion | implements `ServingPointer` |
| `TokenLimiter` | limiter, embeddings handler, snapshot and boot | |
| `IngestRun` | CLI runs, the upload and finalize handlers, against rollbacks and sweeps | |
| `Manifest` | which files an ingest reads | |
| `Chunking` | what the chunkers make of a text | |
| `Uploads` | the plan of a run and its upload loop | `Manifest`, `Chunking` |
| `Tickets` | abstract: a single-use store | |
| `Login` | both logins, from the CLI to the stores and back to `auth.toml` | implements `Tickets` |
| `Overrides` | the two override tables and their caches | |
| `RateLimiter` | buckets, middleware, reaper | extends `Overrides` |
| `Corpus` | which model the corpus is served with; migration; search gate | |
| `VersionMatch` | version constraints and their classes | |
| `Arrangements` | filters, stable sorts and cuts of sequences, first-order | |
| `Ranking` | one search, from ranked lists to the page | extends `VersionMatch`, `Arrangements` |
| `Filters` | facet filters: which are valid, what they let through | extends `VersionMatch` |
| `Agent` | a session with the MCP server | extends `Filters`, `Arrangements` |
| `Reading` | the read routes over a moving corpus | extends `Arrangements`; environment: `ServingPointer` |
| `Administration` | keys, `users.toml`, deployments, tokens, the source registry | |
| `CollectionTheorems` | lemmas: induction, sums over finite sets, selections, sorts and flattened lists | `Arrangements` |
| `ServerProofs` | theorems about `SourceVersions` and `RateLimiter` | both; `CollectionTheorems` |
| `EmbeddingProofs` | theorems about `TokenLimiter` and `Corpus` | both; `CollectionTheorems` |
| `IngestRunProofs` | theorems about `IngestRun` | it |
| `UploadProofs` | theorems about `Manifest`, `Chunking` and `Uploads` | all three; `CollectionTheorems` |
| `AuthProofs` | theorems about `Login` and `Administration` | both |
| `ReadPathProofs` | theorems about `Arrangements`, `Ranking` and `Reading` | all three; `CollectionTheorems` |
| `AgentProofs` | theorems about `Agent` | it; `CollectionTheorems` |

`MC*` modules give constants, name the refinement for a cfg, and, in `MCTokenLimiter` and
`MCAdministration`, split an instance into scopes: each behaviour keeps to one, named at
its start, so that no scope pays for the freedom of the others.

Three compositions are by contract. `IngestRun` and `Corpus` take each lifecycle
transaction as one step, and `Reading` lets the corpus change only by the actions of
`ServingPointer`; `SourceVersions` justifies both by implementing `ServingPointer` (a
switch is one step, with no gap, whatever runs beside it). `IngestRun` takes any plan and
any split of a batch, which `Uploads` looks into.

### 2.1 SourceVersions

State: `status`, `rev`, `retention`, `life` are the columns; `lockedBy` the row locks;
`pc`, `target`, `newRev`, `rivals` a request's position and what it has read; `sweep`
and `doomed` the daemon's. `is_active` is folded into `status` because every statement
writes the two together and a CHECK ties them.

Every SQL statement is at least one action, and the semantics is Postgres's at READ
COMMITTED: a statement works on the snapshot it took (`rivals`, `doomed`), waits for a
locked row (the action is not enabled) and then re-checks its WHERE clause on the row it
got. The re-check of `id IN (SELECT id FROM eligible)` re-evaluates the subquery on the
statement's own snapshot, which is why a row that has become active is still deleted.
`finalize` and `promote_by_revision` are lock, scan, demote, promote, commit; a conflict
on `uniq_source_version_active` or a lost connection rolls them back (`Fail` stands for
driver errors, crashes and the victim of a deadlock). `create_building` reads
`MAX(revision)+1` and inserts; `retire_version` reads and then updates by id alone.
The daemon's tick is aged versions, aborted versions, retired sources.
Grace periods may be zero, so age never protects a row; a refused request is a
stuttering step; there is one daemon. A version identity is created once; the deletion
of the highest revision frees its number for the next create.

### 2.2 TokenLimiter

State: `minute` and `hour` buckets, reservations, `last_seen`, the site-wide window, the
snapshot table, the clock, and each request's call. Each method of the limiter is one
action, since it holds the usage mutex throughout. The handler is not atomic: it reads
the clock once, reserves, calls, and settles or releases (or is dropped at the call, and
then does neither). `snapshot_to_db` copies under the lock, writes row by row without it
and evicts under it again; a crash may come between any two of these, and boot loads what
was written. Missing buckets and subjects are zeros. The clock does not go backwards; `Tick`
keeps a call within its own timeout, which is independent of the reservation's TTL and, as
in the code, longer.
Several server instances on one database are out of scope, as in the code's own comments.

### 2.3 IngestRun

State: `status`, `model`, `docs` are versions and their document rows with the number of
chunk rows and the embedding space their vectors are in; `pc`, `run`, `tree`, `wanted`,
`carried`, `todo`, `conflict` the CLI's; `stage`, `batch`, `prior`, `listed`, `canCarry`,
`doc`, `copy`, `found` the upload handler's, `closing` the finalize handler's.

`Plan` reads the active inventory (or fails to, and everything is new) and fixes the
carried set. `Start` creates the version. The CLI then sends any partition of the new
documents, then of the carried ones without chunks, one batch at a time (`Send`); a lone
document that is too large is skipped (`SkipOversize`); documents the server refuses to
carry are sent again with chunks (`Advance` to "retry"). The handler checks the status
once (`CheckBuilding`), finds and lists the prior version (`FindPrior`, `ListPrior`),
reads the models of the version that is active *then* (`GateCarry`), and stores document
by document and chunk by chunk. Any of its statements may fail, the connection may be
lost at any of them (`GiveUp`, then the handler goes on or is dropped), and rollbacks and
sweeps may come at any step. `Finalize` follows the count guard. One `model` stands for
the pair of general and code models, which are compared together; a server only starts a
run under the name of the active model, so the models of one instance are revisions of a
name. `retire` and source deletion are left to `SourceVersions`.

### 2.4 Manifest, Chunking, Uploads

`Manifest` is `hierarchy.yaml` from validation to leaves: files named by `file:`, files
discovered under `path:` (less those named by the node's own children), and the filter's
ladder (`.git`, default skip-list, excludes, includes or known kinds, hidden names and
`.gitignore` below the walk root only). A manifest is a sequence of nodes after their
parents, a tree a sequence of files; what leaves inherit is left out.

`Chunking` has texts as lines with weights and heading levels. One greedy packer, `Pack`,
is what the markdown coalescer, the code splitter, the line windows, the context groups,
the request planners and the body packer have in common; each is an instance of it with
its own rule of what fits.

`Uploads` makes the plan (refused, carried, new, skipped) and then runs the loop of one
`mnm ingest run`: pack batches, group and embed, attach, code vectors, send, halve what is
too large. The provider's answers come with indices, in any order, or garbled; a request
may be refused, dropped, late, or too long for a window that counts tokens otherwise than
the client. `billed` counts what the provider has done, `lost` what was done and not
received. Carried documents go through `IngestRun`.

### 2.5 Tickets, Login

`Login` has the two stores (`store`, one map per kind, with cap and expiry), server
handlers that read the clock before a store's lock, the network in which requests may be
repeated, CLI invocations with a loopback port that the kernel may reuse, and `auth.toml`
with its one temporary name: read, edit, create, write, rename are steps, and a CLI may be
killed at each. `Tickets` says what a single-use store owes: `open` is what the stores
hold and `used` what was accepted; mint may lose older entries, accept consumes one.

### 2.6 Overrides, RateLimiter

`Overrides` is one of two tables at a time ("rate" and "token"), which differ in what they
name and in that only the token routes reread after a change. `reading` is what a query
returned and is not yet installed. `RateLimiter` adds buckets, requests with the limit and
the key resolved once, clock readings taken before the lock, the refund of a search over
its cap, the premium of a multi-query one, the charge of an invalid bearer, and the
reaper. Token counts are in ticks of a second, so that the f64 arithmetic is exact.

### 2.7 Corpus

`versions` are the active and former versions with their model, the space their vectors
are really in and the time of their ingest; `label` is the server's copy of the active
model, `proxy` the model it booted with; `run`, `drive` and `ask` are the ingest CLIs, the
migration loop and a search client. Label refreshes are a read and an install. The history
variables `crossed`, `drifted` and `excused` record the events that properties exempt
(section 6 says which the code leaves open).

### 2.8 VersionMatch, Ranking

`VersionMatch` turns comparators into intervals as the code does, with a top component that
stands for `u64::MAX`, and classifies pairs. `Ranking` follows a request through fusion,
the version decision, scoring, the server's rerank with its reservation, floor, order, overlap
dedup and limit, then the client's own rerank. The reranker answers for any part of what it
was sent, in any order, or fails; the server leaves what it did not answer for as it was,
the clients drop it; a handler may be dropped at the call. A confidence is
trust times relevance; chunks of one document share provenance; a row may be deleted while
the search runs. `retain`, `sort_by` and `truncate` are the operators of `Arrangements`:
a selection is given by a set of positions and a sort by a key for each position, where
the library's take an operator, about which nothing could be proved.

### 2.9 Reading

Three kinds of reading share only the corpus, so a behaviour follows one (`task`): the
overview with its cache (three groups of statements, stamped when stored, the last writer
wins), a paged walk, and reading around a chunk. The CLI's neighbours are three GETs in
turn, the MCP server's three at once; both orders are covered. Pages are one statement of
rows; their counts and filters are left out.

### 2.10 Filters, Agent

`Filters` is the validation of a filter object, the SQL predicates as sets, and the
version decision that follows them. `Agent` is a session: a call is rewritten (the
aliases of parameters), checked by the tool, defaulted, checked again by the server,
answered, passed through the content guard, and answered with offers of further calls.
The agent makes a first call from a large set, right and wrong ones, and from then on
follows an offer or repeats a call it may repeat. `reply` holds what was shown and what is
offered, `walk` the windows or chunks of a reading so far. A document may be swept and a
call may fail. Words of a query and of a chunk are sets; a cursor counts what was shown.

### 2.11 Administration

`key` and `printed` are what `mnm keys generate` leaves on disk and on the terminal,
`userStore` is `users.toml`, `edit` an operator's command between its read and its rename,
`draft` the one temporary file of all commands. A save is three steps (`OpenDraft`
truncates, `WriteDraft` writes all or a part, `Install` renames) between which others run
and the command may be interrupted; `edit[o].at` says where the file that o has open is
now: at the temporary name, at the store's since another renamed it, or gone. A file is
its rows, or `Hollow` (empty), or `Torn` (a mixture). `byHand` is the fact that a row was
once pasted, `crossed` that a draft was truncated which another had open. A deployment boots the server with a copy
of the file (or leaves it down), and may rotate the signing secret. `held` are tokens,
`job` a request from the bearer check over the role gate to its statements: create and
its readback, update, retire (a read, then an update by slug), and the sweep of retired
sources. `lastAdmin` is history: when the running server last had that user as an admin.
Signatures cannot be forged; a login is one step, as `Login` has its parts.

## 3. Runs

In each run every action fires and every interesting conflict occurs. States are distinct.

| Run | Instance | Shows |
|---|---|---|
| `source_versions` | 1 source, 3 versions, 2 requests, the daemon, retention 1 or 2 (129,000) | `AtMostOneActive`; finalizes, rollbacks and retirements never wait for each other in a circle (`NoLockCycle`); no step of a switch leaves a gap (`NoServingGap`); a version is swept only while as many newer ones remain as the smallest retention count allows (`SweepKeepsWindow`); `ImplementsPointer` |
| `active_never_swept` | the same | a violation, section 6 |
| `token_limiter` | two scopes: 2 subjects and 3 requests in one process; 1 subject and 2 requests with 2 crashes; calls of up to two instants, reservations of one (816,000) | admissions never overshoot an hourly, daily or site ceiling counting what is in flight, but by calls that have outlived their reservation (`NoOvershoot`); every refusal is explained by usage or live reservations (`RefusalJustified`); ledgers equal what was settled (`LedgersExact`); a call in flight has its reservation until that is older than the TTL (`InFlightReserved`); a snapshot and a load never charge an hour twice (`NeverOvercharged`); durable counts do not go down (`DurableMonotone`) |
| `ingest_run` | 1 CLI, 2 paths, 3 trees, 2 models, 2 earlier versions, 2 chunks a document, 1 failing statement, 2 rollbacks or sweeps (756,000) | `Accounted`: a finalized version has one document per walked path with the content walked, but for intentional drops (`NothingVanishes`), documents readable without all their chunks were reported (`DamageIsReported`), and when nothing fails or is switched every readable document is complete and in its version's space (`CompleteUndisturbed`); readable versions do not change (`SnapshotImmutable`); a started run ends (`RunEnds`) |
| `uploads` | every text of up to four lines in three kinds; 10 lists of one to three documents, own key and proxy, with and without code vectors; 48 manifests over one tree of 8 files, 4 settings of the filter; 2 failing requests (98,600) | `ChunksTile`; `StoredRight` (`VectorsAligned`: each chunk has its own vector; `EveryDocumentOnce`: from the manifest to the server no document is lost or doubled); `NothingBilledTwice`; `UploadEnds` |
| `login` | 2 CLI invocations, 2 handlers, 3 tickets, stores of 2, 1 port, 1 restart (1,191,000) | one token per ticket (`OneTokenPerTicket`), to its own CLI (`OwnToken`); `ImplementsTickets`; a full store evicts the login closest to its end (`EvictionIsFair`); writers of `auth.toml` that do not overlap land whole (`SerialWritesLand`) |
| `rate_limiter` | either table of overrides: 2 nested blocks and a user, 2 operators, 2 changes, 1 failed reread, 1 restart; on the rate table 2 requests of four kinds of caller (1,101,000) | `WorkIsBounded`: one burst plus the rate, per key; `OverridesApply` (`InnermostWins`: the most specific block decides; `LoneChangeTakesEffect`: an undisturbed change is in the cache when it is answered); `CacheCatchesUp` |
| `corpus` | 2 sources, 3 models of 2 names, an ingest and a migration, 1 rollback, 1 fault (1,593,000) | `SameSpace`, `OneName`, `LabelSettles` |
| `ranking` | 4 chunks of 2 documents, every pair of 5 lists, all orders and placements, every partial answer of the reranker; every requested version or comparator over components 0, 1, MAX against every declared comparator and every interval between two excluded versions (335,000) | `PageReads` (`ShownOnce`: no text twice on a page; `ReadsWhole`), `PaidOnce` (what is marked as reranked was paid, by one side only; a client that paid shows nothing else), `ClassIsBest` |
| `reading` | 3 sources, 3 versions with holes in their vectors, 2 readers, pages of 2, 2 changes, 1 failed statement, 2 starting corpora (807,000) | `ReadersMissNothing` (`WalkExact`, `EndIsTheEnd`), `OverviewCatchesUp` |
| `agent` | 3 documents, hundreds of first calls of all tools, two levels of the guard, 1 sweep, 1 failing call (37,400) | an offered call is not refused (`CallsLand`); following the offers leads to what the relaxed filters hide (`RecoveryFinds`); windows and walks cover what they read (`WindowsCover`) |
| `administration` | three scopes: two operators at one file and one draft; a token through edits and deployments; two handlers at one source and its sweep (363,000) | `AuthorityIsRecent`; `EditedStoreBoots`: a file that only commands wrote boots, interrupted ones and lost updates included, unless two drafts crossed; `RetirementStands` |

**Bounds and why they are enough.** Three versions and two requests suffice for every pair
of transactions and for a third row as the rival; a third request only adds another
waiter. Token windows of two minutes and two hours still roll over within the instance,
and five instants are enough to settle in a later minute and a later hour than the
reservation's, and after the reservation is gone. Two paths give a carried, a changed and a removed document next to one
another; two chunks tell complete, partial and chunk-less apart; two switches allow a
rollback that demotes the prior version followed by its sweep. Four lines hold a section
with a subsection, a window with a remainder and a blank between two items. In `uploads`
the limits are such that three documents need two requests, a document of six lines needs
three groups, and a pair of bulky documents is above the body limit that their estimates
were below; the tree has one file for each rule of the filter, of the walker and of the
planner. Two CLIs and two handlers are every pair of consumers of a ticket and of writers
of a file; with two entries a store is full when a third login comes. One bit of address
gives a block inside another. One override and two requests make a bucket shared, resized,
reaped and refunded. Two sources are a migration with a place to stop; two revisions of
one name and a second name are what the guards tell apart. Versions of components 0, 1 and
MAX reach both ends of the carrying and borrowing of bounds. Pages of two with a
look-ahead row, over lists of up to five, have a full page, a partial one and an empty one.
In `agent` one document fits the version asked for, one fits another and one declares none;
every rung of the ladder of offers is alone and together with another in some filter; the
guard flags a chunk first, last and alone on a window. Two operators, two drawn keys and
two deployments are a token that outlives an edit, a deployment and a rotation; two
handlers are every pair of retirements.

**Fairness.** `ingest_run`: weak fairness of each run's process, that is of "some step of
the CLI or of its handlers"; the CLI is a sequential program whose requests time out, so
it always gets an answer or gives up, and nothing is assumed of which. `uploads`: weak
fairness of the next-state relation, for the same reason. `rate_limiter`: of the background
loop (a spawned task that outlives its failures) and of an admin request that has begun to
reread (a handler that runs to its end); not of operators. `reading`: of the clock, and of
each reader, who asks again. No fairness is assumed of operators, of the daemon, of
rollbacks or of faults; the other runs check safety only.

`CHECK_DEADLOCK FALSE` is set where a behaviour may be over: the clock stops at its bound,
or every run, login or page is done. `source_versions` and `corpus` check deadlock.

## 4. Theorems

For all constants that satisfy the named assumptions; no finiteness of sets of requests,
subjects or versions is assumed beyond those. Every safety property of the runs
`source_versions`, `token_limiter`, `ingest_run`, `uploads`, `login`, `rate_limiter`,
`corpus`, `administration`, `reading` and `agent` is a theorem, and so are those of
`ranking` but for `ClassIsBest`, and the two refinements. Each strengthening was also checked as an
invariant by TLC; the numbers of states are given where that run is not one of section 3.

### 4.1 Source versions

`TypeCorrect`, `InductiveInvariant`, `OneActive`, `DeadStayDead`, `NoDeadlock`, `NoGap`, `PointerRefinement`, `SweepInvariant`, `WindowStays`. At most one active version
is not inductive by itself: what excludes a second one is the locks and the unique index.
`IInv` adds `LockDiscipline` (a request inside a transaction owns the lock of its target,
whose status is still one it may promote, and of nothing but the active row it demotes)
and `IndexDiscipline` (at most one transaction of a source has passed the index check,
and it then owns every active row of the source). From these the commit step
is a switch of `ServingPointer` and every other step is a discard or a stutter; `NoGap`
and the refinement follow from the lemma that only a commit activates. `DeadStayDead` is
the part of the pointer's promise that `Reading` rests on.

`NoDeadlock` (`NoLockCycle`) is about finalizes, rollbacks and retirements. In a circle
nobody has demoted or promoted yet (`NoneWaitsRound`), so each waits for a row that
another is about to promote; but the last of them to scan chose active rows only, and the
targets of the others were not active (`NoRivalCycle`). The sweep is outside of it: it
locks rows in no order, and a circle with it is broken by Postgres (`Fail`).

`WindowStays` (`SweepKeepsWindow`) rests on `SweepWindow`: beside each row chosen by the
sweep stay as many newer rows, not chosen, as the smallest retention count. At the scan
that is a fact about numbers (`Highest`: of more than k rows with different revisions, k
are above all others, and these the window spares); afterwards nothing but this sweep
deletes a row that the window numbers. It needs that revisions differ and that finitely
many rows are stored, which are invariants. TLC has it on two sources as well (808,000).

### 4.2 Token limiter

| Theorem | Hypothesis on the constants | the code's values |
|---|---|---|
| `TypeCorrect`, `NoOvercharge`, `Pending`, `RefusalsJustified` | none | |
| `InductiveInvariant`, `ReservationsHeld` | `IdleOutlastsTimeouts`: two calls within the idle time | 240 <= 86400 |
| `Ledgers`, `LedgersAreExact` | `IdleOutlastsHour`: window and a call within the idle time | 3600 + 120 <= 86400 |
| `NeverOvershoots` | both of the above | |
| `Durable` | `IdleOutlastsCalls`: an hour and two calls within the idle time | 3600 + 240 <= 86400 |
| `DurableCounts` | that, and `TableOutlastsDay`: snapshot rows kept for the day window | 23 <= 25 |

The TTL of a reservation is any number in all of them. `IInv` has the deadlines (an open
call is younger than its timeout), the reservation of each call in flight that is not older
than the TTL, what a process that is down holds in memory (nothing), and the bound
on charges. The ledgers rest on `PInv` and `LInv`: each minute and hour holds at most, and
while it is live at least, the sum of what the requests that read the clock in it settled,
and who settled lately was seen lately. The durable counts rest on `DInv`: the table and
the rows about to be written are behind memory, but for hours in which nothing can settle
any more.

### 4.3 Ingest runs

`InductiveInvariant`, `TypeCorrect`, `RunsAccounted` (`Accounted`), `ReadableIsImmutable`
(`SnapshotImmutable`), for any number of runs of one source, paths, chunks, faults and
switches; assumed are finite sets of runs and paths, and that there is a model and a tree.
`IInv` says of each run

- `Owns`: it has a version of its own, under the model it asked for, and `Apart`: no two
  runs have the same;
- `Ordered`: an upload is being handled only until finalize is sent, and finalize only
  until the version is readable: this alone is why readable versions do not change;
- `Paced`: a path is sent once while its outcome is open, and again only if the server
  refused to carry it;
- `Stocked`: a path has at most one row, with the content walked, and none while it is
  still to be stored or known to have been dropped (`Unstored`);
- `Heard`: the CLI has heard, or will hear with the answer, of every row without all its
  chunks;
- `Counted`: the count that finalize checked stays what it was;

and with `OneActive`, `Begun` and, for `CompleteUndisturbed`, `Smooth`: as long as nothing
fails or is switched, what the upload handler reads of the prior version is whole.

The count is what makes the guard of finalize enough: the rows of a version are one for
each path of a subset of the walked paths less the intentional drops; their number is the
number of those paths; hence they are all of them. A step of one run leaves the variables
of the others alone, and of their versions what `Endures` says, so that each conjunct is
proved once for the run that acts and once for all that rest. TLC has `IInv` on the
instance of the run and on one with two runs at once (2,437,000). An earlier form of
`Stocked` had a last disjunct that took in the whole implication and made it hold for
free; TLC could not tell, and the proof of the step did not go through.

### 4.4 Logins

`TicketInvariant`, `TypeCorrect`, `OneToken`, `OwnTokens`, `FairEviction`,
`TicketsRefined` (`ImplementsTickets`), `SerialWrites`. `TicketInv` (1,246,000) joins the
shapes with `OneLife` (an id is drawn once, is in at most one store, is accepted at most
once, and only an accepted one yields a token), `OneHolder` (an id accepted by a handler
that is in its exchange is held by no other handler, and not granted yet) and `Ownership`
(whoever speaks of an id speaks of the invocation it was minted for). `SerialFiles` is the
invariant of `auth.toml` while no two writers overlap: one writer, a whole file, a copy
that is the edit of what the file still holds.

### 4.5 Overrides and rate limiter

`OverridesInvariant`, `InnermostAndFresh` (`OverridesApply`), `RateInvariant`,
`RateTypes`, `WorkBounded`. `OverridesInv`: rows are sound wherever they are held, and an
admin request that nobody disturbed has read, and then installed, no less than its own
change; that the block that wins is inside every other is arithmetic of prefixes.
`RateInv`: what a key has paid and what its bucket has left are within the highest limit
over the time its charges have seen (`Balanced`), with the shapes of requests and buckets.

### 4.6 Corpus

`CorpusInvariant`, `SearchesAlike` (`SameSpace`), `NamedAlike` (`OneName`), `LabelFollows`
(`LabelSettles`). Their `CorpusInv` adds that an unfinished run holds a version of its own,
which is still building (`HoldsBuilding`); that, unless runs have crossed, the run of a
held version found the corpus under its own name, or empty (`StartedInName`); that, unless
the proxy has drifted, it has embedded with one model only, the one served (`OneProxy`);
and that a search holds versions that were served under its label (`HitsServed`).
`CorporaAssumption` is what the earlier life of an installation leaves: finalized versions
only, each in its own model's space.

### 4.7 Administration

`AuthorityInvariant`, `RecentAuthority`, `Retirements`, `EditedStores`. Each admin token,
wherever it is, belongs to somebody whom the server had as an admin no longer than its
life before it expires (`AuthorityInv`); as long as no row was pasted by hand, the file,
and whatever an operator is about to write, are stores that boot (`StoreInv`), which is
why lost updates do no more harm than losing an update. That holds as long as no drafts
have crossed (`crossed`), and then because of `OneDraft`: at most one command is between
its truncation and its rename, and what is at the temporary name is its own.

### 4.8 Search

`SearchInvariant`, `SearchPaidOnce` (`PaidOnce`), `SearchPageReads` (`PageReads`), over
`DedupApart` and `DedupReads`. Assumed of a request is its shape only: two lists of
chunks, any wants, targets and trusts. `SearchInv` joins the types with

- `Staged`: what each stage has behind it; a reservation is open in the stage "voyage" and
  where the handler was dropped there, a client's bill exists on a page with placement
  local and on no other;
- `Billed`: the response says what was paid; no item is marked as reranked that nobody paid
  for (`Owed`), and of a page that a client paid for every item is (`Answered`). An answer
  may leave out any of the candidates (`Reordered`);
- `Texts`: until the dedup has run every candidate has its whole span (`Whole`), after it
  no two verbatim candidates of a document share a cell (`Apart`).

`PaidOnce` follows from the first two. For `PageReads` every step between the lists and
the page is a drawing (`Drawn`): items of the earlier sequence at different positions. A
filter, a stable sort and a cut are drawings, and drawings keep `Whole` and `Apart`. The
dedup is not: it changes contents. `DedupApart` is that the later of two has lost the span
of the earlier. `DedupReads` is that nothing but white space is lost on the way down: of
the candidates of a document that span a cell take the first (`Least`); no earlier one
covers the cell, so it stays, and shows it. That the cut comes after the dedup is what
makes the second half of `ReadsWhole` true; its mutant is the other order. The sorts rest
on `Sorts`: a listing by counting predecessors puts every position in exactly one place,
for every strict total order (`Arranged`), and the order by key and then position is one.

### 4.9 Reading

`ReadersInvariant`, `NothingIsMissed` (`ReadersMissNothing`), for any corpus with finitely
many sources and values of a version, and any number of changes. Of a walk it says
(`Walks`) that what it has seen is increasing and at or below its cursor, was offered at
some time, and has all that was offered throughout up to the cursor; a page takes the
least of what is offered now above the cursor, so no change of the corpus between two
pages, and none at the look-ahead row, can disturb that. Of a document (`DocInv`):

- `Worth`: an answer that is done has exactly the rows that were wanted, except that a
  window or a chain may be empty for a version that is gone; and one that is empty, and
  not yet looked into, was asked at the document's end or of a version that is gone.
  Versions that are dead stay dead (`DeadStayDead` of 4.1), so what the second look finds
  stored was stored when the first look came back empty: this is why the end is the end;
- `ReadSoFar`: what was read is the listing of the ready chunks between where the reading
  began and where it is.

An empty page then says that nothing is left beyond, so the listing read is that of
everything beyond the start, and `SameRuns` (two increasing listings of one set are equal)
makes it the sequence the property names.

### 4.10 Uploads

`UploadsInvariant`, `ChunksAlwaysTile` (`ChunksTile`), `AlwaysStoredRight` (`StoredRight`),
`NeverBilledTwice` (`NothingBilledTwice`), for any set of runs: any tree and manifest, any
texts, any limits, any answers of the provider and the server. `UploadsInv` is that the
plan was refused and nothing was done, or

- `PlanInv`, `SkippedInv`: every file found is in exactly one place of the plan (a
  document to send, carried, or skipped for a reason), and every document's chunks tile
  its text;
- `OnceInv`: what is stored, what was skipped as too large for the server and what is
  still waiting in the loop part the documents that can be sent, each in one and once;
- `AttachedInv`: the vectors received, then the texts of the calls outstanding, are the
  chunks of the batch in their order; once attached, a document has its own vectors, and
  none of the second kind before its turn. `StoredInv` is what then reaches the server;
- `PaidInv`: a chunk was paid for no more often than its place in the loop allows, beyond
  the answers that were lost: not at all while its batch is to come, once more as its call
  is answered, twice only for code with code vectors.

An earlier form was checked on all states of the run. The steps rest on four arguments
about data:

- *Covers.* A sequence of runs covers `low..high` when they follow one another without gap
  or overlap. The greedy packer covers what it packs (`ChainCovers`, for any rule of what
  fits); merging neighbours and flattening covers of parts give covers; dropping runs
  that are blank leaves a tiling up to white space. The three chunkers are built of these
  (`ChunksTileText`), and so are the batches, groups and requests (`BatchesFlat`,
  `RequestsFlat`): concatenated again they are the list that was split.
- *Places.* In a flattened list every item is from one place of one part, and conversely
  (`FlatPlaces`): the names of the chunks of a batch differ, so the vectors are handed
  out by position to the documents they belong to (`DistributeIs`).
- *Order restored.* An answer with every index once, sorted by index, is the answer in
  the order of the texts (`VectorsAre`); any other is rejected before it is attached.
- *Halving.* The two halves of a call, or of a body, put in its place keep the
  concatenation (`SmallerIs`, `HalvedIs`), so `OnceInv` and `AttachedInv` survive retries.

### 4.11 Agent

`AgentInvariant`, `CallsLandHolds` (`CallsLand`), `WindowsCoverHolds` (`WindowsCover`),
`RecoveryFindsHolds` (`RecoveryFinds`), for any corpus, any first calls that have the shape
of JSON (`Typed`), any limits of the tools, any guard levels, sweeps and failures. The one
limit assumed is that the tools take the five ids a search offers to fetch (the code's is
20). The invariant has two parts.

- *Offers* (`Answers`). Every offer of the last answer `Lands`: it needs no rewriting, the
  tool accepts it, the server does not refuse it, and an id it names is of the corpus. For
  each tool it is shown which offers its answer can hold, and for each form of offer that
  it lands whatever it is made of: chunks from a page that may be empty, a cursor, sample
  values of a facet, filters of which one facet or every version was dropped, which stay
  valid. The exceptions are those that `CallsLand` names.
- *The walk* (`WalkHolds`). There is a place `to` such that what the walk has shown is all
  that the guard lets through between its start and `to` (and exactly these chunks, if
  none was lost), and what it offers next begins there (`GoesOn`, `GoesBack`, `GoesBy`:
  forward, backward, by windows); and it offers nothing only at the end of the document, or
  of a page that was removed. The content guard removes what it likes in the middle of a
  page: `to` is then the last chunk shown, or the count of those shown, and what lies beyond
  it on the page is shown again or removed again, but never passed over.

`RecoveryFinds` needs one fact more (`Emptied`): an answer without results, of which the
guard removed nothing, is that of a search the server accepted and that finds nothing now,
sweeps only taking away; and it offers everything `AfterNothing` has for it. The rest is
about the ladder alone. Whatever a search finds, the same search by default settings finds
(`OfferFinds`), so at the foot of the ladder, without dated facets and versions, there are
results. Each rung leads to filters with the same foot and one dated facet less, or to the
foot itself (`FirstRung`, `NextRung`), and no search on the way that is empty is without a
rung. There are three dated facets, so four rungs below the first are enough
(`LadderFinds`); the model follows six.

### 4.12 How sums and sequences are proved, and what is not

Ledgers and work are sums over finite sets, that is recursions, and an induction theorem
that takes an operator cannot be used. `CollectionTheorems` does without: the sizes for
which a claim holds are a set of naturals, the naturals are well ordered, and a set that
contains zero and successors is all of them. What follows (a sum with one member more or
less, or changed; sums of disjoint parts; monotonicity) is what the two limiters need. The
listings of section 4.8, and the chains and flattenings of section 4.10, are found by the
same means: a recursive function is stated by the equation it solves (`Links`, `Divides`),
its solution shown to exist, and the set of the places from which the claim holds to be
all of them.

Only model-checked:

- liveness (`RunEnds`, `UploadEnds`, `CacheCatchesUp`, `OverviewCatchesUp`), which is out
  of the prover's reach, as is fairness;
- `ClassIsBest`, which holds of the components 0, 1 and MAX by enumeration of every
  request with every declared comparator and interval: the best class of any two members is a minimum over a product of three
  components, eight operators and two sides, with the arithmetic of carries in each case.

## 5. Mutants

Each property of a passing run has a mutated definition next to the one it replaces,
marked there as a mutant: a lost guard, a missing wait, a window
that overlaps, a retry of what must not be retried, and so on. With it in place TLC finds
the property violated.

## 6. Disagreements found

With a run:

1. `active_never_swept`: `sweep_aged_inactive` can delete a version that a rollback made
   active after the sweep's snapshot, against SV:264 "The active version of each source is
   never swept".

Reached by the models, where the property next to each leaves exactly that case out:

2. `retire_version` tests `is_active` in one statement and retires in the next, so it can
   retire a version that became active in between (`admin_versions.rs:158`).
3. Reservations live 60 seconds, embedding calls up to 120 (`mnm-embedding`,
   `voyage.rs:11`), although `tokenlimit.rs:65` says that a call takes at most 30 and that
   anything older has leaked: the reservation of a slow call is pruned, and other requests
   are admitted into its place. In the model calls outlive their reservations;
   `NoOvershoot` and `InFlightReserved` speak of those that have not (`Timely`), so that
   the ceilings are overshot by the others and by nothing else.
4. A slow request that settles after a newer one moves `last_seen_secs` back, and the
   snapshot then evicts a subject whose usage still counts (`tokenlimit.rs:604`); with the
   idle time of a day it takes a call that long.
5. A chunk insert that fails leaves its document row; the count guard agrees, the CLI looks
   at accidental conflicts only after a re-embed retry, and the run is finalized, although
   RUN:2052 calls it "an accidental drop that must still abort the run".
   `DamageIsReported` holds all the same.
6. Carrying from a version that is demoted and swept during the upload stores a document
   without chunks, against AI:1092 "a chunk-less document is never inserted"; the same gap
   between two reads of the active version lets vectors of another model be carried.
7. Two writers of `auth.toml` that overlap share one temporary name: one can rename the
   other's empty file into place, or undo the other's section, although
   `auth_file.rs:132` claims that a reader never sees a torn file.
8. `^0.0` becomes [0.0.0, 1.0.0), where cargo has [0.0.0, 0.1.0) (`version_match.rs:387`;
   `ClassIsBest` leaves it out). A caret or tilde at the largest component overflows and
   has no interval: a version it admits is satisfied, any other is of unknown class
   (`version_match.rs:314`), never a near miss; `ClassIsBest` says so. Ranges that meet only between two adjacent releases are
   classed as satisfied.
9. A document window and the chain of parents can come back empty, as if there were
   nothing, for a version deleted between their statements (`documents.rs`,
   `routes/chunks.rs`); the pages around a chunk have a second look that tells the two
   apart (`chunk.rs:384`).
10. The label: `promote_version` does not refresh it, though `corpus_model.rs:3` says it
    follows the active model, so that clients get 409 until the next finalize or restart;
    two overlapping refreshes can install the older value. `mnm models migrate` to another
    name stops at its first source with 409, though docs/README-deploy.md:415 says it
    re-ingests in batch; and after a migration that deactivates, the list of sources not
    on the target is empty. The proxy is sent no model, so chunks embedded through it
    while the label has moved on are labelled wrongly for good.
11. Overlapping `path:` nodes: `path:` discovery leaves out what the node's own children
    name and nothing else, so a file under two nodes is resolved twice; `validate` and
    `manifest check` accept the manifest and the planner stops with `DuplicatePath`, whose
    comment says that the manifest validator should have caught it (`ingest/plan.rs:174`).
12. Rerank: `ReadsWhole` holds without one only, as the overlap dedup runs before a rerank
    that orders the candidates anew. A search whose rerank fails keeps confidences on the
    scale of rank fusion. `VoyageReranker` checks neither the number nor the indices of an
    answer (`voyage.rs:334`): of a partial one the server says `applied: true`, also when
    it rescored nothing, and mixes the two scales on one page (`search.rs:1190`), whereas
    the clients drop what was not answered. A handler dropped at the call leaves its
    reservation to the TTL. The CLI's local rerank orders by the reranker's score, the
    server's and the MCP client's by confidence, though `rerank.rs:4` says the same search
    reranks the same way wherever it is done.
13. The overview: of two bodies computed at once the later writer wins, which may be the
    older; the comment that the bodies are equivalent holds only while nothing changes.
    `OverviewCatchesUp` is what remains true.
14. A chunk above the group limit (a single long line, a breadcrumb on a full chunk) can
    overflow alone and ends the run, though RUN:1605 says that it never can. The proxy
    turns an answer that cannot be read into 502, which its client retries and pays again;
    a caller with a key of its own stops.
15. Documents carried while other runs finalize: with three runs a document can take
    vectors of another model though nothing failed and no operator switched, as the two
    reads of the active version may each find another run's (`admin_ingest.rs:596`);
    `CompleteUndisturbed` speaks of vectors for a run that is alone.
16. Ingest asks for the admin role (AI:918, `can_admin`), though `role.rs:22`, README.md:475
    and docs/README-deploy.md:169 say that writers ingest. A rollback without a revision
    promotes the highest inactive one, README.md:551 says the previous active one. A
    create whose readback fails answers 503 although the row exists, so a retry is told
    409; an update does not look at `retired_at`.
17. `keys generate --dry-run` prints the public half of a key that is kept nowhere; who
    registers it cannot log in. `mnm users` takes no lock, so overlapping edits lose one
    another, and reads files that the server then refuses to boot with. All commands write
    through one `users.toml.tmp`: one that truncates it between the write and the rename
    of another has the other install an empty or a partial file, which no server boots
    with, though `users.rs:199` says that readers never see a half-written intermediate.
    `EditedStoreBoots` leaves out the behaviours in which that happened (`crossed`).
18. The MCP server's offers (`render.rs`): a window of which the guard removed everything
    is offered again for ever (1659), and a list of chunks of which it removed everything
    is told "No more chunks" (1347); the next page of sources drops the filters (1739);
    the sample value for a facet of objects is a string, which the server refuses (1803);
    a search emptied by filters that no rung relaxes is offered nothing. A blank query
    passes the tool (`tools.rs:1666`) and the CLI sends `fts` with a code mode, and both
    are refused by the server. Under `strict` the SQL compares names with their case,
    the classification does not (`search.rs:1905`). Bad parameters of the lists come back
    as a retryable CLOUD_ERROR, while EMBEDDING_MODEL_MISMATCH is not retryable though a
    retry would fetch the model anew; AUTH_FAILED says to log in, but the token is read at
    the start of the process.

Seen while reading, in code that is not modelled: `manifest generate` hoists a common URL
prefix bottom-up through groups as well (`generate.rs:238`), which drops the groups' own
path segment from the URLs that `resolve` composes later.

A run that the CLI reports as aborted may have been finalized, when only the answer was
lost; the model contains this behaviour and no document denies it.

## 7. Plan

Done: every module of section 2 with its run, and the theorems of section 4.
Left, in this order:

1. `VersionMatch`: that the representatives of two intervals are nearest to each other,
   the half of `ClassIsBest` that is arithmetic alone.
2. Frontmatter and the preprocessing of documents, as far as they decide whether a
   document is dropped.

## 8. Not modelled

Frontmatter, preprocessing and license detection (text transformations); what a manifest
leaf inherits, and `manifest generate` with its crawl of sitemaps; the SQL of the search
halves beyond its filters, and the scoring of provenance and freshness; the signatures of
tokens; the heuristics of the injection scan; MCP framing, prompts and the wording of
answers; the skills installer, which
one process runs from the start again; telemetry; argument parsing and configuration.
They are sequential and share no state, and their results are data that the properties
above do not tell apart. Much of the repository by lines is of this kind, or is unit tests
inside the source files. Hardware and database faults below a failed statement or a lost
connection are not modelled either: a committed row stays. Several server processes on one
database are out of scope, as the code's comments say of its in-memory stores.
