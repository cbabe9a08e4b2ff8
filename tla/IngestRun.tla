----------------------------- MODULE IngestRun -----------------------------
(***************************************************************************)
(* One source's ingest runs: the CLI of `mnm ingest run`, which plans      *)
(* against the active version, uploads new and carried documents in        *)
(* batches, re-embeds what the server refuses to carry and asks for the    *)
(* run to be finalized; and the server's upload, finalize and abort        *)
(* handlers, statement by statement, while rollbacks and the retention     *)
(* sweep change which versions exist and which one is active.              *)
(*                                                                         *)
(* No upload is a transaction: a document row and each of its chunk rows   *)
(* is a statement of its own.  The lifecycle statements (promote, abort,   *)
(* delete) are atomic here; SourceVersions models their inside.  A version *)
(* carries one model, which stands for the pair of its general and code    *)
(* embedding models.  The version created by a run is its ingest_run_id.   *)
(***************************************************************************)
EXTENDS Integers, Sequences, FiniteSets

CONSTANTS
  Clis,         \* invocations of `mnm ingest run` on the source
  Paths, Hashes, Models,
  NoDoc,        \* the absent document
  Trees,        \* the source trees a CLI may walk
  NChunks,      \* chunks of a document
  Retention,    \* retention_count of the source
  Past,         \* versions that earlier runs have left
  Histories,    \* the trees those runs may have walked
  MaxFaults,    \* bound: statements that fail while a document is stored
  MaxSwitches   \* bound: rollbacks and sweeps

ASSUME CountAssumption ==
  /\ NChunks \in Nat \ {0} /\ Retention \in Nat \ {0}
  /\ Past \in Nat /\ MaxFaults \in Nat /\ MaxSwitches \in Nat
  /\ IsFiniteSet(Clis) /\ IsFiniteSet(Paths)

ASSUME TreeAssumption ==
  /\ NoDoc \notin Hashes /\ Models # {} /\ Trees # {}
  /\ Trees \subseteq [Paths -> Hashes \cup {NoDoc}]
  /\ Histories \subseteq [1..Past -> Trees]

VARIABLES
  status,       \* source_version.status, by version
  model,        \* its embedding model
  docs,         \* its document rows, by path, with their chunk rows
  pc,           \* where each CLI is
  run,          \* its version, 0 before it has one
  tree,         \* the tree it walked
  wanted,       \* the model of its run
  carried,      \* plan.carried_documents
  todo,         \* documents of the current phase not sent yet
  conflict,     \* the conflicts it has accumulated, by path
  stage,        \* where the server's handler of its upload is
  batch,        \* documents of that upload not handled yet
  carrying,     \* whether they are sent without chunks, to be carried
  prior,        \* the version whose documents the handler lists, 0 if none
  listed,       \* prior_by_path
  canCarry,     \* can_carry
  doc,          \* the document it is storing
  copy,         \* the chunks it stores for it
  found,        \* the conflicts of its answer
  closing,      \* where the server's handler of its finalize is
  faults, switches

versions == <<status, model>>
plan     == <<run, tree, wanted, carried>>
sending  == <<todo, conflict>>
reading  == <<prior, listed, canCarry>>
storing  == <<batch, carrying, doc, copy, found>>
upload   == <<stage, reading, storing>>
bounds   == <<faults, switches>>
vars == <<versions, docs, pc, plan, sending, upload, closing, bounds>>

Versions  == 1..(Past + Cardinality(Clis))
Row       == [hash : Hashes, chunks : 0..NChunks, space : Models]
Payload   == [chunks : 0..NChunks, space : Models]
Conflicts == {"none", "reembed", "intentional", "failed"}
Uploading == {"new", "carry", "retry"}
Phases    == {"idle", "planned", "finalize", "finalizing", "done", "aborting", "failed"}
               \cup Uploading
Stages    == {"none", "sent", "checked", "found", "listed", "next", "copy", "insert", "chunks"}
Statuses  == {"absent", "building", "active", "inactive", "aborted", "deleted"}
NoRows     == [p \in Paths |-> <<>>]
NoneFound  == [p \in Paths |-> "none"]
NoneListed == [p \in Paths |-> NoDoc]
SomeModel  == CHOOSE m \in Models : TRUE
Nothing    == [chunks |-> 0, space |-> SomeModel]
StoredDocument(h, m) ==
  IF h = NoDoc THEN <<>> ELSE <<[hash |-> h, chunks |-> NChunks, space |-> m]>>

Walked(c) == {p \in Paths : tree[c][p] # NoDoc}
Active    == {v \in Versions : status[v] = "active"}
LastRow(rows) == rows[Len(rows)]
RowCount(v)   == Cardinality(UNION {{p} \X DOMAIN docs[v][p] : p \in Paths})

TypeOK ==
  /\ status \in [Versions -> Statuses]
  /\ model \in [Versions -> Models]
  /\ docs \in [Versions -> [Paths -> Seq(Row)]]
  /\ pc \in [Clis -> Phases]
  /\ run \in [Clis -> Versions \cup {0}]
  /\ tree \in [Clis -> Trees] /\ wanted \in [Clis -> Models]
  /\ carried \in [Clis -> SUBSET Paths]
  /\ todo \in [Clis -> SUBSET Paths]
  /\ conflict \in [Clis -> [Paths -> Conflicts]]
  /\ stage \in [Clis -> Stages]
  /\ batch \in [Clis -> SUBSET Paths] /\ carrying \in [Clis -> BOOLEAN]
  /\ prior \in [Clis -> Versions \cup {0}]
  /\ listed \in [Clis -> [Paths -> Hashes \cup {NoDoc}]]
  /\ canCarry \in [Clis -> BOOLEAN]
  /\ doc \in [Clis -> Paths \cup {NoDoc}]
  /\ copy \in [Clis -> Payload]
  /\ found \in [Clis -> [Paths -> Conflicts]]
  /\ closing \in [Clis -> {"none", "sent", "counted"}]
  /\ faults \in 0..MaxFaults /\ switches \in 0..MaxSwitches

\* Earlier runs have left complete versions; at most one of them is active
\* (none on a new source, or after a migration that deactivates them all).
Init ==
  /\ \E cur \in 0..Past :
       status = [v \in Versions |-> IF v > Past THEN "absent"
                                    ELSE IF v = cur THEN "active" ELSE "inactive"]
  /\ \E m \in [1..Past -> Models], t \in Histories :
       /\ model = [v \in Versions |-> IF v > Past THEN SomeModel ELSE m[v]]
       /\ docs = [v \in Versions |-> [p \in Paths |->
                    IF v > Past THEN <<>> ELSE StoredDocument(t[v][p], m[v])]]
  /\ pc = [c \in Clis |-> "idle"]
  /\ run = [c \in Clis |-> 0]
  /\ tree = [c \in Clis |-> CHOOSE t \in Trees : TRUE]
  /\ wanted = [c \in Clis |-> SomeModel]
  /\ carried = [c \in Clis |-> {}] /\ todo = [c \in Clis |-> {}]
  /\ conflict = [c \in Clis |-> NoneFound]
  /\ stage = [c \in Clis |-> "none"] /\ closing = [c \in Clis |-> "none"]
  /\ prior = [c \in Clis |-> 0] /\ listed = [c \in Clis |-> NoneListed]
  /\ canCarry = [c \in Clis |-> FALSE]
  /\ batch = [c \in Clis |-> {}] /\ carrying = [c \in Clis |-> FALSE]
  /\ doc = [c \in Clis |-> NoDoc]
  /\ copy = [c \in Clis |-> Nothing] /\ found = [c \in Clis |-> NoneFound]
  /\ faults = 0 /\ switches = 0

-----------------------------------------------------------------------------
(* The CLI, up to the first upload.                                        *)

\* embed_complete: the chunks of a document that are there to see, at least
\* one of them, all have their vectors.
EmbedComplete(rows) == rows # <<>> /\ LastRow(rows).chunks > 0

\* The inventory of the active version, by path; none when there is no such
\* version.
ActiveDocuments ==
  UNION {{[path |-> p, row |-> LastRow(docs[v][p]), model |-> model[v]]
            : p \in {q \in Paths : EmbedComplete(docs[v][q])}} : v \in Active}

\* fetch_prior_state drops an inventory of another model.
Inventory(c) ==
  {d.path : d \in {d \in ActiveDocuments :
                     d.model = wanted'[c] /\ d.row.hash = tree'[c][d.path]}}

\* The CLI walks its tree and classifies what it finds.  When the inventory
\* cannot be had, or the models differ, every document is new.
Plan(c) ==
  /\ pc[c] = "idle"
  /\ \E t \in Trees : tree' = [tree EXCEPT ![c] = t]
  /\ \E m \in Models : wanted' = [wanted EXCEPT ![c] = m]
  /\ \E known \in {Inventory(c), {}} : carried' = [carried EXCEPT ![c] = known]
  /\ pc' = [pc EXCEPT ![c] = "planned"]
  /\ UNCHANGED <<versions, docs, run, sending, upload, closing, bounds>>

\* start_ingest_run: a building version under the models of the run.
NewRun(c, v) ==
  /\ status[v] = "absent"
  /\ \A w \in Versions : w < v => status[w] # "absent"
  /\ status' = [status EXCEPT ![v] = "building"]
  /\ model' = [model EXCEPT ![v] = wanted[c]]

\* What is sent with chunks, what without, and what again with chunks.
NewUploads(c)     == Walked(c) \ carried[c]
CarriedUploads(c) == carried[c] \cap Walked(c)
ReembedUploads(c) == {p \in CarriedUploads(c) : conflict[c][p] = "reembed"}

\* The source exists by now; the new documents go first.
Start(c) ==
  /\ pc[c] = "planned"
  /\ \E v \in Versions : NewRun(c, v) /\ run' = [run EXCEPT ![c] = v]
  /\ todo' = [todo EXCEPT ![c] = NewUploads(c)]
  /\ pc' = [pc EXCEPT ![c] = "new"]
  /\ UNCHANGED <<docs, tree, wanted, carried, conflict, upload, closing, bounds>>

-----------------------------------------------------------------------------
(* The CLI's uploads.  A batch, and what a 413 splits it into, is any part *)
(* of the documents of the phase.                                          *)

Send(c) ==
  /\ pc[c] \in Uploading
  /\ stage[c] = "none"
  /\ \E B \in SUBSET todo[c] :
       /\ B # {}
       /\ batch' = [batch EXCEPT ![c] = B]
       /\ todo' = [todo EXCEPT ![c] = @ \ B]
  /\ carrying' = [carrying EXCEPT ![c] = pc[c] = "carry"]
  /\ stage' = [stage EXCEPT ![c] = "sent"]
  /\ UNCHANGED <<versions, docs, pc, plan, conflict, reading, doc, copy, found,
                 closing, bounds>>

\* A document that gets a 413 on its own is skipped.
SkipOversize(c) ==
  /\ pc[c] \in Uploading
  /\ stage[c] = "none"
  /\ \E p \in todo[c] :
       /\ todo' = [todo EXCEPT ![c] = @ \ {p}]
       /\ conflict' = [conflict EXCEPT ![c][p] = "intentional"]
  /\ UNCHANGED <<versions, docs, pc, plan, upload, closing, bounds>>

Conflicted(c, kinds) == {p \in Paths : conflict[c][p] \in kinds}

\* Mutant, not part of the specification: the next phase before the answer.
PhaseOverEarly(c) == todo[c] = {}

PhaseOver(c) == todo[c] = {} /\ stage[c] = "none"

\* The next phase: the carried documents, then those the server refused to
\* carry, then finalize.  Only after a retry do accidental drops block.
Advance(c) ==
  /\ PhaseOver(c)
  /\ \/ /\ pc[c] = "new"
        /\ pc' = [pc EXCEPT ![c] = "carry"]
        /\ todo' = [todo EXCEPT ![c] = CarriedUploads(c)]
        /\ UNCHANGED conflict
     \/ /\ pc[c] = "carry" /\ Conflicted(c, {"reembed"}) # {}
        /\ pc' = [pc EXCEPT ![c] = "retry"]
        /\ todo' = [todo EXCEPT ![c] = ReembedUploads(c)]
        /\ conflict' = [conflict EXCEPT ![c] =
             [p \in Paths |-> IF @[p] = "reembed" THEN "none" ELSE @[p]]]
     \/ /\ \/ pc[c] = "carry" /\ Conflicted(c, {"reembed"}) = {}
           \/ pc[c] = "retry" /\ Conflicted(c, {"reembed", "failed"}) = {}
        /\ pc' = [pc EXCEPT ![c] = "finalize"]
        /\ UNCHANGED sending
     \/ /\ pc[c] = "retry" /\ Conflicted(c, {"reembed", "failed"}) # {}
        /\ pc' = [pc EXCEPT ![c] = "aborting"]
        /\ UNCHANGED sending
  /\ UNCHANGED <<versions, docs, plan, upload, closing, bounds>>

\* An embedding call fails, a request times out, an answer is lost: the CLI
\* gives up.  The server's handler, if there is one, goes on by itself.
GiveUp(c) ==
  /\ pc[c] \in Uploading \cup {"finalizing"}
  /\ pc' = [pc EXCEPT ![c] = "aborting"]
  /\ UNCHANGED <<versions, docs, plan, sending, upload, closing, bounds>>

\* Mutant, not part of the specification: the abort is sent again until the
\* server marks the run.
AbortUntilMarked(c) ==
  /\ pc[c] = "aborting" /\ status[run[c]] = "building"
  /\ pc' = [pc EXCEPT ![c] = "failed"]
  /\ status' = [status EXCEPT ![run[c]] = "aborted"]
  /\ UNCHANGED <<model, docs, plan, sending, upload, closing, bounds>>

\* The server's abort of a building version.
MarkAborted(v) ==
  /\ status[v] = "building"
  /\ status' = [status EXCEPT ![v] = "aborted"]

\* The best-effort abort: the server marks the version, or refuses, or never
\* hears of it (the CLI is killed, the request is lost).
Abort(c) ==
  /\ pc[c] = "aborting"
  /\ pc' = [pc EXCEPT ![c] = "failed"]
  /\ MarkAborted(run[c]) \/ UNCHANGED status
  /\ UNCHANGED <<model, docs, plan, sending, upload, closing, bounds>>

-----------------------------------------------------------------------------
(* The server's upload handler.                                            *)

Waiting(c) == pc[c] \in Uploading

\* The handler ends without an answer the CLI can use.
EndUpload(c) ==
  /\ stage' = [stage EXCEPT ![c] = "none"]
  /\ prior' = [prior EXCEPT ![c] = 0]
  /\ listed' = [listed EXCEPT ![c] = NoneListed]
  /\ canCarry' = [canCarry EXCEPT ![c] = FALSE]
  /\ batch' = [batch EXCEPT ![c] = {}] /\ carrying' = [carrying EXCEPT ![c] = FALSE]
  /\ doc' = [doc EXCEPT ![c] = NoDoc]
  /\ copy' = [copy EXCEPT ![c] = Nothing]
  /\ found' = [found EXCEPT ![c] = NoneFound]

\* check_embedded_batch, check_code_embedded_batch: vectors come under the name
\* of the run's models.
VectorsFit(c) == carrying[c] \/ wanted[c] = model[run[c]]

CheckBuilding(c) ==
  /\ stage[c] = "sent"
  /\ status[run[c]] = "building"
  /\ VectorsFit(c)
  /\ stage' = [stage EXCEPT ![c] = "checked"]
  /\ UNCHANGED <<versions, docs, pc, plan, sending, reading, storing, closing, bounds>>

\* The version is no longer building, or a statement fails: an error answer.
RefuseUpload(c) ==
  /\ stage[c] \in {"sent", "checked", "found", "listed", "next"}
  /\ EndUpload(c)
  /\ pc' = [pc EXCEPT ![c] = IF Waiting(c) THEN "aborting" ELSE @]
  /\ UNCHANGED <<versions, docs, plan, sending, closing, bounds>>

\* The connection is gone, or the server stops: the handler's future is
\* dropped at the statement it awaits.
DropUpload(c) ==
  /\ stage[c] # "none"
  /\ ~Waiting(c)
  /\ EndUpload(c)
  /\ UNCHANGED <<versions, docs, pc, plan, sending, closing, bounds>>

\* prior_active_documents: the active version, then its documents.
FindPrior(c) ==
  /\ stage[c] = "checked"
  /\ prior' = [prior EXCEPT ![c] = IF Active = {} THEN 0 ELSE CHOOSE v \in Active : TRUE]
  /\ stage' = [stage EXCEPT ![c] = "found"]
  /\ UNCHANGED <<versions, docs, pc, plan, sending, listed, canCarry, storing,
                 closing, bounds>>

ListPrior(c) ==
  /\ stage[c] = "found"
  /\ listed' = [listed EXCEPT ![c] = [p \in Paths |->
       IF prior[c] = 0 \/ docs[prior[c]][p] = <<>> THEN NoDoc
       ELSE LastRow(docs[prior[c]][p]).hash]]
  /\ stage' = [stage EXCEPT ![c] = "listed"]
  /\ UNCHANGED <<versions, docs, pc, plan, sending, prior, canCarry, storing,
                 closing, bounds>>

\* can_carry, on the version that is active now.
GateCarry(c) ==
  /\ stage[c] = "listed"
  /\ canCarry' = [canCarry EXCEPT ![c] = \E v \in Active : model[v] = model[run[c]]]
  /\ stage' = [stage EXCEPT ![c] = "next"]
  /\ UNCHANGED <<versions, docs, pc, plan, sending, prior, listed, storing,
                 closing, bounds>>

\* classify_upload.  A document asked to be carried is carried only if it is
\* listed with its hash and the models agree.
Decision(c, p) ==
  IF ~carrying[c] THEN "insert"
  ELSE IF listed[c][p] = tree[c][p] /\ canCarry[c] THEN "carry" ELSE "reembed"

\* The scan of a document sent with chunks: accepted, without the model's
\* score if that cannot be had and the policy fails open, or refused.
Scan == {"accept", "refuse"}

Classify(c) ==
  /\ stage[c] = "next"
  /\ \E p \in batch[c], scan \in Scan :
       \/ /\ Decision(c, p) = "carry"
          /\ doc' = [doc EXCEPT ![c] = p]
          /\ stage' = [stage EXCEPT ![c] = "copy"]
          /\ UNCHANGED <<batch, copy, found>>
       \/ /\ Decision(c, p) = "insert" /\ scan = "accept"
          /\ doc' = [doc EXCEPT ![c] = p]
          /\ copy' = [copy EXCEPT ![c] = [chunks |-> NChunks, space |-> wanted[c]]]
          /\ stage' = [stage EXCEPT ![c] = "insert"]
          /\ UNCHANGED <<batch, found>>
       \/ /\ Decision(c, p) = "reembed" \/ (Decision(c, p) = "insert" /\ scan = "refuse")
          /\ found' = [found EXCEPT ![c][p] =
                         IF carrying[c] THEN "reembed" ELSE "intentional"]
          /\ batch' = [batch EXCEPT ![c] = @ \ {p}]
          /\ UNCHANGED <<stage, doc, copy>>
  /\ UNCHANGED <<versions, docs, pc, plan, sending, reading, carrying, closing, bounds>>

\* list_for_carry_forward: the chunks of the listed document that exist now.
ReadChunks(c) ==
  /\ stage[c] = "copy"
  /\ copy' = [copy EXCEPT ![c] =
       LET rows == docs[prior[c]][doc[c]]
       IN IF rows = <<>> THEN [@ EXCEPT !.chunks = 0]
          ELSE [chunks |-> LastRow(rows).chunks, space |-> LastRow(rows).space]]
  /\ stage' = [stage EXCEPT ![c] = "insert"]
  /\ UNCHANGED <<versions, docs, pc, plan, sending, reading, batch, carrying, doc,
                 found, closing, bounds>>

\* document::insert and chunk::insert.  Nothing keeps a path from having two
\* rows.
NewDocument(rows, h, m) == Append(rows, [hash |-> h, chunks |-> 0, space |-> m])
NewChunk(rows)          == [rows EXCEPT ![Len(rows)].chunks = @ + 1]

InsertDocument(c) ==
  /\ stage[c] = "insert"
  /\ status[run[c]] # "deleted"
  /\ docs' = [docs EXCEPT ![run[c]][doc[c]] =
                NewDocument(@, tree[c][doc[c]], copy[c].space)]
  /\ stage' = [stage EXCEPT ![c] = "chunks"]
  /\ UNCHANGED <<versions, pc, plan, sending, reading, storing, closing, bounds>>

Stored(c) == LastRow(docs[run[c]][doc[c]]).chunks

InsertChunk(c) ==
  /\ stage[c] = "chunks"
  /\ status[run[c]] # "deleted"
  /\ Stored(c) < copy[c].chunks
  /\ docs' = [docs EXCEPT ![run[c]][doc[c]] = NewChunk(@)]
  /\ UNCHANGED <<versions, pc, plan, sending, upload, closing, bounds>>

\* On to the next document of the batch.
NextDocument(c) ==
  /\ batch' = [batch EXCEPT ![c] = @ \ {doc[c]}]
  /\ doc' = [doc EXCEPT ![c] = NoDoc]
  /\ copy' = [copy EXCEPT ![c] = Nothing]
  /\ stage' = [stage EXCEPT ![c] = "next"]

Accept(c) ==
  /\ stage[c] = "chunks"
  /\ status[run[c]] # "deleted" => Stored(c) = copy[c].chunks
  /\ NextDocument(c)
  /\ UNCHANGED <<versions, docs, pc, plan, sending, reading, carrying, found,
                 closing, bounds>>

\* Mutant, not part of the specification: the failure is only logged.
InsertFailsQuietly(c) ==
  /\ stage[c] \in {"copy", "insert", "chunks"}
  /\ \/ status[run[c]] = "deleted" /\ UNCHANGED faults
     \/ faults < MaxFaults /\ faults' = faults + 1
  /\ NextDocument(c)
  /\ UNCHANGED <<versions, docs, pc, plan, sending, reading, carrying, found, closing,
                 switches>>

\* A statement of insert_new_document or carry_forward_one fails: what it has
\* stored of the document stays, and the document is reported as a conflict.
InsertFails(c) ==
  /\ stage[c] \in {"copy", "insert", "chunks"}
  /\ \/ status[run[c]] = "deleted" /\ UNCHANGED faults
     \/ faults < MaxFaults /\ faults' = faults + 1
  /\ found' = [found EXCEPT ![c][doc[c]] = "failed"]
  /\ NextDocument(c)
  /\ UNCHANGED <<versions, docs, pc, plan, sending, reading, carrying, closing,
                 switches>>

Respond(c) ==
  /\ stage[c] = "next"
  /\ batch[c] = {}
  /\ EndUpload(c)
  /\ conflict' = IF Waiting(c)
                 THEN [conflict EXCEPT ![c] =
                         [p \in Paths |-> IF found[c][p] = "none" THEN @[p] ELSE found[c][p]]]
                 ELSE conflict
  /\ UNCHANGED <<versions, docs, pc, plan, todo, closing, bounds>>

-----------------------------------------------------------------------------
(* Finalize.                                                               *)

SendFinalize(c) ==
  /\ pc[c] = "finalize"
  /\ pc' = [pc EXCEPT ![c] = "finalizing"]
  /\ closing' = [closing EXCEPT ![c] = "sent"]
  /\ UNCHANGED <<versions, docs, plan, sending, upload, bounds>>

\* expected_document_total: everything planned but the intentional drops.
Expected(c) == Cardinality(Walked(c)) - Cardinality(Conflicted(c, {"intentional"}))

\* Mutant, not part of the specification: a finalize without the guard.
CountAgreesAlways(c) == TRUE

CountAgrees(c) == RowCount(run[c]) = Expected(c)

EndFinalize(c) ==
  /\ closing' = [closing EXCEPT ![c] = "none"]
  /\ pc' = [pc EXCEPT ![c] = IF @ = "finalizing" THEN "aborting" ELSE @]

CountDocuments(c) ==
  /\ closing[c] = "sent"
  /\ status[run[c]] \notin {"aborted", "deleted"}
  /\ CountAgrees(c)
  /\ closing' = [closing EXCEPT ![c] = "counted"]
  /\ UNCHANGED <<versions, docs, pc, plan, sending, upload, bounds>>

\* The counts differ: the handler aborts the run and answers with an error.
CountDiffers(c) ==
  /\ closing[c] = "sent"
  /\ status[run[c]] \notin {"aborted", "deleted"}
  /\ ~CountAgrees(c)
  /\ status' = [status EXCEPT ![run[c]] = IF @ = "building" THEN "aborted" ELSE @]
  /\ EndFinalize(c)
  /\ UNCHANGED <<model, docs, plan, sending, upload, bounds>>

\* The run is over: the CLI logs the conflicts that are left and reports them.
Succeed(c) == pc' = [pc EXCEPT ![c] = IF @ = "finalizing" THEN "done" ELSE @]

\* source_version::finalize, and its answer.
Finalize(c) ==
  /\ closing[c] = "counted"
  /\ status[run[c]] = "building"
  /\ status' = [v \in Versions |-> IF v = run[c] THEN "active"
                                   ELSE IF v \in Active THEN "inactive" ELSE status[v]]
  /\ closing' = [closing EXCEPT ![c] = "none"]
  /\ Succeed(c)
  /\ UNCHANGED <<model, docs, plan, sending, upload, bounds>>

\* The run was aborted, or a statement fails, or the handler is dropped.
FinalizeFails(c) ==
  /\ closing[c] # "none"
  /\ EndFinalize(c)
  /\ UNCHANGED <<versions, docs, plan, sending, upload, bounds>>

-----------------------------------------------------------------------------
(* Rollbacks and the retention daemon.                                     *)

Rollback ==
  /\ switches < MaxSwitches
  /\ \E v \in Versions :
       /\ status[v] = "inactive"
       /\ status' = [w \in Versions |-> IF w = v THEN "active"
                                        ELSE IF w \in Active THEN "inactive" ELSE status[w]]
  /\ switches' = switches + 1
  /\ UNCHANGED <<model, docs, pc, plan, sending, upload, closing, faults>>

Kept(v) == Cardinality({w \in Versions : w >= v /\ status[w] \in {"active", "inactive"}})
             <= Retention

\* A pass of the daemon deletes the versions that its grace period lets go:
\* of the inactive ones outside the window, or of the aborted ones.  They take
\* their documents and chunks with them (ON DELETE CASCADE).
Sweep ==
  /\ switches < MaxSwitches
  /\ \E swept \in (SUBSET Versions) \ {{}} :
       /\ \/ \A v \in swept : status[v] = "inactive" /\ ~Kept(v)
          \/ \A v \in swept : status[v] = "aborted"
       /\ status' = [v \in Versions |-> IF v \in swept THEN "deleted" ELSE status[v]]
       /\ docs' = [v \in Versions |-> IF v \in swept THEN NoRows ELSE docs[v]]
  /\ switches' = switches + 1
  /\ UNCHANGED <<model, pc, plan, sending, upload, closing, faults>>

-----------------------------------------------------------------------------
Cli(c) == \/ Plan(c) \/ Start(c) \/ Send(c) \/ SkipOversize(c) \/ Advance(c)
          \/ GiveUp(c) \/ Abort(c) \/ SendFinalize(c)
Upload(c) == \/ CheckBuilding(c) \/ RefuseUpload(c) \/ DropUpload(c)
             \/ FindPrior(c) \/ ListPrior(c) \/ GateCarry(c)
             \/ Classify(c) \/ ReadChunks(c) \/ InsertDocument(c) \/ InsertChunk(c)
             \/ Accept(c) \/ InsertFails(c) \/ Respond(c)
Close(c) == CountDocuments(c) \/ CountDiffers(c) \/ Finalize(c) \/ FinalizeFails(c)

Next == (\E c \in Clis : Cli(c) \/ Upload(c) \/ Close(c)) \/ Rollback \/ Sweep

Spec == Init /\ [][Next]_vars
FairSpec == Spec /\ \A c \in Clis : WF_vars(Cli(c) \/ Upload(c) \/ Close(c))

-----------------------------------------------------------------------------
(* Properties.                                                             *)

\* The versions that a run has made readable.
Finalized(c) == run[c] # 0 /\ status[run[c]] \in {"active", "inactive"}

\* "Every walked, non-deleted document MUST be uploaded, or it vanishes from
\* the new active version": a version that a run made readable has exactly one
\* document for each path the CLI walked, with the content it walked, save
\* those it knows to have been dropped intentionally.
NothingVanishes ==
  \A c \in Clis : Finalized(c) => \A p \in Paths :
    LET hashes == [i \in DOMAIN docs[run[c]][p] |-> docs[run[c]][p][i].hash]
    IN hashes = IF tree[c][p] = NoDoc \/ conflict[c][p] = "intentional"
                THEN <<>> ELSE <<tree[c][p]>>

\* The conflicts are the only signal of damage: a document sent with its
\* chunks that is readable without some of them was reported to the CLI.
DamageIsReported ==
  \A c \in Clis : Finalized(c) => \A p \in Walked(c) \ carried[c] :
    \A i \in DOMAIN docs[run[c]][p] :
      docs[run[c]][p][i].chunks < NChunks => conflict[c][p] = "failed"

\* A readable version is an immutable snapshot: until it is deleted none of
\* its rows changes, whatever uploads are still being handled.
SnapshotImmutable ==
  [][\A v \in Versions :
       status[v] \in {"active", "inactive"} /\ status'[v] # "deleted"
         => docs'[v] = docs[v]]_vars

\* As long as no statement fails and no version is switched or swept, every
\* readable document has all its chunks; with vectors of its version's model, if
\* no second run has begun to change the active version meanwhile.
Steady == faults = 0 /\ switches = 0
Alone  == \A c, d \in Clis : run[c] # 0 /\ run[d] # 0 => c = d
Whole(row, v) == row.chunks = NChunks /\ (Alone => row.space = model[v])
CompleteUndisturbed ==
  Steady => \A v \in Versions : status[v] \in {"active", "inactive"} => \A p \in Paths :
    \A i \in DOMAIN docs[v][p] : Whole(docs[v][p][i], v)

\* What a run made readable is what was walked, whole and in the space of its
\* version, or the CLI was told of the damage.
Accounted == NothingVanishes /\ DamageIsReported /\ CompleteUndisturbed

\* Every run that starts comes to an end, finalized or given up.
RunEnds == \A c \in Clis : pc[c] = "planned" ~> pc[c] \in {"done", "failed"}

-----------------------------------------------------------------------------
(* The inductive invariant behind the safety properties.                   *)

Readable(v) == status[v] \in {"active", "inactive"}

\* A run has a version of its own, under the model it asked for.
Owns(c) ==
  /\ run[c] = 0 <=> pc[c] \in {"idle", "planned"}
  /\ run[c] # 0 => run[c] > Past /\ status[run[c]] # "absent" /\ model[run[c]] = wanted[c]
Apart == \A c, d \in Clis : run[c] # 0 /\ run[d] = run[c] => d = c

\* No upload is being handled once the CLI has asked for the run to be
\* finalized, nor a finalize once the version is readable.
Ordered(c) ==
  /\ stage[c] # "none" => pc[c] \in Uploading \cup {"aborting", "failed"} /\ closing[c] = "none"
  /\ closing[c] # "none" => pc[c] \in {"finalizing", "aborting", "failed"}
  /\ Finalized(c) => /\ pc[c] \in {"done", "aborting", "failed"}
                     /\ stage[c] = "none" /\ closing[c] = "none"

\* The version can still become, or is, readable.
Live(c) == pc[c] \in Uploading \cup {"finalize", "finalizing"} \/ closing[c] # "none" \/ Finalized(c)

\* The handler has listed the documents it may carry.
Listing == {"listed", "next", "copy", "insert", "chunks"}

\* A path is sent once with its outcome open; one with an outcome is not sent
\* again, but that a document the server refused to carry is sent with chunks.
Paced(c) ==
  /\ todo[c] \cup batch[c] \subseteq Walked(c) /\ todo[c] \cap batch[c] = {}
  /\ pc[c] \in {"idle", "planned"} => todo[c] = {} /\ conflict[c] = NoneFound
  /\ pc[c] = "new" => (todo[c] \cup batch[c]) \cap carried[c] = {}
  /\ pc[c] \in {"carry", "retry"} => todo[c] \subseteq carried[c]
  /\ carrying[c] => batch[c] \subseteq carried[c]
  /\ stage[c] = "none" => batch[c] = {} /\ found[c] = NoneFound
  /\ stage[c] \in {"copy", "insert", "chunks"} => doc[c] \in batch[c]
  /\ stage[c] \in Listing => \A p \in Paths : listed[c][p] # NoDoc => prior[c] # 0
  /\ stage[c] = "copy" => carrying[c] /\ listed[c][doc[c]] # NoDoc
  /\ stage[c] \in {"insert", "chunks"} /\ ~carrying[c] =>
       copy[c] = [chunks |-> NChunks, space |-> wanted[c]]
  /\ \A p \in Paths : conflict[c][p] = "none" \/ found[c][p] = "none"
  /\ \A p \in Paths : conflict[c][p] # "none" \/ found[c][p] # "none" =>
       /\ p \in Walked(c) /\ p \notin todo[c] \cup batch[c]
       /\ pc[c] = "new" => p \notin carried[c]

\* Path p is still to be stored, or known to have been dropped.
Unstored(c, p) ==
  \/ p \in todo[c] \/ (pc[c] = "new" /\ p \in carried[c])
  \/ p \in batch[c] /\ ~(stage[c] = "chunks" /\ p = doc[c])
  \/ conflict[c][p] \in {"intentional", "reembed"}
  \/ found[c][p] \in {"intentional", "reembed"}

\* A path has at most one row, with the content walked, and none before it is
\* stored or when it is known to have been dropped.
Stocked(c) ==
  run[c] # 0 => \A p \in Paths :
    LET rows == docs[run[c]][p] IN
    /\ rows # <<>> => Len(rows) = 1 /\ p \in Walked(c) /\ rows[1].hash = tree[c][p]
    /\ Unstored(c, p) => rows = <<>>
    /\ stage[c] = "chunks" /\ p = doc[c] /\ status[run[c]] # "deleted" =>
         rows # <<>> /\ rows[1].space = copy[c].space

\* Of a run that may be finalized, the CLI hears of every damage.
Heard(c) ==
  run[c] # 0 /\ Live(c) => \A p \in Walked(c) \ carried[c] :
    LET rows == docs[run[c]][p] IN
    rows # <<>> /\ rows[1].chunks < NChunks =>
      \/ conflict[c][p] = "failed" \/ found[c][p] = "failed"
      \/ stage[c] = "chunks" /\ p = doc[c]

\* What was counted stays so.
Counted(c) ==
  (closing[c] = "counted" /\ status[run[c]] # "deleted") \/ Finalized(c) => CountAgrees(c)

\* At most one version is active; a run began each that earlier ones did not
\* leave, and before it begins and after it is deleted a version is empty.
OneActive == \A v, w \in Active : v = w
Begun == \A v \in Versions :
  /\ status[v] = "absent" => v > Past
  /\ status[v] # "absent" /\ v > Past => \E c \in Clis : run[c] = v
  /\ status[v] \in {"absent", "deleted"} => docs[v] = NoRows

\* Undisturbed, the documents the carry reads are a readable version's, whole,
\* and what it stores is as good.
Reads(c) ==
  /\ stage[c] \in Listing \cup {"found"} /\ prior[c] # 0 =>
       Readable(prior[c]) /\ (Alone => prior[c] \in Active /\ prior[c] <= Past)
  /\ stage[c] \in Listing => \A p \in Paths :
       listed[c][p] # NoDoc => docs[prior[c]][p] # <<>>
  /\ Alone /\ stage[c] \in Listing \ {"listed"} /\ canCarry[c] =>
       \E v \in Active : model[v] = model[run[c]]
  /\ stage[c] = "copy" => canCarry[c]
  /\ stage[c] \in {"insert", "chunks"} => Whole(copy[c], run[c])
  /\ run[c] # 0 /\ Live(c) => \A p \in Paths :
       LET rows == docs[run[c]][p] IN
       rows # <<>> => Whole(rows[1], run[c]) \/ (stage[c] = "chunks" /\ p = doc[c])

Smooth ==
  Steady =>
    /\ \A v \in Versions : status[v] # "deleted"
    /\ \A v \in 1..Past, p \in Paths : \A i \in DOMAIN docs[v][p] : Whole(docs[v][p][i], v)
    /\ \A c \in Clis : Reads(c)

RunsInv == \A c \in Clis : Owns(c) /\ Ordered(c) /\ Paced(c) /\ Stocked(c) /\ Heard(c) /\ Counted(c)
IInv == TypeOK /\ RunsInv /\ Apart /\ OneActive /\ Begun /\ Smooth

=============================================================================
