--------------------------- MODULE SourceVersions ---------------------------
(***************************************************************************)
(* The source_version table of mnm-store, the transactions that move its   *)
(* rows through building -> active -> inactive -> retired (or aborted),    *)
(* and the retention daemon that deletes rows.                             *)
(*                                                                         *)
(* Concurrency is Postgres's at READ COMMITTED, statement by statement: a  *)
(* transaction's writes become visible at its commit, a statement works on *)
(* the snapshot it took when it started, a statement that meets a row      *)
(* locked by another transaction waits and then re-checks its WHERE clause *)
(* on the row it got, and the partial unique index on (source_id) WHERE    *)
(* is_active makes an insertion wait for the transactions in progress and  *)
(* then fail if an active row is there.  An action that would have to wait *)
(* is not enabled.  A statement that refuses (a 4xx/5xx answer) changes    *)
(* nothing and is a stuttering step.                                       *)
(*                                                                         *)
(* is_active and status are written together by every statement (and the   *)
(* check_active_status constraint ties them), so the model keeps status    *)
(* alone: is_active is status = "active".                                  *)
(***************************************************************************)
EXTENDS Naturals, FiniteSets

CONSTANTS
  Sources,          \* rows of table source, one per slug ever created
  Versions,         \* primary keys (uuids) of source_version rows
  SourceOf,         \* the source_id column, fixed for a row's whole life
  Sessions,         \* requests the server handles concurrently
  Daemon,           \* the retention daemon, as an owner of row locks
  Nobody,           \* no owner
  NoVersion,        \* no row: an idle request's target, a source not serving
  MaxRevision,      \* largest value of the revision column
  RetentionCounts   \* values retention_count takes (CHECK: 1..50)

ASSUME VersionsAssumption ==
  /\ SourceOf \in [Versions -> Sources]
  /\ Daemon \notin Sessions
  /\ Nobody \notin Sessions \cup {Daemon}
  /\ NoVersion \notin Versions
  /\ MaxRevision \in Nat
  /\ RetentionCounts \subseteq 1..50

VARIABLES
  status,      \* status column; "absent" before INSERT, "deleted" after DELETE
  rev,         \* revision column (0 before INSERT)
  retention,   \* source.retention_count
  life,        \* source row: "live", "retired" (retired_at set) or "deleted"
  lockedBy,    \* owner of each row's lock
  pc,          \* where each request's handler is
  target,      \* the row a request works on
  newRev,      \* revision computed by an INSERT ... SELECT in progress
  rivals,      \* rows the demoting UPDATE found in its snapshot
  sweep,       \* where the daemon's tick is
  doomed       \* rows the sweep's snapshot selected and not yet locked

tables  == <<status, rev, retention, life>>
request == <<pc, target, newRev, rivals>>
daemon  == <<sweep, doomed>>
vars    == <<tables, lockedBy, request, daemon>>

Stored   == {"building", "active", "inactive", "aborted", "retired"}
Statuses == Stored \cup {"absent", "deleted"}

\* Handler positions: outside any statement, between the two statements of a
\* non-transactional handler, and inside the promoting transaction.
InTx == {"locked", "scanned", "demoted", "promoted"}
Pcs  == {"idle", "creating", "retiring"} \cup InTx

TypeOK ==
  /\ status \in [Versions -> Statuses]
  /\ rev \in [Versions -> Nat]
  /\ retention \in [Sources -> RetentionCounts]
  /\ life \in [Sources -> {"live", "retired", "deleted"}]
  /\ lockedBy \in [Versions -> Sessions \cup {Daemon, Nobody}]
  /\ pc \in [Sessions -> Pcs]
  /\ target \in [Sessions -> Versions \cup {NoVersion}]
  /\ \A s \in Sessions : target[s] = NoVersion <=> pc[s] = "idle"
  /\ newRev \in [Sessions -> Nat]
  /\ rivals \in [Sessions -> SUBSET Versions]
  /\ sweep \in {"idle", "versions", "deleting", "aborted"}
  /\ doomed \in SUBSET Versions

Init ==
  /\ status = [v \in Versions |-> "absent"]
  /\ rev = [v \in Versions |-> 0]
  /\ retention \in [Sources -> RetentionCounts]
  /\ life = [src \in Sources |-> "live"]
  /\ lockedBy = [v \in Versions |-> Nobody]
  /\ pc = [s \in Sessions |-> "idle"]
  /\ target = [s \in Sessions |-> NoVersion]
  /\ newRev = [s \in Sessions |-> 0]
  /\ rivals = [s \in Sessions |-> {}]
  /\ sweep = "idle"
  /\ doomed = {}

-----------------------------------------------------------------------------
(* Rows and locks.                                                         *)

IsStored(v)   == status[v] \in Stored
IsActive(v)   == status[v] = "active"
RowsOf(src)   == {v \in Versions : SourceOf[v] = src /\ IsStored(v)}
Siblings(v)   == {w \in Versions : SourceOf[w] = SourceOf[v]}
Unlocked(v)   == lockedBy[v] = Nobody
HeldBy(o)     == {v \in Versions : lockedBy[v] = o}
DemotedBy(s)  == HeldBy(s) \ {target[s]}

Goto(s, to)   == pc' = [pc EXCEPT ![s] = to]

Answer(s)     == /\ Goto(s, "idle")
                 /\ target' = [target EXCEPT ![s] = NoVersion]
                 /\ newRev' = [newRev EXCEPT ![s] = 0]
                 /\ rivals' = [rivals EXCEPT ![s] = {}]
Lock(o, v)    == lockedBy' = [lockedBy EXCEPT ![v] = o]
Release(o)    == lockedBy' = [v \in Versions |->
                                IF lockedBy[v] = o THEN Nobody ELSE lockedBy[v]]

-----------------------------------------------------------------------------
(* POST ingest-runs: create_building, one INSERT ... SELECT MAX(revision)+1 *)
(* whose read and whose insertion are separate steps.                      *)

IsLatest(n, src) ==
  \/ RowsOf(src) = {} /\ n = 0
  \/ /\ \E v \in RowsOf(src) : rev[v] = n
     /\ \A v \in RowsOf(src) : rev[v] <= n

CreateRead(s, v) ==
  /\ pc[s] = "idle"
  /\ status[v] = "absent"
  /\ \A t \in Sessions : pc[t] = "creating" => target[t] # v
  /\ life[SourceOf[v]] # "deleted"
  /\ \E n \in 0..MaxRevision - 1 :
       /\ IsLatest(n, SourceOf[v])
       /\ newRev' = [newRev EXCEPT ![s] = n + 1]
  /\ target' = [target EXCEPT ![s] = v]
  /\ Goto(s, "creating")
  /\ UNCHANGED <<tables, lockedBy, rivals, daemon>>

\* The foreign key and UNIQUE (source_id, revision) decide at insertion.
CanInsert(s) ==
  /\ life[SourceOf[target[s]]] # "deleted"
  /\ \A w \in RowsOf(SourceOf[target[s]]) : rev[w] # newRev[s]

CreateInsert(s) ==
  /\ pc[s] = "creating"
  /\ IF CanInsert(s)
       THEN /\ status' = [status EXCEPT ![target[s]] = "building"]
            /\ rev' = [rev EXCEPT ![target[s]] = newRev[s]]
       ELSE UNCHANGED <<status, rev>>
  /\ Answer(s)
  /\ UNCHANGED <<retention, life, lockedBy, daemon>>

-----------------------------------------------------------------------------
(* finalize and promote_by_revision: the same transaction, begun from a    *)
(* building row and from an inactive one.                                  *)

\* Mutant, not part of the specification: SELECT without FOR UPDATE.
BeginWithoutLock(s, v) ==
  /\ pc[s] = "idle"
  /\ target' = [target EXCEPT ![s] = v]
  /\ Goto(s, "locked")
  /\ UNCHANGED <<tables, lockedBy, newRev, rivals, daemon>>

BeginOn(s, v) ==
  /\ pc[s] = "idle"
  /\ Unlocked(v)
  /\ Lock(s, v)
  /\ target' = [target EXCEPT ![s] = v]
  /\ Goto(s, "locked")
  /\ UNCHANGED <<tables, newRev, rivals, daemon>>

\* SELECT ... FOR UPDATE, and the status test on the locked row.
FinalizeBegin(s, v) == status[v] = "building" /\ BeginOn(s, v)
PromoteBegin(s, v)  == status[v] = "inactive" /\ BeginOn(s, v)

\* Mutant, not part of the specification: an UPDATE without AND is_active.
DemoteScanAll(s) ==
  /\ pc[s] = "locked"
  /\ rivals' = [rivals EXCEPT ![s] = RowsOf(SourceOf[target[s]]) \ {target[s]}]
  /\ Goto(s, "scanned")
  /\ UNCHANGED <<tables, lockedBy, target, newRev, daemon>>

\* The demoting UPDATE takes its snapshot ...
DemoteScan(s) ==
  /\ pc[s] = "locked"
  /\ rivals' = [rivals EXCEPT
       ![s] = {w \in Siblings(target[s]) \ {target[s]} : IsActive(w)}]
  /\ Goto(s, "scanned")
  /\ UNCHANGED <<tables, lockedBy, target, newRev, daemon>>

\* Mutant, not part of the specification: the demotion commits on its own.
DemoteAutocommit(s) ==
  /\ pc[s] = "scanned"
  /\ \A w \in rivals[s] : Unlocked(w)
  /\ status' = [w \in Versions |->
       IF w \in rivals[s] /\ IsActive(w) THEN "inactive" ELSE status[w]]
  /\ rivals' = [rivals EXCEPT ![s] = {}]
  /\ Goto(s, "demoted")
  /\ UNCHANGED <<rev, retention, life, lockedBy, target, newRev, daemon>>

\* ... and locks the rows it found that are still active, waiting for them.
DemoteApply(s) ==
  /\ pc[s] = "scanned"
  /\ \A w \in rivals[s] : Unlocked(w)
  /\ lockedBy' = [w \in Versions |->
       IF w \in rivals[s] /\ IsActive(w) THEN s ELSE lockedBy[w]]
  /\ rivals' = [rivals EXCEPT ![s] = {}]
  /\ Goto(s, "demoted")
  /\ UNCHANGED <<tables, target, newRev, daemon>>

\* A transaction in progress that has touched the source's entry in
\* uniq_source_version_active: an insertion there waits for its outcome.
OnActiveIndex(t, src) ==
  /\ pc[t] \in {"demoted", "promoted"}
  /\ SourceOf[target[t]] = src
  /\ pc[t] = "promoted" \/ DemotedBy(t) # {}

IndexFree(s) ==
  \A t \in Sessions \ {s} : ~ OnActiveIndex(t, SourceOf[target[s]])

\* Mutant, not part of the specification: no unique index on active rows.
NoIndexConflict(s) == s \notin Sessions

IndexConflict(s) ==
  \E w \in Siblings(target[s]) \ DemotedBy(s) : IsActive(w)

\* The promoting UPDATE: its new index entry, or a unique violation.
PromoteTarget(s) ==
  /\ pc[s] = "demoted"
  /\ IndexFree(s)
  /\ ~ IndexConflict(s)
  /\ Goto(s, "promoted")
  /\ UNCHANGED <<tables, lockedBy, target, newRev, rivals, daemon>>

PromoteConflict(s) ==
  /\ pc[s] = "demoted"
  /\ IndexFree(s)
  /\ IndexConflict(s)
  /\ Answer(s)
  /\ Release(s)
  /\ UNCHANGED <<tables, daemon>>

CommitPromotion(s) ==
  /\ pc[s] = "promoted"
  /\ status' = [v \in Versions |->
       IF v = target[s] THEN "active"
       ELSE IF v \in DemotedBy(s) THEN "inactive" ELSE status[v]]
  /\ Answer(s)
  /\ Release(s)
  /\ UNCHANGED <<rev, retention, life, daemon>>

\* A lost connection, a driver error, a deadlock victim or a server crash:
\* the request ends and its transaction, if any, leaves no trace.
Fail(s) ==
  /\ pc[s] # "idle"
  /\ Answer(s)
  /\ Release(s)
  /\ UNCHANGED <<tables, daemon>>

-----------------------------------------------------------------------------
(* Abort, and the two statements of the retire handler.                    *)

\* UPDATE ... WHERE id = $1 AND status = 'building'.
Abort(s, v) ==
  /\ pc[s] = "idle"
  /\ Unlocked(v)
  /\ status[v] = "building"
  /\ status' = [status EXCEPT ![v] = "aborted"]
  /\ UNCHANGED <<rev, retention, life, lockedBy, request, daemon>>

\* retire_version reads the row and refuses if it is the active one ...
RetireRead(s, v) ==
  /\ pc[s] = "idle"
  /\ IsStored(v)
  /\ ~ IsActive(v)
  /\ target' = [target EXCEPT ![s] = v]
  /\ Goto(s, "retiring")
  /\ UNCHANGED <<tables, lockedBy, newRev, rivals, daemon>>

\* ... then updates it by id alone; a row deleted meanwhile is NotFound.
RetireWrite(s) ==
  /\ pc[s] = "retiring"
  /\ Unlocked(target[s])
  /\ status' = IF IsStored(target[s])
                 THEN [status EXCEPT ![target[s]] = "retired"] ELSE status
  /\ Answer(s)
  /\ UNCHANGED <<rev, retention, life, lockedBy, daemon>>

-----------------------------------------------------------------------------
(* The source row: soft delete and the retention_count patch.              *)

RetireSource(src) ==
  /\ life[src] = "live"
  /\ life' = [life EXCEPT ![src] = "retired"]
  /\ UNCHANGED <<status, rev, retention, lockedBy, request, daemon>>

PatchRetention(src) ==
  /\ life[src] # "deleted"
  /\ \E k \in RetentionCounts : retention' = [retention EXCEPT ![src] = k]
  /\ UNCHANGED <<status, rev, life, lockedBy, request, daemon>>

-----------------------------------------------------------------------------
(* The retention daemon: three passes per tick, each one DELETE.  Grace     *)
(* periods are configured and may be zero, so any subset of the rows a pass *)
(* may delete can be the ones past their grace.                             *)

DeleteRows(V) ==
  status' = [v \in Versions |-> IF v \in V THEN "deleted" ELSE status[v]]

\* DELETE FROM source: the cascade needs every version row of the source.
SweepSources ==
  /\ sweep = "idle"
  /\ \E expired \in SUBSET {src \in Sources : life[src] = "retired"} :
       LET rows == UNION {RowsOf(src) : src \in expired} IN
       /\ \A v \in rows : Unlocked(v)
       /\ life' = [src \in Sources |-> IF src \in expired THEN "deleted" ELSE life[src]]
       /\ DeleteRows(rows)
  /\ sweep' = "versions"
  /\ UNCHANGED <<rev, retention, lockedBy, request, doomed>>

\* The rows that the retention window numbers, and those of a source.
Numbered(v) == status[v] \in {"active", "inactive", "retired"}
Ranked(src) == {v \in RowsOf(src) : Numbered(v)}

\* Mutant, not part of the specification: ORDER BY revision ASC.
RowNumberAscending(v) == Cardinality({w \in Ranked(SourceOf[v]) : rev[w] <= rev[v]})

\* ROW_NUMBER() OVER (PARTITION BY source_id ORDER BY revision DESC).
RowNumber(v) == Cardinality({w \in Ranked(SourceOf[v]) : rev[w] >= rev[v]})

Eligible ==
  {v \in Versions : /\ status[v] \in {"inactive", "retired"}
                    /\ RowNumber(v) > retention[SourceOf[v]]}

\* The DELETE's snapshot chooses the ids ...
SweepScan ==
  /\ sweep = "versions"
  /\ doomed' \in SUBSET Eligible
  /\ sweep' = IF doomed' = {} THEN "aborted" ELSE "deleting"
  /\ UNCHANGED <<tables, lockedBy, request>>

\* ... each row is then locked; the re-check after a wait is on the id alone.
SweepLock(v) ==
  /\ sweep = "deleting"
  /\ v \in doomed
  /\ Unlocked(v)
  /\ IF IsStored(v) THEN Lock(Daemon, v) ELSE UNCHANGED lockedBy
  /\ doomed' = doomed \ {v}
  /\ UNCHANGED <<tables, request, sweep>>

SweepCommit ==
  /\ sweep = "deleting"
  /\ doomed = {}
  /\ DeleteRows(HeldBy(Daemon))
  /\ Release(Daemon)
  /\ sweep' = "aborted"
  /\ UNCHANGED <<rev, retention, life, request, doomed>>

SweepAborted ==
  /\ sweep = "aborted"
  /\ \E expired \in SUBSET {v \in Versions : status[v] = "aborted"} :
       /\ \A v \in expired : Unlocked(v)
       /\ DeleteRows(expired)
  /\ sweep' = "idle"
  /\ UNCHANGED <<rev, retention, life, lockedBy, request, doomed>>

\* A pass fails: its statement rolls back and the tick is over.
SweepFail ==
  /\ sweep # "idle"
  /\ sweep' = "idle"
  /\ doomed' = {}
  /\ Release(Daemon)
  /\ UNCHANGED <<tables, request>>

-----------------------------------------------------------------------------
SessionStep(s) ==
  \/ \E v \in Versions :
       \/ CreateRead(s, v) \/ FinalizeBegin(s, v) \/ PromoteBegin(s, v)
       \/ Abort(s, v) \/ RetireRead(s, v)
  \/ CreateInsert(s) \/ DemoteScan(s) \/ DemoteApply(s)
  \/ PromoteTarget(s) \/ PromoteConflict(s) \/ CommitPromotion(s)
  \/ RetireWrite(s) \/ Fail(s)

SourceStep == \E src \in Sources : RetireSource(src) \/ PatchRetention(src)

DaemonStep ==
  \/ SweepSources \/ SweepScan \/ SweepCommit \/ SweepAborted \/ SweepFail
  \/ \E v \in Versions : SweepLock(v)

Next == (\E s \in Sessions : SessionStep(s)) \/ SourceStep \/ DaemonStep

Spec == Init /\ [][Next]_vars

-----------------------------------------------------------------------------
(* Properties.                                                             *)

\* Two finalizes, or a finalize and a rollback, of one source that overlap
\* never leave two active versions: the row locks do not exclude each other,
\* only the demotion, the index wait and the violation together do.
AtMostOneActive ==
  \A v, w \in Versions :
    SourceOf[v] = SourceOf[w] /\ IsActive(v) /\ IsActive(w) => v = w

\* Request s cannot take its next step before request t's transaction ends: the
\* demotion meets a row that t has locked, the promotion meets t's entry in the
\* active index, or a retirement's update meets t's row.
WaitsFor(s, t) ==
  /\ s # t
  /\ \/ pc[s] = "scanned" /\ \E w \in rivals[s] : lockedBy[w] = t
     \/ pc[s] = "demoted" /\ OnActiveIndex(t, SourceOf[target[s]])
     \/ pc[s] = "retiring" /\ lockedBy[target[s]] = t

\* Two finalizes, or a finalize and a rollback, of one source each hold a row
\* and then ask for more, but never in a circle: in every set of requests one
\* waits for none of the others.  (With the retention sweep, which locks rows
\* in no order, a circle can close; Postgres then fails one of them: Fail.)
NoLockCycle ==
  \A C \in SUBSET Sessions :
    C # {} => \E s \in C : \A t \in C : ~ WaitsFor(s, t)

\* Why: no request has chosen to demote a row that another promotion is about:
\* in every set of requests there is one that none of the others stands before.
NoRivalCycle ==
  \A C \in SUBSET Sessions :
    C # {} => \E s \in C : \A t \in C : target[t] \notin rivals[s]

\* Two stored versions of a source never share a revision, by the constraint of
\* the table; the retention window is counted along revisions because of it.
UniqueRevision ==
  \A v, w \in Versions :
    SourceOf[v] = SourceOf[w] /\ IsStored(v) /\ IsStored(w) /\ rev[v] = rev[w]
      => v = w

\* The locks mean what the handlers rely on.  A request's row is still building
\* or inactive, and locked by it, until the commit that makes it active; the
\* other rows a request locked are active siblings, the ones it will demote;
\* an INSERT in progress has its row to itself; the sweep locks stored rows.
LockDiscipline ==
  /\ \A s \in Sessions :
       /\ pc[s] \in InTx => /\ lockedBy[target[s]] = s
                           /\ status[target[s]] \in {"building", "inactive"}
       /\ pc[s] = "creating" => status[target[s]] = "absent"
       /\ pc[s] = "retiring" => status[target[s]] # "absent"
       /\ \A w \in rivals[s] : pc[s] = "scanned" /\ w \in Siblings(target[s]) \ {target[s]}
       /\ \A v \in Versions :
            lockedBy[v] = s =>
              /\ pc[s] \in InTx
              /\ \/ v = target[s]
                 \/ /\ pc[s] \in {"demoted", "promoted"}
                    /\ v \in Siblings(target[s])
                    /\ IsActive(v)
  /\ \A s, t \in Sessions :
       pc[s] = "creating" /\ pc[t] = "creating" /\ target[s] = target[t] => s = t
  /\ \A v \in Versions : lockedBy[v] = Daemon => IsStored(v)

\* A request that has its entry in the active index is the only one there for
\* its source, and holds every row of the source that is still active.
IndexDiscipline ==
  /\ \A s, t \in Sessions :
       pc[s] = "promoted" /\ pc[t] = "promoted"
         /\ SourceOf[target[s]] = SourceOf[target[t]]
       => s = t
  /\ \A s \in Sessions :
       pc[s] = "promoted" =>
         \A w \in Siblings(target[s]) : IsActive(w) => lockedBy[w] = s

\* The inductive invariant behind AtMostOneActive and NeverRevived: why the
\* promoting transactions of one source cannot get in each other's way.
IInv == TypeOK /\ LockDiscipline /\ IndexDiscipline /\ AtMostOneActive

\* A step that stops a version serving either puts another version of the
\* same source in its place in that very step, or is a retirement or deletion
\* of that version: a reader never finds a gap opened by finalize or rollback.
NoServingGap ==
  [][\A v \in Versions :
       IsActive(v) /\ ~ IsActive(v)' =>
         \/ \E w \in Siblings(v) : IsActive(w)'
         \/ status'[v] \in {"retired", "deleted"}]_vars

\* An aborted or retired version never comes back into service, whatever
\* finalize, rollback and retire requests overlap with the one that ended it.
NeverRevived ==
  [][\A v \in Versions :
       /\ status[v] \in {"aborted", "retired"} =>
            status'[v] \in {status[v], "retired", "deleted"}
       /\ status[v] = "deleted" => status'[v] = "deleted"]_vars

FewestKept == CHOOSE k \in RetentionCounts : \A j \in RetentionCounts : k <= j

\* The retention sweep never eats into the window: at the moment a finalized
\* version is deleted, at least as many newer finalized versions remain as
\* the smallest retention_count in use, even though the rows were chosen on
\* an older snapshot.  (Deleting the whole source is another matter.)
SweepKeepsWindow ==
  [][\A v \in Versions :
       Numbered(v) /\ status'[v] = "deleted" /\ life'[SourceOf[v]] # "deleted"
       => Cardinality({w \in Ranked(SourceOf[v])' : rev[w] > rev[v]})
            >= FewestKept]_vars

\* Why: beside each row that the sweep has chosen and will delete, and among the
\* rows that it has not chosen, there are as many newer finalized ones.
Spared(src) == Ranked(src) \ (doomed \cup HeldBy(Daemon))
Newer(v)    == {w \in Spared(SourceOf[v]) : rev[w] > rev[v]}
SweepWindow ==
  /\ sweep # "deleting" => doomed = {} /\ HeldBy(Daemon) = {}
  /\ \A v \in doomed \cup HeldBy(Daemon) :
       status[v] # "absent" /\ (IsStored(v) => Cardinality(Newer(v)) >= FewestKept)

(* The abstract specification, and how the table implements it.            *)

Serving(src) ==
  IF \E v \in Versions : SourceOf[v] = src /\ IsActive(v)
    THEN CHOOSE v \in Versions : SourceOf[v] = src /\ IsActive(v)
    ELSE NoVersion

servingNow == [src \in Sources |-> Serving(src)]
deadNow    == {v \in Versions : status[v] \in {"aborted", "retired", "deleted"}}

Pointer == INSTANCE ServingPointer WITH serving <- servingNow, dead <- deadNow

\* Readers see one version per source, switched atomically, and never a dead
\* one: SourceVersions implements ServingPointer.
ImplementsPointer == Pointer!Spec

(* What comments of the code claim, and concurrent requests refute.        *)

\* "The active version of each source is never swept" (sweep_aged_inactive):
\* no version is deleted while active, unless with its source.
ActiveNeverSwept ==
  [][\A v \in Versions :
       IsActive(v) /\ status'[v] = "deleted" => life'[SourceOf[v]] = "deleted"]_vars

=============================================================================
