------------------------------- MODULE Corpus -------------------------------
(***************************************************************************)
(* Which embedding model the corpus is served with.  The database says it  *)
(* (the model of the active version ingested last), the server keeps a     *)
(* copy of it (`corpus_model`, the label) and an embeddings proxy pinned to *)
(* the one it booted with.  Ingest runs, the bulk migration of `mnm models  *)
(* migrate`, rollbacks, restarts and a search client are interleaved        *)
(* statement by statement.                                                  *)
(*                                                                         *)
(* A version stands for all of its chunks; SourceVersions models the inside *)
(* of its lifecycle statements and IngestRun that of its uploads.           *)
(***************************************************************************)
EXTENDS Integers, Sequences, FiniteSets, Functions

CONSTANTS
  Sources,
  Models,       \* rows of embedding_model, one per name and revision
  NameOf,       \* their names
  Newest,       \* the row created last
  Named,        \* models the CLI asks for by name: an explicit override, or a
                \* search's configured one when the fetch of the active fails
  NoModel,
  Runners,      \* ingest CLIs, each of which runs once
  Migrator,     \* the CLI of `mnm models migrate`, one of them
  Targets,      \* models it may be asked for
  Keyed,        \* the processes that embed with their own Voyage key
  Client,       \* the search client
  Corpora,      \* the versions the system may start with
  MaxSwitches,  \* bound: rollbacks
  MaxFaults     \* bound: restarts, lost answers and failed statements

ASSUME CorpusAssumption ==
  /\ Sources # {} /\ IsFiniteSet(Sources)
  /\ NameOf \in [Models -> STRING] /\ Newest \in Models /\ Named \subseteq Models
  /\ NoModel \notin Models /\ Migrator \in Runners /\ Targets \subseteq Models
  /\ MaxSwitches \in Nat /\ MaxFaults \in Nat

Names    == {NameOf[m] : m \in Models}
Statuses == {"building", "active", "inactive", "aborted"}
Versions == [src : Sources, model : Models, space : Names, blank : BOOLEAN,
             status : Statuses, at : Nat]

\* What earlier runs left is finalized, and embedded by the model it names.
ASSUME CorporaAssumption ==
  \A vs \in Corpora :
    /\ vs \in Seq(Versions)
    /\ \A v \in DOMAIN vs :
         vs[v].status \in {"active", "inactive"} /\ vs[v].space = NameOf[vs[v].model]

VARIABLES
  versions,     \* source_version rows, in the order they were created
  label,        \* AppState::corpus_model
  proxy,        \* the model name of AppState::voyage_ctx
  run,          \* what each ingest CLI, and the handler serving it, is doing
  drive,        \* the migration loop
  ask,          \* the search client's request, and the handler serving it
  crossed,      \* history: the corpus was brought to a second model name
  drifted,      \* history: it was served under a name the proxy does not have
  excused,      \* history: the label was last left behind by a known cause
  switches, faults

corpusVars == <<versions, label, proxy, run, drive, ask, crossed, drifted, excused, switches, faults>>
bounds == <<switches, faults>>
history == <<crossed, drifted, excused>>

Serving(vs) == {v \in DOMAIN vs : vs[v].status = "active"}
ServingNames(vs) == {NameOf[vs[v].model] : v \in Serving(vs)}
Ages(vs) == [v \in Serving(vs) |-> vs[v].at]
Latest(ages) == CHOOSE v \in DOMAIN ages : \A w \in DOMAIN ages : ages[w] <= ages[v]
LastIngest(vs) == Latest(Ages(vs))

\* get_active: the model of the active version ingested last, else the newest.
Active(vs) == IF Serving(vs) = {} THEN Newest ELSE vs[LastIngest(vs)].model
\* get_active_corpus_model: the same without the fallback.
ActiveCorpus(vs) == IF Serving(vs) = {} THEN NoModel ELSE vs[LastIngest(vs)].model

\* A version becomes active in place of the one its source had.
Activated(vs, v) ==
  [w \in DOMAIN vs |->
     IF w = v THEN [vs[w] EXCEPT !.status = "active"]
     ELSE IF w \in Serving(vs) /\ vs[w].src = vs[v].src THEN [vs[w] EXCEPT !.status = "inactive"]
     ELSE vs[w]]
\* finalize also stamps it with the time; promote_by_revision does not.
Ingested(vs, v) ==
  LET now == 1 + Cardinality({w \in DOMAIN vs : vs[w].at > 0})
  IN  [Activated(vs, v) EXCEPT ![v].at = now]

\* For the history: v is activated next to, or in place of, another name.
Crosses(vs, v) == ServingNames(vs) \ {NameOf[vs[v].model]} # {}
Drifts(vs, name) == ~(ServingNames(vs) \subseteq {name})
Space(p, m) == IF p \in Keyed THEN NameOf[m] ELSE proxy

Idle   == [pc |-> "idle", src |-> CHOOSE s \in Sources : TRUE, want |-> Newest, ver |-> 0, seen |-> NoModel]
Parked == [pc |-> "off", target |-> Newest, list |-> <<>>, next |-> 1]
Silent == [pc |-> "idle", wire |-> Newest, space |-> NameOf[Newest], snap |-> NoModel,
           hits |-> {}]

CorpusInit ==
  /\ versions \in Corpora
  /\ label = Active(versions) /\ proxy = NameOf[Active(versions)]
  /\ run = [r \in Runners |-> Idle] /\ drive = Parked /\ ask = Silent
  /\ crossed = ~(Cardinality(ServingNames(versions)) <= 1)
  /\ drifted = Drifts(versions, proxy) /\ excused = FALSE
  /\ switches = 0 /\ faults = 0

Runs   == [pc : {"idle", "chosen", "building", "uploaded", "committed", "reread", "ok", "failed"},
           src : Sources, want : Models, ver : Nat, seen : Models \cup {NoModel}]
Drives == [pc : {"off", "between", "running", "stopped", "aborted"},
           target : Models, list : Seq(Sources), next : Nat \ {0}]
Asks   == [pc : {"idle", "labelled", "embedded", "checked", "ranked", "found"},
           wire : Models, space : Names, snap : Models \cup {NoModel}, hits : SUBSET Nat]

CorpusTypeOK ==
  /\ versions \in Seq(Versions)
  /\ label \in Models /\ proxy \in Names
  /\ run \in [Runners -> Runs] /\ drive \in Drives /\ ask \in Asks
  /\ \A r \in Runners : run[r].pc = "reread" => run[r].seen \in Models
  /\ drive.pc = "running" => drive.next <= Len(drive.list)
  /\ crossed \in BOOLEAN /\ drifted \in BOOLEAN /\ excused \in BOOLEAN
  /\ switches \in 0..MaxSwitches /\ faults \in 0..MaxFaults

To(r, pc) == run' = [run EXCEPT ![r].pc = pc]
Ended(r, pc) == run' = [run EXCEPT ![r] = [Idle EXCEPT !.pc = pc]]

----------------------------------------------------------------------------
(* An ingest run. *)

\* `--embedding-model auto` is the model GET /v1/models/active reads from the
\* database; any other value is taken as it is.
Choose(r, s, m) ==
  /\ run[r].pc = "idle" /\ r # Migrator
  /\ run' = [run EXCEPT ![r] = [@ EXCEPT !.pc = "chosen", !.src = s, !.want = m]]
  /\ UNCHANGED <<versions, label, proxy, drive, ask, history, bounds>>

ChooseAny(r) == \E s \in Sources, m \in {Active(versions)} \cup Named : Choose(r, s, m)

\* Mutant: the guard trusts the server's copy of the active model.
StartOnLabel(r) ==
  LET blank == Serving(versions) = {} IN
  /\ run[r].pc = "chosen"
  /\ NameOf[label] = NameOf[run[r].want]
  /\ versions' = Append(versions,
       [src |-> run[r].src, model |-> run[r].want, space |-> NameOf[run[r].want],
        blank |-> blank, status |-> "building", at |-> 0])
  /\ run' = [run EXCEPT ![r] = [@ EXCEPT !.pc = "building", !.ver = Len(versions) + 1]]
  /\ UNCHANGED <<label, proxy, drive, ask, history, bounds>>

\* start_ingest_run refuses a model whose name is not the active corpus's.  Its
\* two statements are one step here: nothing else reads the row it creates.
Start(r) ==
  LET active == ActiveCorpus(versions)
      fits   == active \in {NoModel} \cup {m \in Models : NameOf[m] = NameOf[run[r].want]}
  IN  /\ run[r].pc = "chosen"
      /\ \/ /\ ~fits /\ Ended(r, "failed") /\ UNCHANGED versions
         \/ /\ fits
            /\ versions' = Append(versions,
                 [src |-> run[r].src, model |-> run[r].want, space |-> NameOf[run[r].want],
                  blank |-> active = NoModel, status |-> "building", at |-> 0])
            /\ run' = [run EXCEPT ![r] = [@ EXCEPT !.pc = "building", !.ver = Len(versions) + 1]]
      /\ UNCHANGED <<label, proxy, drive, ask, history, bounds>>

\* The chunks are embedded with the caller's key, or by the proxy, which is
\* sent no model to check.
Upload(r) ==
  /\ run[r].pc = "building"
  /\ versions' = [versions EXCEPT ![run[r].ver].space = Space(r, run[r].want)]
  /\ To(r, "uploaded")
  /\ UNCHANGED <<label, proxy, drive, ask, history, bounds>>

\* A clone, an embedding or an upload that fails: the CLI aborts its run.
GiveUp(r) ==
  /\ run[r].pc \in {"chosen", "building", "uploaded"} /\ faults < MaxFaults
  /\ versions' = IF run[r].ver = 0 THEN versions
                 ELSE [versions EXCEPT ![run[r].ver].status = "aborted"]
  /\ Ended(r, "failed") /\ faults' = faults + 1
  /\ UNCHANGED <<label, proxy, drive, ask, history, switches>>

Commit(r) ==
  LET v == run[r].ver IN
  /\ run[r].pc = "uploaded"
  /\ versions' = [Ingested(versions, v) EXCEPT ![v].blank = FALSE]
  /\ crossed' = (crossed \/ (versions[v].blank /\ Crosses(versions, v)))
  /\ drifted' = (drifted \/ Drifts(versions', proxy))
  /\ To(r, "committed")
  /\ UNCHANGED <<label, proxy, drive, ask, excused, bounds>>

\* corpus_model::refresh reads the database, then swaps.
Reread(r) ==
  /\ run[r].pc = "committed"
  /\ run' = [run EXCEPT ![r] = [@ EXCEPT !.pc = "reread", !.seen = Active(versions)]]
  /\ UNCHANGED <<versions, label, proxy, drive, ask, history, bounds>>

\* Mutant: the label is swapped only when the model's name changes.
SwapOnRename(r) ==
  /\ run[r].pc = "reread"
  /\ label' = IF NameOf[run[r].seen] # NameOf[label] THEN run[r].seen ELSE label
  /\ Ended(r, "ok")
  /\ excused' = (run[r].seen # Active(versions))
  /\ UNCHANGED <<versions, proxy, drive, ask, crossed, drifted, bounds>>

Swap(r) ==
  /\ run[r].pc = "reread"
  /\ label' = run[r].seen /\ Ended(r, "ok")
  /\ excused' = (run[r].seen # Active(versions))
  /\ UNCHANGED <<versions, proxy, drive, ask, crossed, drifted, bounds>>

\* The refresh fails: the old label stays and the finalize succeeds.
RereadFails(r) ==
  /\ run[r].pc = "committed" /\ faults < MaxFaults
  /\ Ended(r, "ok") /\ excused' = TRUE /\ faults' = faults + 1
  /\ UNCHANGED <<versions, label, proxy, drive, ask, crossed, drifted, switches>>

\* The client gives the finalize up and its handler is dropped where it waits.
Dropped(r) ==
  /\ run[r].pc = "committed" /\ faults < MaxFaults
  /\ Ended(r, "failed") /\ excused' = TRUE /\ faults' = faults + 1
  /\ UNCHANGED <<versions, label, proxy, drive, ask, crossed, drifted, switches>>

RunSteps(r) == Start(r) \/ Upload(r) \/ Commit(r) \/ Reread(r) \/ Swap(r)
RunFaults(r) == GiveUp(r) \/ RereadFails(r) \/ Dropped(r)

----------------------------------------------------------------------------
(* mnm models migrate. *)

OffTarget(m) == {s \in Sources : \E v \in Serving(versions) : versions[v].src = s /\ versions[v].model # m}
Orders(S) == {q \in [1..Cardinality(S) -> S] : IsInjective(q)}

\* The server lists the sources off the target; a --source filter and sources
\* without an origin or a manifest take some of them out.
List(m, left) ==
  /\ drive.pc = "off"
  /\ \E q \in Orders(left) : drive' = [pc |-> "between", target |-> m, list |-> q, next |-> 1]
  /\ UNCHANGED <<versions, label, proxy, run, ask, history, bounds>>

ListSome == \E m \in Targets : \E left \in SUBSET OffTarget(m) : left # {} /\ List(m, left)

NextSource ==
  /\ drive.pc = "between" /\ drive.next <= Len(drive.list)
  /\ drive' = [drive EXCEPT !.pc = "running"]
  /\ run' = [run EXCEPT ![Migrator] =
               [Idle EXCEPT !.pc = "chosen", !.src = drive.list[drive.next], !.want = drive.target]]
  /\ UNCHANGED <<versions, label, proxy, ask, history, bounds>>

\* The list is exhausted, or a budget is used up before a later source.
StopBetween ==
  /\ drive.pc = "between" /\ drive.next > 1
  /\ drive' = [Parked EXCEPT !.pc = "stopped"]
  /\ UNCHANGED <<versions, label, proxy, run, ask, history, bounds>>

Migrated ==
  /\ drive.pc = "running" /\ run[Migrator].pc = "ok"
  /\ drive' = [drive EXCEPT !.pc = "between", !.next = drive.next + 1]
  /\ UNCHANGED <<versions, label, proxy, run, ask, history, bounds>>

Aborted ==
  /\ drive.pc = "running" /\ run[Migrator].pc = "failed"
  /\ drive' = [Parked EXCEPT !.pc = "aborted"]
  /\ UNCHANGED <<versions, label, proxy, run, ask, history, bounds>>

DriveSteps == NextSource \/ StopBetween \/ Migrated \/ Aborted

----------------------------------------------------------------------------
(* Rollbacks and restarts. *)

\* promote_version does not refresh the label.
Promote(v) ==
  /\ switches < MaxSwitches /\ versions[v].status = "inactive"
  /\ versions' = Activated(versions, v)
  /\ crossed' = (crossed \/ Crosses(versions, v))
  /\ drifted' = (drifted \/ Drifts(versions', proxy))
  /\ excused' = (excused \/ Active(versions') # label)
  /\ switches' = switches + 1
  /\ UNCHANGED <<label, proxy, run, drive, ask, faults>>

\* The boot resolves both; requests the old process was serving are lost.
Boot ==
  /\ faults < MaxFaults /\ faults' = faults + 1
  /\ label' = Active(versions) /\ proxy' = NameOf[Active(versions)] /\ excused' = FALSE
  /\ drifted' = (drifted \/ Drifts(versions, proxy'))
  /\ run' = [r \in Runners |->
       IF run[r].pc \in {"committed", "reread"} THEN [Idle EXCEPT !.pc = "failed"] ELSE run[r]]
  /\ ask' = IF ask.pc \in {"checked", "ranked", "found"} THEN Silent ELSE ask
  /\ UNCHANGED <<versions, drive, crossed, switches>>

----------------------------------------------------------------------------
(* A search. *)

\* The label of the request: the active model as the database has it, an
\* explicit override, or the configured one when the fetch fails.
FetchModel ==
  /\ ask.pc = "idle"
  /\ \E m \in {Active(versions)} \cup Named : ask' = [ask EXCEPT !.pc = "labelled", !.wire = m]
  /\ UNCHANGED <<versions, label, proxy, run, drive, history, bounds>>

EmbedQuery ==
  /\ ask.pc = "labelled"
  /\ ask' = [ask EXCEPT !.pc = "embedded", !.space = Space(Client, ask.wire)]
  /\ UNCHANGED <<versions, label, proxy, run, drive, history, bounds>>

\* The handler takes one copy of the label, and refuses another wire id.
Check ==
  /\ ask.pc = "embedded"
  /\ ask' = IF ask.wire = label THEN [ask EXCEPT !.pc = "checked", !.snap = label]
            ELSE Silent
  /\ UNCHANGED <<versions, label, proxy, run, drive, history, bounds>>

OnModel(m) == {v \in Serving(versions) : versions[v].model = m}

\* Mutant: the filter reads the label again.
VectorHalfLive ==
  /\ ask.pc = "checked"
  /\ ask' = [ask EXCEPT !.pc = "ranked", !.hits = OnModel(label)]
  /\ UNCHANGED <<versions, label, proxy, run, drive, history, bounds>>

VectorHalf ==
  /\ ask.pc = "checked"
  /\ ask' = [ask EXCEPT !.pc = "ranked", !.hits = OnModel(ask.snap)]
  /\ UNCHANGED <<versions, label, proxy, run, drive, history, bounds>>

TextHalf ==
  /\ ask.pc = "ranked"
  /\ ask' = [ask EXCEPT !.pc = "found", !.hits = @ \cup OnModel(ask.snap)]
  /\ UNCHANGED <<versions, label, proxy, run, drive, history, bounds>>

\* fetch_scoring_rows and the answer; a chunk swept in the meantime is left out.
Answer ==
  /\ ask.pc = "found" /\ ask' = Silent
  /\ UNCHANGED <<versions, label, proxy, run, drive, history, bounds>>

Search == FetchModel \/ EmbedQuery \/ Check \/ VectorHalf \/ TextHalf \/ Answer

----------------------------------------------------------------------------
CorpusNext ==
  \/ \E r \in Runners : ChooseAny(r) \/ RunSteps(r) \/ RunFaults(r)
  \/ ListSome \/ DriveSteps \/ Boot \/ Search
  \/ \E v \in DOMAIN versions : Promote(v)

CorpusSpec == CorpusInit /\ [][CorpusNext]_corpusVars

----------------------------------------------------------------------------
\* A search compares its query only with chunks of the model it was labelled
\* with, although the label moves while it runs; and, as long as the corpus has
\* kept the model name the proxy was booted with, both were computed by the same
\* model, whoever embedded them.
SameSpace ==
  ask.pc \in {"ranked", "found"} =>
    \A v \in ask.hits :
      /\ versions[v].model = ask.wire
      /\ drifted \/ versions[v].space = ask.space

\* The start guard, checked once per run and long before its finalize, keeps the
\* active corpus under one model name, unless a run that found it empty or a
\* rollback has brought another.
OneName == crossed \/ Cardinality(ServingNames(versions)) <= 1

\* Once no finalize is under way the label is the database's active model,
\* unless a rollback, a lost or failed refresh or one overtaken by another
\* finalize has left it behind.
LabelSettles ==
  (\A r \in Runners : run[r].pc \notin {"committed", "reread"}) =>
    excused \/ label = Active(versions)

\* The inductive invariant behind them.  A run that has not finalized holds a
\* version of its own, still building; the migration's is over between two sources.
Held(r) == run[r].pc \in {"building", "uploaded"}
HoldsBuilding ==
  /\ \A r \in Runners : Held(r) =>
       /\ run[r].ver \in DOMAIN versions /\ versions[run[r].ver].status = "building"
       /\ versions[run[r].ver].model = run[r].want
  /\ \A r \in Runners : run[r].pc \in {"idle", "chosen", "ok", "failed"} => run[r].ver = 0
  /\ \A r, q \in Runners : Held(r) /\ Held(q) /\ run[r].ver = run[q].ver => r = q
  /\ drive.pc # "running" => run[Migrator].pc \in {"idle", "ok", "failed"}

\* Its start found the corpus under the name it has, or found it empty.
StartedInName ==
  crossed \/ \A r \in Runners :
    Held(r) /\ ~versions[run[r].ver].blank =>
      ServingNames(versions) = {NameOf[versions[run[r].ver].model]}

\* Without a drift, the proxy has embedded with one model only, the one served.
OneProxy ==
  drifted \/ /\ ServingNames(versions) \subseteq {proxy}
             /\ Serving(versions) = {} => proxy = NameOf[Newest]
             /\ \A v \in DOMAIN versions :
                  versions[v].space \in {NameOf[versions[v].model], proxy}
             /\ ask.pc \in {"embedded", "checked", "ranked", "found"} =>
                  ask.space \in {NameOf[ask.wire], proxy}

\* A search holds versions that were being served under its label.
HitsServed ==
  /\ ask.pc \in {"checked", "ranked", "found"} => ask.snap = ask.wire
  /\ ask.pc \in {"ranked", "found"} =>
       \A v \in ask.hits : /\ v \in DOMAIN versions
                           /\ versions[v].status \in {"active", "inactive"}

CorpusInv == CorpusTypeOK /\ HoldsBuilding /\ StartedInName /\ OneProxy /\ HitsServed
          /\ SameSpace /\ OneName /\ LabelSettles
=============================================================================
