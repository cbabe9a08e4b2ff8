--------------------------- MODULE IngestRunProofs ---------------------------
(***************************************************************************)
(* Proofs about IngestRun, for any number of invocations, paths, chunks,   *)
(* earlier versions, failing statements, rollbacks and sweeps.             *)
(***************************************************************************)
EXTENDS IngestRun, FiniteSetTheorems, SequenceTheorems, TLAPS

-----------------------------------------------------------------------------
(* What a step leaves alone.                                               *)

\* The variables of invocation d keep their values.
Rests(d) ==
  /\ pc'[d] = pc[d] /\ run'[d] = run[d] /\ tree'[d] = tree[d] /\ wanted'[d] = wanted[d]
  /\ carried'[d] = carried[d] /\ todo'[d] = todo[d] /\ conflict'[d] = conflict[d]
  /\ stage'[d] = stage[d] /\ prior'[d] = prior[d] /\ listed'[d] = listed[d]
  /\ canCarry'[d] = canCarry[d] /\ batch'[d] = batch[d] /\ carrying'[d] = carrying[d]
  /\ doc'[d] = doc[d] /\ copy'[d] = copy[d] /\ found'[d] = found[d] /\ closing'[d] = closing[d]

\* Version v keeps its model and its rows, and stays readable or does not
\* become so; or it is swept.
Endures(v) ==
  /\ model'[v] = model[v]
  /\ \/ docs'[v] = docs[v] /\ (status'[v] = status[v] \/ (Readable(v) /\ Readable(v)'))
     \/ docs'[v] = NoRows /\ status'[v] = "deleted"


\* A step of one invocation and its handlers.
Step(c) == Cli(c) \/ Upload(c) \/ Close(c)

(* It leaves the variables of the others alone.                            *)
LEMMA OthersRest ==
  ASSUME TypeOK, NEW c \in Clis, Step(c), NEW d \in Clis, d # c
  PROVE  Rests(d)
<1>1. CASE Plan(c)
  BY <1>1 DEF Plan, Rests, TypeOK, versions, plan, sending, reading, storing, upload, bounds
<1>2. CASE Start(c)
  BY <1>2 DEF Start, NewRun, Rests, TypeOK, versions, plan, sending, reading, storing, upload, bounds
<1>3. CASE Send(c)
  BY <1>3 DEF Send, Rests, TypeOK, versions, plan, sending, reading, storing, upload, bounds
<1>4. CASE SkipOversize(c)
  BY <1>4 DEF SkipOversize, Rests, TypeOK, versions, plan, sending, reading, storing, upload, bounds
<1>5. CASE Advance(c)
  BY <1>5 DEF Advance, Rests, TypeOK, versions, plan, sending, reading, storing, upload, bounds
<1>6. CASE GiveUp(c)
  BY <1>6 DEF GiveUp, Rests, TypeOK, versions, plan, sending, reading, storing, upload, bounds
<1>7. CASE Abort(c)
  BY <1>7 DEF Abort, MarkAborted, Rests, TypeOK, versions, plan, sending, reading, storing, upload, bounds
<1>8. CASE SendFinalize(c)
  BY <1>8 DEF SendFinalize, Rests, TypeOK, versions, plan, sending, reading, storing, upload, bounds
<1>9. CASE CheckBuilding(c)
  BY <1>9 DEF CheckBuilding, Rests, TypeOK, versions, plan, sending, reading, storing, upload, bounds
<1>10. CASE RefuseUpload(c)
  BY <1>10 DEF RefuseUpload, EndUpload, Rests, TypeOK, versions, plan, sending, reading, storing, upload, bounds
<1>11. CASE DropUpload(c)
  BY <1>11 DEF DropUpload, EndUpload, Rests, TypeOK, versions, plan, sending, reading, storing, upload, bounds
<1>12. CASE FindPrior(c)
  BY <1>12 DEF FindPrior, Rests, TypeOK, versions, plan, sending, reading, storing, upload, bounds
<1>13. CASE ListPrior(c)
  BY <1>13 DEF ListPrior, Rests, TypeOK, versions, plan, sending, reading, storing, upload, bounds
<1>14. CASE GateCarry(c)
  BY <1>14 DEF GateCarry, Rests, TypeOK, versions, plan, sending, reading, storing, upload, bounds
<1>15. CASE Classify(c)
  BY <1>15 DEF Classify, Rests, TypeOK, versions, plan, sending, reading, storing, upload, bounds
<1>16. CASE ReadChunks(c)
  BY <1>16 DEF ReadChunks, Rests, TypeOK, versions, plan, sending, reading, storing, upload, bounds
<1>17. CASE InsertDocument(c)
  BY <1>17 DEF InsertDocument, Rests, TypeOK, versions, plan, sending, reading, storing, upload, bounds
<1>18. CASE InsertChunk(c)
  BY <1>18 DEF InsertChunk, Rests, TypeOK, versions, plan, sending, reading, storing, upload, bounds
<1>19. CASE Accept(c)
  BY <1>19 DEF Accept, NextDocument, Rests, TypeOK, versions, plan, sending, reading, storing, upload, bounds
<1>20. CASE InsertFails(c)
  BY <1>20 DEF InsertFails, NextDocument, Rests, TypeOK, versions, plan, sending, reading, storing, upload, bounds
<1>21. CASE Respond(c)
  BY <1>21 DEF Respond, EndUpload, Rests, TypeOK, versions, plan, sending, reading, storing, upload, bounds
<1>22. CASE CountDocuments(c)
  BY <1>22 DEF CountDocuments, Rests, TypeOK, versions, plan, sending, reading, storing, upload, bounds
<1>23. CASE CountDiffers(c)
  BY <1>23 DEF CountDiffers, EndFinalize, Rests, TypeOK, versions, plan, sending, reading, storing, upload, bounds
<1>24. CASE Finalize(c)
  BY <1>24 DEF Finalize, Succeed, Rests, TypeOK, versions, plan, sending, reading, storing, upload, bounds
<1>25. CASE FinalizeFails(c)
  BY <1>25 DEF FinalizeFails, EndFinalize, Rests, TypeOK, versions, plan, sending, reading, storing, upload, bounds
<1> QED
  BY <1>1, <1>2, <1>3, <1>4, <1>5, <1>6, <1>7, <1>8, <1>9, <1>10, <1>11, <1>12, <1>13, <1>14, <1>15, <1>16, <1>17, <1>18, <1>19, <1>20, <1>21, <1>22, <1>23, <1>24, <1>25 DEF Step, Cli, Upload, Close

(* It leaves the versions of the others alone, but that a finalize takes   *)
(* the place of the active one.                                            *)
LEMMA OthersEndure ==
  ASSUME TypeOK, NEW c \in Clis, Step(c), NEW v \in Versions, v # run'[c]
  PROVE  Endures(v)
<1>1. CASE Plan(c)
  BY <1>1 DEF Plan, Endures, Readable, Active, TypeOK, versions, plan, sending, reading, storing, upload, bounds
<1>2. CASE Start(c)
  BY <1>2 DEF Start, NewRun, Endures, Readable, Active, TypeOK, versions, plan, sending, reading, storing, upload, bounds
<1>3. CASE Send(c)
  BY <1>3 DEF Send, Endures, Readable, Active, TypeOK, versions, plan, sending, reading, storing, upload, bounds
<1>4. CASE SkipOversize(c)
  BY <1>4 DEF SkipOversize, Endures, Readable, Active, TypeOK, versions, plan, sending, reading, storing, upload, bounds
<1>5. CASE Advance(c)
  BY <1>5 DEF Advance, Endures, Readable, Active, TypeOK, versions, plan, sending, reading, storing, upload, bounds
<1>6. CASE GiveUp(c)
  BY <1>6 DEF GiveUp, Endures, Readable, Active, TypeOK, versions, plan, sending, reading, storing, upload, bounds
<1>7. CASE Abort(c)
  BY <1>7 DEF Abort, MarkAborted, Endures, Readable, Active, TypeOK, versions, plan, sending, reading, storing, upload, bounds
<1>8. CASE SendFinalize(c)
  BY <1>8 DEF SendFinalize, Endures, Readable, Active, TypeOK, versions, plan, sending, reading, storing, upload, bounds
<1>9. CASE CheckBuilding(c)
  BY <1>9 DEF CheckBuilding, Endures, Readable, Active, TypeOK, versions, plan, sending, reading, storing, upload, bounds
<1>10. CASE RefuseUpload(c)
  BY <1>10 DEF RefuseUpload, Endures, Readable, Active, TypeOK, versions, plan, sending, reading, storing, upload, bounds
<1>11. CASE DropUpload(c)
  BY <1>11 DEF DropUpload, Endures, Readable, Active, TypeOK, versions, plan, sending, reading, storing, upload, bounds
<1>12. CASE FindPrior(c)
  BY <1>12 DEF FindPrior, Endures, Readable, Active, TypeOK, versions, plan, sending, reading, storing, upload, bounds
<1>13. CASE ListPrior(c)
  BY <1>13 DEF ListPrior, Endures, Readable, Active, TypeOK, versions, plan, sending, reading, storing, upload, bounds
<1>14. CASE GateCarry(c)
  BY <1>14 DEF GateCarry, Endures, Readable, Active, TypeOK, versions, plan, sending, reading, storing, upload, bounds
<1>15. CASE Classify(c)
  BY <1>15 DEF Classify, Endures, Readable, Active, TypeOK, versions, plan, sending, reading, storing, upload, bounds
<1>16. CASE ReadChunks(c)
  BY <1>16 DEF ReadChunks, Endures, Readable, Active, TypeOK, versions, plan, sending, reading, storing, upload, bounds
<1>17. CASE InsertDocument(c)
  BY <1>17 DEF InsertDocument, Endures, Readable, Active, TypeOK, versions, plan, sending, reading, storing, upload, bounds
<1>18. CASE InsertChunk(c)
  BY <1>18 DEF InsertChunk, Endures, Readable, Active, TypeOK, versions, plan, sending, reading, storing, upload, bounds
<1>19. CASE Accept(c)
  BY <1>19 DEF Accept, Endures, Readable, Active, TypeOK, versions, plan, sending, reading, storing, upload, bounds
<1>20. CASE InsertFails(c)
  BY <1>20 DEF InsertFails, Endures, Readable, Active, TypeOK, versions, plan, sending, reading, storing, upload, bounds
<1>21. CASE Respond(c)
  BY <1>21 DEF Respond, Endures, Readable, Active, TypeOK, versions, plan, sending, reading, storing, upload, bounds
<1>22. CASE CountDocuments(c)
  BY <1>22 DEF CountDocuments, Endures, Readable, Active, TypeOK, versions, plan, sending, reading, storing, upload, bounds
<1>23. CASE CountDiffers(c)
  BY <1>23 DEF CountDiffers, EndFinalize, Endures, Readable, Active, TypeOK, versions, plan, sending, reading, storing, upload, bounds
<1>24. CASE Finalize(c)
  BY <1>24 DEF Finalize, Endures, Readable, Active, TypeOK, versions, plan, sending, reading, storing, upload, bounds
<1>25. CASE FinalizeFails(c)
  BY <1>25 DEF FinalizeFails, Endures, Readable, Active, TypeOK, versions, plan, sending, reading, storing, upload, bounds
<1> QED
  BY <1>1, <1>2, <1>3, <1>4, <1>5, <1>6, <1>7, <1>8, <1>9, <1>10, <1>11, <1>12, <1>13, <1>14, <1>15, <1>16, <1>17, <1>18, <1>19, <1>20, <1>21, <1>22, <1>23, <1>24, <1>25 DEF Step, Cli, Upload, Close

(* Rollbacks and sweeps leave the invocations alone, and of every version   *)
(* what Endures says.                                                      *)
LEMMA EnvironmentRests ==
  ASSUME TypeOK, Rollback \/ Sweep
  PROVE  /\ \A d \in Clis : Rests(d)
         /\ \A v \in Versions : Endures(v)
<1>1. CASE Rollback
  BY <1>1 DEF Rollback, Rests, Endures, Readable, Active, TypeOK, versions, plan, sending, reading, storing, upload, bounds
<1>2. CASE Sweep
  BY <1>2 DEF Sweep, Rests, Endures, Readable, Active, TypeOK, versions, plan, sending, reading, storing, upload, bounds
<1> QED
  BY <1>1, <1>2

-----------------------------------------------------------------------------
(* Types.                                                                  *)

(* The lemmas' names for what TypeOK says of the rows.                     *)
LEMMA RowsTyped ==
  ASSUME CountAssumption, NEW rows \in Seq(Row)
  PROVE  /\ rows # <<>> => LastRow(rows) \in Row /\ Len(rows) \in DOMAIN rows
         /\ \A h \in Hashes, m \in Models : NewDocument(rows, h, m) \in Seq(Row)
         /\ rows # <<>> /\ LastRow(rows).chunks < NChunks => NewChunk(rows) \in Seq(Row)
<1>1. ASSUME rows # <<>> PROVE LastRow(rows) \in Row /\ Len(rows) \in DOMAIN rows
  BY <1>1 DEF LastRow
<1>2. ASSUME NEW h \in Hashes, NEW m \in Models PROVE NewDocument(rows, h, m) \in Seq(Row)
  <2>1. [hash |-> h, chunks |-> 0, space |-> m] \in Row
    BY <1>2 DEF Row, CountAssumption
  <2> QED BY <2>1 DEF NewDocument
<1>3. ASSUME rows # <<>>, LastRow(rows).chunks < NChunks PROVE NewChunk(rows) \in Seq(Row)
  <2>1. LastRow(rows) \in Row /\ Len(rows) \in DOMAIN rows
    BY <1>1, <1>3
  <2>2. [LastRow(rows) EXCEPT !.chunks = @ + 1] \in Row
    BY <1>3, <2>1 DEF Row, CountAssumption
  <2>3. NewChunk(rows) = [rows EXCEPT ![Len(rows)] = [LastRow(rows) EXCEPT !.chunks = @ + 1]]
    BY <2>1 DEF NewChunk, LastRow
  <2> DEFINE r == [LastRow(rows) EXCEPT !.chunks = @ + 1]
  <2> HIDE DEF r
  <2>4. r \in Row
    BY <2>2 DEF r
  <2>5. [rows EXCEPT ![Len(rows)] = r] \in Seq(Row)
    BY <2>1, <2>4, ExceptSeq
  <2> QED BY <2>3, <2>5 DEF r
<1> QED BY <1>1, <1>2, <1>3

(* The copy of no document.                                                *)
LEMMA NothingTyped ==
  ASSUME CountAssumption, TreeAssumption
  PROVE  Nothing \in Payload
BY DEF Nothing, SomeModel, Payload, CountAssumption, TreeAssumption

(* The handler's variables, when it ends.                                  *)
Ended ==
  /\ stage \in [Clis -> Stages] /\ batch \in [Clis -> SUBSET Paths]
  /\ carrying \in [Clis -> BOOLEAN] /\ prior \in [Clis -> Versions \cup {0}]
  /\ listed \in [Clis -> [Paths -> Hashes \cup {NoDoc}]] /\ canCarry \in [Clis -> BOOLEAN]
  /\ doc \in [Clis -> Paths \cup {NoDoc}] /\ copy \in [Clis -> Payload]
  /\ found \in [Clis -> [Paths -> Conflicts]]

(* They keep their types.                                                  *)
LEMMA EndTyped ==
  ASSUME CountAssumption, TreeAssumption, TypeOK, NEW c \in Clis, EndUpload(c)
  PROVE  Ended'
<1>1. Nothing \in Payload
  BY NothingTyped
<1>2. NoneFound \in [Paths -> Conflicts] /\ NoneListed \in [Paths -> Hashes \cup {NoDoc}]
  BY DEF NoneFound, NoneListed, Conflicts
<1>3. "none" \in Stages
  BY DEF Stages
<1> QED
  BY <1>1, <1>2, <1>3 DEF EndUpload, Ended, TypeOK

(* An inventory names paths.                                               *)
LEMMA InventoryPaths ==
  ASSUME NEW c \in Clis
  PROVE  Inventory(c) \subseteq Paths
<1>1. \A d \in ActiveDocuments : d.path \in Paths
  BY DEF ActiveDocuments
<1> QED
  BY <1>1 DEF Inventory

(* A step keeps the types.                                                 *)
LEMMA TypesKept ==
  ASSUME CountAssumption, TreeAssumption, TypeOK, NEW c \in Clis, Step(c),
         Owns(c), Ordered(c), Paced(c), Stocked(c)
  PROVE  TypeOK'
<1>1. CASE Plan(c)
  <2>1. tree' \in [Clis -> Trees]
    BY <1>1 DEF Plan, TypeOK
  <2>2. wanted' \in [Clis -> Models]
    BY <1>1 DEF Plan, TypeOK
  <2>3. carried' \in [Clis -> SUBSET Paths]
    BY <1>1, InventoryPaths DEF Plan, TypeOK
  <2>4. pc' \in [Clis -> Phases]
    BY <1>1 DEF Plan, Phases, Uploading, TypeOK
  <2> QED
    BY <1>1, <2>1, <2>2, <2>3, <2>4 DEF Plan, TypeOK, Ended, versions, plan, sending, reading, storing, upload, bounds
<1>2. CASE Start(c)
  <2>1. status' \in [Versions -> Statuses]
    BY <1>2 DEF Start, NewRun, Statuses, TypeOK
  <2>2. model' \in [Versions -> Models]
    BY <1>2 DEF Start, NewRun, TypeOK
  <2>3. run' \in [Clis -> Versions \cup {0}]
    BY <1>2 DEF Start, NewRun, TypeOK
  <2>4. todo' \in [Clis -> SUBSET Paths]
    BY <1>2 DEF Start, NewUploads, Walked, TypeOK
  <2>5. pc' \in [Clis -> Phases]
    BY <1>2 DEF Start, NewRun, Phases, Uploading, TypeOK
  <2> QED
    BY <1>2, <2>1, <2>2, <2>3, <2>4, <2>5 DEF Start, TypeOK, Ended, versions, plan, sending, reading, storing, upload, bounds
<1>3. CASE Send(c)
  <2>1. batch' \in [Clis -> SUBSET Paths]
    BY <1>3 DEF Send, TypeOK
  <2>2. todo' \in [Clis -> SUBSET Paths]
    BY <1>3 DEF Send, TypeOK
  <2>3. carrying' \in [Clis -> BOOLEAN]
    BY <1>3 DEF Send, TypeOK
  <2>4. stage' \in [Clis -> Stages]
    BY <1>3 DEF Send, Stages, TypeOK
  <2> QED
    BY <1>3, <2>1, <2>2, <2>3, <2>4 DEF Send, TypeOK, Ended, versions, plan, sending, reading, storing, upload, bounds
<1>4. CASE SkipOversize(c)
  <2>1. todo' \in [Clis -> SUBSET Paths]
    BY <1>4 DEF SkipOversize, TypeOK
  <2>2. conflict' \in [Clis -> [Paths -> Conflicts]]
    BY <1>4 DEF SkipOversize, Conflicts, TypeOK
  <2> QED
    BY <1>4, <2>1, <2>2 DEF SkipOversize, TypeOK, Ended, versions, plan, sending, reading, storing, upload, bounds
<1>5. CASE Advance(c)
  <2> DEFINE cleared == [p \in Paths |-> IF conflict[c][p] = "reembed" THEN "none" ELSE conflict[c][p]]
             later   == {"carry", "retry", "finalize", "aborting"}
  <2>0. /\ \E x \in later : pc' = [pc EXCEPT ![c] = x]
        /\ todo' = todo \/ \E U \in {CarriedUploads(c), ReembedUploads(c)} : todo' = [todo EXCEPT ![c] = U]
        /\ conflict' = conflict \/ conflict' = [conflict EXCEPT ![c] = cleared]
    BY <1>5 DEF Advance, TypeOK, sending
  <2>1. pc' \in [Clis -> Phases]
    BY <2>0 DEF Phases, Uploading, TypeOK
  <2>2. todo' \in [Clis -> SUBSET Paths]
    <3>1. CarriedUploads(c) \in SUBSET Paths /\ ReembedUploads(c) \in SUBSET Paths
      BY DEF CarriedUploads, ReembedUploads, Walked
    <3>2. todo \in [Clis -> SUBSET Paths]
      BY DEF TypeOK
    <3> QED BY <2>0, <3>1, <3>2
  <2>3. conflict' \in [Clis -> [Paths -> Conflicts]]
    <3>1. cleared \in [Paths -> Conflicts]
      BY DEF TypeOK, Conflicts
    <3>2. conflict \in [Clis -> [Paths -> Conflicts]]
      BY DEF TypeOK
    <3> HIDE DEF cleared
    <3> QED BY <2>0, <3>1, <3>2
  <2> QED
    BY <1>5, <2>1, <2>2, <2>3 DEF Advance, TypeOK, Ended, versions, plan, sending, reading, storing, upload, bounds
<1>6. CASE GiveUp(c)
  <2>1. pc' \in [Clis -> Phases]
    BY <1>6 DEF GiveUp, Phases, Uploading, TypeOK
  <2> QED
    BY <1>6, <2>1 DEF GiveUp, TypeOK, Ended, versions, plan, sending, reading, storing, upload, bounds
<1>7. CASE Abort(c)
  <2>1. pc' \in [Clis -> Phases]
    BY <1>7 DEF Abort, MarkAborted, Phases, Uploading, TypeOK
  <2>2. status' \in [Versions -> Statuses]
    <3>1. status' = status \/ status' = [status EXCEPT ![run[c]] = "aborted"]
      BY <1>7 DEF Abort, MarkAborted
    <3>2. status \in [Versions -> Statuses]
      BY DEF TypeOK
    <3> QED BY <3>1, <3>2 DEF Statuses
  <2> QED
    BY <1>7, <2>1, <2>2 DEF Abort, TypeOK, Ended, versions, plan, sending, reading, storing, upload, bounds
<1>8. CASE SendFinalize(c)
  <2>1. pc' \in [Clis -> Phases]
    BY <1>8 DEF SendFinalize, Phases, Uploading, TypeOK
  <2>2. closing' \in [Clis -> {"none", "sent", "counted"}]
    BY <1>8 DEF SendFinalize, TypeOK
  <2> QED
    BY <1>8, <2>1, <2>2 DEF SendFinalize, TypeOK, Ended, versions, plan, sending, reading, storing, upload, bounds
<1>9. CASE CheckBuilding(c)
  <2>1. stage' \in [Clis -> Stages]
    BY <1>9 DEF CheckBuilding, Stages, TypeOK
  <2> QED
    BY <1>9, <2>1 DEF CheckBuilding, TypeOK, Ended, versions, plan, sending, reading, storing, upload, bounds
<1>10. CASE RefuseUpload(c)
  <2>1. Ended'
    BY <1>10, EndTyped DEF RefuseUpload
  <2>2. pc' \in [Clis -> Phases]
    BY <1>10 DEF RefuseUpload, EndUpload, Phases, Uploading, TypeOK
  <2> QED
    BY <1>10, <2>1, <2>2 DEF RefuseUpload, TypeOK, Ended, versions, plan, sending, reading, storing, upload, bounds
<1>11. CASE DropUpload(c)
  <2>1. Ended'
    BY <1>11, EndTyped DEF DropUpload
  <2> QED
    BY <1>11, <2>1 DEF DropUpload, TypeOK, Ended, versions, plan, sending, reading, storing, upload, bounds
<1>12. CASE FindPrior(c)
  <2>1. prior' \in [Clis -> Versions \cup {0}]
    BY <1>12 DEF FindPrior, Active, TypeOK
  <2>2. stage' \in [Clis -> Stages]
    BY <1>12 DEF FindPrior, Stages, TypeOK
  <2> QED
    BY <1>12, <2>1, <2>2 DEF FindPrior, TypeOK, Ended, versions, plan, sending, reading, storing, upload, bounds
<1>13. CASE ListPrior(c)
  <2>1. listed' \in [Clis -> [Paths -> Hashes \cup {NoDoc}]]
    <3> DEFINE l == [p \in Paths |->
                      IF prior[c] = 0 \/ docs[prior[c]][p] = <<>> THEN NoDoc
                      ELSE LastRow(docs[prior[c]][p]).hash]
    <3>1. ASSUME NEW p \in Paths, prior[c] # 0, docs[prior[c]][p] # <<>>
          PROVE  LastRow(docs[prior[c]][p]).hash \in Hashes
      <4>1. docs[prior[c]][p] \in Seq(Row)
        BY <3>1 DEF TypeOK
      <4> QED BY <3>1, <4>1, RowsTyped DEF Row
    <3>2. l \in [Paths -> Hashes \cup {NoDoc}]
      BY <3>1
    <3>3. listed' = [listed EXCEPT ![c] = l]
      BY <1>13 DEF ListPrior
    <3> HIDE DEF l
    <3> QED BY <3>2, <3>3 DEF TypeOK
  <2>2. stage' \in [Clis -> Stages]
    BY <1>13 DEF ListPrior, Stages, TypeOK
  <2> QED
    BY <1>13, <2>1, <2>2 DEF ListPrior, TypeOK, Ended, versions, plan, sending, reading, storing, upload, bounds
<1>14. CASE GateCarry(c)
  <2>1. canCarry' \in [Clis -> BOOLEAN]
    BY <1>14 DEF GateCarry, TypeOK
  <2>2. stage' \in [Clis -> Stages]
    BY <1>14 DEF GateCarry, Stages, TypeOK
  <2> QED
    BY <1>14, <2>1, <2>2 DEF GateCarry, TypeOK, Ended, versions, plan, sending, reading, storing, upload, bounds
<1>15. CASE Classify(c)
  <2>0. PICK p \in batch[c] :
          \/ /\ doc' = [doc EXCEPT ![c] = p] /\ stage' = [stage EXCEPT ![c] = "copy"]
             /\ UNCHANGED <<batch, copy, found>>
          \/ /\ doc' = [doc EXCEPT ![c] = p] /\ stage' = [stage EXCEPT ![c] = "insert"]
             /\ copy' = [copy EXCEPT ![c] = [chunks |-> NChunks, space |-> wanted[c]]]
             /\ UNCHANGED <<batch, found>>
          \/ /\ \E x \in {"reembed", "intentional"} : found' = [found EXCEPT ![c][p] = x]
             /\ batch' = [batch EXCEPT ![c] = @ \ {p}]
             /\ UNCHANGED <<stage, doc, copy>>
    BY <1>15 DEF Classify
  <2>1. p \in Paths
    BY DEF TypeOK
  <2>2. [chunks |-> NChunks, space |-> wanted[c]] \in Payload
    BY DEF TypeOK, Payload, CountAssumption
  <2>3. /\ doc' \in [Clis -> Paths \cup {NoDoc}] /\ copy' \in [Clis -> Payload]
        /\ stage' \in [Clis -> Stages]
    <3> DEFINE new == [chunks |-> NChunks, space |-> wanted[c]]
    <3>1. /\ doc \in [Clis -> Paths \cup {NoDoc}] /\ copy \in [Clis -> Payload]
          /\ stage \in [Clis -> Stages] /\ new \in Payload
      BY <2>2 DEF TypeOK
    <3> HIDE DEF new
    <3> QED BY <2>0, <2>1, <3>1 DEF Stages, new
  <2>4. batch' \in [Clis -> SUBSET Paths] /\ found' \in [Clis -> [Paths -> Conflicts]]
    <3>1. batch \in [Clis -> SUBSET Paths] /\ found \in [Clis -> [Paths -> Conflicts]]
      BY DEF TypeOK
    <3> QED BY <2>0, <2>1, <3>1 DEF Conflicts
  <2> QED
    BY <1>15, <2>3, <2>4 DEF Classify, TypeOK, versions, plan, sending, reading, bounds
<1>16. CASE ReadChunks(c)
  <2>1. copy' \in [Clis -> Payload]
    <3> DEFINE rows == docs[prior[c]][doc[c]]
               new  == IF rows = <<>> THEN [copy[c] EXCEPT !.chunks = 0]
                       ELSE [chunks |-> LastRow(rows).chunks, space |-> LastRow(rows).space]
    <3>1. prior[c] \in Versions /\ doc[c] \in Paths
      BY <1>16 DEF ReadChunks, Paced, TypeOK, Listing
    <3>2. rows \in Seq(Row)
      BY <3>1 DEF TypeOK
    <3>3. copy[c] \in Payload
      BY DEF TypeOK
    <3>4. copy' = [copy EXCEPT ![c] = new]
      BY <1>16 DEF ReadChunks
    <3>5. new \in Payload
      <4> HIDE DEF rows
      <4>1. CASE rows = <<>>
        BY <3>3, <4>1 DEF Payload, CountAssumption
      <4>2. CASE rows # <<>>
        BY <3>2, <4>2, RowsTyped DEF Payload, Row
      <4> QED BY <4>1, <4>2
    <3> HIDE DEF new
    <3> QED BY <3>4, <3>5 DEF TypeOK
  <2>2. stage' \in [Clis -> Stages]
    BY <1>16 DEF ReadChunks, Stages, TypeOK
  <2> QED
    BY <1>16, <2>1, <2>2 DEF ReadChunks, TypeOK, Ended, versions, plan, sending, reading, storing, upload, bounds
<1>17. CASE InsertDocument(c)
  <2>1. docs' \in [Versions -> [Paths -> Seq(Row)]]
    <3>1. run[c] \in Versions /\ doc[c] \in Paths /\ tree[c][doc[c]] \in Hashes
      <4>1. tree[c] \in [Paths -> Hashes \cup {NoDoc}]
        BY DEF TypeOK, TreeAssumption
      <4>2. stage[c] = "insert"
        BY <1>17 DEF InsertDocument
      <4>3. run[c] # 0
        BY <4>2 DEF Owns, Ordered, Uploading
      <4>4. doc[c] \in Walked(c)
        BY <4>2 DEF Paced
      <4> QED BY <4>1, <4>3, <4>4 DEF Walked, TypeOK
    <3> DEFINE rows == docs[run[c]][doc[c]]
               new  == NewDocument(rows, tree[c][doc[c]], copy[c].space)
    <3>2. rows \in Seq(Row) /\ copy[c].space \in Models
      BY <3>1 DEF TypeOK, Payload
    <3>3. new \in Seq(Row)
      BY <3>1, <3>2, RowsTyped
    <3>4. docs' = [docs EXCEPT ![run[c]][doc[c]] = new]
      BY <1>17 DEF InsertDocument
    <3> HIDE DEF new, rows
    <3> QED BY <3>1, <3>3, <3>4 DEF TypeOK
  <2>2. stage' \in [Clis -> Stages]
    BY <1>17 DEF InsertDocument, Stages, TypeOK
  <2> QED
    BY <1>17, <2>1, <2>2 DEF InsertDocument, TypeOK, Ended, versions, plan, sending, reading, storing, upload, bounds
<1>18. CASE InsertChunk(c)
  <2>1. docs' \in [Versions -> [Paths -> Seq(Row)]]
    <3>1. run[c] \in Versions /\ doc[c] \in Paths
      <4>1. stage[c] = "chunks"
        BY <1>18 DEF InsertChunk
      <4>2. run[c] # 0
        BY <4>1 DEF Owns, Ordered, Uploading
      <4>3. doc[c] \in batch[c]
        BY <4>1 DEF Paced
      <4> QED BY <4>2, <4>3 DEF TypeOK
    <3> DEFINE rows == docs[run[c]][doc[c]]
    <3>2. rows \in Seq(Row) /\ copy[c].chunks \in 0..NChunks
      BY <3>1 DEF TypeOK, Payload
    <3>3. rows # <<>> /\ LastRow(rows).chunks < copy[c].chunks
      <4>1. run[c] # 0
        BY <3>1 DEF Versions
      <4>2. stage[c] = "chunks" /\ status[run[c]] # "deleted" /\ Stored(c) < copy[c].chunks
        BY <1>18 DEF InsertChunk
      <4>3. rows # <<>>
        BY <3>1, <4>1, <4>2 DEF Stocked
      <4> QED BY <4>2, <4>3 DEF Stored
    <3>4. NewChunk(rows) \in Seq(Row)
      <4>1. LastRow(rows).chunks \in 0..NChunks
        BY <3>2, <3>3, RowsTyped DEF Row
      <4>2. LastRow(rows).chunks < NChunks
        BY <3>2, <3>3, <4>1 DEF CountAssumption
      <4> QED BY <3>2, <3>3, <4>2, RowsTyped
    <3> DEFINE new == NewChunk(rows)
    <3>5. docs' = [docs EXCEPT ![run[c]][doc[c]] = new]
      BY <1>18 DEF InsertChunk
    <3>6. new \in Seq(Row)
      BY <3>4
    <3> HIDE DEF new, rows
    <3> QED BY <3>1, <3>5, <3>6 DEF TypeOK
  <2> QED
    BY <1>18, <2>1 DEF InsertChunk, TypeOK, Ended, versions, plan, sending, reading, storing, upload, bounds
<1>19. CASE Accept(c)
  <2>1. batch' \in [Clis -> SUBSET Paths]
    BY <1>19, NothingTyped DEF Accept, NextDocument, TypeOK
  <2>2. doc' \in [Clis -> Paths \cup {NoDoc}]
    BY <1>19, NothingTyped DEF Accept, NextDocument, TypeOK
  <2>3. copy' \in [Clis -> Payload]
    BY <1>19, NothingTyped DEF Accept, NextDocument, TypeOK
  <2>4. stage' \in [Clis -> Stages]
    BY <1>19 DEF Accept, NextDocument, Stages, TypeOK
  <2> QED
    BY <1>19, <2>1, <2>2, <2>3, <2>4 DEF Accept, TypeOK, Ended, versions, plan, sending, reading, storing, upload, bounds
<1>20. CASE InsertFails(c)
  <2>1. faults' \in 0..MaxFaults
    BY <1>20, NothingTyped DEF InsertFails, NextDocument, TypeOK
  <2>2. found' \in [Clis -> [Paths -> Conflicts]]
    BY <1>20 DEF InsertFails, NextDocument, Conflicts, TypeOK
  <2>3. batch' \in [Clis -> SUBSET Paths]
    BY <1>20, NothingTyped DEF InsertFails, NextDocument, TypeOK
  <2>4. doc' \in [Clis -> Paths \cup {NoDoc}]
    BY <1>20, NothingTyped DEF InsertFails, NextDocument, TypeOK
  <2>5. copy' \in [Clis -> Payload]
    BY <1>20, NothingTyped DEF InsertFails, NextDocument, TypeOK
  <2>6. stage' \in [Clis -> Stages]
    BY <1>20 DEF InsertFails, NextDocument, Stages, TypeOK
  <2> QED
    BY <1>20, <2>1, <2>2, <2>3, <2>4, <2>5, <2>6 DEF InsertFails, TypeOK, Ended, versions, plan, sending, reading, storing, upload, bounds
<1>21. CASE Respond(c)
  <2>1. Ended'
    BY <1>21, EndTyped DEF Respond
  <2>2. conflict' \in [Clis -> [Paths -> Conflicts]]
    BY <1>21 DEF Respond, EndUpload, Conflicts, TypeOK
  <2> QED
    BY <1>21, <2>1, <2>2 DEF Respond, TypeOK, Ended, versions, plan, sending, reading, storing, upload, bounds
<1>22. CASE CountDocuments(c)
  <2>1. closing' \in [Clis -> {"none", "sent", "counted"}]
    BY <1>22 DEF CountDocuments, TypeOK
  <2> QED
    BY <1>22, <2>1 DEF CountDocuments, TypeOK, Ended, versions, plan, sending, reading, storing, upload, bounds
<1>23. CASE CountDiffers(c)
  <2>1. status' \in [Versions -> Statuses]
    BY <1>23 DEF CountDiffers, EndFinalize, Statuses, TypeOK
  <2>2. closing' \in [Clis -> {"none", "sent", "counted"}]
    BY <1>23 DEF CountDiffers, EndFinalize, TypeOK
  <2>3. pc' \in [Clis -> Phases]
    BY <1>23 DEF CountDiffers, EndFinalize, Phases, Uploading, TypeOK
  <2> QED
    BY <1>23, <2>1, <2>2, <2>3 DEF CountDiffers, TypeOK, Ended, versions, plan, sending, reading, storing, upload, bounds
<1>24. CASE Finalize(c)
  <2>1. status' \in [Versions -> Statuses]
    BY <1>24 DEF Finalize, Succeed, Statuses, TypeOK
  <2>2. closing' \in [Clis -> {"none", "sent", "counted"}]
    BY <1>24 DEF Finalize, Succeed, TypeOK
  <2>3. pc' \in [Clis -> Phases]
    BY <1>24 DEF Finalize, Succeed, Phases, Uploading, TypeOK
  <2> QED
    BY <1>24, <2>1, <2>2, <2>3 DEF Finalize, TypeOK, Ended, versions, plan, sending, reading, storing, upload, bounds
<1>25. CASE FinalizeFails(c)
  <2>1. closing' \in [Clis -> {"none", "sent", "counted"}]
    BY <1>25 DEF FinalizeFails, EndFinalize, TypeOK
  <2>2. pc' \in [Clis -> Phases]
    BY <1>25 DEF FinalizeFails, EndFinalize, Phases, Uploading, TypeOK
  <2> QED
    BY <1>25, <2>1, <2>2 DEF FinalizeFails, TypeOK, Ended, versions, plan, sending, reading, storing, upload, bounds
<1> QED
  BY <1>1, <1>2, <1>3, <1>4, <1>5, <1>6, <1>7, <1>8, <1>9, <1>10, <1>11, <1>12, <1>13, <1>14, <1>15, <1>16, <1>17, <1>18, <1>19, <1>20, <1>21, <1>22, <1>23, <1>24, <1>25 DEF Step, Cli, Upload, Close

-----------------------------------------------------------------------------
(* Invocations at rest.                                                    *)

\* What the safety properties rest on, of one invocation.
Sound(c) == Owns(c) /\ Ordered(c) /\ Paced(c) /\ Stocked(c) /\ Heard(c) /\ Counted(c)

(* An invocation that rests, and whose version endures, stays sound.       *)
LEMMA RestKeepsSound ==
  ASSUME TypeOK, NEW d \in Clis, Rests(d), run[d] # 0 => Endures(run[d]), Sound(d)
  PROVE  Sound(d)'
<1> DEFINE v == run[d]
<1>1. run'[d] = v /\ (v # 0 => v \in Versions)
  BY DEF Rests, TypeOK
<1>2. Owns(d)'
  BY <1>1 DEF Sound, Owns, Rests, Endures, Readable
<1>3. v # 0 => (Finalized(d)' => Finalized(d))
  BY <1>1 DEF Finalized, Endures, Readable, Rests
<1>4. Ordered(d)'
  BY <1>1, <1>3 DEF Sound, Ordered, Rests, Finalized
<1>5. Walked(d)' = Walked(d)
  BY DEF Walked, Rests
<1>6. Paced(d)'
  BY <1>5 DEF Sound, Paced, Rests
<1>7. Stocked(d)'
  <2> SUFFICES ASSUME run'[d] # 0 PROVE Stocked(d)'
    BY DEF Stocked
  <2>1. CASE docs'[v] = NoRows /\ status'[v] = "deleted"
    BY <1>1, <2>1 DEF Stocked, NoRows
  <2>2. CASE docs'[v] = docs[v] /\ (status'[v] = status[v] \/ status[v] # "deleted")
    BY <1>1, <1>5, <2>2 DEF Sound, Stocked, Unstored, Rests
  <2> QED BY <1>1, <2>1, <2>2 DEF Endures, Readable
<1>8. Heard(d)'
  <2> SUFFICES ASSUME run'[d] # 0, Live(d)' PROVE Heard(d)'
    BY DEF Heard
  <2>1. CASE docs'[v] = NoRows
    BY <1>1, <2>1 DEF Heard, NoRows, Walked
  <2>2. CASE docs'[v] = docs[v]
    <3>1. Live(d)
      BY <1>1, <1>3 DEF Live, Rests
    <3> QED BY <1>1, <1>5, <2>2, <3>1 DEF Sound, Heard, Rests
  <2> QED BY <1>1, <2>1, <2>2 DEF Endures
<1>9. Counted(d)'
  <2>1. Expected(d)' = Expected(d)
    BY <1>5 DEF Expected, Conflicted, Rests
  <2> SUFFICES ASSUME (closing'[d] = "counted" /\ status'[run'[d]] # "deleted") \/ Finalized(d)'
               PROVE  CountAgrees(d)'
    BY DEF Counted
  <2>3. v # 0
    <3>1. CASE closing'[d] = "counted"
      BY <3>1 DEF Sound, Owns, Ordered, Rests
    <3>2. CASE Finalized(d)'
      BY <1>1, <3>2 DEF Finalized
    <3> QED BY <3>1, <3>2
  <2>4. docs'[v] = docs[v] /\ (status[v] # "deleted" \/ status[v] = status'[v])
    BY <1>1, <2>3 DEF Endures, Readable, Finalized
  <2>5. (closing[d] = "counted" /\ status[v] # "deleted") \/ Finalized(d)
    BY <1>1, <1>3, <2>3, <2>4 DEF Rests
  <2>6. CountAgrees(d)
    BY <2>5 DEF Sound, Counted
  <2> QED
    BY <1>1, <2>1, <2>4, <2>6 DEF CountAgrees, RowCount
<1> QED
  BY <1>2, <1>4, <1>6, <1>7, <1>8, <1>9 DEF Sound

-----------------------------------------------------------------------------
(* The invocation that acts.                                               *)

(* It keeps its version, and the order of its handlers.                    *)
LEMMA OrderKept ==
  ASSUME CountAssumption, TypeOK, Begun, NEW c \in Clis, Step(c), Sound(c)
  PROVE  Owns(c)' /\ Ordered(c)'
<1> USE DEF Sound
<1>1. CASE Plan(c)
  BY <1>1 DEF Plan, Owns, Ordered, Paced, Finalized, Begun, Uploading, Conflicted, TypeOK, versions, plan, sending, reading, storing, upload, bounds
<1>2. CASE Start(c)
  BY <1>2 DEF Start, NewRun, Owns, Ordered, Paced, Finalized, Begun, Uploading, Conflicted, TypeOK, versions, plan, sending, reading, storing, upload, bounds
<1>3. CASE Send(c)
  BY <1>3 DEF Send, Owns, Ordered, Paced, Finalized, Begun, Uploading, Conflicted, TypeOK, versions, plan, sending, reading, storing, upload, bounds
<1>4. CASE SkipOversize(c)
  BY <1>4 DEF SkipOversize, Owns, Ordered, Paced, Finalized, Begun, Uploading, Conflicted, TypeOK, versions, plan, sending, reading, storing, upload, bounds
<1>5. CASE Advance(c)
  <2>1. /\ pc[c] \in Uploading /\ pc'[c] \notin {"idle", "planned", "new"} /\ stage[c] = "none"
        /\ UNCHANGED <<status, model, run, wanted, stage, closing>>
    BY <1>5 DEF Advance, PhaseOver, Uploading, TypeOK, versions, plan, upload
  <2> QED
    BY <2>1 DEF Owns, Ordered, Finalized, Uploading
<1>6. CASE GiveUp(c)
  BY <1>6 DEF GiveUp, Owns, Ordered, Paced, Finalized, Begun, Uploading, Conflicted, TypeOK, versions, plan, sending, reading, storing, upload, bounds
<1>7. CASE Abort(c)
  BY <1>7 DEF Abort, MarkAborted, Owns, Ordered, Paced, Finalized, Begun, Uploading, Conflicted, TypeOK, versions, plan, sending, reading, storing, upload, bounds
<1>8. CASE SendFinalize(c)
  BY <1>8 DEF SendFinalize, Owns, Ordered, Paced, Finalized, Begun, Uploading, Conflicted, TypeOK, versions, plan, sending, reading, storing, upload, bounds
<1>9. CASE CheckBuilding(c)
  BY <1>9 DEF CheckBuilding, Owns, Ordered, Paced, Finalized, Begun, Uploading, Conflicted, TypeOK, versions, plan, sending, reading, storing, upload, bounds
<1>10. CASE RefuseUpload(c)
  BY <1>10 DEF RefuseUpload, EndUpload, Owns, Ordered, Paced, Finalized, Begun, Uploading, Conflicted, TypeOK, versions, plan, sending, reading, storing, upload, bounds
<1>11. CASE DropUpload(c)
  BY <1>11 DEF DropUpload, EndUpload, Owns, Ordered, Paced, Finalized, Begun, Uploading, Conflicted, TypeOK, versions, plan, sending, reading, storing, upload, bounds
<1>12. CASE FindPrior(c)
  BY <1>12 DEF FindPrior, Owns, Ordered, Paced, Finalized, Begun, Uploading, Conflicted, TypeOK, versions, plan, sending, reading, storing, upload, bounds
<1>13. CASE ListPrior(c)
  BY <1>13 DEF ListPrior, Owns, Ordered, Paced, Finalized, Begun, Uploading, Conflicted, TypeOK, versions, plan, sending, reading, storing, upload, bounds
<1>14. CASE GateCarry(c)
  BY <1>14 DEF GateCarry, Owns, Ordered, Paced, Finalized, Begun, Uploading, Conflicted, TypeOK, versions, plan, sending, reading, storing, upload, bounds
<1>15. CASE Classify(c)
  BY <1>15 DEF Classify, Owns, Ordered, Paced, Finalized, Begun, Uploading, Conflicted, TypeOK, versions, plan, sending, reading, storing, upload, bounds
<1>16. CASE ReadChunks(c)
  BY <1>16 DEF ReadChunks, Owns, Ordered, Paced, Finalized, Begun, Uploading, Conflicted, TypeOK, versions, plan, sending, reading, storing, upload, bounds
<1>17. CASE InsertDocument(c)
  BY <1>17 DEF InsertDocument, Owns, Ordered, Paced, Finalized, Begun, Uploading, Conflicted, TypeOK, versions, plan, sending, reading, storing, upload, bounds
<1>18. CASE InsertChunk(c)
  BY <1>18 DEF InsertChunk, Owns, Ordered, Paced, Finalized, Begun, Uploading, Conflicted, TypeOK, versions, plan, sending, reading, storing, upload, bounds
<1>19. CASE Accept(c)
  BY <1>19 DEF Accept, NextDocument, Owns, Ordered, Paced, Finalized, Begun, Uploading, Conflicted, TypeOK, versions, plan, sending, reading, storing, upload, bounds
<1>20. CASE InsertFails(c)
  BY <1>20 DEF InsertFails, NextDocument, Owns, Ordered, Paced, Finalized, Begun, Uploading, Conflicted, TypeOK, versions, plan, sending, reading, storing, upload, bounds
<1>21. CASE Respond(c)
  BY <1>21 DEF Respond, EndUpload, Owns, Ordered, Paced, Finalized, Begun, Uploading, Conflicted, TypeOK, versions, plan, sending, reading, storing, upload, bounds
<1>22. CASE CountDocuments(c)
  BY <1>22 DEF CountDocuments, Owns, Ordered, Paced, Finalized, Begun, Uploading, Conflicted, TypeOK, versions, plan, sending, reading, storing, upload, bounds
<1>23. CASE CountDiffers(c)
  BY <1>23 DEF CountDiffers, EndFinalize, Owns, Ordered, Paced, Finalized, Begun, Uploading, Conflicted, TypeOK, versions, plan, sending, reading, storing, upload, bounds
<1>24. CASE Finalize(c)
  BY <1>24 DEF Finalize, Succeed, Owns, Ordered, Paced, Finalized, Begun, Uploading, Conflicted, TypeOK, versions, plan, sending, reading, storing, upload, bounds
<1>25. CASE FinalizeFails(c)
  BY <1>25 DEF FinalizeFails, EndFinalize, Owns, Ordered, Paced, Finalized, Begun, Uploading, Conflicted, TypeOK, versions, plan, sending, reading, storing, upload, bounds
<1> QED
  BY <1>1, <1>2, <1>3, <1>4, <1>5, <1>6, <1>7, <1>8, <1>9, <1>10, <1>11, <1>12, <1>13, <1>14, <1>15, <1>16, <1>17, <1>18, <1>19, <1>20, <1>21, <1>22, <1>23, <1>24, <1>25 DEF Step, Cli, Upload, Close

(* It keeps the pace of its uploads.                                       *)
LEMMA PaceKept ==
  ASSUME CountAssumption, TypeOK, Begun, NEW c \in Clis, Step(c), Sound(c)
  PROVE  Paced(c)'
<1> USE DEF Sound
<1>1. CASE Plan(c)
  <2>1. stage[c] = "none" /\ todo[c] = {} /\ batch[c] = {} /\ conflict[c] = NoneFound /\ found[c] = NoneFound
    BY <1>1 DEF Plan, Paced, Ordered, Uploading
  <2>2. /\ pc'[c] = "planned" /\ stage'[c] = "none" /\ todo'[c] = {} /\ batch'[c] = {}
        /\ conflict'[c] = NoneFound /\ found'[c] = NoneFound
    BY <1>1, <2>1 DEF Plan, TypeOK, sending, reading, storing, upload
  <2> QED
    BY <2>2 DEF Paced, NoneFound, Uploading, Listing
<1>2. CASE Start(c)
  <2>1. stage[c] = "none" /\ batch[c] = {} /\ conflict[c] = NoneFound /\ found[c] = NoneFound
    BY <1>2 DEF Start, Paced, Ordered, Uploading
  <2>2. /\ pc'[c] = "new" /\ stage'[c] = "none" /\ todo'[c] = NewUploads(c) /\ batch'[c] = {}
        /\ conflict'[c] = NoneFound /\ found'[c] = NoneFound /\ carried'[c] = carried[c] /\ tree'[c] = tree[c]
    BY <1>2, <2>1 DEF Start, TypeOK, reading, storing, upload
  <2> QED
    BY <2>2 DEF Paced, NoneFound, NewUploads, Walked, Uploading, Listing
<1>3. CASE Send(c)
  <2>1. stage[c] = "none" /\ batch[c] = {} /\ found[c] = NoneFound /\ pc[c] \in Uploading
    BY <1>3 DEF Send, Paced
  <2>2. PICK B \in SUBSET todo[c] : batch'[c] = B /\ todo'[c] = todo[c] \ B
    BY <1>3 DEF Send, TypeOK
  <2>3. /\ pc'[c] = pc[c] /\ stage'[c] = "sent" /\ found'[c] = NoneFound /\ carried'[c] = carried[c]
        /\ tree'[c] = tree[c] /\ conflict'[c] = conflict[c] /\ carrying'[c] = (pc[c] = "carry")
    BY <1>3, <2>1 DEF Send, TypeOK, plan
  <2>4. /\ todo[c] \subseteq Walked(c) /\ batch'[c] \subseteq todo[c] /\ todo'[c] \subseteq todo[c]
        /\ todo'[c] \cap batch'[c] = {} /\ Walked(c)' = Walked(c)
    BY <2>2, <2>3 DEF Paced, Walked
  <2>5. pc[c] = "new" => todo[c] \cap carried[c] = {}
    BY DEF Paced
  <2>6. pc[c] \in {"carry", "retry"} => todo[c] \subseteq carried[c]
    BY DEF Paced
  <2>7. \A p \in Paths : conflict[c][p] # "none" =>
          p \in Walked(c) /\ p \notin todo[c] /\ (pc[c] = "new" => p \notin carried[c])
    BY DEF Paced
  <2> QED
    BY <2>1, <2>3, <2>4, <2>5, <2>6, <2>7 DEF Paced, NoneFound, Uploading, Listing, Walked
<1>4. CASE SkipOversize(c)
  BY <1>4 DEF SkipOversize, Paced, Ordered, Owns, Walked, NoneFound, Uploading, Listing, TypeOK, versions, plan, sending, reading, storing, upload, bounds
<1>5. CASE Advance(c)
  <2>1. stage[c] = "none" /\ batch[c] = {} /\ found[c] = NoneFound /\ todo[c] = {}
    BY <1>5 DEF Advance, PhaseOver, Paced
  <2>2. /\ stage'[c] = "none" /\ batch'[c] = {} /\ found'[c] = NoneFound /\ carried'[c] = carried[c]
        /\ tree'[c] = tree[c]
    BY <1>5, <2>1 DEF Advance, PhaseOver, plan, reading, storing, upload
  <2>3. CASE pc[c] = "new"
    <3>1. pc'[c] = "carry" /\ todo'[c] = CarriedUploads(c) /\ conflict'[c] = conflict[c]
      BY <1>5, <2>3 DEF Advance, TypeOK
    <3> QED
      BY <2>1, <2>2, <2>3, <3>1 DEF Paced, NoneFound, CarriedUploads, Walked, Uploading, Listing
  <2>4. CASE pc[c] = "carry" /\ Conflicted(c, {"reembed"}) # {}
    <3>1. /\ pc'[c] = "retry" /\ todo'[c] = ReembedUploads(c)
          /\ conflict'[c] = [p \in Paths |-> IF conflict[c][p] = "reembed" THEN "none" ELSE conflict[c][p]]
      BY <1>5, <2>4 DEF Advance, TypeOK
    <3> QED
      BY <2>1, <2>2, <2>4, <3>1 DEF Paced, NoneFound, ReembedUploads, CarriedUploads, Walked, Uploading, Listing
  <2>5. CASE ~(pc[c] = "new") /\ ~(pc[c] = "carry" /\ Conflicted(c, {"reembed"}) # {})
    <3>1. pc'[c] \in {"finalize", "aborting"} /\ todo'[c] = {} /\ conflict'[c] = conflict[c]
      BY <1>5, <2>1, <2>5 DEF Advance, TypeOK, sending
    <3> QED
      BY <2>1, <2>2, <3>1 DEF Paced, NoneFound, Walked, Uploading, Listing
  <2> QED
    BY <2>3, <2>4, <2>5
<1>6. CASE GiveUp(c)
  BY <1>6 DEF GiveUp, Paced, Ordered, Owns, Walked, NoneFound, Uploading, Listing, TypeOK, versions, plan, sending, reading, storing, upload, bounds
<1>7. CASE Abort(c)
  BY <1>7 DEF Abort, MarkAborted, Paced, Ordered, Owns, Walked, NoneFound, Uploading, Listing, TypeOK, versions, plan, sending, reading, storing, upload, bounds
<1>8. CASE SendFinalize(c)
  BY <1>8 DEF SendFinalize, Paced, Ordered, Owns, Walked, NoneFound, Uploading, Listing, TypeOK, versions, plan, sending, reading, storing, upload, bounds
<1>9. CASE CheckBuilding(c)
  BY <1>9 DEF CheckBuilding, Paced, Ordered, Owns, Walked, NoneFound, Uploading, Listing, TypeOK, versions, plan, sending, reading, storing, upload, bounds
<1>10. CASE RefuseUpload(c)
  BY <1>10 DEF RefuseUpload, EndUpload, Paced, Ordered, Owns, Walked, NoneFound, Uploading, Listing, TypeOK, versions, plan, sending, reading, storing, upload, bounds
<1>11. CASE DropUpload(c)
  BY <1>11 DEF DropUpload, EndUpload, Paced, Ordered, Owns, Walked, NoneFound, Uploading, Listing, TypeOK, versions, plan, sending, reading, storing, upload, bounds
<1>12. CASE FindPrior(c)
  BY <1>12 DEF FindPrior, Paced, Ordered, Owns, Walked, NoneFound, Uploading, Listing, TypeOK, versions, plan, sending, reading, storing, upload, bounds
<1>13. CASE ListPrior(c)
  BY <1>13 DEF ListPrior, Paced, Ordered, Owns, Walked, NoneFound, Uploading, Listing, TypeOK, versions, plan, sending, reading, storing, upload, bounds
<1>14. CASE GateCarry(c)
  BY <1>14 DEF GateCarry, Paced, Ordered, Owns, Walked, NoneFound, Uploading, Listing, TypeOK, versions, plan, sending, reading, storing, upload, bounds
<1>15. CASE Classify(c)
  <2>1. PICK p \in batch[c] :
          \/ /\ Decision(c, p) = "carry"
             /\ doc'[c] = p /\ stage'[c] = "copy"
             /\ batch'[c] = batch[c] /\ found'[c] = found[c]
          \/ /\ ~carrying[c]
             /\ doc'[c] = p /\ stage'[c] = "insert"
             /\ copy'[c] = [chunks |-> NChunks, space |-> wanted[c]]
             /\ batch'[c] = batch[c] /\ found'[c] = found[c]
          \/ /\ \E x \in {"reembed", "intentional"} : found'[c] = [found[c] EXCEPT ![p] = x]
             /\ batch'[c] = batch[c] \ {p} /\ stage'[c] = "next"
    BY <1>15 DEF Classify, Decision, TypeOK
  <2>2. /\ pc'[c] = pc[c] /\ carried'[c] = carried[c] /\ tree'[c] = tree[c] /\ todo'[c] = todo[c]
        /\ wanted'[c] = wanted[c] /\ conflict'[c] = conflict[c] /\ carrying'[c] = carrying[c]
        /\ listed'[c] = listed[c] /\ prior'[c] = prior[c] /\ stage[c] = "next"
    BY <1>15 DEF Classify, plan, sending, reading
  <2>3. p \in Paths /\ p \in Walked(c) /\ p \notin todo[c] /\ found[c] \in [Paths -> Conflicts]
    BY DEF Paced, TypeOK
  <2>4. CASE Decision(c, p) = "carry" /\ doc'[c] = p /\ stage'[c] = "copy"
             /\ batch'[c] = batch[c] /\ found'[c] = found[c]
    <3>1. carrying[c] /\ listed[c][p] # NoDoc
      BY <2>3, <2>4 DEF Decision, Walked
    <3> QED BY <2>2, <2>4, <3>1 DEF Paced, Walked, Uploading, Listing
  <2>5. CASE /\ ~carrying[c]
             /\ doc'[c] = p /\ stage'[c] = "insert"
             /\ copy'[c] = [chunks |-> NChunks, space |-> wanted[c]]
             /\ batch'[c] = batch[c] /\ found'[c] = found[c]
    BY <2>2, <2>5 DEF Paced, Walked, Uploading, Listing
  <2>6. CASE /\ \E x \in {"reembed", "intentional"} : found'[c] = [found[c] EXCEPT ![p] = x]
             /\ batch'[c] = batch[c] \ {p} /\ stage'[c] = "next"
    BY <2>2, <2>3, <2>6 DEF Paced, Walked, Uploading, Listing
  <2> QED
    BY <2>1, <2>4, <2>5, <2>6
<1>16. CASE ReadChunks(c)
  BY <1>16 DEF ReadChunks, Paced, Ordered, Owns, Walked, NoneFound, Uploading, Listing, TypeOK, versions, plan, sending, reading, storing, upload, bounds
<1>17. CASE InsertDocument(c)
  BY <1>17 DEF InsertDocument, Paced, Ordered, Owns, Walked, NoneFound, Uploading, Listing, TypeOK, versions, plan, sending, reading, storing, upload, bounds
<1>18. CASE InsertChunk(c)
  BY <1>18 DEF InsertChunk, Paced, Ordered, Owns, Walked, NoneFound, Uploading, Listing, TypeOK, versions, plan, sending, reading, storing, upload, bounds
<1>19. CASE Accept(c)
  BY <1>19 DEF Accept, NextDocument, Paced, Ordered, Owns, Walked, NoneFound, Uploading, Listing, TypeOK, versions, plan, sending, reading, storing, upload, bounds
<1>20. CASE InsertFails(c)
  BY <1>20 DEF InsertFails, NextDocument, Paced, Ordered, Owns, Walked, NoneFound, Uploading, Listing, TypeOK, versions, plan, sending, reading, storing, upload, bounds
<1>21. CASE Respond(c)
  BY <1>21 DEF Respond, EndUpload, Paced, Ordered, Owns, Walked, NoneFound, Uploading, Listing, TypeOK, versions, plan, sending, reading, storing, upload, bounds
<1>22. CASE CountDocuments(c)
  BY <1>22 DEF CountDocuments, Paced, Ordered, Owns, Walked, NoneFound, Uploading, Listing, TypeOK, versions, plan, sending, reading, storing, upload, bounds
<1>23. CASE CountDiffers(c)
  BY <1>23 DEF CountDiffers, EndFinalize, Paced, Ordered, Owns, Walked, NoneFound, Uploading, Listing, TypeOK, versions, plan, sending, reading, storing, upload, bounds
<1>24. CASE Finalize(c)
  BY <1>24 DEF Finalize, Succeed, Paced, Ordered, Owns, Walked, NoneFound, Uploading, Listing, TypeOK, versions, plan, sending, reading, storing, upload, bounds
<1>25. CASE FinalizeFails(c)
  BY <1>25 DEF FinalizeFails, EndFinalize, Paced, Ordered, Owns, Walked, NoneFound, Uploading, Listing, TypeOK, versions, plan, sending, reading, storing, upload, bounds
<1> QED
  BY <1>1, <1>2, <1>3, <1>4, <1>5, <1>6, <1>7, <1>8, <1>9, <1>10, <1>11, <1>12, <1>13, <1>14, <1>15, <1>16, <1>17, <1>18, <1>19, <1>20, <1>21, <1>22, <1>23, <1>24, <1>25 DEF Step, Cli, Upload, Close

(* While a document is stored, it is one that was walked, and the run has a *)
(* version.                                                                *)
LEMMA Storing ==
  ASSUME TypeOK, NEW c \in Clis, Sound(c), stage[c] \in {"copy", "insert", "chunks"}
  PROVE  /\ run[c] \in Versions /\ run[c] # 0
         /\ doc[c] \in batch[c] /\ doc[c] \in Walked(c) /\ doc[c] \in Paths
         /\ docs[run[c]][doc[c]] \in Seq(Row) /\ copy[c] \in Payload
<1>1. run[c] \in Versions /\ run[c] # 0
  BY DEF Sound, Owns, Ordered, Uploading, TypeOK
<1>2. doc[c] \in batch[c] /\ doc[c] \in Walked(c)
  BY DEF Sound, Paced
<1>3. doc[c] \in Paths
  BY <1>2 DEF TypeOK
<1> QED
  BY <1>1, <1>2, <1>3 DEF TypeOK

(* The row of a path, with one chunk more.                                 *)
LEMMA OneRow ==
  ASSUME NEW rows \in Seq(Row), Len(rows) = 1
  PROVE  /\ LastRow(rows) = rows[1] /\ rows[1] \in Row
         /\ NewChunk(rows) # <<>> /\ Len(NewChunk(rows)) = 1
         /\ NewChunk(rows)[1] = [rows[1] EXCEPT !.chunks = @ + 1]
<1>1. LastRow(rows) = rows[1] /\ 1 \in DOMAIN rows /\ DOMAIN rows = 1..1
  BY DEF LastRow
<1>2. rows[1] \in Row
  BY <1>1
<1>3. NewChunk(rows) = [rows EXCEPT ![1] = [rows[1] EXCEPT !.chunks = @ + 1]]
  BY DEF NewChunk
<1> DEFINE r == [rows[1] EXCEPT !.chunks = @ + 1]
<1> HIDE DEF r
<1>4. [rows EXCEPT ![1] = r][1] = r /\ Len([rows EXCEPT ![1] = r]) = 1 /\ [rows EXCEPT ![1] = r] # <<>>
  <2>1. r \in Row \cup {r} /\ rows \in Seq(Row \cup {r})
    OBVIOUS
  <2> QED BY <1>1, <2>1, ExceptSeq
<1> QED
  BY <1>1, <1>2, <1>3, <1>4 DEF r

(* The first row of a path.                                                *)
LEMMA FirstRow ==
  ASSUME NEW rows, rows = <<>>, NEW h, NEW m
  PROVE  /\ NewDocument(rows, h, m) # <<>> /\ Len(NewDocument(rows, h, m)) = 1
         /\ NewDocument(rows, h, m)[1] = [hash |-> h, chunks |-> 0, space |-> m]
<1> DEFINE r == [hash |-> h, chunks |-> 0, space |-> m]
<1>1. NewDocument(rows, h, m) = <<r>>
  BY DEF NewDocument
<1> HIDE DEF r
<1>2. <<r>> # <<>> /\ Len(<<r>>) = 1 /\ <<r>>[1] = r
  OBVIOUS
<1> QED
  BY <1>1, <1>2 DEF r

(* A path of its version has at most one row, and that when it may.        *)
LEMMA StockKept ==
  ASSUME CountAssumption, TypeOK, Begun, NEW c \in Clis, Step(c), Sound(c)
  PROVE  Stocked(c)'
<1> USE DEF Sound
<1>1. CASE Plan(c)
  BY <1>1 DEF Plan, Stocked, Unstored, Paced, Ordered, Owns, Walked, NoneFound, Uploading, TypeOK, versions, plan, sending, reading, storing, upload, bounds
<1>2. CASE Start(c)
  <2>1. run'[c] \in Versions /\ docs'[run'[c]] = NoRows /\ stage'[c] = "none"
    BY <1>2 DEF Start, NewRun, Begun, TypeOK, Paced, Ordered, Uploading, upload
  <2> QED
    BY <2>1 DEF Stocked, NoRows
<1>3. CASE Send(c)
  BY <1>3 DEF Send, Stocked, Unstored, Paced, Ordered, Owns, Walked, NoneFound, Uploading, TypeOK, versions, plan, sending, reading, storing, upload, bounds
<1>4. CASE SkipOversize(c)
  BY <1>4 DEF SkipOversize, Stocked, Unstored, Paced, Ordered, Owns, Walked, NoneFound, Uploading, TypeOK, versions, plan, sending, reading, storing, upload, bounds
<1>5. CASE Advance(c)
  <2>1. stage[c] = "none" /\ batch[c] = {} /\ todo[c] = {} /\ found[c] = NoneFound /\ pc[c] \in Uploading
    BY <1>5 DEF Advance, PhaseOver, Paced, Uploading
  <2>2. /\ run'[c] = run[c] /\ docs' = docs /\ tree'[c] = tree[c] /\ stage'[c] = "none" /\ batch'[c] = {}
        /\ found'[c] = NoneFound /\ Walked(c)' = Walked(c) /\ pc'[c] # "new"
    BY <1>5, <2>1 DEF Advance, PhaseOver, plan, reading, storing, upload, Walked, TypeOK
  <2>3. ASSUME NEW p \in Paths
        PROVE  /\ p \in todo'[c] => (pc[c] = "new" /\ p \in carried[c]) \/ conflict[c][p] = "reembed"
               /\ conflict'[c][p] \in {"intentional", "reembed"} => conflict'[c][p] = conflict[c][p]
    <3>1. CASE pc[c] = "new"
      BY <1>5, <3>1 DEF Advance, CarriedUploads, TypeOK
    <3>2. CASE pc[c] = "carry" /\ Conflicted(c, {"reembed"}) # {}
      BY <1>5, <3>2 DEF Advance, ReembedUploads, TypeOK
    <3>3. CASE ~(pc[c] = "new") /\ ~(pc[c] = "carry" /\ Conflicted(c, {"reembed"}) # {})
      BY <1>5, <2>1, <3>3 DEF Advance, TypeOK, sending
    <3> QED BY <3>1, <3>2, <3>3
  <2> QED
    BY <2>1, <2>2, <2>3 DEF Stocked, Unstored
<1>6. CASE GiveUp(c)
  BY <1>6 DEF GiveUp, Stocked, Unstored, Paced, Ordered, Owns, Walked, NoneFound, Uploading, TypeOK, versions, plan, sending, reading, storing, upload, bounds
<1>7. CASE Abort(c)
  BY <1>7 DEF Abort, MarkAborted, Stocked, Unstored, Paced, Ordered, Owns, Walked, NoneFound, Uploading, TypeOK, versions, plan, sending, reading, storing, upload, bounds
<1>8. CASE SendFinalize(c)
  BY <1>8 DEF SendFinalize, Stocked, Unstored, Paced, Ordered, Owns, Walked, NoneFound, Uploading, TypeOK, versions, plan, sending, reading, storing, upload, bounds
<1>9. CASE CheckBuilding(c)
  BY <1>9 DEF CheckBuilding, Stocked, Unstored, Paced, Ordered, Owns, Walked, NoneFound, Uploading, TypeOK, versions, plan, sending, reading, storing, upload, bounds
<1>10. CASE RefuseUpload(c)
  BY <1>10 DEF RefuseUpload, EndUpload, Stocked, Unstored, Paced, Ordered, Owns, Walked, NoneFound, Uploading, TypeOK, versions, plan, sending, reading, storing, upload, bounds
<1>11. CASE DropUpload(c)
  BY <1>11 DEF DropUpload, EndUpload, Stocked, Unstored, Paced, Ordered, Owns, Walked, NoneFound, Uploading, TypeOK, versions, plan, sending, reading, storing, upload, bounds
<1>12. CASE FindPrior(c)
  BY <1>12 DEF FindPrior, Stocked, Unstored, Paced, Ordered, Owns, Walked, NoneFound, Uploading, TypeOK, versions, plan, sending, reading, storing, upload, bounds
<1>13. CASE ListPrior(c)
  BY <1>13 DEF ListPrior, Stocked, Unstored, Paced, Ordered, Owns, Walked, NoneFound, Uploading, TypeOK, versions, plan, sending, reading, storing, upload, bounds
<1>14. CASE GateCarry(c)
  BY <1>14 DEF GateCarry, Stocked, Unstored, Paced, Ordered, Owns, Walked, NoneFound, Uploading, TypeOK, versions, plan, sending, reading, storing, upload, bounds
<1>15. CASE Classify(c)
  <2>1. PICK p \in batch[c] :
          /\ stage'[c] \in {"copy", "insert", "next"}
          /\ \/ batch'[c] = batch[c] /\ found'[c] = found[c]
             \/ /\ \E x \in {"reembed", "intentional"} : found'[c] = [found[c] EXCEPT ![p] = x]
                /\ batch'[c] = batch[c] \ {p}
    BY <1>15 DEF Classify, TypeOK
  <2>2. /\ pc'[c] = pc[c] /\ carried'[c] = carried[c] /\ tree'[c] = tree[c] /\ todo'[c] = todo[c]
        /\ docs' = docs /\ run'[c] = run[c] /\ conflict'[c] = conflict[c] /\ stage[c] = "next"
        /\ Walked(c)' = Walked(c) /\ found[c] \in [Paths -> Conflicts]
    BY <1>15 DEF Classify, plan, sending, Walked, TypeOK
  <2>3. \A q \in Paths : found'[c][q] \in {"reembed", "intentional"} =>
          found[c][q] \in {"reembed", "intentional"} \/ q \in batch[c]
    BY <2>1, <2>2
  <2>4. batch'[c] \subseteq batch[c]
    BY <2>1
  <2> QED
    <3>1. \A q \in Paths : Unstored(c, q)' => Unstored(c, q)
      BY <2>1, <2>2, <2>3, <2>4 DEF Unstored
    <3> QED BY <2>1, <2>2, <3>1 DEF Stocked
<1>16. CASE ReadChunks(c)
  BY <1>16 DEF ReadChunks, Stocked, Unstored, Paced, Ordered, Owns, Walked, NoneFound, Uploading, TypeOK, versions, plan, sending, reading, storing, upload, bounds
<1>17. CASE InsertDocument(c)
  <2>0. PICK v \in Versions, p \in Paths : v = run[c] /\ p = doc[c]
    BY <1>17, Storing DEF InsertDocument
  <2> DEFINE new == NewDocument(docs[v][p], tree[c][p], copy[c].space)
  <2>1. v # 0 /\ p \in batch[c] /\ p \in Walked(c) /\ docs[v][p] \in Seq(Row)
    BY <1>17, <2>0, Storing DEF InsertDocument
  <2>2. docs[v][p] = <<>>
    <3>1. Unstored(c, p)
      BY <1>17, <2>0, <2>1 DEF InsertDocument, Unstored
    <3> QED BY <2>0, <2>1, <3>1 DEF Stocked
  <2>3. new # <<>> /\ Len(new) = 1 /\ new[1].hash = tree[c][p] /\ new[1].space = copy[c].space
    <3>1. /\ new # <<>> /\ Len(new) = 1
          /\ new[1] = [hash |-> tree[c][p], chunks |-> 0, space |-> copy[c].space]
      BY <2>1, <2>2, FirstRow
    <3> HIDE DEF new
    <3> QED BY <3>1
  <2>4. docs' = [docs EXCEPT ![v][p] = new] /\ stage' = [stage EXCEPT ![c] = "chunks"] /\ stage[c] = "insert"
    BY <1>17, <2>0 DEF InsertDocument
  <2> HIDE DEF new
  <2>5. docs'[v][p] = new /\ (\A q \in Paths : q # p => docs'[v][q] = docs[v][q]) /\ stage'[c] = "chunks"
    BY <2>0, <2>1, <2>4 DEF TypeOK
  <2>6. /\ run'[c] = v /\ doc'[c] = p /\ todo'[c] = todo[c] /\ pc'[c] = pc[c] /\ carried'[c] = carried[c]
        /\ batch'[c] = batch[c] /\ conflict'[c] = conflict[c] /\ found'[c] = found[c] /\ tree'[c] = tree[c]
        /\ Walked(c)' = Walked(c) /\ copy'[c] = copy[c]
    BY <1>17, <2>0 DEF InsertDocument, plan, sending, storing, Walked
  <2>7. \A q \in Paths : q \in todo[c] \/ conflict[c][q] # "none" \/ found[c][q] # "none" => q # p
    BY <2>0, <2>1 DEF Paced
  <2>8. pc[c] = "new" => p \notin carried[c]
    BY <2>0, <2>1 DEF Paced
  <2>9. \A q \in Paths : q # p =>
          /\ docs[v][q] # <<>> => Len(docs[v][q]) = 1 /\ q \in Walked(c) /\ docs[v][q][1].hash = tree[c][q]
          /\ Unstored(c, q) => docs[v][q] = <<>>
    BY <2>0, <2>1, <2>4 DEF Stocked
  <2> QED
    <3>1. ~Unstored(c, p)'
      BY <2>0, <2>1, <2>5, <2>6, <2>7, <2>8 DEF Unstored
    <3>2. \A q \in Paths : q # p => (Unstored(c, q)' => Unstored(c, q))
      BY <2>4, <2>6 DEF Unstored
    <3> QED
      BY <2>0, <2>1, <2>3, <2>5, <2>6, <2>9, <3>1, <3>2 DEF Stocked
<1>18. CASE InsertChunk(c)
  <2>0. PICK v \in Versions, p \in Paths : v = run[c] /\ p = doc[c]
    BY <1>18, Storing DEF InsertChunk
  <2> DEFINE new == NewChunk(docs[v][p])
  <2>1. v # 0 /\ p \in batch[c] /\ p \in Walked(c) /\ docs[v][p] \in Seq(Row)
    BY <1>18, <2>0, Storing DEF InsertChunk
  <2>2. stage[c] = "chunks" /\ status[v] # "deleted" /\ docs' = [docs EXCEPT ![v][p] = new]
    BY <1>18, <2>0 DEF InsertChunk
  <2>3. docs[v][p] # <<>> /\ Len(docs[v][p]) = 1 /\ docs[v][p][1].hash = tree[c][p] /\ docs[v][p][1].space = copy[c].space
    BY <2>0, <2>1, <2>2 DEF Stocked, Unstored
  <2>4. docs[v][p][1] \in Row /\ new # <<>> /\ Len(new) = 1 /\ new[1] = [docs[v][p][1] EXCEPT !.chunks = @ + 1]
    BY <2>0, <2>1, <2>3, OneRow
  <2>5. new[1].hash = tree[c][p] /\ new[1].space = copy[c].space
    BY <2>3, <2>4 DEF Row
  <2> HIDE DEF new
  <2>6. docs'[v][p] = new /\ (\A q \in Paths : q # p => docs'[v][q] = docs[v][q])
    BY <2>0, <2>1, <2>2 DEF TypeOK
  <2>7. /\ run'[c] = v /\ doc'[c] = p /\ todo'[c] = todo[c] /\ pc'[c] = pc[c] /\ carried'[c] = carried[c]
        /\ batch'[c] = batch[c] /\ conflict'[c] = conflict[c] /\ found'[c] = found[c] /\ tree'[c] = tree[c]
        /\ Walked(c)' = Walked(c) /\ copy'[c] = copy[c] /\ stage'[c] = stage[c]
    BY <1>18, <2>0 DEF InsertChunk, plan, sending, storing, upload, Walked
  <2>8. ~Unstored(c, p)
    BY <2>0, <2>1, <2>3 DEF Stocked
  <2>9. \A q \in Paths : q # p =>
          /\ docs[v][q] # <<>> => Len(docs[v][q]) = 1 /\ q \in Walked(c) /\ docs[v][q][1].hash = tree[c][q]
          /\ Unstored(c, q) => docs[v][q] = <<>>
    BY <2>0, <2>1, <2>2 DEF Stocked
  <2> QED
    <3>1. \A q \in Paths : Unstored(c, q)' <=> Unstored(c, q)
      BY <2>0, <2>7 DEF Unstored
    <3>2. status' = status
      BY <1>18 DEF InsertChunk, versions
    <3>3. ASSUME NEW q \in Paths
          PROVE  /\ docs'[v][q] # <<>> => /\ Len(docs'[v][q]) = 1 /\ q \in Walked(c)
                                          /\ docs'[v][q][1].hash = tree[c][q]
                 /\ Unstored(c, q) => docs'[v][q] = <<>>
                 /\ q = p => docs'[v][q] # <<>> /\ docs'[v][q][1].space = copy[c].space
      <4>1. CASE q = p
        BY <2>1, <2>4, <2>5, <2>6, <2>8, <4>1
      <4>2. CASE q # p
        BY <2>6, <2>9, <4>2
      <4> QED BY <4>1, <4>2
    <3> QED
      BY <2>0, <2>7, <3>1, <3>2, <3>3 DEF Stocked
<1>19. CASE Accept(c)
  BY <1>19 DEF Accept, NextDocument, Stocked, Unstored, Paced, Ordered, Owns, Walked, NoneFound, Uploading, TypeOK, versions, plan, sending, reading, storing, upload, bounds
<1>20. CASE InsertFails(c)
  BY <1>20 DEF InsertFails, NextDocument, Stocked, Unstored, Paced, Ordered, Owns, Walked, NoneFound, Uploading, TypeOK, versions, plan, sending, reading, storing, upload, bounds
<1>21. CASE Respond(c)
  BY <1>21 DEF Respond, EndUpload, Stocked, Unstored, Paced, Ordered, Owns, Walked, NoneFound, Uploading, TypeOK, versions, plan, sending, reading, storing, upload, bounds
<1>22. CASE CountDocuments(c)
  BY <1>22 DEF CountDocuments, Stocked, Unstored, Paced, Ordered, Owns, Walked, NoneFound, Uploading, TypeOK, versions, plan, sending, reading, storing, upload, bounds
<1>23. CASE CountDiffers(c)
  BY <1>23 DEF CountDiffers, EndFinalize, Stocked, Unstored, Paced, Ordered, Owns, Walked, NoneFound, Uploading, TypeOK, versions, plan, sending, reading, storing, upload, bounds
<1>24. CASE Finalize(c)
  BY <1>24 DEF Finalize, Succeed, Stocked, Unstored, Paced, Ordered, Owns, Walked, NoneFound, Uploading, TypeOK, versions, plan, sending, reading, storing, upload, bounds
<1>25. CASE FinalizeFails(c)
  BY <1>25 DEF FinalizeFails, EndFinalize, Stocked, Unstored, Paced, Ordered, Owns, Walked, NoneFound, Uploading, TypeOK, versions, plan, sending, reading, storing, upload, bounds
<1> QED
  BY <1>1, <1>2, <1>3, <1>4, <1>5, <1>6, <1>7, <1>8, <1>9, <1>10, <1>11, <1>12, <1>13, <1>14, <1>15, <1>16, <1>17, <1>18, <1>19, <1>20, <1>21, <1>22, <1>23, <1>24, <1>25 DEF Step, Cli, Upload, Close

(* The CLI hears of the damage.                                            *)
LEMMA HearingKept ==
  ASSUME CountAssumption, TypeOK, Begun, NEW c \in Clis, Step(c), Sound(c)
  PROVE  Heard(c)'
<1> USE DEF Sound
<1>1. CASE Plan(c)
  BY <1>1 DEF Plan, Heard, Live, Finalized, Stocked, Paced, Ordered, Owns, Walked, NoneFound, Uploading, TypeOK, versions, plan, sending, reading, storing, upload, bounds
<1>2. CASE Start(c)
  <2>1. run'[c] \in Versions /\ docs'[run'[c]] = NoRows
    BY <1>2 DEF Start, NewRun, Begun, TypeOK
  <2> QED
    BY <2>1 DEF Heard, NoRows, Walked
<1>3. CASE Send(c)
  BY <1>3 DEF Send, Heard, Live, Finalized, Stocked, Paced, Ordered, Owns, Walked, NoneFound, Uploading, TypeOK, versions, plan, sending, reading, storing, upload, bounds
<1>4. CASE SkipOversize(c)
  BY <1>4 DEF SkipOversize, Heard, Live, Finalized, Stocked, Paced, Ordered, Owns, Walked, NoneFound, Uploading, TypeOK, versions, plan, sending, reading, storing, upload, bounds
<1>5. CASE Advance(c)
  BY <1>5 DEF Advance, Heard, Live, Finalized, Stocked, Paced, Ordered, Owns, Walked, NoneFound, Uploading, TypeOK, versions, plan, sending, reading, storing, upload, bounds
<1>6. CASE GiveUp(c)
  BY <1>6 DEF GiveUp, Heard, Live, Finalized, Stocked, Paced, Ordered, Owns, Walked, NoneFound, Uploading, TypeOK, versions, plan, sending, reading, storing, upload, bounds
<1>7. CASE Abort(c)
  BY <1>7 DEF Abort, MarkAborted, Heard, Live, Finalized, Stocked, Paced, Ordered, Owns, Walked, NoneFound, Uploading, TypeOK, versions, plan, sending, reading, storing, upload, bounds
<1>8. CASE SendFinalize(c)
  BY <1>8 DEF SendFinalize, Heard, Live, Finalized, Stocked, Paced, Ordered, Owns, Walked, NoneFound, Uploading, TypeOK, versions, plan, sending, reading, storing, upload, bounds
<1>9. CASE CheckBuilding(c)
  BY <1>9 DEF CheckBuilding, Heard, Live, Finalized, Stocked, Paced, Ordered, Owns, Walked, NoneFound, Uploading, TypeOK, versions, plan, sending, reading, storing, upload, bounds
<1>10. CASE RefuseUpload(c)
  <2>1. pc'[c] \in {"aborting", "failed"} /\ closing'[c] = "none" /\ ~Finalized(c)'
    BY <1>10 DEF RefuseUpload, Waiting, Ordered, Finalized, Uploading, TypeOK, versions, plan
  <2> QED
    BY <2>1 DEF Heard, Live, Uploading
<1>11. CASE DropUpload(c)
  <2>1. pc'[c] \in {"aborting", "failed"} /\ closing'[c] = "none" /\ ~Finalized(c)'
    BY <1>11 DEF DropUpload, Waiting, Ordered, Finalized, Uploading, TypeOK, versions, plan
  <2> QED
    BY <2>1 DEF Heard, Live, Uploading
<1>12. CASE FindPrior(c)
  BY <1>12 DEF FindPrior, Heard, Live, Finalized, Stocked, Paced, Ordered, Owns, Walked, NoneFound, Uploading, TypeOK, versions, plan, sending, reading, storing, upload, bounds
<1>13. CASE ListPrior(c)
  BY <1>13 DEF ListPrior, Heard, Live, Finalized, Stocked, Paced, Ordered, Owns, Walked, NoneFound, Uploading, TypeOK, versions, plan, sending, reading, storing, upload, bounds
<1>14. CASE GateCarry(c)
  BY <1>14 DEF GateCarry, Heard, Live, Finalized, Stocked, Paced, Ordered, Owns, Walked, NoneFound, Uploading, TypeOK, versions, plan, sending, reading, storing, upload, bounds
<1>15. CASE Classify(c)
  BY <1>15 DEF Classify, Heard, Live, Finalized, Stocked, Paced, Ordered, Owns, Walked, NoneFound, Uploading, TypeOK, versions, plan, sending, reading, storing, upload, bounds
<1>16. CASE ReadChunks(c)
  BY <1>16 DEF ReadChunks, Heard, Live, Finalized, Stocked, Paced, Ordered, Owns, Walked, NoneFound, Uploading, TypeOK, versions, plan, sending, reading, storing, upload, bounds
<1>17. CASE InsertDocument(c)
  BY <1>17 DEF InsertDocument, Heard, Live, Finalized, Stocked, Paced, Ordered, Owns, Walked, NoneFound, Uploading, TypeOK, versions, plan, sending, reading, storing, upload, bounds
<1>18. CASE InsertChunk(c)
  BY <1>18 DEF InsertChunk, Heard, Live, Finalized, Stocked, Paced, Ordered, Owns, Walked, NoneFound, Uploading, TypeOK, versions, plan, sending, reading, storing, upload, bounds
<1>19. CASE Accept(c)
  <2> DEFINE v == run[c]
             p == doc[c]
  <2>1. v \in Versions /\ v # 0 /\ p \in batch[c] /\ p \in Walked(c) /\ p \in Paths /\ docs[v][p] \in Seq(Row)
    BY <1>19, Storing DEF Accept
  <2>2. /\ run'[c] = v /\ docs' = docs /\ tree'[c] = tree[c] /\ carried'[c] = carried[c] /\ Walked(c)' = Walked(c)
        /\ conflict'[c] = conflict[c] /\ found'[c] = found[c] /\ pc'[c] = pc[c] /\ closing'[c] = closing[c]
        /\ status' = status
    BY <1>19 DEF Accept, versions, plan, sending, Walked
  <2>3. Live(c)' = Live(c)
    BY <2>2 DEF Live, Finalized
  <2>4. p \notin carried[c] /\ docs[v][p] # <<>> => docs[v][p][1].chunks = NChunks
    <3> SUFFICES ASSUME p \notin carried[c], docs[v][p] # <<>> PROVE docs[v][p][1].chunks = NChunks
      OBVIOUS
    <3>1. ~carrying[c]
      BY <2>1 DEF Paced
    <3>2. copy[c].chunks = NChunks
      BY <1>19, <3>1 DEF Accept, Paced
    <3>3. status[v] # "deleted"
      BY <2>1 DEF Begun, NoRows
    <3>4. Len(docs[v][p]) = 1
      BY <2>1 DEF Stocked
    <3> QED
      BY <1>19, <2>1, <3>2, <3>3, <3>4, OneRow DEF Accept, Stored
  <2>5. \A q \in Walked(c) \ carried[c] : q # p /\ Live(c) /\ docs[v][q] # <<>> /\ docs[v][q][1].chunks < NChunks =>
          conflict[c][q] = "failed" \/ found[c][q] = "failed"
    BY <2>1 DEF Heard
  <2>6. NChunks \in Nat
    BY DEF CountAssumption
  <2> QED
    BY <2>2, <2>3, <2>4, <2>5, <2>6 DEF Heard
<1>20. CASE InsertFails(c)
  BY <1>20 DEF InsertFails, NextDocument, Heard, Live, Finalized, Stocked, Paced, Ordered, Owns, Walked, NoneFound, Uploading, TypeOK, versions, plan, sending, reading, storing, upload, bounds
<1>21. CASE Respond(c)
  <2>1. /\ run'[c] = run[c] /\ docs' = docs /\ tree'[c] = tree[c] /\ carried'[c] = carried[c] /\ Walked(c)' = Walked(c)
        /\ pc'[c] = pc[c] /\ closing'[c] = closing[c] /\ status' = status /\ stage[c] = "next"
    BY <1>21 DEF Respond, versions, plan, Walked
  <2>2. CASE Waiting(c)
    <3>1. \A p \in Paths : conflict'[c][p] = IF found[c][p] = "none" THEN conflict[c][p] ELSE found[c][p]
      BY <1>21, <2>2 DEF Respond, TypeOK
    <3>2. Live(c)' => Live(c)
      BY <2>1 DEF Live, Finalized
    <3>3. \A p \in Walked(c) : conflict[c][p] = "failed" \/ found[c][p] = "failed" => conflict'[c][p] = "failed"
      BY <3>1 DEF Paced, Walked
    <3> QED
      BY <2>1, <3>2, <3>3 DEF Heard
  <2>3. CASE ~Waiting(c)
    <3>1. pc'[c] \in {"aborting", "failed"} /\ closing'[c] = "none" /\ ~Finalized(c)'
      BY <2>1, <2>3 DEF Waiting, Ordered, Finalized, Uploading
    <3> QED
      BY <3>1 DEF Heard, Live, Uploading
  <2> QED
    BY <2>2, <2>3
<1>22. CASE CountDocuments(c)
  BY <1>22 DEF CountDocuments, Heard, Live, Finalized, Stocked, Paced, Ordered, Owns, Walked, NoneFound, Uploading, TypeOK, versions, plan, sending, reading, storing, upload, bounds
<1>23. CASE CountDiffers(c)
  BY <1>23 DEF CountDiffers, EndFinalize, Heard, Live, Finalized, Stocked, Paced, Ordered, Owns, Walked, NoneFound, Uploading, TypeOK, versions, plan, sending, reading, storing, upload, bounds
<1>24. CASE Finalize(c)
  BY <1>24 DEF Finalize, Succeed, Heard, Live, Finalized, Stocked, Paced, Ordered, Owns, Walked, NoneFound, Uploading, TypeOK, versions, plan, sending, reading, storing, upload, bounds
<1>25. CASE FinalizeFails(c)
  BY <1>25 DEF FinalizeFails, EndFinalize, Heard, Live, Finalized, Stocked, Paced, Ordered, Owns, Walked, NoneFound, Uploading, TypeOK, versions, plan, sending, reading, storing, upload, bounds
<1> QED
  BY <1>1, <1>2, <1>3, <1>4, <1>5, <1>6, <1>7, <1>8, <1>9, <1>10, <1>11, <1>12, <1>13, <1>14, <1>15, <1>16, <1>17, <1>18, <1>19, <1>20, <1>21, <1>22, <1>23, <1>24, <1>25 DEF Step, Cli, Upload, Close

\* The count is not asked for, or of what it counts nothing changes.
Recounted(c) ==
  \/ ~(closing'[c] = "counted" /\ status'[run'[c]] # "deleted") /\ ~Finalized(c)'
  \/ /\ run'[c] = run[c] /\ docs' = docs /\ tree'[c] = tree[c] /\ conflict'[c] = conflict[c]
     /\ (closing[c] = "counted" /\ status[run[c]] # "deleted") \/ Finalized(c) \/ CountAgrees(c)

(* What was counted stays so.                                              *)
LEMMA CountKept ==
  ASSUME CountAssumption, TypeOK, Begun, NEW c \in Clis, Step(c), Sound(c)
  PROVE  Counted(c)'
<1> USE DEF Sound, Recounted
<1>1. ASSUME Plan(c) PROVE Recounted(c)
  BY <1>1 DEF Plan, Finalized, Ordered, Owns, Uploading, TypeOK, versions, plan, sending, reading, storing, upload, bounds
<1>2. ASSUME Start(c) PROVE Recounted(c)
  BY <1>2 DEF Start, NewRun, Finalized, Ordered, Owns, Uploading, TypeOK, versions, plan, sending, reading, storing, upload, bounds
<1>3. ASSUME Send(c) PROVE Recounted(c)
  BY <1>3 DEF Send, Finalized, Ordered, Owns, Uploading, TypeOK, versions, plan, sending, reading, storing, upload, bounds
<1>4. ASSUME SkipOversize(c) PROVE Recounted(c)
  BY <1>4 DEF SkipOversize, Finalized, Ordered, Owns, Uploading, TypeOK, versions, plan, sending, reading, storing, upload, bounds
<1>5. ASSUME Advance(c) PROVE Recounted(c)
  BY <1>5 DEF Advance, Finalized, Ordered, Owns, Uploading, TypeOK, versions, plan, sending, reading, storing, upload, bounds
<1>6. ASSUME GiveUp(c) PROVE Recounted(c)
  BY <1>6 DEF GiveUp, Finalized, Ordered, Owns, Uploading, TypeOK, versions, plan, sending, reading, storing, upload, bounds
<1>7. ASSUME Abort(c) PROVE Recounted(c)
  BY <1>7 DEF Abort, MarkAborted, Finalized, Ordered, Owns, Uploading, TypeOK, versions, plan, sending, reading, storing, upload, bounds
<1>8. ASSUME SendFinalize(c) PROVE Recounted(c)
  BY <1>8 DEF SendFinalize, Finalized, Ordered, Owns, Uploading, TypeOK, versions, plan, sending, reading, storing, upload, bounds
<1>9. ASSUME CheckBuilding(c) PROVE Recounted(c)
  BY <1>9 DEF CheckBuilding, Finalized, Ordered, Owns, Uploading, TypeOK, versions, plan, sending, reading, storing, upload, bounds
<1>10. ASSUME RefuseUpload(c) PROVE Recounted(c)
  BY <1>10 DEF RefuseUpload, EndUpload, Finalized, Ordered, Owns, Uploading, TypeOK, versions, plan, sending, reading, storing, upload, bounds
<1>11. ASSUME DropUpload(c) PROVE Recounted(c)
  BY <1>11 DEF DropUpload, EndUpload, Finalized, Ordered, Owns, Uploading, TypeOK, versions, plan, sending, reading, storing, upload, bounds
<1>12. ASSUME FindPrior(c) PROVE Recounted(c)
  BY <1>12 DEF FindPrior, Finalized, Ordered, Owns, Uploading, TypeOK, versions, plan, sending, reading, storing, upload, bounds
<1>13. ASSUME ListPrior(c) PROVE Recounted(c)
  BY <1>13 DEF ListPrior, Finalized, Ordered, Owns, Uploading, TypeOK, versions, plan, sending, reading, storing, upload, bounds
<1>14. ASSUME GateCarry(c) PROVE Recounted(c)
  BY <1>14 DEF GateCarry, Finalized, Ordered, Owns, Uploading, TypeOK, versions, plan, sending, reading, storing, upload, bounds
<1>15. ASSUME Classify(c) PROVE Recounted(c)
  BY <1>15 DEF Classify, Finalized, Ordered, Owns, Uploading, TypeOK, versions, plan, sending, reading, storing, upload, bounds
<1>16. ASSUME ReadChunks(c) PROVE Recounted(c)
  BY <1>16 DEF ReadChunks, Finalized, Ordered, Owns, Uploading, TypeOK, versions, plan, sending, reading, storing, upload, bounds
<1>17. ASSUME InsertDocument(c) PROVE Recounted(c)
  BY <1>17 DEF InsertDocument, Finalized, Ordered, Owns, Uploading, TypeOK, versions, plan, sending, reading, storing, upload, bounds
<1>18. ASSUME InsertChunk(c) PROVE Recounted(c)
  BY <1>18 DEF InsertChunk, Finalized, Ordered, Owns, Uploading, TypeOK, versions, plan, sending, reading, storing, upload, bounds
<1>19. ASSUME Accept(c) PROVE Recounted(c)
  BY <1>19 DEF Accept, NextDocument, Finalized, Ordered, Owns, Uploading, TypeOK, versions, plan, sending, reading, storing, upload, bounds
<1>20. ASSUME InsertFails(c) PROVE Recounted(c)
  BY <1>20 DEF InsertFails, NextDocument, Finalized, Ordered, Owns, Uploading, TypeOK, versions, plan, sending, reading, storing, upload, bounds
<1>21. ASSUME Respond(c) PROVE Recounted(c)
  BY <1>21 DEF Respond, EndUpload, Finalized, Ordered, Owns, Uploading, TypeOK, versions, plan, sending, reading, storing, upload, bounds
<1>22. ASSUME CountDocuments(c) PROVE Recounted(c)
  BY <1>22 DEF CountDocuments, Finalized, Ordered, Owns, Uploading, TypeOK, versions, plan, sending, reading, storing, upload, bounds
<1>23. ASSUME CountDiffers(c) PROVE Recounted(c)
  BY <1>23 DEF CountDiffers, EndFinalize, Finalized, Ordered, Owns, Uploading, TypeOK, versions, plan, sending, reading, storing, upload, bounds
<1>24. ASSUME Finalize(c) PROVE Recounted(c)
  BY <1>24 DEF Finalize, Succeed, Finalized, Ordered, Owns, Uploading, TypeOK, versions, plan, sending, reading, storing, upload, bounds
<1>25. ASSUME FinalizeFails(c) PROVE Recounted(c)
  BY <1>25 DEF FinalizeFails, EndFinalize, Finalized, Ordered, Owns, Uploading, TypeOK, versions, plan, sending, reading, storing, upload, bounds
<1>30. Recounted(c)
  BY <1>1, <1>2, <1>3, <1>4, <1>5, <1>6, <1>7, <1>8, <1>9, <1>10, <1>11, <1>12, <1>13, <1>14, <1>15, <1>16, <1>17, <1>18, <1>19, <1>20, <1>21, <1>22, <1>23, <1>24, <1>25 DEF Step, Cli, Upload, Close
<1>31. CASE ~(closing'[c] = "counted" /\ status'[run'[c]] # "deleted") /\ ~Finalized(c)'
  BY <1>31 DEF Counted
<1>32. CASE /\ run'[c] = run[c] /\ docs' = docs /\ tree'[c] = tree[c] /\ conflict'[c] = conflict[c]
            /\ CountAgrees(c)
  <2>1. Expected(c)' = Expected(c) /\ RowCount(run[c])' = RowCount(run[c])
    BY <1>32 DEF Expected, Walked, Conflicted, RowCount
  <2> QED BY <1>32, <2>1 DEF Counted, CountAgrees
<1> QED
  BY <1>30, <1>31, <1>32 DEF Counted

(* It stays sound.                                                         *)
LEMMA ActingSound ==
  ASSUME CountAssumption, TypeOK, Begun, NEW c \in Clis, Step(c), Sound(c)
  PROVE  Sound(c)'
BY OrderKept, PaceKept, StockKept, HearingKept, CountKept DEF Sound

-----------------------------------------------------------------------------
(* The versions.                                                           *)

\* What a step of invocation c may do to the versions.
Moves(c) ==
  /\ run' = run \/ Start(c)
  /\ model' = model \/ Start(c)
  /\ docs' = docs \/ InsertDocument(c) \/ InsertChunk(c)
  /\ \/ Finalize(c)
     \/ \A v \in Versions : status'[v] = status[v] \/ /\ v = run'[c]
                                                      /\ status[v] \in {"absent", "building"}
                                                      /\ status'[v] \in {"building", "aborted"}

(* It does no more.                                                        *)
LEMMA StepMoves ==
  ASSUME TypeOK, NEW c \in Clis, Step(c)
  PROVE  Moves(c)
<1> USE DEF Moves
<1>1. CASE Plan(c)
  BY <1>1 DEF Plan, TypeOK, versions, plan, upload
<1>2. CASE Start(c)
  <2>1. PICK v \in Versions : /\ status[v] = "absent" /\ status' = [status EXCEPT ![v] = "building"]
                              /\ run' = [run EXCEPT ![c] = v]
    BY <1>2 DEF Start, NewRun
  <2>2. run'[c] = v /\ status'[v] = "building" /\ \A w \in Versions : w # v => status'[w] = status[w]
    BY <2>1 DEF TypeOK
  <2>3. docs' = docs
    BY <1>2 DEF Start
  <2> QED
    BY <1>2, <2>1, <2>2, <2>3
<1>3. CASE Send(c)
  BY <1>3 DEF Send, TypeOK, versions, plan, upload
<1>4. CASE SkipOversize(c)
  BY <1>4 DEF SkipOversize, TypeOK, versions, plan, upload
<1>5. CASE Advance(c)
  BY <1>5 DEF Advance, TypeOK, versions, plan, upload
<1>6. CASE GiveUp(c)
  BY <1>6 DEF GiveUp, TypeOK, versions, plan, upload
<1>7. CASE Abort(c)
  BY <1>7 DEF Abort, MarkAborted, TypeOK, versions, plan, upload
<1>8. CASE SendFinalize(c)
  BY <1>8 DEF SendFinalize, TypeOK, versions, plan, upload
<1>9. CASE CheckBuilding(c)
  BY <1>9 DEF CheckBuilding, TypeOK, versions, plan, upload
<1>10. CASE RefuseUpload(c)
  BY <1>10 DEF RefuseUpload, TypeOK, versions, plan, upload
<1>11. CASE DropUpload(c)
  BY <1>11 DEF DropUpload, TypeOK, versions, plan, upload
<1>12. CASE FindPrior(c)
  BY <1>12 DEF FindPrior, TypeOK, versions, plan, upload
<1>13. CASE ListPrior(c)
  BY <1>13 DEF ListPrior, TypeOK, versions, plan, upload
<1>14. CASE GateCarry(c)
  BY <1>14 DEF GateCarry, TypeOK, versions, plan, upload
<1>15. CASE Classify(c)
  BY <1>15 DEF Classify, TypeOK, versions, plan, upload
<1>16. CASE ReadChunks(c)
  BY <1>16 DEF ReadChunks, TypeOK, versions, plan, upload
<1>17. CASE InsertDocument(c)
  BY <1>17 DEF InsertDocument, TypeOK, versions, plan, upload
<1>18. CASE InsertChunk(c)
  BY <1>18 DEF InsertChunk, TypeOK, versions, plan, upload
<1>19. CASE Accept(c)
  BY <1>19 DEF Accept, TypeOK, versions, plan, upload
<1>20. CASE InsertFails(c)
  BY <1>20 DEF InsertFails, TypeOK, versions, plan, upload
<1>21. CASE Respond(c)
  BY <1>21 DEF Respond, TypeOK, versions, plan, upload
<1>22. CASE CountDocuments(c)
  BY <1>22 DEF CountDocuments, TypeOK, versions, plan, upload
<1>23. CASE CountDiffers(c)
  BY <1>23 DEF CountDiffers, EndFinalize, TypeOK, versions, plan, upload
<1>24. CASE Finalize(c)
  BY <1>24 DEF Finalize, Succeed, TypeOK, versions, plan, upload
<1>25. CASE FinalizeFails(c)
  BY <1>25 DEF FinalizeFails, TypeOK, versions, plan, upload
<1> QED
  BY <1>1, <1>2, <1>3, <1>4, <1>5, <1>6, <1>7, <1>8, <1>9, <1>10, <1>11, <1>12, <1>13, <1>14, <1>15, <1>16, <1>17, <1>18, <1>19, <1>20, <1>21, <1>22, <1>23, <1>24, <1>25 DEF Step, Cli, Upload, Close

(* Two runs never have the same version.                                   *)
LEMMA ApartKept ==
  ASSUME TypeOK, RunsInv, Apart, NEW c \in Clis, Step(c)
  PROVE  Apart'
<1>1. CASE run' = run
  BY <1>1 DEF Apart
<1>2. CASE Start(c)
  <2>1. PICK v \in Versions : status[v] = "absent" /\ run' = [run EXCEPT ![c] = v]
    BY <1>2 DEF Start, NewRun
  <2>2. \A d \in Clis : d # c => run'[d] = run[d] /\ run[d] # v
    <3>1. v # 0
      BY DEF Versions
    <3>2. \A d \in Clis : run[d] # 0 => status[run[d]] # "absent"
      BY DEF RunsInv, Owns
    <3> QED BY <2>1, <3>1, <3>2 DEF TypeOK
  <2>3. run'[c] = v
    BY <2>1 DEF TypeOK
  <2> QED
    BY <2>2, <2>3 DEF Apart
<1> QED
  BY <1>1, <1>2, StepMoves DEF Moves

(* At most one version is active.                                          *)
LEMMA OneActiveKept ==
  ASSUME TypeOK, OneActive, NEW c \in Clis, Step(c)
  PROVE  OneActive'
<1>1. CASE Finalize(c)
  <2>1. \A v \in Versions : status'[v] = "active" => v = run[c]
    BY <1>1 DEF Finalize, Active
  <2> QED
    BY <2>1 DEF OneActive, Active
<1>2. CASE \A v \in Versions : status'[v] = "active" => status[v] = "active"
  BY <1>2 DEF OneActive, Active
<1> QED
  BY <1>1, <1>2, StepMoves DEF Moves

(* Before it begins and after it is deleted a version is empty.            *)
LEMMA BegunKept ==
  ASSUME TypeOK, RunsInv, Apart, Begun, NEW c \in Clis, Step(c)
  PROVE  Begun'
<1>1. ASSUME NEW v \in Versions, status'[v] = "absent" PROVE status[v] = "absent"
  BY <1>1, StepMoves DEF Moves, Finalize, Active
<1>2. ASSUME NEW v \in Versions, status'[v] # "absent", v > Past PROVE \E d \in Clis : run'[d] = v
  <2>1. CASE v = run'[c]
    BY <2>1
  <2>2. CASE v # run'[c]
    <3>1. status[v] # "absent"
      BY <1>2, <2>2, StepMoves DEF Moves, Finalize, Active
    <3>2. PICK d \in Clis : run[d] = v
      BY <1>2, <3>1 DEF Begun
    <3>3. CASE d # c
      BY <3>2, <3>3, OthersRest DEF Rests
    <3>4. CASE d = c
      <4>1. Start(c)
        BY <2>2, <3>2, <3>4, StepMoves DEF Moves
      <4>2. run[c] = 0
        BY <4>1 DEF Start, RunsInv, Owns
      <4> QED BY <3>2, <3>4, <4>2 DEF Versions
    <3> QED BY <3>3, <3>4
  <2> QED BY <2>1, <2>2
<1>3. ASSUME NEW v \in Versions, status'[v] \in {"absent", "deleted"} PROVE docs'[v] = NoRows
  <2>1. CASE v # run'[c]
    BY <1>3, <2>1, OthersEndure DEF Begun, Endures, Readable
  <2>2. CASE v = run'[c]
    <3>1. status[v] = status'[v]
      BY <1>3, StepMoves DEF Moves, Finalize, Active
    <3>2. CASE docs' = docs
      BY <1>3, <3>1, <3>2 DEF Begun
    <3>3. CASE InsertDocument(c) \/ InsertChunk(c)
      <4>1. run'[c] = run[c] /\ stage[c] # "none" /\ status[run[c]] # "deleted"
        BY <3>3 DEF InsertDocument, InsertChunk, plan
      <4>2. Owns(c)
        BY DEF RunsInv
      <4> QED BY <1>3, <2>2, <3>1, <4>1, <4>2 DEF Owns, Versions
    <3> QED BY <3>2, <3>3, StepMoves DEF Moves
  <2> QED BY <2>1, <2>2
<1> QED
  BY <1>1, <1>2, <1>3 DEF Begun

(* Every run stays sound when one of them takes a step.                    *)
LEMMA RunsStay ==
  ASSUME CountAssumption, TypeOK, RunsInv, Apart, Begun, NEW c \in Clis, Step(c)
  PROVE  RunsInv'
<1> SUFFICES ASSUME NEW d \in Clis PROVE Sound(d)'
  BY DEF RunsInv, Sound
<1>1. Sound(c) /\ Sound(d)
  BY DEF RunsInv, Sound
<1>2. CASE d = c
  BY <1>1, <1>2, ActingSound
<1>3. CASE d # c
  <2>1. Rests(d)
    BY <1>3, OthersRest
  <2>2. run[d] # 0 => run[d] # run'[c]
    BY <1>3, <2>1, ApartKept DEF Apart, Rests
  <2>3. run[d] # 0 => Endures(run[d])
    BY <2>2, OthersEndure DEF TypeOK
  <2> QED
    BY <1>1, <2>1, <2>3, RestKeepsSound
<1> QED
  BY <1>2, <1>3

(* The same of a rollback or a sweep.                                      *)
LEMMA EnvironmentKeeps ==
  ASSUME CountAssumption, TypeOK, RunsInv, Apart, OneActive, Begun, Rollback \/ Sweep
  PROVE  /\ TypeOK' /\ RunsInv' /\ Apart' /\ OneActive' /\ Begun'
<1>1. TypeOK'
  <2>1. CASE Rollback
    <3>1. status' \in [Versions -> Statuses]
      BY <2>1 DEF Rollback, Statuses, TypeOK
    <3>2. switches' \in 0..MaxSwitches
      BY <2>1 DEF Rollback, TypeOK, CountAssumption
    <3> QED
      BY <2>1, <3>1, <3>2 DEF Rollback, TypeOK, plan, sending, reading, storing, upload
  <2>2. CASE Sweep
    <3>1. status' \in [Versions -> Statuses]
      BY <2>2 DEF Sweep, Statuses, TypeOK
    <3>2. switches' \in 0..MaxSwitches
      BY <2>2 DEF Sweep, TypeOK, CountAssumption
    <3>3. docs' \in [Versions -> [Paths -> Seq(Row)]]
      BY <2>2 DEF Sweep, TypeOK, NoRows
    <3> QED
      BY <2>2, <3>1, <3>2, <3>3 DEF Sweep, TypeOK, plan, sending, reading, storing, upload
  <2> QED BY <2>1, <2>2
<1>2. RunsInv'
  <2> SUFFICES ASSUME NEW d \in Clis PROVE Sound(d)'
    BY DEF RunsInv, Sound
  <2>1. Sound(d)
    BY DEF RunsInv, Sound
  <2>2. Rests(d) /\ (run[d] # 0 => Endures(run[d]))
    BY EnvironmentRests DEF TypeOK
  <2> QED
    BY <2>1, <2>2, RestKeepsSound
<1>3. run' = run
  BY DEF Rollback, Sweep, plan
<1>4. Apart'
  BY <1>3 DEF Apart
<1>5. OneActive'
  BY DEF Rollback, Sweep, OneActive, Active
<1>6. Begun'
  BY <1>3 DEF Rollback, Sweep, Begun, Active
<1> QED
  BY <1>1, <1>2, <1>4, <1>5, <1>6

-----------------------------------------------------------------------------
(* What the properties follow from.                                        *)

(* The rows of a readable version do not change until it is deleted.       *)
LEMMA RowsStay ==
  ASSUME TypeOK, RunsInv, NEW v \in Versions, Readable(v), [Next]_vars, status'[v] # "deleted"
  PROVE  docs'[v] = docs[v]
<1>1. ASSUME NEW c \in Clis, Step(c) PROVE docs'[v] = docs[v]
  <2>1. CASE InsertDocument(c) \/ InsertChunk(c)
    <3>1. stage[c] # "none"
      BY <2>1 DEF InsertDocument, InsertChunk
    <3>2. run[c] # v
      BY <3>1 DEF RunsInv, Ordered, Finalized, Readable, Versions
    <3> QED
      BY <2>1, <3>2 DEF InsertDocument, InsertChunk, TypeOK
  <2> QED
    BY <1>1, <2>1, StepMoves DEF Moves
<1>2. CASE Rollback \/ Sweep
  BY <1>2 DEF Rollback, Sweep
<1>3. CASE UNCHANGED vars
  BY <1>3 DEF vars
<1> QED
  BY <1>1, <1>2, <1>3 DEF Next, Step

(* When the count agrees, every path that was walked has a row, save those *)
(* dropped intentionally.                                                  *)
LEMMA NoneMissing ==
  ASSUME CountAssumption, TypeOK, NEW c \in Clis, Sound(c), run[c] # 0, CountAgrees(c),
         NEW p \in Walked(c), conflict[c][p] # "intentional"
  PROVE  docs[run[c]][p] # <<>>
<1>0. PICK v \in Versions : v = run[c]
  BY DEF TypeOK
<1> DEFINE K == {q \in Paths : docs[v][q] # <<>>}
           W == Walked(c)
           D == Conflicted(c, {"intentional"})
<1>1. IsFiniteSet(W) /\ IsFiniteSet(D) /\ IsFiniteSet(K) /\ D \subseteq W
  <2>1. W \subseteq Paths /\ D \subseteq Paths /\ K \subseteq Paths
    BY DEF Walked, Conflicted
  <2>2. D \subseteq W
    BY DEF Conflicted, Sound, Paced
  <2> QED BY <2>1, <2>2, FS_Subset DEF CountAssumption
<1>2. UNION {{q} \X DOMAIN docs[v][q] : q \in Paths} = K \X {1}
  <2>1. ASSUME NEW q \in Paths PROVE DOMAIN docs[v][q] = IF q \in K THEN {1} ELSE {}
    <3>1. docs[v][q] \in Seq(Row)
      BY DEF TypeOK
    <3>2. docs[v][q] # <<>> => Len(docs[v][q]) = 1
      BY <1>0 DEF Sound, Stocked
    <3> QED BY <3>1, <3>2
  <2> HIDE DEF K
  <2>2. K \subseteq Paths
    BY DEF K
  <2> QED BY <2>1, <2>2
<1>3. Cardinality(K \X {1}) = Cardinality(K)
  <2>1. IsFiniteSet({1}) /\ Cardinality({1}) = 1
    BY FS_Singleton
  <2> HIDE DEF K
  <2>2. Cardinality(K \X {1}) = Cardinality(K) * Cardinality({1})
    BY <1>1, <2>1, FS_Product
  <2>3. Cardinality(K) \in Nat
    BY <1>1, FS_CardinalityType
  <2> QED BY <2>1, <2>2, <2>3
<1>4. Cardinality(K) = Cardinality(W) - Cardinality(D)
  BY <1>0, <1>2, <1>3 DEF CountAgrees, Expected, RowCount
<1>5. IsFiniteSet(W \ D) /\ Cardinality(W \ D) = Cardinality(W) - Cardinality(D)
  <2>1. W \cap D = D
    BY <1>1
  <2> HIDE DEF W, D
  <2> QED BY <1>1, <2>1, FS_Difference
<1>6. K \subseteq W \ D
  <2> SUFFICES ASSUME NEW q \in K PROVE q \in W /\ q \notin D
    OBVIOUS
  <2>1. q \in Paths /\ docs[v][q] # <<>>
    OBVIOUS
  <2> QED BY <1>0, <2>1 DEF Sound, Stocked, Unstored, Conflicted
<1>7. K = W \ D
  <2> HIDE DEF K, W, D
  <2> QED BY <1>4, <1>5, <1>6, FS_Subset
<1> QED
  BY <1>0, <1>7 DEF Conflicted, Walked

(* The three parts of Accounted.                                           *)
LEMMA Accounting ==
  ASSUME CountAssumption, IInv
  PROVE  Accounted
<1> USE DEF IInv
<1>1. NothingVanishes
  <2> SUFFICES ASSUME NEW c \in Clis, Finalized(c), NEW p \in Paths
               PROVE  LET hashes == [i \in DOMAIN docs[run[c]][p] |-> docs[run[c]][p][i].hash]
                      IN hashes = IF tree[c][p] = NoDoc \/ conflict[c][p] = "intentional"
                                  THEN <<>> ELSE <<tree[c][p]>>
    BY DEF NothingVanishes
  <2>0. PICK rows : rows = docs[run[c]][p]
    OBVIOUS
  <2>1. Sound(c) /\ run[c] # 0
    BY DEF RunsInv, Sound, Finalized
  <2>2. CountAgrees(c)
    BY <2>1 DEF Sound, Counted
  <2>3. rows \in Seq(Row)
    BY <2>0, <2>1 DEF TypeOK
  <2>4. CASE tree[c][p] = NoDoc \/ conflict[c][p] = "intentional"
    <3>1. rows = <<>>
      BY <2>0, <2>1, <2>4 DEF Sound, Stocked, Unstored, Walked
    <3>2. [i \in DOMAIN rows |-> rows[i].hash] = <<>>
      BY <3>1
    <3> QED BY <2>0, <2>4, <3>2
  <2>5. CASE ~(tree[c][p] = NoDoc \/ conflict[c][p] = "intentional")
    <3>1. rows # <<>>
      BY <2>0, <2>1, <2>2, <2>5, NoneMissing DEF Walked
    <3>2. Len(rows) = 1 /\ rows[1].hash = tree[c][p]
      BY <2>0, <2>1, <3>1 DEF Sound, Stocked
    <3>3. DOMAIN rows = 1..1
      BY <2>3, <3>2
    <3>4. [i \in DOMAIN rows |-> rows[i].hash] = <<rows[1].hash>>
      BY <3>3
    <3> QED BY <2>0, <2>5, <3>2, <3>4
  <2> QED BY <2>4, <2>5
<1>2. DamageIsReported
  <2> SUFFICES ASSUME NEW c \in Clis, Finalized(c), NEW p \in Walked(c) \ carried[c],
                      NEW i \in DOMAIN docs[run[c]][p], docs[run[c]][p][i].chunks < NChunks
               PROVE  conflict[c][p] = "failed"
    BY DEF DamageIsReported
  <2>1. Sound(c) /\ run[c] # 0 /\ p \in Paths
    BY DEF RunsInv, Sound, Finalized, Walked
  <2>2. stage[c] = "none" /\ found[c] = NoneFound /\ Live(c)
    BY <2>1 DEF Sound, Ordered, Paced, Live
  <2>3. docs[run[c]][p] \in Seq(Row)
    BY <2>1 DEF TypeOK
  <2>4. docs[run[c]][p] # <<>> /\ Len(docs[run[c]][p]) = 1
    <3>1. docs[run[c]][p] # <<>>
      BY <2>3
    <3> QED BY <2>1, <3>1 DEF Sound, Stocked
  <2>5. i = 1
    BY <2>3, <2>4
  <2> QED
    BY <2>1, <2>2, <2>4, <2>5 DEF Sound, Heard, NoneFound
<1>3. CompleteUndisturbed
  <2> SUFFICES ASSUME Steady, NEW v \in Versions, Readable(v), NEW p \in Paths, NEW i \in DOMAIN docs[v][p]
               PROVE  Whole(docs[v][p][i], v)
    BY DEF CompleteUndisturbed, Readable
  <2>1. CASE v <= Past
    <3>1. v \in 1..Past
      BY <2>1 DEF Versions, CountAssumption
    <3> QED BY <3>1 DEF Smooth
  <2>2. CASE ~(v <= Past)
    <3>1. v > Past
      BY <2>2 DEF Versions, CountAssumption
    <3>2. PICK c \in Clis : run[c] = v
      BY <3>1 DEF Begun, Readable
    <3>3. Finalized(c) /\ run[c] # 0
      BY <3>2 DEF Finalized, Readable, Versions
    <3>4. Live(c) /\ stage[c] = "none" /\ Reads(c) /\ Sound(c)
      BY <3>3 DEF Live, RunsInv, Ordered, Smooth, Sound
    <3>5. docs[v][p] \in Seq(Row)
      BY DEF TypeOK
    <3>6. docs[v][p] # <<>>
      BY <3>5
    <3>7. i = 1
      BY <3>2, <3>3, <3>4, <3>5, <3>6 DEF Sound, Stocked
    <3> QED
      BY <3>2, <3>3, <3>4, <3>6, <3>7 DEF Reads
  <2> QED BY <2>1, <2>2
<1> QED
  BY <1>1, <1>2, <1>3 DEF Accounted

-----------------------------------------------------------------------------
(* Undisturbed runs.                                                       *)

(* A step does not calm what was disturbed.                                *)
LEMMA StaysUnsteady ==
  ASSUME CountAssumption, IInv, [Next]_vars, Steady'
  PROVE  /\ Steady
         /\ (\E c \in Clis : Step(c) /\ ~InsertFails(c)) \/ UNCHANGED vars
<1>1. ASSUME NEW c \in Clis, Step(c)
      PROVE  Steady /\ ~InsertFails(c)
  <2>1. CASE InsertFails(c)
    <3>1. status[run[c]] = "deleted"
      BY <2>1 DEF InsertFails, Steady, IInv, TypeOK
    <3>2. Steady
      BY <2>1, <3>1 DEF InsertFails, Steady, IInv, TypeOK
    <3>3. run[c] \in Versions
      BY <2>1, Storing DEF InsertFails, IInv, RunsInv, Sound
    <3> QED
      BY <3>1, <3>2, <3>3 DEF IInv, Smooth
  <2>2. CASE ~InsertFails(c)
    <3>1. faults' = faults /\ switches' = switches
      BY <1>1, <2>2 DEF Step, Cli, Upload, Close, Plan, Start, Send, SkipOversize, Advance, GiveUp, Abort,
           SendFinalize, CheckBuilding, RefuseUpload, DropUpload, FindPrior, ListPrior, GateCarry, Classify,
           ReadChunks, InsertDocument, InsertChunk, Accept, Respond, CountDocuments, CountDiffers, Finalize,
           FinalizeFails, bounds
    <3> QED
      BY <2>2, <3>1 DEF Steady
  <2> QED BY <2>1, <2>2
<1>2. ~(Rollback \/ Sweep)
  BY DEF Rollback, Sweep, Steady, IInv, TypeOK
<1>3. CASE UNCHANGED vars
  BY <1>3 DEF vars, bounds, Steady
<1> QED
  BY <1>1, <1>2, <1>3 DEF Next, Step

(* Nor is a run alone afterwards that was not before.                      *)
LEMMA StaysAccompanied ==
  ASSUME CountAssumption, TypeOK, NEW c \in Clis, Step(c), Alone'
  PROVE  Alone
<1>1. \A d \in Clis : run[d] # 0 => run'[d] # 0
  <2>1. CASE Start(c)
    <3>1. PICK v \in Versions : run' = [run EXCEPT ![c] = v]
      BY <2>1 DEF Start
    <3>2. v # 0
      BY DEF Versions
    <3> QED BY <3>1, <3>2 DEF TypeOK
  <2>2. CASE run' = run
    BY <2>2
  <2> QED BY <2>1, <2>2, StepMoves DEF Moves
<1> QED
  BY <1>1 DEF Alone

(* What the carry of an invocation at rest reads.                          *)
LEMMA RestKeepsReads ==
  ASSUME CountAssumption, TreeAssumption, IInv, NEW c \in Clis, Step(c), Steady', Steady,
         NEW d \in Clis, d # c
  PROVE  Reads(d)'
<1>1. Reads(d) /\ Sound(d) /\ Sound(c) /\ TypeOK
  BY DEF IInv, Smooth, RunsInv, Sound
<1>2. Rests(d)
  BY <1>1, OthersRest
<1>3. \A v \in Versions : Readable(v) => Readable(v)' /\ docs'[v] = docs[v]
  <2> SUFFICES ASSUME NEW v \in Versions, Readable(v) PROVE Readable(v)' /\ docs'[v] = docs[v]
    OBVIOUS
  <2>1. Readable(v)'
    BY <1>1, StepMoves DEF Moves, Readable, Finalize, Active
  <2>2. [Next]_vars /\ RunsInv
    BY DEF Next, Step, IInv
  <2> QED BY <1>1, <2>1, <2>2, RowsStay DEF Readable
<1>4. Alone' => Alone
  BY <1>1, StaysAccompanied
<1>5. stage[d] # "none" => run[d] # 0
  BY <1>1 DEF Sound, Owns, Ordered, Uploading
<1>6. Alone' /\ run[d] # 0 => status' = status /\ model' = model
  <2> SUFFICES ASSUME Alone', run[d] # 0 PROVE status' = status /\ model' = model
    OBVIOUS
  <2>1. run'[c] = 0
    BY <1>2 DEF Alone, Rests
  <2>2. ~Start(c)
    BY <1>1, <2>1 DEF Start, Versions, TypeOK
  <2>3. run[c] = 0
    BY <1>1, <2>1, <2>2, StepMoves DEF Moves
  <2>4. ~Finalize(c)
    BY <1>1, <2>3 DEF Finalize, Sound, Owns, Ordered
  <2>5. \A v \in Versions : status'[v] = status[v]
    BY <1>1, <2>1, <2>4, StepMoves DEF Moves, Versions
  <2>6. TypeOK'
    BY <1>1, TypesKept DEF Sound
  <2> QED BY <1>1, <2>2, <2>5, <2>6, StepMoves DEF Moves, TypeOK
<1>7. run[d] # 0 => model'[run[d]] = model[run[d]] /\ docs'[run[d]] = docs[run[d]] /\ (Live(d)' => Live(d))
  <2> SUFFICES ASSUME run[d] # 0
               PROVE  model'[run[d]] = model[run[d]] /\ docs'[run[d]] = docs[run[d]] /\ (Live(d)' => Live(d))
    OBVIOUS
  <2>1. run[d] # run'[c]
    BY <1>1, <1>2, ApartKept DEF Apart, Rests, IInv
  <2>2. Endures(run[d]) /\ run[d] \in Versions
    BY <1>1, <2>1, OthersEndure DEF TypeOK
  <2>3. status'[run[d]] # "deleted"
    BY <1>1, <2>1, <2>2, StepMoves DEF Moves, Finalize, Active, IInv, Smooth
  <2> QED BY <1>2, <2>2, <2>3 DEF Endures, Live, Finalized, Readable, Rests
<1>8. prior[d] # 0 => prior[d] \in Versions
  BY <1>1 DEF TypeOK
<1>9. \A v \in Versions : v \in Active => Readable(v)
  BY DEF Active, Readable
<1>10. PICK w, r : w = prior[d] /\ r = run[d]
  OBVIOUS
<1>11. /\ stage'[d] = stage[d] /\ prior'[d] = w /\ run'[d] = r /\ canCarry'[d] = canCarry[d]
       /\ listed'[d] = listed[d] /\ doc'[d] = doc[d] /\ copy'[d] = copy[d]
  BY <1>2, <1>10 DEF Rests
<1>12. stage[d] \in Listing \cup {"found"} /\ w # 0 =>
         Readable(w)' /\ docs'[w] = docs[w] /\ (Alone' => w \in Active' /\ w <= Past)
  <2> SUFFICES ASSUME stage[d] \in Listing \cup {"found"}, w # 0
               PROVE  Readable(w)' /\ docs'[w] = docs[w] /\ (Alone' => w \in Active' /\ w <= Past)
    OBVIOUS
  <2>1. w \in Versions /\ Readable(w) /\ (Alone => w \in Active /\ w <= Past)
    BY <1>1, <1>8, <1>10 DEF Reads
  <2>2. Alone' => status' = status
    BY <1>5, <1>6 DEF Listing
  <2> QED BY <1>3, <1>4, <2>1, <2>2 DEF Active
<1>13. stage[d] \in Listing => \A p \in Paths : listed[d][p] # NoDoc => docs'[w][p] # <<>>
  <2> SUFFICES ASSUME stage[d] \in Listing, NEW p \in Paths, listed[d][p] # NoDoc PROVE docs'[w][p] # <<>>
    OBVIOUS
  <2>1. w # 0 /\ docs[w][p] # <<>>
    BY <1>1, <1>10 DEF Reads, Paced, Sound
  <2> QED BY <1>12, <2>1
<1>14. Alone' /\ stage[d] \in Listing \ {"listed"} /\ canCarry[d] => \E v \in Active' : model'[v] = model'[r]
  <2> SUFFICES ASSUME Alone', stage[d] \in Listing \ {"listed"}, canCarry[d]
               PROVE  \E v \in Active' : model'[v] = model'[r]
    OBVIOUS
  <2>1. \E v \in Active : model[v] = model[r]
    BY <1>1, <1>4, <1>10 DEF Reads
  <2>2. status' = status /\ model' = model
    BY <1>5, <1>6 DEF Listing
  <2> QED BY <2>1, <2>2 DEF Active
<1>15. stage[d] \in {"insert", "chunks"} => Whole(copy[d], r) /\ model'[r] = model[r]
  BY <1>1, <1>5, <1>7, <1>10 DEF Reads
<1>16. r # 0 /\ Live(d)' => /\ model'[r] = model[r] /\ docs'[r] = docs[r]
                           /\ \A p \in Paths : docs[r][p] # <<>> => Whole(docs[r][p][1], r)
                                                                     \/ (stage[d] = "chunks" /\ p = doc[d])
  BY <1>1, <1>7, <1>10 DEF Reads
<1> QED
  BY <1>1, <1>4, <1>11, <1>12, <1>13, <1>14, <1>15, <1>16 DEF Reads, Whole

(* What the carry of the invocation that acts reads.                       *)
LEMMA ActingReads ==
  ASSUME CountAssumption, TreeAssumption, IInv, NEW c \in Clis, Step(c), Steady', Steady, ~InsertFails(c)
  PROVE  Reads(c)'
<1>inv. Reads(c) /\ Sound(c) /\ TypeOK
  BY DEF IInv, Smooth, RunsInv, Sound
<1> USE <1>inv DEF Sound
<1>alone. Alone' => Alone
  BY StaysAccompanied
<1>1. CASE Plan(c)
  BY <1>1, <1>alone DEF Plan, Reads, Whole, Live, Finalized, Readable, Active, Listing, Paced, Ordered, Owns, Uploading, TypeOK, versions, plan, sending, reading, storing, upload, bounds
<1>2. CASE Start(c)
  <2>1. PICK v \in Versions : run'[c] = v /\ docs'[v] = NoRows /\ stage'[c] = "none"
    BY <1>2 DEF Start, NewRun, IInv, Begun, TypeOK, Ordered, Uploading, upload
  <2> QED
    BY <2>1 DEF Reads, NoRows, Listing
<1>3. CASE Send(c)
  BY <1>3, <1>alone DEF Send, Reads, Whole, Live, Finalized, Readable, Active, Listing, Paced, Ordered, Owns, Uploading, TypeOK, versions, plan, sending, reading, storing, upload, bounds
<1>4. CASE SkipOversize(c)
  BY <1>4, <1>alone DEF SkipOversize, Reads, Whole, Live, Finalized, Readable, Active, Listing, Paced, Ordered, Owns, Uploading, TypeOK, versions, plan, sending, reading, storing, upload, bounds
<1>5. CASE Advance(c)
  BY <1>5, <1>alone DEF Advance, Reads, Whole, Live, Finalized, Readable, Active, Listing, Paced, Ordered, Owns, Uploading, TypeOK, versions, plan, sending, reading, storing, upload, bounds
<1>6. CASE GiveUp(c)
  BY <1>6, <1>alone DEF GiveUp, Reads, Whole, Live, Finalized, Readable, Active, Listing, Paced, Ordered, Owns, Uploading, TypeOK, versions, plan, sending, reading, storing, upload, bounds
<1>7. CASE Abort(c)
  BY <1>7, <1>alone DEF Abort, MarkAborted, Reads, Whole, Live, Finalized, Readable, Active, Listing, Paced, Ordered, Owns, Uploading, TypeOK, versions, plan, sending, reading, storing, upload, bounds
<1>8. CASE SendFinalize(c)
  BY <1>8, <1>alone DEF SendFinalize, Reads, Whole, Live, Finalized, Readable, Active, Listing, Paced, Ordered, Owns, Uploading, TypeOK, versions, plan, sending, reading, storing, upload, bounds
<1>9. CASE CheckBuilding(c)
  BY <1>9, <1>alone DEF CheckBuilding, Reads, Whole, Live, Finalized, Readable, Active, Listing, Paced, Ordered, Owns, Uploading, TypeOK, versions, plan, sending, reading, storing, upload, bounds
<1>10. CASE RefuseUpload(c)
  BY <1>10, <1>alone DEF RefuseUpload, EndUpload, Reads, Whole, Live, Finalized, Readable, Active, Listing, Paced, Ordered, Owns, Uploading, TypeOK, versions, plan, sending, reading, storing, upload, bounds
<1>11. CASE DropUpload(c)
  <2>1. pc'[c] \in {"aborting", "failed"} /\ closing'[c] = "none" /\ ~Finalized(c)' /\ stage'[c] = "none"
    BY <1>11 DEF DropUpload, EndUpload, Waiting, Ordered, Finalized, Uploading, TypeOK, versions, plan
  <2> QED
    BY <2>1 DEF Reads, Live, Uploading, Listing
<1>12. CASE FindPrior(c)
  <2>1. /\ stage[c] = "checked" /\ run[c] # 0 /\ ~Finalized(c) /\ stage'[c] = "found"
        /\ prior'[c] = IF Active = {} THEN 0 ELSE CHOOSE v \in Active : TRUE
    BY <1>12 DEF FindPrior, Owns, Ordered, Uploading, TypeOK
  <2>2. PICK w : w = prior'[c] /\ (w # 0 => w \in Active)
    BY <2>1
  <2>3. ASSUME w # 0, Alone PROVE w <= Past
    <3>1. w \in Versions /\ status[w] = "active"
      BY <2>2, <2>3 DEF Active
    <3>2. CASE w > Past
      <4>1. PICK d \in Clis : run[d] = w
        BY <3>1, <3>2 DEF IInv, Begun
      <4>2. d = c
        BY <2>1, <2>3, <4>1 DEF Alone
      <4> QED BY <2>1, <2>3, <3>1, <4>1, <4>2 DEF Finalized
    <3> QED BY <3>1, <3>2 DEF Versions, CountAssumption
  <2>4. /\ run'[c] = run[c] /\ UNCHANGED <<status, model, docs>>
        /\ Live(c)' = Live(c)
    BY <1>12 DEF FindPrior, versions, plan, Live, Finalized
  <2>5. run[c] # 0 /\ Live(c) => \A p \in Paths : docs[run[c]][p] # <<>> => Whole(docs[run[c]][p][1], run[c])
    BY <2>1 DEF Reads
  <2> QED
    BY <1>alone, <2>1, <2>2, <2>3, <2>4, <2>5 DEF Reads, Whole, Readable, Active, Listing
<1>13. CASE ListPrior(c)
  BY <1>13, <1>alone DEF ListPrior, Reads, Whole, Live, Finalized, Readable, Active, Listing, Paced, Ordered, Owns, Uploading, TypeOK, versions, plan, sending, reading, storing, upload, bounds
<1>14. CASE GateCarry(c)
  BY <1>14, <1>alone DEF GateCarry, Reads, Whole, Live, Finalized, Readable, Active, Listing, Paced, Ordered, Owns, Uploading, TypeOK, versions, plan, sending, reading, storing, upload, bounds
<1>15. CASE Classify(c)
  <2>1. PICK p \in batch[c] :
          \/ Decision(c, p) = "carry" /\ doc'[c] = p /\ stage'[c] = "copy"
          \/ stage'[c] = "insert" /\ copy'[c] = [chunks |-> NChunks, space |-> wanted[c]]
          \/ stage'[c] = "next"
    BY <1>15 DEF Classify, TypeOK
  <2>2. stage[c] = "next" /\ run[c] # 0 /\ model[run[c]] = wanted[c]
    BY <1>15 DEF Classify, Ordered, Owns, Uploading
  <2>3. stage'[c] = "copy" => canCarry[c]
    BY <2>1 DEF Decision
  <2>4. stage'[c] = "insert" => copy'[c].chunks = NChunks /\ copy'[c].space = model[run[c]]
    BY <2>1, <2>2
  <2>5. /\ run'[c] = run[c] /\ UNCHANGED <<status, model, docs>> /\ Active' = Active
        /\ Live(c)' = Live(c) /\ prior'[c] = prior[c] /\ listed'[c] = listed[c] /\ canCarry'[c] = canCarry[c]
    BY <1>15 DEF Classify, versions, plan, reading, Live, Finalized, Active
  <2>6. /\ stage'[c] \in {"copy", "insert", "next"}
        /\ prior[c] # 0 => Readable(prior[c]) /\ (Alone => prior[c] \in Active /\ prior[c] <= Past)
        /\ \A q \in Paths : listed[c][q] # NoDoc => docs[prior[c]][q] # <<>>
        /\ Alone /\ canCarry[c] => \E v \in Active : model[v] = model[run[c]]
        /\ Live(c) => \A q \in Paths : docs[run[c]][q] # <<>> => Whole(docs[run[c]][q][1], run[c])
    BY <2>1, <2>2 DEF Reads, Listing
  <2> QED
    BY <1>alone, <2>3, <2>4, <2>5, <2>6 DEF Reads, Whole, Readable, Listing
<1>16. CASE ReadChunks(c)
  <2>1. stage[c] = "copy" /\ canCarry[c] /\ run[c] # 0
    BY <1>16 DEF ReadChunks, Reads, Ordered, Owns, Uploading
  <2>2. PICK w \in Versions, p \in Paths : w = prior[c] /\ p = doc[c]
    BY <2>1, Storing DEF Paced, Listing, TypeOK
  <2>3. /\ Readable(w) /\ (Alone => w \in Active) /\ docs[w][p] # <<>>
        /\ Alone => \E v \in Active : model[v] = model[run[c]]
    BY <2>1, <2>2 DEF Reads, Paced, Listing, Versions
  <2>4. docs[w][p] \in Seq(Row) /\ copy[c] \in Payload
    BY DEF TypeOK
  <2>5. Whole(LastRow(docs[w][p]), w)
    <3>1. Len(docs[w][p]) \in DOMAIN docs[w][p]
      BY <2>3, <2>4, RowsTyped
    <3>2. CompleteUndisturbed
      BY Accounting DEF Accounted
    <3> QED BY <2>3, <3>1, <3>2 DEF CompleteUndisturbed, Readable, LastRow
  <2>6. copy'[c] = [chunks |-> LastRow(docs[w][p]).chunks, space |-> LastRow(docs[w][p]).space]
    BY <1>16, <2>2, <2>3 DEF ReadChunks, TypeOK
  <2>7. copy'[c].chunks = NChunks /\ copy'[c].space = LastRow(docs[w][p]).space
    BY <2>5, <2>6 DEF Whole
  <2>8. Alone => copy'[c].space = model[run[c]]
    BY <2>3, <2>5, <2>7 DEF Whole, IInv, OneActive
  <2>9. /\ run'[c] = run[c] /\ UNCHANGED <<status, model, docs>> /\ Active' = Active
        /\ Live(c)' = Live(c) /\ prior'[c] = prior[c] /\ listed'[c] = listed[c] /\ canCarry'[c] = canCarry[c]
        /\ stage'[c] = "insert"
    BY <1>16 DEF ReadChunks, versions, plan, reading, Live, Finalized, Active, TypeOK
  <2>10. /\ prior[c] # 0 => Readable(prior[c]) /\ (Alone => prior[c] \in Active /\ prior[c] <= Past)
         /\ \A q \in Paths : listed[c][q] # NoDoc => docs[prior[c]][q] # <<>>
         /\ Alone /\ canCarry[c] => \E v \in Active : model[v] = model[run[c]]
         /\ Live(c) => \A q \in Paths : docs[run[c]][q] # <<>> => Whole(docs[run[c]][q][1], run[c])
    BY <2>1 DEF Reads, Listing
  <2> QED
    BY <1>alone, <2>7, <2>8, <2>9, <2>10 DEF Reads, Whole, Readable, Listing
<1>17. CASE InsertDocument(c)
  BY <1>17, <1>alone DEF InsertDocument, Reads, Whole, Live, Finalized, Readable, Active, Listing, Paced, Ordered, Owns, Uploading, TypeOK, versions, plan, sending, reading, storing, upload, bounds
<1>18. CASE InsertChunk(c)
  BY <1>18, <1>alone DEF InsertChunk, Reads, Whole, Live, Finalized, Readable, Active, Listing, Paced, Ordered, Owns, Uploading, TypeOK, versions, plan, sending, reading, storing, upload, bounds
<1>19. CASE Accept(c)
  <2>1. PICK v \in Versions, p \in Paths : v = run[c] /\ p = doc[c]
    BY <1>19, Storing DEF Accept
  <2>2. stage[c] = "chunks" /\ v # 0 /\ status[v] # "deleted" /\ docs[v][p] \in Seq(Row)
    BY <1>19, <2>1, Storing DEF Accept, IInv, Smooth
  <2>3. docs[v][p] # <<>> /\ Len(docs[v][p]) = 1 /\ docs[v][p][1].space = copy[c].space
    BY <2>1, <2>2 DEF Stocked
  <2>4. docs[v][p][1].chunks = copy[c].chunks
    BY <1>19, <2>1, <2>2, <2>3, OneRow DEF Accept, Stored
  <2>5. Whole(docs[v][p][1], v)
    BY <2>1, <2>2, <2>3, <2>4 DEF Reads, Whole
  <2>6. /\ run'[c] = v /\ UNCHANGED <<status, model, docs>> /\ Active' = Active
        /\ Live(c)' = Live(c) /\ prior'[c] = prior[c] /\ listed'[c] = listed[c] /\ canCarry'[c] = canCarry[c]
        /\ stage'[c] = "next"
    BY <1>19, <2>1 DEF Accept, NextDocument, versions, plan, reading, Live, Finalized, Active, TypeOK
  <2>7. /\ prior[c] # 0 => Readable(prior[c]) /\ (Alone => prior[c] \in Active /\ prior[c] <= Past)
        /\ \A q \in Paths : listed[c][q] # NoDoc => docs[prior[c]][q] # <<>>
        /\ Alone /\ canCarry[c] => \E w \in Active : model[w] = model[v]
        /\ Live(c) => \A q \in Paths : docs[v][q] # <<>> => Whole(docs[v][q][1], v) \/ q = p
    BY <2>1, <2>2 DEF Reads, Listing
  <2>8. Live(c) => \A q \in Paths : docs[v][q] # <<>> => Whole(docs[v][q][1], v)
    BY <2>5, <2>7
  <2> QED
    BY <1>alone, <2>6, <2>7, <2>8 DEF Reads, Whole, Readable, Listing
<1>20. CASE InsertFails(c)
  BY <1>20, <1>alone DEF InsertFails, NextDocument, Reads, Whole, Live, Finalized, Readable, Active, Listing, Paced, Ordered, Owns, Uploading, TypeOK, versions, plan, sending, reading, storing, upload, bounds
<1>21. CASE Respond(c)
  BY <1>21, <1>alone DEF Respond, EndUpload, Reads, Whole, Live, Finalized, Readable, Active, Listing, Paced, Ordered, Owns, Uploading, TypeOK, versions, plan, sending, reading, storing, upload, bounds
<1>22. CASE CountDocuments(c)
  BY <1>22, <1>alone DEF CountDocuments, Reads, Whole, Live, Finalized, Readable, Active, Listing, Paced, Ordered, Owns, Uploading, TypeOK, versions, plan, sending, reading, storing, upload, bounds
<1>23. CASE CountDiffers(c)
  BY <1>23, <1>alone DEF CountDiffers, EndFinalize, Reads, Whole, Live, Finalized, Readable, Active, Listing, Paced, Ordered, Owns, Uploading, TypeOK, versions, plan, sending, reading, storing, upload, bounds
<1>24. CASE Finalize(c)
  BY <1>24, <1>alone DEF Finalize, Succeed, Reads, Whole, Live, Finalized, Readable, Active, Listing, Paced, Ordered, Owns, Uploading, TypeOK, versions, plan, sending, reading, storing, upload, bounds
<1>25. CASE FinalizeFails(c)
  BY <1>25, <1>alone DEF FinalizeFails, EndFinalize, Reads, Whole, Live, Finalized, Readable, Active, Listing, Paced, Ordered, Owns, Uploading, TypeOK, versions, plan, sending, reading, storing, upload, bounds
<1> QED
  BY <1>1, <1>2, <1>3, <1>4, <1>5, <1>6, <1>7, <1>8, <1>9, <1>10, <1>11, <1>12, <1>13, <1>14, <1>15, <1>16, <1>17, <1>18, <1>19, <1>20, <1>21, <1>22, <1>23, <1>24, <1>25 DEF Step, Cli, Upload, Close

(* What is undisturbed stays whole.                                        *)
LEMMA SmoothKept ==
  ASSUME CountAssumption, TreeAssumption, IInv, [Next]_vars
  PROVE  Smooth'
<1> SUFFICES ASSUME Steady' PROVE Smooth'
  BY DEF Smooth
<1>1. Steady /\ Smooth
  BY StaysUnsteady DEF IInv
<1>2. CASE UNCHANGED vars
  <2>1. UNCHANGED <<status, model, docs, run, closing, pc, stage, prior, listed, canCarry, copy, doc>>
    BY <1>2 DEF vars, versions, plan, upload, reading, storing
  <2> QED
    BY <1>1, <2>1 DEF Smooth, Reads, Whole, Alone, Readable, Active, Live, Finalized
<1>3. ASSUME NEW c \in Clis, Step(c), ~InsertFails(c) PROVE Smooth'
  <2>0. TypeOK /\ Owns(c) /\ Ordered(c)
    BY DEF IInv, RunsInv
  <2>1. ASSUME NEW v \in Versions PROVE status'[v] # "deleted"
    BY <1>1, <1>3, <2>0, StepMoves DEF Moves, Finalize, Active, Smooth
  <2>2. ASSUME NEW v \in 1..Past, NEW p \in Paths, NEW i \in DOMAIN docs'[v][p]
        PROVE  Whole(docs[v][p][i], v)'
    <3>1. v \in Versions
      BY FS_CardinalityType DEF Versions, CountAssumption
    <3>2. docs'[v] = docs[v]
      <4>1. CASE InsertDocument(c) \/ InsertChunk(c)
        <5>1. stage[c] # "none"
          BY <4>1 DEF InsertDocument, InsertChunk
        <5>2. run[c] # v
          BY <2>0, <5>1 DEF Owns, Ordered, Uploading
        <5> QED BY <2>0, <3>1, <4>1, <5>2 DEF InsertDocument, InsertChunk, TypeOK
      <4> QED BY <1>3, <2>0, <4>1, StepMoves DEF Moves
    <3>3. model'[v] = model[v]
      <4>1. CASE Start(c)
        <5>1. PICK w \in Versions : status[w] = "absent" /\ model' = [model EXCEPT ![w] = wanted[c]]
          BY <4>1 DEF Start, NewRun
        <5>2. w # v
          BY <5>1 DEF IInv, Begun
        <5> QED BY <2>0, <3>1, <5>1, <5>2 DEF TypeOK
      <4> QED BY <1>3, <2>0, <4>1, StepMoves DEF Moves
    <3>4. Whole(docs[v][p][i], v)
      BY <1>1, <3>2 DEF Smooth
    <3>5. Alone' => Alone
      BY <1>3, <2>0, StaysAccompanied
    <3> QED
      BY <3>2, <3>3, <3>4, <3>5 DEF Whole
  <2>3. ASSUME NEW d \in Clis PROVE Reads(d)'
    BY <1>1, <1>3, RestKeepsReads, ActingReads
  <2> QED
    BY <2>1, <2>2, <2>3 DEF Smooth
<1> QED
  BY <1>2, <1>3, StaysUnsteady

-----------------------------------------------------------------------------
(* The theorems.                                                           *)

(* Earlier runs have left whole versions, and no run has begun.            *)
LEMMA InitSound ==
  ASSUME CountAssumption, TreeAssumption, Init
  PROVE  IInv
<1>0. PICK cur \in 0..Past :
        status = [v \in Versions |-> IF v > Past THEN "absent"
                                     ELSE IF v = cur THEN "active" ELSE "inactive"]
  BY DEF Init
<1>1. PICK m \in [1..Past -> Models], t \in Histories :
        /\ model = [v \in Versions |-> IF v > Past THEN SomeModel ELSE m[v]]
        /\ docs = [v \in Versions |-> [p \in Paths |->
                     IF v > Past THEN <<>> ELSE StoredDocument(t[v][p], m[v])]]
  BY DEF Init
<1>2. \A v \in Versions : v > Past \/ v \in 1..Past
  BY DEF Versions, CountAssumption
<1>3. SomeModel \in Models /\ (CHOOSE u \in Trees : TRUE) \in Trees
  BY DEF SomeModel, TreeAssumption
<1>4. \A v \in 1..Past, p \in Paths : StoredDocument(t[v][p], m[v]) \in Seq(Row)
  <2> SUFFICES ASSUME NEW v \in 1..Past, NEW p \in Paths PROVE StoredDocument(t[v][p], m[v]) \in Seq(Row)
    OBVIOUS
  <2>1. t[v][p] \in Hashes \cup {NoDoc} /\ m[v] \in Models
    BY DEF TreeAssumption
  <2>2. t[v][p] \in Hashes => [hash |-> t[v][p], chunks |-> NChunks, space |-> m[v]] \in Row
    BY <2>1 DEF Row, CountAssumption
  <2> QED BY <2>1, <2>2 DEF StoredDocument
<1>5. TypeOK
  <2>1. status \in [Versions -> Statuses] /\ model \in [Versions -> Models]
    BY <1>0, <1>1, <1>2, <1>3 DEF Statuses
  <2>2. docs \in [Versions -> [Paths -> Seq(Row)]]
    BY <1>1, <1>2, <1>4
  <2>3. /\ pc \in [Clis -> Phases] /\ stage \in [Clis -> Stages] /\ run \in [Clis -> Versions \cup {0}]
        /\ tree \in [Clis -> Trees] /\ wanted \in [Clis -> Models]
    BY <1>3 DEF Init, Phases, Stages
  <2>4. Nothing \in Payload /\ NoneFound \in [Paths -> Conflicts] /\ NoneListed \in [Paths -> Hashes \cup {NoDoc}]
    BY NothingTyped DEF NoneFound, NoneListed, Conflicts
  <2> QED
    BY <2>1, <2>2, <2>3, <2>4 DEF Init, TypeOK, CountAssumption
<1>6. \A c \in Clis : /\ run[c] = 0 /\ pc[c] = "idle" /\ stage[c] = "none" /\ closing[c] = "none"
                      /\ todo[c] = {} /\ batch[c] = {} /\ conflict[c] = NoneFound /\ found[c] = NoneFound
                      /\ ~carrying[c]
  BY DEF Init
<1>7. RunsInv
  BY <1>6 DEF RunsInv, Owns, Ordered, Paced, Stocked, Heard, Counted, Finalized, NoneFound, Uploading, Listing
<1>8. Apart /\ OneActive
  BY <1>0, <1>6 DEF Apart, OneActive, Active
<1>9. Begun
  BY <1>0, <1>1, <1>2 DEF Begun, NoRows
<1>10. Smooth
  <2>1. \A v \in Versions : status[v] # "deleted"
    BY <1>0
  <2>2. \A v \in 1..Past, p \in Paths : \A i \in DOMAIN docs[v][p] : Whole(docs[v][p][i], v)
    <3> SUFFICES ASSUME NEW v \in 1..Past, NEW p \in Paths, NEW i \in DOMAIN docs[v][p]
                 PROVE  Whole(docs[v][p][i], v)
      OBVIOUS
    <3>1. v \in Versions /\ ~(v > Past)
      BY FS_CardinalityType DEF Versions, CountAssumption
    <3>2. docs[v][p] = StoredDocument(t[v][p], m[v]) /\ model[v] = m[v]
      BY <1>1, <3>1
    <3>3. t[v][p] # NoDoc /\ docs[v][p] = <<[hash |-> t[v][p], chunks |-> NChunks, space |-> m[v]]>>
      BY <3>2 DEF StoredDocument
    <3> DEFINE r == [hash |-> t[v][p], chunks |-> NChunks, space |-> m[v]]
    <3>4. docs[v][p][i] = r
      <4> HIDE DEF r
      <4>1. docs[v][p] = <<r>>
        BY <3>3 DEF r
      <4> QED BY <4>1
    <3> QED
      BY <3>2, <3>4 DEF Whole
  <2>3. \A c \in Clis : Reads(c)
    BY <1>6 DEF Reads, Listing
  <2> QED
    BY <2>1, <2>2, <2>3 DEF Smooth
<1> QED
  BY <1>5, <1>7, <1>8, <1>9, <1>10 DEF IInv

(* Every step keeps the invariant.                                         *)
LEMMA StepSound ==
  ASSUME CountAssumption, TreeAssumption, IInv, [Next]_vars
  PROVE  IInv'
<1>1. Smooth'
  BY SmoothKept
<1>2. ASSUME NEW c \in Clis, Step(c) PROVE TypeOK' /\ RunsInv' /\ Apart' /\ OneActive' /\ Begun'
  <2>1. TypeOK /\ RunsInv /\ Apart /\ OneActive /\ Begun /\ Owns(c) /\ Ordered(c) /\ Paced(c) /\ Stocked(c)
    BY DEF IInv, RunsInv
  <2> QED
    BY <1>2, <2>1, TypesKept, RunsStay, ApartKept, OneActiveKept, BegunKept
<1>3. CASE Rollback \/ Sweep
  BY <1>1, <1>3, EnvironmentKeeps DEF IInv
<1>4. CASE UNCHANGED vars
  <2>1. TypeOK'
    BY <1>4 DEF IInv, TypeOK, vars, versions, plan, sending, reading, storing, upload, bounds
  <2>2. \A d \in Clis : Rests(d)
    BY <1>4 DEF Rests, vars, plan, sending, reading, storing, upload
  <2>3. \A v \in Versions : Endures(v)
    BY <1>4 DEF Endures, vars, versions
  <2>4. RunsInv'
    <3> SUFFICES ASSUME NEW d \in Clis PROVE Sound(d)'
      BY DEF RunsInv, Sound
    <3>1. Sound(d) /\ TypeOK
      BY DEF RunsInv, Sound, IInv
    <3>2. run[d] # 0 => Endures(run[d])
      BY <2>3, <3>1 DEF TypeOK
    <3> QED BY <2>2, <3>1, <3>2, RestKeepsSound
  <2>5. UNCHANGED <<status, docs, run>>
    BY <1>4 DEF vars, versions, plan
  <2>6. Apart' /\ OneActive' /\ Begun'
    BY <2>5 DEF IInv, Apart, OneActive, Active, Begun
  <2> QED
    BY <1>1, <2>1, <2>4, <2>6 DEF IInv
<1> QED
  BY <1>1, <1>2, <1>3, <1>4 DEF Next, Step, IInv

(* The invariant of source runs holds throughout.                          *)
THEOREM InductiveInvariant == Spec => []IInv
<1>1. Init => IInv
  BY InitSound, CountAssumption, TreeAssumption
<1>2. IInv /\ [Next]_vars => IInv'
  BY StepSound, CountAssumption, TreeAssumption
<1> QED
  BY <1>1, <1>2, PTL DEF Spec

(* Every variable keeps its type.                                          *)
THEOREM TypeCorrect == Spec => []TypeOK
<1>1. IInv => TypeOK
  BY DEF IInv
<1> QED
  BY <1>1, InductiveInvariant, PTL

(* What a run made readable is what was walked, whole and in the space of   *)
(* its version, or the CLI was told of the damage.                         *)
THEOREM RunsAccounted == Spec => []Accounted
<1>1. IInv => Accounted
  BY Accounting, CountAssumption
<1> QED
  BY <1>1, InductiveInvariant, PTL

\* What SnapshotImmutable says of a step.
Immutable ==
  \A v \in Versions : status[v] \in {"active", "inactive"} /\ status'[v] # "deleted" => docs'[v] = docs[v]

(* A readable version is an immutable snapshot: no upload that is still     *)
(* being handled, no rollback and no other run changes a row of it.        *)
THEOREM ReadableIsImmutable == Spec => SnapshotImmutable
<1>1. IInv /\ [Next]_vars => Immutable
  BY RowsStay DEF IInv, Immutable, Readable
<1>2. IInv /\ [Next]_vars => [Immutable]_vars
  BY <1>1
<1>3. SnapshotImmutable <=> [][Immutable]_vars
  BY DEF SnapshotImmutable, Immutable
<1> QED
  BY <1>2, <1>3, InductiveInvariant, PTL DEF Spec

=============================================================================
