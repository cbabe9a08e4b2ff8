---------------------------- MODULE ServerProofs ----------------------------
(***************************************************************************)
(* Proofs about two parts of the server that many requests share: the      *)
(* source versions, for every set of sources, versions and concurrent      *)
(* requests, and the override cache with the request rate limiter, for     *)
(* every address width, every set of requests and operators, every limit   *)
(* and any bound.                                                          *)
(***************************************************************************)
EXTENDS SourceVersions, RateLimiter, CollectionTheorems

-----------------------------------------------------------------------------
(* Source versions.                                                         *)

(* The initial state satisfies the inductive invariant: no row is stored.  *)
LEMMA InitIInv == Init => IInv
BY VersionsAssumption
   DEF Init, IInv, TypeOK, LockDiscipline, IndexDiscipline, AtMostOneActive,
       Statuses, Stored, Pcs, InTx, IsActive, IsStored

(* Each step preserves the types.                                          *)
LEMMA NextTypeOK == TypeOK /\ [Next]_vars => TypeOK'
<1> SUFFICES ASSUME TypeOK, [Next]_vars PROVE TypeOK'
  OBVIOUS
<1> USE DEF TypeOK, Statuses, Stored, Pcs, InTx
<1> USE VersionsAssumption
<1>1. ASSUME NEW s \in Sessions, NEW v \in Versions, CreateRead(s, v) PROVE TypeOK'
  BY <1>1 DEF CreateRead, Goto, tables, daemon
<1>2. ASSUME NEW s \in Sessions, CreateInsert(s) PROVE TypeOK'
  BY <1>2 DEF CreateInsert, Answer, Goto, daemon
<1>3. ASSUME NEW s \in Sessions, NEW v \in Versions, BeginOn(s, v) PROVE TypeOK'
  BY <1>3 DEF BeginOn, Lock, Goto, tables, daemon
<1>4. ASSUME NEW s \in Sessions, DemoteScan(s) PROVE TypeOK'
  BY <1>4 DEF DemoteScan, Siblings, Goto, tables, daemon
<1>5. ASSUME NEW s \in Sessions, DemoteApply(s) PROVE TypeOK'
  BY <1>5 DEF DemoteApply, Goto, tables, daemon
<1>6. ASSUME NEW s \in Sessions, PromoteTarget(s) PROVE TypeOK'
  BY <1>6 DEF PromoteTarget, Goto, tables, daemon
<1>7. ASSUME NEW s \in Sessions, PromoteConflict(s) \/ Fail(s) PROVE TypeOK'
  BY <1>7 DEF PromoteConflict, Fail, Answer, Goto, Release, tables, daemon
<1>8. ASSUME NEW s \in Sessions, CommitPromotion(s) PROVE TypeOK'
  BY <1>8 DEF CommitPromotion, Answer, Goto, Release, daemon
<1>9. ASSUME NEW s \in Sessions, NEW v \in Versions, Abort(s, v) PROVE TypeOK'
  BY <1>9 DEF Abort, request, daemon
<1>10. ASSUME NEW s \in Sessions, NEW v \in Versions, RetireRead(s, v) PROVE TypeOK'
  BY <1>10 DEF RetireRead, Goto, tables, daemon
<1>11. ASSUME NEW s \in Sessions, RetireWrite(s) PROVE TypeOK'
  BY <1>11 DEF RetireWrite, Answer, Goto, daemon
<1>12. ASSUME SourceStep PROVE TypeOK'
  BY <1>12 DEF SourceStep, RetireSource, PatchRetention, request, daemon
<1>13. ASSUME DaemonStep PROVE TypeOK'
  <2>1. CASE SweepSources
    BY <2>1 DEF SweepSources, DeleteRows, request
  <2>2. CASE SweepScan
    BY <2>2 DEF SweepScan, Eligible, tables, request
  <2>3. CASE \E v \in Versions : SweepLock(v)
    BY <2>3 DEF SweepLock, Lock, tables, request
  <2>4. CASE SweepCommit
    BY <2>4 DEF SweepCommit, DeleteRows, Release, request
  <2>5. CASE SweepAborted
    BY <2>5 DEF SweepAborted, DeleteRows, request
  <2>6. CASE SweepFail
    BY <2>6 DEF SweepFail, Release, tables, request
  <2> QED BY <1>13, <2>1, <2>2, <2>3, <2>4, <2>5, <2>6 DEF DaemonStep
<1>14. CASE UNCHANGED vars
  BY <1>14 DEF vars, tables, request, daemon
<1>15. ASSUME NEW s \in Sessions, SessionStep(s) PROVE TypeOK'
  BY <1>15, <1>1, <1>2, <1>3, <1>4, <1>5, <1>6, <1>7, <1>8, <1>9, <1>10, <1>11
     DEF SessionStep, FinalizeBegin, PromoteBegin
<1> QED BY <1>12, <1>13, <1>14, <1>15 DEF Next

(* The table and the requests always have the shape TypeOK gives: among    *)
(* it, a request has a row exactly while it is being handled.              *)
THEOREM TypeCorrect == Spec => []TypeOK
<1>1. Init => TypeOK
  BY InitIInv DEF IInv
<1> QED BY <1>1, NextTypeOK, PTL DEF Spec

-----------------------------------------------------------------------------
(* Lock discipline.                                                        *)

(* Each step of a request keeps the lock discipline.                       *)
LEMMA SessionLockDiscipline ==
  ASSUME TypeOK, LockDiscipline, NEW s \in Sessions, SessionStep(s)
  PROVE  LockDiscipline'
<1> USE VersionsAssumption
    DEF TypeOK, LockDiscipline, Pcs, InTx, IsActive, IsStored, Siblings, Unlocked
<1>1. ASSUME NEW v \in Versions, CreateRead(s, v) PROVE LockDiscipline'
  BY <1>1 DEF CreateRead, Goto, tables, daemon
<1>2. CASE CreateInsert(s)
  BY <1>2 DEF CreateInsert, Answer, Goto, daemon, Stored
<1>3. ASSUME NEW v \in Versions, BeginOn(s, v), status[v] \in {"building", "inactive"}
      PROVE LockDiscipline'
  BY <1>3 DEF BeginOn, Lock, Goto, tables, daemon, Stored
<1>4. CASE DemoteScan(s)
  BY <1>4 DEF DemoteScan, Goto, tables, daemon
<1>5. CASE DemoteApply(s)
  BY <1>5 DEF DemoteApply, Goto, tables, daemon, Stored
<1>6. CASE PromoteTarget(s)
  BY <1>6 DEF PromoteTarget, Goto, tables, daemon
<1>7. CASE PromoteConflict(s) \/ Fail(s)
  BY <1>7 DEF PromoteConflict, Fail, Answer, Goto, Release, tables, daemon
<1>8. CASE CommitPromotion(s)
  BY <1>8 DEF CommitPromotion, DemotedBy, HeldBy, Answer, Goto, Release, daemon, Stored
<1>9. ASSUME NEW v \in Versions, Abort(s, v) PROVE LockDiscipline'
  BY <1>9 DEF Abort, request, daemon, Stored
<1>10. ASSUME NEW v \in Versions, RetireRead(s, v) PROVE LockDiscipline'
  BY <1>10 DEF RetireRead, Goto, tables, daemon, Stored
<1>11. CASE RetireWrite(s)
  BY <1>11 DEF RetireWrite, Answer, Goto, daemon, Stored
<1> QED
  BY <1>1, <1>2, <1>3, <1>4, <1>5, <1>6, <1>7, <1>8, <1>9, <1>10, <1>11
  DEF SessionStep, FinalizeBegin, PromoteBegin

(* Each step of the retention daemon keeps the lock discipline: it locks   *)
(* stored rows nobody has, and deletes unlocked rows or rows it locked.    *)
LEMMA DaemonLockDiscipline ==
  ASSUME TypeOK, LockDiscipline, DaemonStep
  PROVE  LockDiscipline'
<1> USE VersionsAssumption
    DEF TypeOK, LockDiscipline, Pcs, InTx, IsActive, IsStored, Siblings, Unlocked
<1>1. CASE SweepSources
  BY <1>1 DEF SweepSources, RowsOf, DeleteRows, request, Stored
<1>2. CASE SweepScan
  BY <1>2 DEF SweepScan, tables, request
<1>3. CASE \E v \in Versions : SweepLock(v)
  BY <1>3 DEF SweepLock, Lock, tables, request, Stored
<1>4. CASE SweepCommit
  BY <1>4 DEF SweepCommit, HeldBy, DeleteRows, Release, request, Stored
<1>5. CASE SweepAborted
  BY <1>5 DEF SweepAborted, DeleteRows, request, Stored
<1>6. CASE SweepFail
  BY <1>6 DEF SweepFail, Release, tables, request
<1> QED BY <1>1, <1>2, <1>3, <1>4, <1>5, <1>6 DEF DaemonStep

(* Every step keeps the lock discipline.                                   *)
LEMMA NextLockDiscipline ==
  TypeOK /\ LockDiscipline /\ [Next]_vars => LockDiscipline'
<1>1. ASSUME TypeOK, LockDiscipline, SourceStep PROVE LockDiscipline'
  BY <1>1 DEF SourceStep, RetireSource, PatchRetention, request, daemon,
              LockDiscipline, IsActive, IsStored, Siblings
<1>2. ASSUME TypeOK, LockDiscipline, UNCHANGED vars PROVE LockDiscipline'
  BY <1>2 DEF vars, tables, request, daemon, LockDiscipline, IsActive, IsStored, Siblings
<1> QED BY <1>1, <1>2, SessionLockDiscipline, DaemonLockDiscipline DEF Next

-----------------------------------------------------------------------------
(* The partial unique index.                                               *)

(* Each step keeps the index discipline and at most one active version.    *)
LEMMA NextIndexDiscipline ==
  IInv /\ [Next]_vars => IndexDiscipline' /\ AtMostOneActive'
<1> SUFFICES ASSUME IInv, [Next]_vars PROVE IndexDiscipline' /\ AtMostOneActive'
  OBVIOUS
<1> USE VersionsAssumption
    DEF IInv, TypeOK, LockDiscipline, IndexDiscipline, AtMostOneActive,
        Pcs, InTx, IsActive, Siblings
<1>1. ASSUME NEW s \in Sessions, SessionStep(s)
      PROVE IndexDiscipline' /\ AtMostOneActive'
  <2>1. ASSUME NEW v \in Versions, CreateRead(s, v)
        PROVE IndexDiscipline' /\ AtMostOneActive'
    BY <2>1 DEF CreateRead, Goto, tables, daemon
  <2>2. CASE CreateInsert(s)
    BY <2>2 DEF CreateInsert, Answer, Goto, daemon
  <2>3. ASSUME NEW v \in Versions, BeginOn(s, v)
        PROVE IndexDiscipline' /\ AtMostOneActive'
    BY <2>3 DEF BeginOn, Unlocked, Lock, Goto, tables, daemon
  <2>4. CASE DemoteScan(s)
    BY <2>4 DEF DemoteScan, Goto, tables, daemon
  <2>5. CASE DemoteApply(s)
    BY <2>5 DEF DemoteApply, Unlocked, Goto, tables, daemon
  <2>6. CASE PromoteTarget(s)
    BY <2>6 DEF PromoteTarget, IndexFree, OnActiveIndex, IndexConflict, DemotedBy, HeldBy,
                Goto, tables, daemon
  <2>7. CASE PromoteConflict(s) \/ Fail(s)
    <3>1. UNCHANGED status /\ AtMostOneActive'
      BY <2>7 DEF PromoteConflict, Fail, tables
    <3>2. /\ pc' = [pc EXCEPT ![s] = "idle"]
          /\ target' = [target EXCEPT ![s] = NoVersion]
          /\ \A v \in Versions : lockedBy'[v] = IF lockedBy[v] = s THEN Nobody ELSE lockedBy[v]
      BY <2>7 DEF PromoteConflict, Fail, Answer, Goto, Release
    <3>3. \A t \in Sessions : pc'[t] = "promoted" =>
             t # s /\ pc[t] = "promoted" /\ target'[t] = target[t]
      BY <3>2
    <3> QED BY <3>1, <3>2, <3>3
  <2>8. CASE CommitPromotion(s)
    BY <2>8 DEF CommitPromotion, DemotedBy, HeldBy, Answer, Goto, Release, daemon
  <2>9. ASSUME NEW v \in Versions, Abort(s, v)
        PROVE IndexDiscipline' /\ AtMostOneActive'
    BY <2>9 DEF Abort, request, daemon
  <2>10. ASSUME NEW v \in Versions, RetireRead(s, v)
         PROVE IndexDiscipline' /\ AtMostOneActive'
    BY <2>10 DEF RetireRead, Goto, tables, daemon
  <2>11. CASE RetireWrite(s)
    BY <2>11 DEF RetireWrite, Answer, Goto, daemon
  <2> QED
    BY <1>1, <2>1, <2>2, <2>3, <2>4, <2>5, <2>6, <2>7, <2>8, <2>9, <2>10, <2>11
    DEF SessionStep, FinalizeBegin, PromoteBegin
<1>2. CASE SourceStep
  BY <1>2 DEF SourceStep, RetireSource, PatchRetention, request, daemon
<1>3. CASE DaemonStep
  <2>1. UNCHANGED <<pc, target>> /\ \A v \in Versions : IsActive(v)' => IsActive(v)
    BY <1>3 DEF DaemonStep, SweepSources, SweepScan, SweepLock, SweepCommit, SweepAborted,
                SweepFail, DeleteRows, tables, request
  <2>2. \A v \in Versions, s \in Sessions : lockedBy[v] = s => lockedBy'[v] = s
    BY <1>3 DEF DaemonStep, SweepSources, SweepScan, SweepLock, SweepCommit, SweepAborted,
                SweepFail, Lock, Release, Unlocked, tables
  <2> QED BY <2>1, <2>2
<1>4. CASE UNCHANGED vars
  BY <1>4 DEF vars, tables, request, daemon
<1> QED BY <1>1, <1>2, <1>3, <1>4 DEF Next

(* The inductive invariant holds in every reachable state.                 *)
THEOREM InductiveInvariant == Spec => []IInv
<1>1. IInv /\ [Next]_vars => IInv'
  BY NextTypeOK, NextLockDiscipline, NextIndexDiscipline DEF IInv
<1> QED BY <1>1, InitIInv, PTL DEF Spec

(* However many finalizes, rollbacks, retirements and sweeps overlap, no    *)
(* source ever has two active versions (FR-003, FR-061, EC-04).            *)
THEOREM OneActive == Spec => []AtMostOneActive
<1>1. IInv => AtMostOneActive
  BY DEF IInv
<1> QED BY <1>1, InductiveInvariant, PTL

-----------------------------------------------------------------------------
(* Lock cycles.                                                             *)

(* A request that has rivals is between the two halves of its demotion: no  *)
(* other step of it, and no step of another, gives it rivals or a new row.  *)
LEMMA RivalsKept ==
  ASSUME IInv, [Next]_vars, NEW s \in Sessions, rivals'[s] # {}, ~ DemoteScan(s)
  PROVE  rivals'[s] = rivals[s] /\ target'[s] = target[s]
<1> USE DEF IInv, TypeOK, LockDiscipline
<1>1. pc[s] = "idle" => rivals[s] = {}
  OBVIOUS
<1>2. ASSUME NEW a \in Sessions, SessionStep(a) PROVE rivals'[s] = rivals[s] /\ target'[s] = target[s]
  <2>1. ASSUME NEW v \in Versions,
               CreateRead(a, v) \/ BeginOn(a, v) \/ Abort(a, v) \/ RetireRead(a, v)
        PROVE  rivals'[s] = rivals[s] /\ target'[s] = target[s]
    BY <1>1, <2>1 DEF CreateRead, BeginOn, Abort, RetireRead, request
  <2>2. ASSUME Answer(a) PROVE rivals'[s] = rivals[s] /\ target'[s] = target[s]
    BY <2>2 DEF Answer
  <2>3. CASE DemoteScan(a)
    <3>1. a # s
      BY <2>3
    <3> QED BY <2>3, <3>1 DEF DemoteScan
  <2>4. CASE DemoteApply(a)
    BY <2>4 DEF DemoteApply
  <2>5. CASE PromoteTarget(a)
    BY <2>5 DEF PromoteTarget
  <2> QED
    BY <1>2, <2>1, <2>2, <2>3, <2>4, <2>5
    DEF SessionStep, CreateInsert, FinalizeBegin, PromoteBegin, PromoteConflict,
        CommitPromotion, RetireWrite, Fail
<1>3. CASE SourceStep
  BY <1>3 DEF SourceStep, RetireSource, PatchRetention, request
<1>4. CASE DaemonStep
  BY <1>4 DEF DaemonStep, SweepSources, SweepScan, SweepLock, SweepCommit, SweepAborted,
              SweepFail, request
<1>5. CASE UNCHANGED vars
  BY <1>5 DEF vars, request
<1> QED BY <1>2, <1>3, <1>4, <1>5 DEF Next

(* A demotion that looks for its rivals finds active rows, and the row of   *)
(* every request that is demoting is still building or inactive: the newest *)
(* scan of a set of requests stands behind none of the others.              *)
LEMMA NextNoRivalCycle == IInv /\ NoRivalCycle /\ [Next]_vars => NoRivalCycle'
<1> SUFFICES ASSUME IInv, NoRivalCycle, [Next]_vars, NEW C \in SUBSET Sessions, C # {}
             PROVE  \E s \in C : \A t \in C : target'[t] \notin rivals'[s]
  BY DEF NoRivalCycle
<1>1. CASE \E s \in C : rivals'[s] = {}
  BY <1>1
<1>2. CASE \A s \in C : rivals'[s] # {}
  <2>1. CASE \E a \in C : DemoteScan(a)
    <3>1. PICK a \in C : DemoteScan(a)
      BY <2>1
    <3>2. \A t \in C : pc'[t] = "scanned" /\ t \in Sessions
      BY <1>2, NextLockDiscipline DEF IInv, LockDiscipline
    <3>3. ASSUME NEW t \in C PROVE ~ IsActive(target[t])
      BY <3>1, <3>2, <3>3 DEF DemoteScan, Goto, IInv, TypeOK, LockDiscipline, InTx, IsActive
    <3>4. target' = target /\ \A w \in rivals'[a] : IsActive(w)
      BY <3>1 DEF DemoteScan, IInv, TypeOK
    <3> QED BY <3>3, <3>4
  <2>2. CASE ~ \E a \in C : DemoteScan(a)
    <3>1. PICK s \in C : \A t \in C : target[t] \notin rivals[s]
      BY DEF NoRivalCycle
    <3>2. \A t \in C : rivals'[t] = rivals[t] /\ target'[t] = target[t]
      BY <1>2, <2>2, RivalsKept
    <3> QED BY <3>1, <3>2
  <2> QED BY <2>1, <2>2
<1> QED BY <1>1, <1>2

(* Among requests that wait for one another none is past its demotion with  *)
(* a row demoted, or promoted; so they all wait for the row that another is *)
(* to promote, which NoRivalCycle excludes.                                 *)
LEMMA NoneWaitsRound == IInv /\ NoRivalCycle => NoLockCycle
<1> SUFFICES ASSUME IInv, NoRivalCycle, NEW C \in SUBSET Sessions, C # {},
                    \A s \in C : \E t \in C : WaitsFor(s, t)
             PROVE  FALSE
  BY DEF NoLockCycle
<1> USE DEF IInv, TypeOK, LockDiscipline, IndexDiscipline, AtMostOneActive, Siblings, IsActive
<1>1. ASSUME NEW s \in C, NEW t \in C, WaitsFor(s, t)
      PROVE  pc[t] \in InTx
  BY <1>1 DEF WaitsFor, OnActiveIndex, InTx
<1>2. ASSUME NEW t \in C PROVE pc[t] \in {"scanned", "demoted", "retiring"}
  BY DEF WaitsFor
<1>3. ASSUME NEW t \in C, pc[t] = "demoted" PROVE DemotedBy(t) = {}
  <2>1. PICK u \in C : WaitsFor(t, u)
    OBVIOUS
  <2>2. u # t /\ OnActiveIndex(u, SourceOf[target[t]])
    BY <1>3, <2>1 DEF WaitsFor
  <2>3. pc[u] = "demoted" /\ DemotedBy(u) # {}
    BY <1>2, <2>2 DEF OnActiveIndex
  <2>4. SUFFICES ASSUME NEW w \in DemotedBy(t), NEW x \in DemotedBy(u) PROVE FALSE
    BY <2>3
  <2>5. w \in Versions /\ IsActive(w) /\ SourceOf[w] = SourceOf[target[t]] /\ lockedBy[w] = t
    BY DEF DemotedBy, HeldBy
  <2>6. x \in Versions /\ IsActive(x) /\ SourceOf[x] = SourceOf[target[u]] /\ lockedBy[x] = u
    BY DEF DemotedBy, HeldBy
  <2> QED BY <2>2, <2>5, <2>6 DEF OnActiveIndex
<1>4. ASSUME NEW t \in C PROVE pc[t] # "demoted"
  BY <1>2, <1>3, <1>4 DEF WaitsFor, OnActiveIndex
<1>5. ASSUME NEW s \in C, NEW t \in C, WaitsFor(s, t) PROVE pc[t] = "scanned"
  BY <1>1, <1>2, <1>4, <1>5 DEF InTx
<1> DEFINE D == {s \in C : pc[s] = "scanned"}
<1>6. D # {} /\ D \in SUBSET Sessions
  <2>1. PICK s \in C : TRUE
    OBVIOUS
  <2>2. PICK t \in C : WaitsFor(s, t)
    BY <2>1
  <2>3. t \in D
    BY <1>5, <2>2
  <2> QED BY <2>3
<1> HIDE DEF D
<1>7. PICK s \in D : \A t \in D : target[t] \notin rivals[s]
  BY <1>6 DEF NoRivalCycle
<1> USE DEF D
<1>8. PICK t \in C : WaitsFor(s, t)
  OBVIOUS
<1>9. PICK w \in rivals[s] : lockedBy[w] = t
  BY <1>7, <1>8 DEF WaitsFor
<1>10. pc[t] = "scanned" /\ w \in Versions /\ t \in Sessions
  BY <1>5, <1>8, <1>9
<1>11. w = target[t]
  BY <1>9, <1>10
<1> QED BY <1>7, <1>9, <1>10, <1>11

(* However many finalizes, rollbacks and retirements of a source overlap,    *)
(* they never wait for each other in a circle: without the sweep, no request *)
(* is ever a deadlock victim.                                                *)
THEOREM NoDeadlock == Spec => []NoLockCycle
<1>1. Init => NoRivalCycle
  BY DEF Init, NoRivalCycle
<1> QED BY <1>1, NextNoRivalCycle, NoneWaitsRound, InductiveInvariant, PTL DEF Spec

-----------------------------------------------------------------------------
(* What a step may do to one row: the edges of its life.                   *)

(* The life of a row: a step leaves its status alone or moves it along     *)
(* building -> active -> inactive -> active, into retirement from any      *)
(* stored status, into abortion from building, and into deletion.          *)
LEMMA RowLife ==
  ASSUME IInv, [Next]_vars, NEW v \in Versions
  PROVE  \/ status'[v] = status[v]
         \/ status[v] = "absent"   /\ status'[v] = "building"
         \/ status[v] = "building" /\ status'[v] \in {"active", "aborted"}
         \/ status[v] = "active"   /\ status'[v] = "inactive"
         \/ status[v] = "inactive" /\ status'[v] = "active"
         \/ status[v] \in Stored   /\ status'[v] \in {"retired", "deleted"}
<1> DEFINE Edge ==
         \/ status'[v] = status[v]
         \/ status[v] = "absent"   /\ status'[v] = "building"
         \/ status[v] = "building" /\ status'[v] \in {"active", "aborted"}
         \/ status[v] = "active"   /\ status'[v] = "inactive"
         \/ status[v] = "inactive" /\ status'[v] = "active"
         \/ status[v] \in Stored   /\ status'[v] \in {"retired", "deleted"}
<1> USE VersionsAssumption DEF IInv, TypeOK, LockDiscipline, Pcs, InTx, IsActive, IsStored
<1>1. ASSUME NEW s \in Sessions, SessionStep(s) PROVE Edge
  <2>1. CASE CreateInsert(s)
    BY <2>1 DEF CreateInsert
  <2>2. CASE CommitPromotion(s)
    BY <2>2 DEF CommitPromotion, DemotedBy, HeldBy
  <2>3. CASE RetireWrite(s)
    BY <2>3 DEF RetireWrite
  <2>4. ASSUME NEW w \in Versions, Abort(s, w) PROVE Edge
    BY <2>4 DEF Abort
  <2>5. CASE UNCHANGED status
    BY <2>5
  <2> QED
    BY <1>1, <2>1, <2>2, <2>3, <2>4, <2>5
    DEF SessionStep, CreateRead, FinalizeBegin, PromoteBegin, BeginOn, DemoteScan,
        DemoteApply, PromoteTarget, PromoteConflict, Fail, RetireRead, tables
<1>2. CASE SourceStep
  BY <1>2 DEF SourceStep, RetireSource, PatchRetention
<1>3. CASE DaemonStep
  BY <1>3 DEF DaemonStep, SweepSources, SweepScan, SweepLock, SweepCommit, SweepAborted,
              SweepFail, DeleteRows, RowsOf, HeldBy, tables, Stored
<1>4. CASE UNCHANGED vars
  BY <1>4 DEF vars, tables
<1> QED BY <1>1, <1>2, <1>3, <1>4 DEF Next

(* An aborted, retired or deleted version never serves again, whatever     *)
(* finalize or rollback overlaps the request that ended it.                *)
THEOREM DeadStayDead == Spec => NeverRevived
<1>1. IInv /\ [Next]_vars =>
        [\A v \in Versions :
           /\ status[v] \in {"aborted", "retired"} =>
                status'[v] \in {status[v], "retired", "deleted"}
           /\ status[v] = "deleted" => status'[v] = "deleted"]_vars
  BY RowLife DEF Stored
<1> QED BY <1>1, InductiveInvariant, PTL DEF Spec, NeverRevived

(* Only an insertion changes a revision or makes a row.                    *)
LEMMA OnlyInsertBegins ==
  ASSUME IInv, [Next]_vars, ~ \E s \in Sessions : CreateInsert(s)
  PROVE  UNCHANGED rev /\ \A v \in Versions : status[v] = "absent" => status'[v] = "absent"
<1>1. UNCHANGED rev
  BY DEF Next, SessionStep, CreateRead, FinalizeBegin, PromoteBegin, BeginOn, DemoteScan,
         DemoteApply, PromoteTarget, PromoteConflict, CommitPromotion, Fail, Abort,
         RetireRead, RetireWrite, SourceStep, RetireSource, PatchRetention, DaemonStep,
         SweepSources, SweepScan, SweepLock, SweepCommit, SweepAborted, SweepFail,
         vars, tables
<1>2. \A v \in Versions : status[v] = "absent" => status'[v] = "absent"
  BY DEF Next, SessionStep, CreateRead, FinalizeBegin, PromoteBegin, BeginOn, DemoteScan,
         DemoteApply, PromoteTarget, PromoteConflict, CommitPromotion, Fail, Abort,
         RetireRead, RetireWrite, SourceStep, RetireSource, PatchRetention, DaemonStep,
         SweepSources, SweepScan, SweepLock, SweepCommit, SweepAborted, SweepFail,
         vars, tables, DeleteRows, RowsOf, HeldBy, DemotedBy, IsStored, Stored,
         IInv, TypeOK, LockDiscipline, Statuses, IsActive, InTx, Pcs
<1> QED BY <1>1, <1>2

(* The UNIQUE constraint keeps the revisions of a source's stored versions  *)
(* apart: the window that the sweep counts along them is a total order.     *)
LEMMA RevisionsDiffer == Spec => []UniqueRevision
<1>1. Init => UniqueRevision
  BY DEF Init, UniqueRevision, IsStored, Stored
<1>2. ASSUME IInv, UniqueRevision, [Next]_vars PROVE UniqueRevision'
  <2>1. ASSUME NEW s \in Sessions, CreateInsert(s) PROVE UniqueRevision'
    BY <1>2, <2>1
    DEF CreateInsert, CanInsert, RowsOf, UniqueRevision, IsStored, Stored, Answer, Goto,
        IInv, TypeOK, Pcs, InTx
  <2>2. CASE ~ \E s \in Sessions : CreateInsert(s)
    <3>1. UNCHANGED rev /\ \A v \in Versions : status[v] = "absent" => status'[v] = "absent"
      BY <1>2, <2>2, OnlyInsertBegins
    <3>3. \A v \in Versions : IsStored(v)' => IsStored(v)
      BY <1>2, <3>1, RowLife DEF IsStored, Stored
    <3> QED BY <1>2, <3>1, <3>3 DEF UniqueRevision
  <2> QED BY <2>1, <2>2
<1> QED BY <1>1, <1>2, InductiveInvariant, PTL DEF Spec

-----------------------------------------------------------------------------
(* The reader's view: SourceVersions implements ServingPointer.            *)

(* Only the commit of a finalize or a rollback makes a version active; any *)
(* other step leaves each version's activity alone or ends it for good.    *)
LEMMA OnlyCommitActivates ==
  ASSUME IInv, [Next]_vars, ~ \E s \in Sessions : CommitPromotion(s),
         NEW v \in Versions
  PROVE  /\ IsActive(v)' => IsActive(v)
         /\ IsActive(v) /\ ~ IsActive(v)' => status'[v] \in {"retired", "deleted"}
<1>1. CASE UNCHANGED status
  BY <1>1 DEF IsActive
<1>2. ASSUME NEW s \in Sessions, SessionStep(s), ~ UNCHANGED status
      PROVE CreateInsert(s) \/ RetireWrite(s) \/ \E w \in Versions : Abort(s, w)
  BY <1>2
  DEF SessionStep, CreateRead, FinalizeBegin, PromoteBegin, BeginOn, DemoteScan,
      DemoteApply, PromoteTarget, PromoteConflict, Fail, RetireRead, tables
<1>3. ASSUME NEW s \in Sessions, SessionStep(s), ~ UNCHANGED status
      PROVE /\ IsActive(v)' => IsActive(v)
            /\ IsActive(v) /\ ~ IsActive(v)' => status'[v] \in {"retired", "deleted"}
  BY <1>2, <1>3
  DEF CreateInsert, RetireWrite, Abort, IInv, TypeOK, LockDiscipline, IsActive, IsStored, Stored
<1>4. CASE DaemonStep
  BY <1>4 DEF DaemonStep, SweepSources, SweepScan, SweepLock, SweepCommit, SweepAborted,
              SweepFail, DeleteRows, tables, IsActive, IInv, TypeOK
<1>5. SourceStep \/ UNCHANGED vars => UNCHANGED status
  BY DEF SourceStep, RetireSource, PatchRetention, vars, tables
<1> QED BY <1>1, <1>3, <1>4, <1>5 DEF Next

(* A source never loses its serving version to a finalize or a rollback    *)
(* without another one taking its place in the same step.                  *)
THEOREM NoGap == Spec => NoServingGap
<1>1. ASSUME IInv, [Next]_vars
      PROVE [\A v \in Versions :
               IsActive(v) /\ ~ IsActive(v)' =>
                 \/ \E w \in Siblings(v) : IsActive(w)'
                 \/ status'[v] \in {"retired", "deleted"}]_vars
  <2>1. CASE ~ \E s \in Sessions : CommitPromotion(s)
    BY <1>1, <2>1, OnlyCommitActivates
  <2>2. ASSUME NEW s \in Sessions, CommitPromotion(s), NEW v \in Versions,
               IsActive(v), ~ IsActive(v)'
        PROVE \E w \in Siblings(v) : IsActive(w)'
    <3>1. PICK u \in Versions : u = target[s]
      BY <1>1, <2>2 DEF CommitPromotion, IInv, TypeOK
    <3>2. IsActive(u)'
      BY <2>2, <3>1 DEF CommitPromotion, IsActive
    <3>3. v = u \/ v \in Siblings(u)
      BY <1>1, <2>2, <3>1
      DEF CommitPromotion, DemotedBy, HeldBy, IInv, TypeOK, LockDiscipline, IsActive
    <3>4. SourceOf[u] = SourceOf[v]
      BY <3>3 DEF Siblings
    <3> QED BY <3>2, <3>4 DEF Siblings
  <2> QED BY <2>1, <2>2
<1> QED BY <1>1, InductiveInvariant, PTL DEF Spec, NoServingGap

(* What Serving evaluates to, in any state where each source has at most   *)
(* one active version (st stands for the status column of that state).     *)
LEMMA ServingChoice ==
  ASSUME NEW st, NEW src, NEW v \in Versions,
         SourceOf[v] = src /\ st[v] = "active",
         \A w \in Versions : SourceOf[w] = src /\ st[w] = "active" => w = v
  PROVE  (CHOOSE w \in Versions : SourceOf[w] = src /\ st[w] = "active") = v
OBVIOUS

(* The serving pointer of a source is its active version, or NoVersion.    *)
LEMMA ServingIs ==
  ASSUME AtMostOneActive, NEW src \in Sources
  PROVE  /\ \A v \in Versions : SourceOf[v] = src /\ IsActive(v) => Serving(src) = v
         /\ (\A v \in Versions : SourceOf[v] = src => ~ IsActive(v)) => Serving(src) = NoVersion
BY ServingChoice DEF Serving, IsActive, AtMostOneActive

(* The same, of the state after a step.                                    *)
LEMMA ServingIsNext ==
  ASSUME AtMostOneActive', NEW src \in Sources
  PROVE  /\ \A v \in Versions : SourceOf[v] = src /\ IsActive(v)' => Serving(src)' = v
         /\ (\A v \in Versions : SourceOf[v] = src => ~ IsActive(v)') => Serving(src)' = NoVersion
BY ServingChoice DEF Serving, IsActive, AtMostOneActive

(* Every step of the table is a step of the abstract pointer or a stutter. *)
LEMMA StepImplementsPointer ==
  ASSUME IInv, IInv', [Next]_vars
  PROVE  [Pointer!Next]_Pointer!vars
<1> USE VersionsAssumption
<1>1. ASSUME NEW s \in Sessions, CommitPromotion(s)
      PROVE Pointer!Next
  <2>1. PICK v \in Versions : v = target[s]
    BY <1>1 DEF CommitPromotion, IInv, TypeOK
  <2>2. v \notin deadNow /\ IsActive(v)'
    BY <1>1, <2>1 DEF CommitPromotion, IInv, LockDiscipline, InTx, IsActive, deadNow
  <2>3. deadNow' = deadNow
    BY <1>1 DEF CommitPromotion, DemotedBy, HeldBy, IInv, TypeOK, LockDiscipline, InTx,
                IsActive, deadNow
  <2>4. \A w \in Versions : SourceOf[w] # SourceOf[v] => status'[w] = status[w]
    BY <1>1, <2>1
    DEF CommitPromotion, DemotedBy, HeldBy, IInv, TypeOK, LockDiscipline, Siblings
  <2>5. Serving(SourceOf[v])' = v
    BY <2>2, ServingIsNext DEF IInv
  <2>6. \A src \in Sources : src # SourceOf[v] => Serving(src)' = Serving(src)
    BY <2>4, ServingIs, ServingIsNext DEF IInv, IsActive
  <2>7. servingNow' = [servingNow EXCEPT ![SourceOf[v]] = v]
    BY <2>5, <2>6 DEF servingNow
  <2>8. Pointer!SwitchTo(v)
    BY <2>3, <2>7, <2>2 DEF Pointer!SwitchTo
  <2> QED BY <2>8 DEF Pointer!Next
<1>2. ASSUME ~ \E s \in Sessions : CommitPromotion(s)
      PROVE Pointer!Next
  <2> DEFINE gone == deadNow' \ deadNow
  <2>1. deadNow' = deadNow \cup gone /\ gone \in SUBSET Versions
    BY RowLife DEF deadNow, Stored
  <2>2. ASSUME NEW src \in Sources
        PROVE Serving(src)' = IF Serving(src) \in gone THEN NoVersion ELSE Serving(src)
    <3>1. CASE \E v \in Versions : SourceOf[v] = src /\ IsActive(v)
      <4> PICK v \in Versions : SourceOf[v] = src /\ IsActive(v)
        BY <3>1
      <4>1. Serving(src) = v
        BY ServingIs DEF IInv
      <4>2. CASE IsActive(v)'
        BY <4>1, <4>2, ServingIsNext DEF IInv, deadNow, IsActive
      <4>3. CASE ~ IsActive(v)'
        <5>1. v \in gone
          BY <1>2, <4>3, OnlyCommitActivates DEF deadNow, IsActive
        <5>2. \A w \in Versions : SourceOf[w] = src => ~ IsActive(w)'
          BY <1>2, <4>3, OnlyCommitActivates DEF IInv, AtMostOneActive
        <5> QED BY <4>1, <5>1, <5>2, ServingIsNext DEF IInv
      <4> QED BY <4>2, <4>3
    <3>2. CASE \A v \in Versions : SourceOf[v] = src => ~ IsActive(v)
      <4>1. Serving(src) = NoVersion /\ NoVersion \notin gone
        BY <3>2, ServingIs DEF IInv, deadNow
      <4>2. \A v \in Versions : SourceOf[v] = src => ~ IsActive(v)'
        BY <1>2, <3>2, OnlyCommitActivates
      <4> QED BY <4>1, <4>2, ServingIsNext DEF IInv
    <3> QED BY <3>1, <3>2
  <2>3. servingNow' = [src \in Sources |->
                         IF servingNow[src] \in gone THEN NoVersion ELSE servingNow[src]]
    BY <2>2 DEF servingNow
  <2>4. Pointer!Discard(gone)
    BY <2>1, <2>3 DEF Pointer!Discard
  <2> QED BY <2>1, <2>4 DEF Pointer!Next
<1> QED BY <1>1, <1>2

(* Whatever the requests and the daemon do, readers see what the abstract   *)
(* pointer allows: one version per source, switched atomically, never dead. *)
THEOREM PointerRefinement == Spec => ImplementsPointer
<1>1. Init => Pointer!Init
  BY DEF Init, Pointer!Init, servingNow, deadNow, Serving, IsActive
<1>2. IInv /\ IInv' /\ [Next]_vars => [Pointer!Next]_Pointer!vars
  BY StepImplementsPointer
<1> QED BY <1>1, <1>2, InductiveInvariant, PTL DEF Spec, ImplementsPointer, Pointer!Spec

-----------------------------------------------------------------------------
(* The retention window.                                                   *)

(* Of at least k elements with different numbers, some k are above all     *)
(* others.                                                                 *)
LEMMA Highest ==
  ASSUME NEW A, IsFiniteSet(A), NEW k \in Nat, Cardinality(A) >= k, NEW f,
         \A x \in A : f[x] \in Nat, \A x, y \in A : f[x] = f[y] => x = y
  PROVE  \E U \in SUBSET A : /\ Cardinality(U) = k
                             /\ \A x \in A, y \in U : f[x] >= f[y] => x \in U
<1> DEFINE Above(U) == \A x \in A, y \in U : f[x] >= f[y] => x \in U
           Sizes == {n \in Nat : n >= k /\ \E U \in SUBSET A : Cardinality(U) = n /\ Above(U)}
<1>1. Cardinality(A) \in Sizes
  BY FS_CardinalityType
<1>2. Sizes \subseteq Nat /\ Sizes # {}
  BY <1>1
<1> HIDE DEF Sizes
<1>3. PICK n \in Sizes : \A m \in Sizes : n <= m
  BY <1>2, Least
<1>4. n \in Nat /\ n >= k
  BY <1>3 DEF Sizes
<1>5. PICK U \in SUBSET A : Cardinality(U) = n /\ Above(U)
  BY <1>3 DEF Sizes
<1>6. CASE n > k
  <2>1. IsFiniteSet(U) /\ U # {}
    BY <1>4, <1>5, <1>6, FS_Subset, FS_EmptySet
  <2> DEFINE Numbers == {f[x] : x \in U}
  <2>2. Numbers \subseteq Nat /\ Numbers # {}
    BY <2>1
  <2> HIDE DEF Numbers
  <2>3. PICK z \in Numbers : \A m \in Numbers : z <= m
    BY <2>2, Least
  <2>4. PICK x \in U : f[x] = z
    BY <2>3 DEF Numbers
  <2>5. \A y \in U : f[x] <= f[y]
    BY <2>3, <2>4 DEF Numbers
  <2>6. Cardinality(U \ {x}) = n - 1 /\ n - 1 \in Nat /\ n - 1 >= k
    <3>1. Cardinality(U \ {x}) = Cardinality(U) - 1
      BY <2>1, <2>4, FS_RemoveElement
    <3> QED BY <3>1, <1>4, <1>5, <1>6
  <2>7. ASSUME NEW w \in A, NEW y \in U \ {x}, f[w] >= f[y] PROVE w \in U \ {x}
    <3>1. w \in U
      BY <2>7, <1>5
    <3>2. w # x
      <4>1. f[x] \in Nat /\ f[y] \in Nat /\ f[x] <= f[y] /\ f[x] # f[y]
        BY <2>4, <2>5
      <4> QED BY <4>1, <2>7
    <3> QED BY <3>1, <3>2
  <2>8. U \ {x} \in SUBSET A /\ Above(U \ {x})
    BY <2>7
  <2>9. n - 1 \in Sizes
    BY <2>6, <2>8 DEF Sizes
  <2> QED BY <2>9, <1>3, <1>4
<1>7. CASE n = k
  BY <1>5, <1>7
<1> QED BY <1>4, <1>6, <1>7

(* The rows stored are finitely many, as each was inserted.                *)
Few == IsFiniteSet({v \in Versions : IsStored(v)})

(* They stay so.                                                           *)
LEMMA FewKept == ASSUME IInv, Few, [Next]_vars PROVE Few'
<1> DEFINE S == {v \in Versions : IsStored(v)}
<1>1. ASSUME NEW s \in Sessions, CreateInsert(s) PROVE Few'
  <2>1. S' \subseteq S \cup {target[s]}
    BY <1>1 DEF IInv, TypeOK, CreateInsert, IsStored, Stored
  <2>2. IsFiniteSet(S \cup {target[s]})
    BY FS_AddElement DEF Few
  <2> QED BY <2>1, <2>2, FS_Subset DEF Few
<1>2. CASE ~ \E s \in Sessions : CreateInsert(s)
  <2>1. \A v \in Versions : status[v] = "absent" => status'[v] = "absent"
    BY <1>2, OnlyInsertBegins
  <2>2. S' \subseteq S
    BY <2>1, RowLife DEF IsStored, Stored
  <2> QED BY <2>2, FS_Subset DEF Few
<1> QED BY <1>1, <1>2

(* The smallest retention count is one of them.                            *)
LEMMA FewestIs ==
  ASSUME NEW k \in RetentionCounts
  PROVE  FewestKept \in Nat /\ FewestKept <= k
<1>1. RetentionCounts \subseteq Nat /\ RetentionCounts # {}
  BY VersionsAssumption
<1>2. \E j \in RetentionCounts : \A i \in RetentionCounts : j <= i
  BY <1>1, Least
<1>3. FewestKept \in RetentionCounts /\ \A i \in RetentionCounts : FewestKept <= i
  BY <1>2 DEF FewestKept
<1> QED BY <1>1, <1>3

(* A row keeps its revision.                                               *)
LEMMA RevisionsStay ==
  ASSUME IInv, [Next]_vars, NEW v \in Versions, status[v] # "absent"
  PROVE  rev'[v] = rev[v] /\ status'[v] # "absent"
<1>1. ASSUME NEW s \in Sessions, CreateInsert(s) PROVE rev'[v] = rev[v]
  BY <1>1 DEF CreateInsert, IInv, TypeOK, LockDiscipline
<1>2. rev'[v] = rev[v]
  BY <1>1, OnlyInsertBegins
<1> QED BY <1>2, RowLife

(* Requests and patches leave the daemon's choice alone, and numbered rows *)
(* numbered.                                                               *)
LEMMA OthersSpare ==
  ASSUME IInv, [Next]_vars, ~ DaemonStep
  PROVE  /\ UNCHANGED <<sweep, doomed>> /\ HeldBy(Daemon)' = HeldBy(Daemon)
         /\ \A v \in Versions : Numbered(v) => Numbered(v)'
<1> USE VersionsAssumption
<1>1. UNCHANGED <<sweep, doomed>>
  BY DEF Next, SessionStep, CreateRead, CreateInsert, FinalizeBegin, PromoteBegin, BeginOn, DemoteScan,
         DemoteApply, PromoteTarget, PromoteConflict, CommitPromotion, Fail, Abort,
         RetireRead, RetireWrite, SourceStep, RetireSource, PatchRetention, vars, daemon
<1>2. \A v \in Versions : lockedBy'[v] = Daemon <=> lockedBy[v] = Daemon
  <2>1. ASSUME NEW s \in Sessions, SessionStep(s)
        PROVE \A v \in Versions : lockedBy'[v] = Daemon <=> lockedBy[v] = Daemon
    <3>1. CASE UNCHANGED lockedBy
      BY <3>1
    <3>2. ASSUME NEW v \in Versions, BeginOn(s, v)
          PROVE \A w \in Versions : lockedBy'[w] = Daemon <=> lockedBy[w] = Daemon
      BY <3>2 DEF BeginOn, Lock, Unlocked, IInv, TypeOK
    <3>3. CASE DemoteApply(s)
      BY <3>3 DEF DemoteApply, Unlocked, IInv, TypeOK, LockDiscipline
    <3>4. CASE Release(s)
      BY <3>4 DEF Release, IInv, TypeOK
    <3> QED
      BY <2>1, <3>1, <3>2, <3>3, <3>4
      DEF SessionStep, CreateRead, CreateInsert, FinalizeBegin, PromoteBegin, DemoteScan,
          PromoteTarget, PromoteConflict, CommitPromotion, Fail, Abort, RetireRead, RetireWrite
  <2>2. SourceStep \/ UNCHANGED vars => UNCHANGED lockedBy
    BY DEF SourceStep, RetireSource, PatchRetention, vars
  <2> QED BY <2>1, <2>2 DEF Next
<1>3. ASSUME NEW v \in Versions, Numbered(v) PROVE Numbered(v)'
  <2>1. status'[v] # "deleted"
    BY <1>3
    DEF Next, SessionStep, CreateRead, CreateInsert, FinalizeBegin, PromoteBegin, BeginOn, DemoteScan,
        DemoteApply, PromoteTarget, PromoteConflict, CommitPromotion, Fail, Abort, RetireRead,
        RetireWrite, SourceStep, RetireSource, PatchRetention, vars, tables, Numbered, IInv, TypeOK
  <2> QED BY <1>3, <2>1, RowLife DEF Numbered
<1> QED BY <1>1, <1>2, <1>3 DEF HeldBy

(* A row that keeps all its newer ones has as many.                        *)
LEMMA NewerStay ==
  ASSUME IInv, Few, [Next]_vars, NEW v \in Versions, status[v] # "absent",
         \A w \in Newer(v) : Numbered(w)' /\ w \notin (doomed \cup HeldBy(Daemon))'
  PROVE  /\ Cardinality(Newer(v)) \in Nat /\ Cardinality(Newer(v)') \in Nat
         /\ Cardinality(Newer(v)') >= Cardinality(Newer(v))
<1>1. Newer(v) \subseteq Newer(v)'
  BY RevisionsStay DEF Newer, Spared, Ranked, RowsOf, IsStored, Stored, Numbered
<1>2. IsFiniteSet(Newer(v)')
  <2>1. Newer(v)' \subseteq {w \in Versions : IsStored(w)}'
    BY DEF Newer, Spared, Ranked, RowsOf, Numbered
  <2> QED BY <2>1, FewKept, FS_Subset DEF Few
<1>3. IsFiniteSet(Newer(v))
  BY <1>1, <1>2, FS_Subset
<1> QED BY <1>1, <1>2, <1>3, FS_Subset, FS_CardinalityType

(* What the scan chooses has newer rows that it does not choose: the first  *)
(* rows in the order of the window.                                        *)
LEMMA ScanSpares ==
  ASSUME IInv, UniqueRevision, Few, NEW v \in Eligible
  PROVE  LET newer == {w \in Ranked(SourceOf[v]) \ Eligible : rev[w] > rev[v]}
         IN  Cardinality(newer) >= FewestKept /\ FewestKept \in Nat
<1> USE VersionsAssumption DEF IInv, TypeOK
<1> DEFINE src == SourceOf[v]
           A == Ranked(src)
           k == retention[src]
           newer == {w \in A \ Eligible : rev[w] > rev[v]}
           Down(x) == {w \in A : rev[w] >= rev[x]}
<1>1. v \in Versions /\ v \in A /\ src \in Sources /\ k \in RetentionCounts /\ k \in Nat
  <2>1. v \in Versions /\ v \in A
    BY DEF Eligible, Ranked, RowsOf, Numbered, IsStored, Stored
  <2>2. src \in Sources
    BY <2>1
  <2>3. k \in RetentionCounts
    BY <2>2
  <2> HIDE DEF A, k
  <2>4. k \in Nat
    BY <2>3
  <2> QED BY <2>1, <2>2, <2>3, <2>4
<1>2. Cardinality(Down(v)) > k
  BY DEF Eligible, RowNumber
<1>3. IsFiniteSet(A)
  <2>1. A \subseteq {w \in Versions : IsStored(w)}
    BY DEF Ranked, RowsOf, Numbered
  <2> QED BY <2>1, FS_Subset DEF Few
<1>4. \A x \in A : x \in Versions /\ rev[x] \in Nat /\ SourceOf[x] = src
  BY DEF Ranked, RowsOf, Numbered
<1>5. \A x, y \in A : rev[x] = rev[y] => x = y
  BY DEF UniqueRevision, Ranked, RowsOf, Numbered
<1>6. Cardinality(A) >= k
  <2>1. Down(v) \in SUBSET A
    OBVIOUS
  <2>2. Cardinality(Down(v)) <= Cardinality(A) /\ Cardinality(A) \in Nat /\ Cardinality(Down(v)) \in Nat
    BY <1>3, <2>1, FS_Subset, FS_CardinalityType
  <2> QED BY <1>1, <1>2, <2>2
<1> HIDE DEF A, k
<1>7. PICK U \in SUBSET A : Cardinality(U) = k /\ \A x \in A, y \in U : rev[x] >= rev[y] => x \in U
  BY <1>1, <1>3, <1>4, <1>5, <1>6, Highest
<1>8. ASSUME NEW x \in U PROVE IsFiniteSet(Down(x)) /\ Cardinality(Down(x)) <= k
  <2>1. Down(x) \in SUBSET U
    BY <1>7, <1>8
  <2> QED BY <1>3, <1>7, <2>1, FS_Subset
<1>9. \A x \in U : x \notin Eligible
  <2> SUFFICES ASSUME NEW x \in U, x \in Eligible PROVE FALSE
    OBVIOUS
  <2>1. SourceOf[x] = src /\ x \in A
    BY <1>4, <1>7
  <2>2. Cardinality(Down(x)) > k
    BY <2>1 DEF Eligible, RowNumber, A, k
  <2>3. Cardinality(Down(x)) \in Nat
    BY <1>8, FS_CardinalityType
  <2> HIDE DEF Down
  <2> QED BY <1>1, <1>8, <2>2, <2>3
<1>10. v \notin U
  BY <1>9
<1>11. U \subseteq newer
  BY <1>1, <1>4, <1>7, <1>9, <1>10
<1>12. Cardinality(newer) >= k /\ Cardinality(newer) \in Nat
  <2>1. newer \in SUBSET A
    OBVIOUS
  <2>2. IsFiniteSet(newer) /\ Cardinality(U) <= Cardinality(newer)
    BY <1>3, <1>11, <2>1, FS_Subset
  <2> QED BY <1>1, <1>7, <2>2, FS_CardinalityType
<1> QED BY <1>1, <1>12, FewestIs DEF A

(* Every step keeps the window.                                            *)
LEMMA WindowKept ==
  ASSUME IInv, UniqueRevision, Few, SweepWindow, [Next]_vars
  PROVE  SweepWindow'
<1> USE VersionsAssumption
<1> DEFINE Chosen == doomed \cup HeldBy(Daemon)
<1>1. \A v \in Versions : v \in Chosen /\ status[v] # "absent" /\ Cardinality(Newer(v)) >= FewestKept
         /\ (\A w \in Newer(v) : Numbered(w)' /\ w \notin Chosen')
         => Cardinality(Newer(v)') >= FewestKept
  <2> SUFFICES ASSUME NEW v \in Versions, status[v] # "absent", Cardinality(Newer(v)) >= FewestKept,
                      \A w \in Newer(v) : Numbered(w)' /\ w \notin Chosen'
               PROVE Cardinality(Newer(v)') >= FewestKept
    OBVIOUS
  <2>1. FewestKept \in Nat
    BY FewestIs DEF IInv, TypeOK
  <2>2. /\ Cardinality(Newer(v)) \in Nat /\ Cardinality(Newer(v)') \in Nat
        /\ Cardinality(Newer(v)') >= Cardinality(Newer(v))
    BY NewerStay
  <2> QED BY <2>1, <2>2
<1>2. \A v \in Versions : \A w \in Newer(v) : w \in Versions /\ Numbered(w) /\ w \notin Chosen
  BY DEF Newer, Spared, Ranked, RowsOf, Numbered
<1>3. Chosen \subseteq Versions
  BY DEF IInv, TypeOK, HeldBy
<1>4. ASSUME NEW v \in Versions, IsStored(v)', status[v] # "absent" PROVE IsStored(v)
  BY <1>4, RowLife DEF IsStored, Stored
<1>5. ASSUME Chosen' \subseteq Chosen, sweep' = "deleting",
             \A v \in Versions : Numbered(v) /\ v \notin Chosen => Numbered(v)'
      PROVE SweepWindow'
  <2>1. ASSUME NEW v \in Chosen'
        PROVE status'[v] # "absent" /\ (IsStored(v)' => Cardinality(Newer(v)') >= FewestKept')
    <3>1. v \in Chosen /\ v \in Versions /\ status[v] # "absent"
      BY <1>3, <1>5, <2>1 DEF SweepWindow
    <3>2. status'[v] # "absent"
      BY <3>1, RevisionsStay
    <3>3. ASSUME IsStored(v)' PROVE Cardinality(Newer(v)') >= FewestKept
      <4>1. Cardinality(Newer(v)) >= FewestKept
        BY <1>4, <3>1, <3>3 DEF SweepWindow
      <4> QED BY <1>1, <1>2, <1>5, <3>1, <4>1
    <3> QED BY <3>2, <3>3 DEF FewestKept
  <2> QED BY <1>5, <2>1 DEF SweepWindow
<1>6. CASE ~ DaemonStep
  <2>1. UNCHANGED <<sweep, doomed>> /\ HeldBy(Daemon)' = HeldBy(Daemon)
        /\ \A v \in Versions : Numbered(v) => Numbered(v)'
    BY <1>6, OthersSpare
  <2>2. CASE sweep = "deleting"
    BY <1>5, <2>1, <2>2
  <2>3. CASE sweep # "deleting"
    BY <2>1, <2>3 DEF SweepWindow
  <2> QED BY <2>2, <2>3
<1>7. CASE SweepSources
  BY <1>7 DEF SweepSources, SweepWindow, HeldBy
<1>8. CASE SweepScan
  <2>1. doomed' \subseteq Eligible /\ HeldBy(Daemon)' = {} /\ UNCHANGED <<tables, lockedBy>>
    BY <1>8 DEF SweepScan, SweepWindow, HeldBy
  <2>2. ASSUME NEW v \in doomed'
        PROVE status'[v] # "absent" /\ Cardinality(Newer(v)') >= FewestKept
    <3>1. v \in Eligible /\ v \in Versions
      BY <2>1, <2>2 DEF Eligible
    <3> DEFINE newer == {w \in Ranked(SourceOf[v]) \ Eligible : rev[w] > rev[v]}
    <3>2. Cardinality(newer) >= FewestKept /\ FewestKept \in Nat
      BY <3>1, ScanSpares
    <3>3. newer \subseteq Newer(v)'
      BY <2>1 DEF Newer, Spared, Ranked, RowsOf, Numbered, IsStored, tables
    <3>4. IsFiniteSet(Newer(v)')
      <4>1. Newer(v)' \subseteq {w \in Versions : IsStored(w)}'
        BY DEF Newer, Spared, Ranked, RowsOf, Numbered
      <4> QED BY <4>1, FewKept, FS_Subset DEF Few
    <3>5. IsFiniteSet(newer) /\ Cardinality(newer) <= Cardinality(Newer(v)')
      BY <3>3, <3>4, FS_Subset
    <3>6. Cardinality(newer) \in Nat /\ Cardinality(Newer(v)') \in Nat
      BY <3>4, <3>5, FS_CardinalityType
    <3>7. status'[v] # "absent"
      BY <2>1, <3>1 DEF Eligible, tables
    <3> QED BY <3>2, <3>5, <3>6, <3>7
  <2>3. sweep' # "deleting" => doomed' = {}
    BY <1>8 DEF SweepScan
  <2> QED BY <2>1, <2>2, <2>3 DEF SweepWindow, FewestKept
<1>9. ASSUME NEW v \in Versions, SweepLock(v) PROVE SweepWindow'
  <2>1. Chosen' \subseteq Chosen /\ sweep' = "deleting" /\ UNCHANGED status
    BY <1>9 DEF SweepLock, Lock, HeldBy, tables, IInv, TypeOK
  <2> QED BY <1>5, <2>1 DEF Numbered
<1>10. CASE SweepCommit \/ SweepFail
  BY <1>10 DEF SweepCommit, SweepFail, Release, HeldBy, SweepWindow
<1>11. CASE SweepAborted
  BY <1>11 DEF SweepAborted, SweepWindow, HeldBy
<1> QED BY <1>6, <1>7, <1>8, <1>9, <1>10, <1>11 DEF DaemonStep

(* What the sweep chooses on its snapshot has as many newer numbered rows   *)
(* beside it as the smallest retention count, and keeps them until the     *)
(* sweep deletes it, whatever requests come in between.                    *)
THEOREM SweepInvariant == Spec => [](Few /\ SweepWindow)
<1>1. Init => Few /\ SweepWindow
  <2> SUFFICES ASSUME Init PROVE Few /\ SweepWindow
    OBVIOUS
  <2>1. {v \in Versions : IsStored(v)} = {} /\ HeldBy(Daemon) = {} /\ doomed = {}
    BY VersionsAssumption DEF Init, IsStored, Stored, HeldBy
  <2> QED BY <2>1, FS_EmptySet DEF Few, SweepWindow
<1>2. IInv /\ UniqueRevision /\ Few /\ SweepWindow /\ [Next]_vars => (Few /\ SweepWindow)'
  BY FewKept, WindowKept
<1> QED BY <1>1, <1>2, InductiveInvariant, RevisionsDiffer, PTL DEF Spec

(* A sweep that deletes a finalized version of a source that lives leaves   *)
(* as many newer finalized versions as the smallest retention count.       *)
THEOREM WindowStays == Spec => SweepKeepsWindow
<1>1. ASSUME IInv, UniqueRevision, Few, SweepWindow, [Next]_vars, NEW v \in Versions, Numbered(v),
             status'[v] = "deleted", life'[SourceOf[v]] # "deleted"
      PROVE Cardinality({w \in Ranked(SourceOf[v])' : rev[w] > rev[v]}) >= FewestKept
  <2> USE VersionsAssumption
  <2> DEFINE newer == {w \in Ranked(SourceOf[v])' : rev[w] > rev[v]}
  <2>1. SweepCommit /\ v \in HeldBy(Daemon)
    <3>1. DaemonStep
      BY <1>1, OthersSpare DEF Numbered
    <3>2. ~ SweepSources
      BY <1>1 DEF SweepSources, DeleteRows, RowsOf, Numbered, IInv, TypeOK
    <3>3. ~ SweepAborted
      BY <1>1 DEF SweepAborted, DeleteRows, Numbered
    <3> QED
      BY <1>1, <3>1, <3>2, <3>3
      DEF DaemonStep, SweepScan, SweepLock, SweepCommit, SweepFail, DeleteRows, Numbered, tables
  <2>2. Cardinality(Newer(v)) >= FewestKept /\ status[v] # "absent"
    BY <1>1, <2>1 DEF SweepWindow, Numbered, IsStored, Stored
  <2>3. Newer(v) \subseteq newer
    BY <2>1 DEF SweepCommit, DeleteRows, Newer, Spared, Ranked, RowsOf, Numbered, IsStored
  <2>4. IsFiniteSet(newer)
    <3>1. newer \subseteq {w \in Versions : IsStored(w)}'
      BY DEF Ranked, RowsOf, Numbered
    <3> QED BY <1>1, <3>1, FewKept, FS_Subset DEF Few
  <2>5. IsFiniteSet(Newer(v)) /\ Cardinality(Newer(v)) <= Cardinality(newer)
    BY <2>3, <2>4, FS_Subset
  <2>6. Cardinality(Newer(v)) \in Nat /\ Cardinality(newer) \in Nat /\ FewestKept \in Nat
    BY <1>1, <2>4, <2>5, FS_CardinalityType, FewestIs DEF IInv, TypeOK
  <2> QED BY <2>2, <2>5, <2>6
<1>2. IInv /\ UniqueRevision /\ Few /\ SweepWindow /\ [Next]_vars =>
        [\A v \in Versions :
           Numbered(v) /\ status'[v] = "deleted" /\ life'[SourceOf[v]] # "deleted"
             => Cardinality({w \in Ranked(SourceOf[v])' : rev[w] > rev[v]}) >= FewestKept]_vars
  BY <1>1
<1> QED BY <1>2, SweepInvariant, InductiveInvariant, RevisionsDiffer, PTL DEF Spec, SweepKeepsWindow

-----------------------------------------------------------------------------
(* The overrides.                                                           *)

(* A row names a subject an operator can name, with a limit of its table.   *)
Sound(o) ==
  /\ o \in Row
  /\ o.limit \in Limits[table]
  /\ \E s \in AllSubjects : o.user = s.user /\ o.net = s.net /\ o.prefix = s.prefix

CacheSound ==
  /\ table \in Tables
  /\ clock \in 0..MaxClock /\ nextId \in Nat
  /\ \A o \in rows \cup cache : Sound(o)
  /\ DOMAIN reading = Readers
  /\ \A p \in Readers : \A o \in reading[p] : Sound(o)
  /\ ticker \in {"boot", "loading", "waiting", "reading"}
  /\ admin \in [Admins -> {"idle", "refresh", "reading", "answering"}]

(* What an admin request that nothing disturbed knows of its own change.    *)
AloneSees ==
  /\ version \in Nat /\ cachedAt \in Nat
  /\ readAt \in [Readers -> Nat] /\ wrote \in [Admins -> Nat]
  /\ alone \in [Admins -> BOOLEAN]
  /\ \A a \in Admins : alone[a] =>
       /\ wrote[a] <= version
       /\ admin[a] = "reading" => wrote[a] <= readAt[a]
       /\ admin[a] = "answering" => wrote[a] <= cachedAt

OverridesInv == CacheSound /\ AloneSees

(* A sound row stays sound as time and row numbers go on.                   *)
LEMMA StillSound ==
  ASSUME NEW o, Sound(o), CacheSound, table' = table,
         clock' \in Nat, clock <= clock', nextId' \in Nat, nextId <= nextId'
  PROVE  Sound(o)'
<1>1. clock \in Nat /\ nextId \in Nat
  BY DEF CacheSound
<1>2. 0..clock \subseteq 0..clock' /\ 0..nextId \subseteq 0..nextId'
  BY <1>1
<1>3. o \in Row'
  BY <1>2 DEF Sound, Row
<1> QED BY <1>3 DEF Sound

(* At the start nothing is stored, cached or being read.                     *)
LEMMA InitOverrides == clock = 0 /\ OverridesInit => OverridesInv
BY OverridesAssumption DEF OverridesInit, OverridesInv, CacheSound, AloneSees

(* A step that leaves the rows the cache and the readings hold, or moves    *)
(* them from one to another, keeps them sound.                              *)
LEMMA SoundStays ==
  ASSUME CacheSound, table' = table, clock' \in 0..MaxClock, clock <= clock',
         nextId' \in Nat, nextId <= nextId',
         \A o \in rows' \cup cache' :
            Sound(o) \/ Sound(o)',
         DOMAIN reading' = Readers,
         \A p \in Readers : \A o \in reading'[p] : Sound(o),
         ticker' \in {"boot", "loading", "waiting", "reading"},
         admin' \in [Admins -> {"idle", "refresh", "reading", "answering"}]
  PROVE  CacheSound'
<1>1. clock' \in Nat
  BY OverridesAssumption
<1>2. \A o : Sound(o) => Sound(o)'
  BY <1>1, StillSound
<1> QED BY <1>2 DEF CacheSound

(* An admin's statement that leaves sound rows.                             *)
LEMMA ChangeKeeps ==
  ASSUME OverridesInv, NEW a \in Admins, NEW new, Change(a, new), UNCHANGED clock,
         nextId' \in Nat, nextId <= nextId', \A o \in new : Sound(o) \/ Sound(o)'
  PROVE  OverridesInv'
<1> USE DEF OverridesInv
<1>1. CacheSound'
  <2>1. /\ UNCHANGED <<table, cache, ticker, reading, clock>> /\ rows' = new
        /\ admin' \in [Admins -> {"idle", "refresh", "reading", "answering"}]
    BY DEF Change, CacheSound, AfterChange
  <2>2. clock \in 0..MaxClock /\ clock <= clock
    BY OverridesAssumption DEF CacheSound
  <2> QED BY <2>1, <2>2, SoundStays DEF CacheSound
<1>2. AloneSees'
  <2>1. /\ UNCHANGED <<cachedAt, readAt>> /\ version' = version + 1 /\ version \in Nat
        /\ cachedAt \in Nat /\ readAt \in [Readers -> Nat]
    BY DEF Change, AloneSees
  <2>2. CASE table = "token"
    <3>1. /\ admin' = [admin EXCEPT ![a] = "refresh"]
          /\ wrote' = [wrote EXCEPT ![a] = version + 1]
          /\ alone' = [b \in Admins |-> b = a /\ ticker = "waiting"
                                           /\ \A c \in Admins \ {a} : admin[c] = "idle"]
      BY <2>2 DEF Change, AfterChange
    <3>2. alone' \in [Admins -> BOOLEAN] /\ \A b \in Admins : alone'[b] => b = a
      BY <3>1
    <3>3. wrote' \in [Admins -> Nat] /\ wrote'[a] = version' /\ admin'[a] = "refresh"
      BY <2>1, <3>1 DEF AloneSees, CacheSound
    <3> QED BY <2>1, <3>2, <3>3 DEF AloneSees
  <2>3. CASE table # "token"
    <3>1. UNCHANGED <<admin, wrote, alone>>
      BY <2>3 DEF Change
    <3> QED BY <2>1, <3>1 DEF AloneSees
  <2> QED BY <2>2, <2>3
<1> QED BY <1>1, <1>2

(* create, update and delete leave sound rows.                              *)
LEMMA AdminChangeKeeps ==
  ASSUME OverridesInv, NEW a \in Admins, UNCHANGED clock,
         CreateOverride(a) \/ UpdateOverride(a) \/ DeleteOverride(a)
  PROVE  OverridesInv'
<1> USE DEF OverridesInv
<1>0. clock \in Nat /\ clock <= MaxClock /\ nextId \in Nat /\ \A t \in Lifetimes[table] : t \in Nat
  BY OverridesAssumption DEF CacheSound
<1>1. CASE CreateOverride(a)
  <2>1. PICK s \in Nameable, l \in Limits[table], t \in Lifetimes[table] :
          Change(a, rows \cup {[id |-> nextId, user |-> s.user, net |-> s.net, prefix |-> s.prefix,
                                limit |-> l, created |-> clock, expires |-> clock + t]})
    BY <1>1 DEF CreateOverride
  <2> DEFINE o == [id |-> nextId, user |-> s.user, net |-> s.net, prefix |-> s.prefix,
                   limit |-> l, created |-> clock, expires |-> clock + t]
  <2>2. nextId' = nextId + 1 /\ table' = table
    BY <1>1, <2>1 DEF CreateOverride, Change
  <2>3. s \in AllSubjects
    BY DEF Nameable, AllSubjects, CacheSound
  <2>4. l \in Limits.rate \cup Limits.token
    BY DEF CacheSound, Tables
  <2>5. /\ o.id \in 0..nextId /\ o.created \in 0..clock /\ o.expires \in Nat
        /\ o.user \in {u.user : u \in AllSubjects}
        /\ o.net \in {u.net : u \in AllSubjects}
        /\ o.prefix \in {u.prefix : u \in AllSubjects}
    BY <1>0, <2>3
  <2>6. Sound(o)
    BY <2>3, <2>4, <2>5 DEF Sound, Row
  <2> HIDE DEF o
  <2>7. \A x \in rows \cup {o} : Sound(x)
    BY <2>6 DEF CacheSound
  <2>8. Change(a, rows \cup {o})
    BY <2>1 DEF o
  <2> QED BY <1>0, <2>2, <2>7, <2>8, ChangeKeeps
<1>2. CASE UpdateOverride(a)
  <2>0. PICK r \in rows :
          \E l \in Limits[table] \cup {r.limit}, x \in {clock + t : t \in Lifetimes[table]} \cup {r.expires} :
            Change(a, (rows \ {r}) \cup {[r EXCEPT !.limit = l, !.expires = x]})
    BY <1>2 DEF UpdateOverride
  <2>1. PICK l \in Limits[table] \cup {r.limit}, x \in {clock + t : t \in Lifetimes[table]} \cup {r.expires} :
          Change(a, (rows \ {r}) \cup {[r EXCEPT !.limit = l, !.expires = x]})
    BY <2>0
  <2> DEFINE o == [r EXCEPT !.limit = l, !.expires = x]
  <2>2. Sound(r)
    BY DEF CacheSound
  <2>3. r \in Row /\ r.expires \in Nat /\ r.limit \in Limits[table]
    BY <2>2 DEF Sound, Row
  <2>4. x \in Nat
    BY <1>0, <2>3
  <2>5. l \in Limits[table] /\ l \in Limits.rate \cup Limits.token
    BY <2>3 DEF CacheSound, Tables
  <2>6. /\ o \in Row /\ o.limit = l
        /\ o.user = r.user /\ o.net = r.net /\ o.prefix = r.prefix
    BY <2>3, <2>4, <2>5 DEF Row
  <2>7. Sound(o)
    BY <2>2, <2>5, <2>6 DEF Sound
  <2> HIDE DEF o
  <2>8. \A y \in (rows \ {r}) \cup {o} : Sound(y)
    BY <2>7 DEF CacheSound
  <2>9. Change(a, (rows \ {r}) \cup {o}) /\ nextId' = nextId
    BY <1>2, <2>1 DEF o, UpdateOverride
  <2> QED BY <1>0, <2>8, <2>9, ChangeKeeps
<1>3. CASE DeleteOverride(a)
  <2>1. PICK r \in rows : Change(a, rows \ {r}) /\ nextId' = nextId
    BY <1>3 DEF DeleteOverride
  <2>2. \A y \in rows \ {r} : Sound(y)
    BY DEF CacheSound
  <2> QED BY <1>0, <2>1, <2>2, ChangeKeeps
<1> QED BY <1>1, <1>2, <1>3

(* A reread: its query, and its swap of the cache.                          *)
LEMMA QueryKeeps ==
  ASSUME OverridesInv, NEW p \in Readers, UNCHANGED clock, Query(p),
         \/ p = Loop /\ ticker' \in {"loading", "reading"} /\ UNCHANGED admin
         \/ /\ p \in Admins /\ admin' = [admin EXCEPT ![p] = "reading"]
            /\ UNCHANGED ticker
  PROVE  OverridesInv'
<1> USE OverridesAssumption DEF OverridesInv
<1>1. CacheSound'
  <2>1. /\ UNCHANGED <<table, rows, nextId, cache, clock>>
        /\ reading' = [reading EXCEPT ![p] = Active]
    BY DEF Query, tableVars
  <2>2. \A q \in Readers : \A o \in reading'[q] : Sound(o)
    BY <2>1 DEF CacheSound, Active
  <2>3. DOMAIN reading' = Readers
    BY <2>1 DEF CacheSound
  <2>4. /\ ticker' \in {"boot", "loading", "waiting", "reading"}
        /\ admin' \in [Admins -> {"idle", "refresh", "reading", "answering"}]
    BY DEF CacheSound
  <2>5. clock' \in 0..MaxClock /\ clock <= clock' /\ nextId' \in Nat /\ nextId <= nextId'
    BY <2>1 DEF CacheSound
  <2> QED BY <2>1, <2>2, <2>3, <2>4, <2>5, SoundStays DEF CacheSound
<1>2. AloneSees'
  <2>1. /\ readAt' = [readAt EXCEPT ![p] = version]
        /\ alone' = [a \in Admins |-> alone[a] /\ a = p]
        /\ UNCHANGED <<version, cachedAt, wrote>>
    BY DEF Query, Disturb
  <2>2. alone' \in [Admins -> BOOLEAN] /\ \A a \in Admins : alone'[a] => alone[a] /\ a = p
    BY <2>1
  <2>3. readAt' \in [Readers -> Nat] /\ readAt'[p] = version
    BY <2>1 DEF AloneSees
  <2>4. \A a \in Admins : a = p => admin'[a] = "reading"
    BY DEF Loop, CacheSound
  <2> QED BY <2>1, <2>2, <2>3, <2>4 DEF AloneSees
<1> QED BY <1>1, <1>2

(* A reread swaps the cache for what its query returned.                    *)
LEMMA InstallKeeps ==
  ASSUME OverridesInv, NEW p \in Readers, UNCHANGED clock, Install(p),
         \/ p = Loop /\ ticker' = "waiting" /\ UNCHANGED admin
         \/ /\ p \in Admins /\ admin[p] = "reading"
            /\ admin' = [admin EXCEPT ![p] = "answering"] /\ UNCHANGED ticker
  PROVE  OverridesInv'
<1> USE OverridesAssumption DEF OverridesInv
<1>1. CacheSound'
  <2>1. /\ UNCHANGED <<table, rows, nextId, clock>>
        /\ cache' = reading[p] /\ reading' = [reading EXCEPT ![p] = {}]
    BY DEF Install, tableVars
  <2>2. \A q \in Readers : \A o \in reading'[q] : Sound(o)
    BY <2>1 DEF CacheSound
  <2>3. DOMAIN reading' = Readers
    BY <2>1 DEF CacheSound
  <2>4. /\ ticker' \in {"boot", "loading", "waiting", "reading"}
        /\ admin' \in [Admins -> {"idle", "refresh", "reading", "answering"}]
    BY DEF CacheSound
  <2>5. clock' \in 0..MaxClock /\ clock <= clock' /\ nextId' \in Nat /\ nextId <= nextId'
    BY <2>1 DEF CacheSound
  <2> QED BY <2>1, <2>2, <2>3, <2>4, <2>5, SoundStays DEF CacheSound
<1>2. AloneSees'
  <2>1. /\ cachedAt' = readAt[p] /\ readAt' = [readAt EXCEPT ![p] = 0]
        /\ alone' = [a \in Admins |-> alone[a] /\ a = p]
        /\ UNCHANGED <<version, wrote>>
    BY DEF Install, Disturb
  <2>2. alone' \in [Admins -> BOOLEAN] /\ \A a \in Admins : alone'[a] => alone[a] /\ a = p
    BY <2>1
  <2>3. readAt' \in [Readers -> Nat] /\ cachedAt' \in Nat
    BY <2>1 DEF AloneSees
  <2>4. \A a \in Admins : a = p => admin[a] = "reading" /\ admin'[a] = "answering"
    BY DEF Loop, CacheSound
  <2> QED BY <2>1, <2>2, <2>3, <2>4 DEF AloneSees
<1> QED BY <1>1, <1>2

(* Steps that leave the rows alone: a failed reread, an answer, a restart.  *)
LEMMA OtherKeeps ==
  ASSUME OverridesInv, UNCHANGED clock,
         \/ TickerFails \/ Boot
         \/ \E a \in Admins : AdminFails(a) \/ AdminAnswers(a)
  PROVE  OverridesInv'
<1> USE OverridesAssumption DEF OverridesInv
<1>1. CacheSound'
  <2>1. /\ UNCHANGED <<table, rows, nextId, clock>> /\ cache' \in {cache, {}}
        /\ reading' \in {reading, [p \in Readers |-> {}]}
        /\ ticker' \in {ticker, "waiting", "boot"}
        /\ \/ admin' = [a \in Admins |-> "idle"]
           \/ admin' = admin
           \/ \E a \in Admins, stage \in {"idle", "answering"} : admin' = [admin EXCEPT ![a] = stage]
    BY DEF TickerFails, Boot, AdminFails, AdminAnswers, QueryFails, tableVars, AfterFailure
  <2>2. admin' \in [Admins -> {"idle", "refresh", "reading", "answering"}]
    BY <2>1 DEF CacheSound
  <2>3. DOMAIN reading' = Readers /\ \A q \in Readers : \A o \in reading'[q] : Sound(o)
    BY <2>1 DEF CacheSound
  <2>4. clock' \in 0..MaxClock /\ clock <= clock' /\ nextId' \in Nat /\ nextId <= nextId'
    BY <2>1 DEF CacheSound
  <2> QED BY <2>1, <2>2, <2>3, <2>4, SoundStays DEF CacheSound
<1>2. AloneSees'
  <2>1. CASE TickerFails \/ Boot \/ \E a \in Admins : AdminFails(a)
    <3>1. alone' = [a \in Admins |-> FALSE]
      BY <2>1 DEF TickerFails, Boot, AdminFails, QueryFails
    <3>2. /\ version' \in Nat /\ cachedAt' \in Nat
          /\ readAt' \in [Readers -> Nat] /\ wrote' \in [Admins -> Nat]
      BY <2>1 DEF TickerFails, Boot, AdminFails, QueryFails, AloneSees
    <3> QED BY <3>1, <3>2 DEF AloneSees
  <2>2. CASE \E a \in Admins : AdminAnswers(a)
    <3>1. PICK a \in Admins : AdminAnswers(a)
      BY <2>2
    <3>2. /\ admin' = [admin EXCEPT ![a] = "idle"]
          /\ wrote' = [wrote EXCEPT ![a] = 0] /\ alone' = [alone EXCEPT ![a] = FALSE]
          /\ UNCHANGED <<version, readAt, cachedAt>>
      BY <3>1 DEF AdminAnswers
    <3>3. wrote' \in [Admins -> Nat] /\ alone' \in [Admins -> BOOLEAN]
      BY <3>2 DEF AloneSees
    <3>4. \A b \in Admins : alone'[b] => alone[b] /\ admin'[b] = admin[b] /\ wrote'[b] = wrote[b]
      BY <3>2 DEF AloneSees, CacheSound
    <3> QED BY <3>2, <3>3, <3>4 DEF AloneSees
  <2> QED BY <2>1, <2>2
<1> QED BY <1>1, <1>2

(* Time passes, and requests go on, without the overrides.                  *)
LEMMA UnchangedKeeps ==
  ASSUME OverridesInv, UNCHANGED overrideVars, clock' \in 0..MaxClock, clock <= clock'
  PROVE  OverridesInv'
<1> USE DEF OverridesInv, overrideVars, tableVars, historyVars
<1>1. CacheSound'
  <2>1. UNCHANGED <<table, rows, nextId, cache, ticker, admin, reading>>
    OBVIOUS
  <2>2. nextId' \in Nat /\ nextId <= nextId'
    BY <2>1 DEF CacheSound
  <2> QED BY <2>1, <2>2, SoundStays DEF CacheSound
<1>2. AloneSees'
  BY DEF AloneSees
<1> QED BY <1>1, <1>2

(* Every step keeps the invariant of the overrides.                         *)
LEMMA NextOverrides == OverridesInv /\ [RateNext]_limiterVars => OverridesInv'
<1> SUFFICES ASSUME OverridesInv, [RateNext]_limiterVars PROVE OverridesInv'
  OBVIOUS
<1>0. clock \in 0..MaxClock /\ clock \in Nat /\ clock <= clock
  BY OverridesAssumption DEF OverridesInv, CacheSound
<1>1. CASE Advance /\ UNCHANGED <<overrideVars, rateVars>>
  <2>1. clock' \in 0..MaxClock /\ clock <= clock'
    BY <1>0, <1>1, OverridesAssumption DEF Advance
  <2> QED BY <1>1, <2>1, UnchangedKeeps
<1>2. CASE Reboot
  BY <1>2, OtherKeeps DEF Reboot
<1>3. CASE TickerStep /\ UNCHANGED <<clock, rateVars>>
  <2>1. CASE TickerQueries
    BY <1>3, <2>1, QueryKeeps DEF TickerQueries, Readers
  <2>2. CASE TickerInstalls
    BY <1>3, <2>2, InstallKeeps DEF TickerInstalls, Readers
  <2>3. CASE TickerFails
    BY <1>3, <2>3, OtherKeeps
  <2> QED BY <1>3, <2>1, <2>2, <2>3 DEF TickerStep
<1>4. CASE \E a \in Admins : AdminStep(a) /\ UNCHANGED <<clock, rateVars>>
  <2>1. PICK a \in Admins : AdminStep(a) /\ UNCHANGED clock
    BY <1>4
  <2>2. CASE CreateOverride(a) \/ UpdateOverride(a) \/ DeleteOverride(a)
    BY <2>1, <2>2, AdminChangeKeeps
  <2>3. CASE AdminQueries(a)
    BY <2>1, <2>3, QueryKeeps DEF AdminQueries, Readers
  <2>4. CASE AdminInstalls(a)
    BY <2>1, <2>4, InstallKeeps DEF AdminInstalls, Readers
  <2>5. CASE AdminFails(a) \/ AdminAnswers(a)
    BY <2>1, <2>5, OtherKeeps
  <2> QED BY <2>1, <2>2, <2>3, <2>4, <2>5 DEF AdminStep
<1>5. CASE UNCHANGED <<clock, overrideVars>>
  BY <1>0, <1>5, UnchangedKeeps
<1> QED BY <1>1, <1>2, <1>3, <1>4, <1>5 DEF RateNext, limiterVars

(* Of two blocks that hold an address, the one with the shorter prefix      *)
(* holds the other, and they are the same only when the prefixes are.       *)
LEMMA Nested ==
  ASSUME NEW x \in Addresses, NEW o, NEW p, o.prefix \in 0..Width, p.prefix \in 0..Width,
         Covers(o, x), Covers(p, x), p.prefix <= o.prefix
  PROVE  /\ Block(o) \subseteq Block(p)
         /\ Block(o) = Block(p) => p.prefix = o.prefix
<1> USE OverridesAssumption
<1>1. ASSUME NEW y \in Block(o) PROVE y \in Block(p)
  <2>1. \A b \in 1..p.prefix : b \in 1..o.prefix
    OBVIOUS
  <2> QED BY <1>1, <2>1 DEF Block, Covers
<1>2. ASSUME p.prefix < o.prefix PROVE Block(o) # Block(p)
  <2> DEFINE y == [b \in 1..Width |-> IF b = o.prefix THEN 1 - x[b] ELSE x[b]]
  <2>1. y \in Addresses
    BY DEF Addresses
  <2>2. o.prefix \in 1..o.prefix /\ o.prefix \in 1..Width /\ y[o.prefix] # x[o.prefix]
    BY <1>2 DEF Addresses
  <2>3. ~ Covers(o, y)
    BY <2>2 DEF Covers
  <2>4. \A b \in 1..p.prefix : b \in 1..Width /\ y[b] = x[b]
    BY <1>2
  <2>5. Covers(p, y)
    BY <2>4 DEF Covers
  <2> QED BY <2>1, <2>3, <2>5 DEF Block
<1> QED BY <1>1, <1>2

(* The ranking of the ranges an address is in picks the innermost.          *)
LEMMA InnerFirst == CacheSound => InnermostWins
<1> SUFFICES ASSUME CacheSound, NEW x \in Addresses, NEW o \in Best(cache, x),
                    NEW p \in cache, p.user = None, x \in Block(p)
             PROVE  /\ Block(o) \subseteq Block(p)
                    /\ Block(o) = Block(p) => p.created <= o.created
  BY DEF InnermostWins
<1>1. o \in cache /\ o.user = None /\ Covers(o, x) /\ ~ Outranks(p, o)
  BY DEF Best, Top, BlocksOf, Block
<1>2. Sound(o) /\ Sound(p) /\ Covers(p, x)
  BY <1>1 DEF CacheSound, Block
<1>3. o.prefix \in 0..Width /\ p.prefix \in 0..Width
  BY <1>1, <1>2, OverridesAssumption DEF Sound
<1>4. o.created \in Nat /\ p.created \in Nat
  BY <1>2, OverridesAssumption DEF Sound, Row, CacheSound
<1>5. /\ p.prefix <= o.prefix
      /\ p.prefix = o.prefix => p.created <= o.created
  BY <1>1, <1>3, <1>4, OverridesAssumption DEF Outranks
<1> QED BY <1>1, <1>2, <1>3, <1>5, Nested

(* The specification without its fairness.                                  *)
LEMMA RateSafety == RateSpec => RateInit /\ [][RateNext]_limiterVars
BY PTL DEF RateSpec

(* Every row that is stored, cached or on its way to the cache is sound, and *)
(* what an undisturbed request read is not older than its own change.        *)
THEOREM OverridesInvariant == RateSpec => []OverridesInv
<1>1. RateInit => OverridesInv
  BY InitOverrides DEF RateInit
<1> QED BY <1>1, NextOverrides, RateSafety, PTL

(* The rows, the cache and the readings keep their types.                   *)
THEOREM OverrideTypes == RateSpec => []OverridesTypeOK
<1>1. OverridesInv => OverridesTypeOK
  BY DEF OverridesInv, CacheSound, Sound, OverridesTypeOK
<1> QED BY <1>1, OverridesInvariant, PTL

(* For every width of an address and every set of overrides: the block that *)
(* decides is inside every other block that holds the address, and a change *)
(* nothing disturbed is in the cache when it is answered.                   *)
THEOREM InnermostAndFresh == RateSpec => []OverridesApply
<1>1. OverridesInv => LoneChangeTakesEffect
  BY DEF OverridesInv, AloneSees, LoneChangeTakesEffect
<1>2. OverridesInv => OverridesApply
  BY <1>1, InnerFirst DEF OverridesInv, OverridesApply
<1> QED BY <1>2, OverridesInvariant, PTL

-----------------------------------------------------------------------------
(* The buckets.                                                             *)

Stages == {"new", "enter", "refund", "paying", "pay", "naming", "name", "closing", "close", "done"}

RequestRecord == [pc : Stages, caller : Callers \cup {None}, key : Keys \cup {None},
                  limit : 0..Ceiling, now : 0..clock, work : Nat]

RequestShape ==
  /\ req \in [Requests -> RequestRecord]
  /\ \A r \in Requests :
       /\ req[r].pc \notin {"new", "done"} => req[r].caller \in Callers /\ req[r].key \in Keys
       /\ req[r].pc \notin {"closing", "close", "done"} => req[r].work = 0

BucketShape ==
  /\ clock \in Nat
  /\ bucket \in [DOMAIN bucket -> [tokens : 0..Full(Ceiling), last : 0..clock]]
  /\ ledger \in [DOMAIN ledger -> [since : Nat, late : Nat, high : 0..clock]]
  /\ DOMAIN bucket \subseteq DOMAIN ledger /\ DOMAIN ledger \subseteq Keys
  /\ \A k \in DOMAIN bucket : bucket[k].last <= ledger[k].high

(* What a request has paid and not got back: its work, or the entry it has  *)
(* yet to use.                                                              *)
Paid(q) == IF q.pc \in {"refund", "paying", "pay"} THEN 1 ELSE q.work

PaidTo(k) == [r \in Requests |-> IF req[r].key = k THEN Paid(req[r]) ELSE 0]
Spent(k) == SumFunctionOnSet(PaidTo(k), Requests)

(* How far a key's charges have seen the time move: to the stamp of its     *)
(* bucket and a burst or, when it has none, to the latest reading, which is *)
(* then a full burst behind.                                                *)
Span(k) ==
  (IF k \in DOMAIN bucket THEN TicksPerSecond + bucket[k].last ELSE ledger[k].high)
    - ledger[k].since + ledger[k].late
Left(k) == IF k \in DOMAIN bucket THEN bucket[k].tokens ELSE 0

(* What was paid and what is left are within the limit over that span; and a key that  *)
(* was never charged was never paid to.                                     *)
Balanced(k) == TicksPerSecond * Spent(k) + Left(k) <= Ceiling * Span(k)

RateInv ==
  /\ RequestShape /\ BucketShape
  /\ \A r \in Requests : Paid(req[r]) = 0 \/ req[r].key \in DOMAIN ledger
  /\ \A k \in DOMAIN ledger : Balanced(k)

(* The arithmetic of a charge: what it pays and what it leaves rise by no   *)
(* more than the rate allows over the time the span grew.                   *)
LEMMA Rises ==
  ASSUME NEW T \in Nat, NEW C \in Nat, NEW S \in Int, NEW S2 \in Int, NEW c \in Int,
         NEW left \in Int, NEW left2 \in Int, NEW gain \in Int, NEW A \in Int, NEW A2 \in Int,
         T * S + left <= C * A, S2 <= S + c,
         left2 + T * c <= left + gain, gain <= C * (A2 - A)
  PROVE  T * S2 + left2 <= C * A2
<1>1. T * S2 <= T * (S + c)
  <2>1. T * (S + c - S2) >= 0
    <3>1. S + c - S2 \in Nat
      OBVIOUS
    <3> HIDE <3>1
    <3> DEFINE d == S + c - S2
    <3>2. d \in Nat
      BY <3>1
    <3> HIDE DEF d
    <3>3. T * d \in Nat
      BY <3>2
    <3> QED BY <3>3 DEF d
  <2>2. T * (S + c - S2) = T * (S + c) - T * S2
    OBVIOUS
  <2>3. T * (S + c) \in Int /\ T * S2 \in Int
    OBVIOUS
  <2> QED BY <2>1, <2>2, <2>3
<1>2. T * (S + c) = T * S + T * c
  OBVIOUS
<1>3. C * A + C * (A2 - A) = C * A2
  <2>1. C * (A2 - A) = C * A2 - C * A
    OBVIOUS
  <2>2. C * A2 \in Int /\ C * A \in Int
    OBVIOUS
  <2> QED BY <2>1, <2>2
<1>4. T * S \in Int /\ T * S2 \in Int /\ T * c \in Int /\ T * (S + c) \in Int
      /\ C * A \in Int /\ C * A2 \in Int /\ C * (A2 - A) \in Int
  OBVIOUS
<1> DEFINE ts == T * S
           ts2 == T * S2
           tc == T * c
           tsc == T * (S + c)
           ca == C * A
           ca2 == C * A2
           cd == C * (A2 - A)
<1>5. /\ ts2 <= tsc /\ tsc = ts + tc /\ ca + cd = ca2 /\ ts + left <= ca
      /\ left2 + tc <= left + gain /\ gain <= cd
      /\ {ts, ts2, tc, tsc, ca, ca2, cd} \subseteq Int
  BY <1>1, <1>2, <1>3, <1>4
<1>6. ts2 + left2 <= ca2
  <2> HIDE DEF ts, ts2, tc, tsc, ca, ca2, cd
  <2> QED BY <1>5
<1> QED BY <1>6

(* The least of two integers.                                               *)
LEMMA MinOfTwo ==
  ASSUME NEW a \in Int, NEW b \in Int
  PROVE  Min({a, b}) = IF a <= b THEN a ELSE b
<1>1. \E x \in {a, b} : \A y \in {a, b} : x <= y
  OBVIOUS
<1>2. Min({a, b}) \in {a, b} /\ \A y \in {a, b} : Min({a, b}) <= y
  BY <1>1 DEF Min
<1> QED BY <1>2

(* What each request has paid to a key, and all of them.                    *)
LEMMA SpentType ==
  ASSUME NEW f, f \in [Requests -> Nat]
  PROVE  SumFunctionOnSet(f, Requests) \in Nat
<1>1. \A r \in Requests : f[r] \in Nat
  OBVIOUS
<1> QED BY <1>1, SumNat, RateAssumption

(* A request that goes on pays at most what it is charged, and to its key.  *)
LEMMA SpentGrows ==
  ASSUME RequestShape, RequestShape', NEW r \in Requests, NEW k, NEW c \in Int,
         \A s \in Requests \ {r} : req'[s] = req[s],
         IF req[r].key = k
           THEN Paid(req'[r]) <= Paid(req[r]) + c
           ELSE c = 0 /\ (req'[r].key = k => Paid(req'[r]) = 0),
         c >= 0 \/ req'[r].key = k \/ req[r].key # k
  PROVE  Spent(k)' <= Spent(k) + c
<1> DEFINE f == PaidTo(k)
           g == PaidTo(k)'
<1>1. f \in [Requests -> Nat] /\ g \in [Requests -> Nat]
  BY DEF RequestShape, RequestRecord, Paid, PaidTo
<1>2. \A s \in Requests \ {r} : f[s] = g[s]
  BY DEF PaidTo
<1>3. Paid(req[r]) \in Nat /\ Paid(req'[r]) \in Nat
  BY DEF RequestShape, RequestRecord, Paid
<1>4. g[r] <= f[r] + c
  BY <1>3 DEF PaidTo
<1>5. Spent(k) = SumFunctionOnSet(f, Requests) /\ Spent(k)' = SumFunctionOnSet(g, Requests)
  BY DEF Spent
<1>6. Spent(k) \in Nat
  BY <1>1, <1>5, SpentType
<1>7. f[r] \in Nat /\ g[r] \in Nat
  BY <1>1
<1> HIDE DEF f, g
<1>8. SumFunctionOnSet(g, Requests) = (SumFunctionOnSet(f, Requests) - f[r]) + g[r]
  <2>1. IsFiniteSet(Requests) /\ \A s \in Requests : f[s] \in Int /\ g[s] \in Int
    BY <1>1, RateAssumption
  <2> QED BY <1>2, <2>1, SumUpdate
<1> QED BY <1>4, <1>5, <1>6, <1>7, <1>8

(* One step of a request on one bucket: the balance of its key survives     *)
(* when what is charged and what is left rise no more than the span allows. *)
LEMMA BalanceKeeps ==
  ASSUME RateInv, RequestShape', BucketShape', NEW r \in Requests, NEW c \in Int, NEW k \in Keys,
         req[r].key = k, \A s \in Requests \ {r} : req'[s] = req[s],
         Paid(req'[r]) <= Paid(req[r]) + c, c >= 0 \/ req'[r].key = k,
         req'[r].key = k \/ Paid(req'[r]) = 0,
         DOMAIN ledger' = DOMAIN ledger \cup {k},
         \A j \in DOMAIN ledger \ {k} : Left(j)' = Left(j) /\ Span(j)' = Span(j),
         NEW gain \in Int, NEW was \in Int,
         k \in DOMAIN ledger => was = Span(k), k \notin DOMAIN ledger => was = 0,
         Left(k)' + TicksPerSecond * c <= Left(k) + gain,
         gain <= Ceiling * (Span(k)' - was)
  PROVE  RateInv'
<1> USE RateAssumption DEF RateInv
<1>0. /\ \A j \in DOMAIN ledger : Span(j) \in Int
      /\ \A j \in DOMAIN ledger' : Span(j)' \in Int
      /\ \A j : Left(j) \in Nat /\ Left(j)' \in Nat
      /\ \A j : Spent(j) \in Nat /\ Spent(j)' \in Nat
  <2>1. ASSUME NEW j PROVE Spent(j) \in Nat /\ Spent(j)' \in Nat
    <3>1. PaidTo(j) \in [Requests -> Nat] /\ PaidTo(j)' \in [Requests -> Nat]
      BY DEF RequestShape, RequestRecord, Paid, PaidTo
    <3> QED BY <3>1, SpentType DEF Spent
  <2>2. \A j \in DOMAIN ledger : Span(j) \in Int
    BY DEF BucketShape, Span
  <2>3. \A j \in DOMAIN ledger' : Span(j)' \in Int
    BY DEF BucketShape, Span
  <2>4. \A j : Left(j) \in Nat
    BY DEF BucketShape, Left, Full
  <2>5. \A j : Left(j)' \in Nat
    BY DEF BucketShape, Left, Full
  <2> QED BY <2>1, <2>2, <2>3, <2>4, <2>5
<1>1. \A s \in Requests : Paid(req'[s]) = 0 \/ req'[s].key \in DOMAIN ledger'
  <2>1. \A s \in Requests \ {r} : Paid(req'[s]) = Paid(req[s]) /\ req'[s].key = req[s].key
    OBVIOUS
  <2> QED BY <2>1
<1>2. ASSUME NEW j \in DOMAIN ledger, j # k PROVE Balanced(j)'
  <2>1. Spent(j)' <= Spent(j) + 0
    <3>1. /\ req[r].key # j
          /\ req'[r].key = j => Paid(req'[r]) = 0
      BY <1>2
    <3> QED BY <3>1, SpentGrows
  <2>2. Left(j)' = Left(j) /\ Span(j)' = Span(j)
    BY <1>2
  <2>3. TicksPerSecond * Spent(j) + Left(j) <= Ceiling * Span(j)
    BY DEF Balanced
  <2>4. TicksPerSecond * Spent(j)' <= TicksPerSecond * Spent(j)
    BY <1>0, <2>1, Times
  <2>5. TicksPerSecond * Spent(j)' \in Int /\ TicksPerSecond * Spent(j) \in Int /\ Ceiling * Span(j) \in Int
    BY <1>0
  <2> QED BY <1>0, <2>2, <2>3, <2>4, <2>5 DEF Balanced
<1>3. Balanced(k)'
  <2>1. Spent(k)' <= Spent(k) + c
    BY SpentGrows
  <2>2. TicksPerSecond * Spent(k) + Left(k) <= Ceiling * was
    <3>1. CASE k \in DOMAIN ledger
      BY <3>1 DEF Balanced
    <3>2. CASE k \notin DOMAIN ledger
      <4>1. \A s \in Requests : PaidTo(k)[s] = 0
        BY <3>2 DEF PaidTo
      <4>2. Spent(k) = 0
        BY <4>1, SumZero DEF Spent
      <4>3. Left(k) = 0
        BY <3>2 DEF BucketShape, Left
      <4> QED BY <3>2, <4>2, <4>3
    <3> QED BY <3>1, <3>2
  <2> DEFINE S == Spent(k)
             S2 == Spent(k)'
             L == Left(k)
             L2 == Left(k)'
             A2 == Span(k)'
  <2>3. S \in Int /\ S2 \in Int /\ L \in Int /\ L2 \in Int /\ A2 \in Int
    BY <1>0
  <2>4. /\ TicksPerSecond * S + L <= Ceiling * was /\ S2 <= S + c
        /\ L2 + TicksPerSecond * c <= L + gain /\ gain <= Ceiling * (A2 - was)
    BY <2>1, <2>2
  <2>5. TicksPerSecond * S2 + L2 <= Ceiling * A2
    <3> HIDE DEF S, S2, L, L2, A2
    <3> QED BY <2>3, <2>4, Rises
  <2> QED BY <2>5 DEF Balanced
<1> QED BY <1>1, <1>2, <1>3

(* A request goes to its next stage and the others stay where they are.     *)
LEMMA RequestMoves ==
  ASSUME RequestShape, UNCHANGED clock, NEW r \in Requests, NEW q,
         q \in RequestRecord,
         q.pc \notin {"new", "done"} => q.caller \in Callers /\ q.key \in Keys,
         q.pc \notin {"closing", "close", "done"} => q.work = 0,
         MoveTo(r, q)
  PROVE  /\ RequestShape' /\ req'[r] = q
         /\ \A s \in Requests \ {r} : req'[s] = req[s]
<1>1. req' = [req EXCEPT ![r] = q]
  BY DEF MoveTo
<1>2. req'[r] = q /\ \A s \in Requests \ {r} : req'[s] = req[s]
  BY <1>1 DEF RequestShape, RequestRecord
<1>3. req' \in [Requests -> RequestRecord'] /\ RequestRecord' = RequestRecord
  BY <1>1 DEF RequestShape, RequestRecord
<1>4. \A s \in Requests :
        /\ req'[s].pc \notin {"new", "done"} => req'[s].caller \in Callers /\ req'[s].key \in Keys
        /\ req'[s].pc \notin {"closing", "close", "done"} => req'[s].work = 0
  BY <1>2 DEF RequestShape, RequestRecord
<1> QED BY <1>2, <1>3, <1>4 DEF RequestShape, RequestRecord

(* A charge, accepted or not, keeps the balance of every key.               *)
LEMMA ChargeKeeps ==
  ASSUME RateInv, UNCHANGED clock, NEW r \in Requests, req[r].pc \in {"enter", "pay", "name", "close"},
         NEW cost \in Nat, NEW accepted \in BOOLEAN, Charge(r, cost, accepted),
         RequestShape', \A s \in Requests \ {r} : req'[s] = req[s],
         Paid(req'[r]) <= Paid(req[r]) + (IF accepted THEN cost ELSE 0),
         req'[r].key = req[r].key \/ Paid(req'[r]) = 0
  PROVE  RateInv'
<1> USE RateAssumption DEF RateInv
<1>1. PICK k \in Keys, lim \in 0..Ceiling, now \in 0..clock :
        req[r].key = k /\ req[r].limit = lim /\ req[r].now = now
  BY DEF RequestShape, RequestRecord
<1>0. clock \in Nat
  BY DEF BucketShape
<1> DEFINE old == BucketFor(k, lim, now)
           b == Refilled(old, lim, now)
           c == IF accepted THEN cost ELSE 0
           T == TicksPerSecond
<1>2. c \in Nat /\ T \in Nat \ {0} /\ T * c \in Nat /\ Ceiling \in Nat /\ lim \in Nat /\ now \in Nat
  BY <1>0, <1>1
<1>3. Full(lim) \in Nat /\ Full(lim) <= Full(Ceiling) /\ Full(Ceiling) \in Nat
  BY <1>0, <1>1, <1>2, Times DEF Full
<1>4. old.tokens \in 0..Full(Ceiling) /\ old.last \in 0..clock
  BY <1>0, <1>1, <1>3 DEF BucketFor, BucketShape
<1>5. Elapsed(old, now) \in Nat /\ Elapsed(old, now) * lim \in Nat
      /\ Elapsed(old, now) * lim <= Ceiling * Elapsed(old, now)
  <2>1. Elapsed(old, now) \in Nat
    BY <1>0, <1>1, <1>4 DEF Elapsed
  <2> DEFINE e == Elapsed(old, now)
  <2>2. e \in Nat
    BY <2>1
  <2> HIDE DEF e
  <2>3. e * lim \in Nat /\ e * lim <= e * Ceiling
    BY <1>0, <1>1, <1>2, <2>2, Times
  <2>4. e * Ceiling = Ceiling * e
    BY <1>2, <2>2
  <2> QED BY <2>2, <2>3, <2>4 DEF e
<1>6. /\ b.last = now /\ b.tokens \in 0..Full(Ceiling)
      /\ b.tokens <= old.tokens + Elapsed(old, now) * lim /\ b.tokens <= Full(lim)
  <2>1. b.tokens = Min({old.tokens + Elapsed(old, now) * lim, Full(lim)}) /\ b.last = now
    BY DEF Refilled
  <2> HIDE DEF b, old
  <2> DEFINE x == old.tokens + Elapsed(old, now) * lim
  <2>2. x \in Nat
    BY <1>3, <1>4, <1>5
  <2>3. Min({x, Full(lim)}) = IF x <= Full(lim) THEN x ELSE Full(lim)
    BY <1>3, <2>2, MinOfTwo
  <2> HIDE DEF x
  <2>4. b.tokens \in Nat /\ b.tokens <= x /\ b.tokens <= Full(lim)
    BY <1>3, <2>1, <2>2, <2>3 DEF x
  <2> QED BY <1>3, <2>1, <2>4 DEF x
<1>7. accepted => T * c <= b.tokens
  <2>1. accepted = Affords(b, cost)
    BY <1>1 DEF Charge
  <2>2. cost * T = T * cost
    BY <1>2
  <2>3. b.tokens \in Nat
    BY <1>3, <1>6
  <2> HIDE DEF b
  <2>4. accepted => b.tokens >= cost * T
    BY <2>1 DEF Affords
  <2> QED BY <1>2, <2>2, <2>3, <2>4
<1> DEFINE new == [tokens |-> b.tokens - T * c, last |-> now]
<1>8. bucket' = [j \in DOMAIN bucket \cup {k} |-> IF j = k THEN new ELSE bucket[j]]
  <2>1. Put(k, IF accepted THEN [b EXCEPT !.tokens = @ - cost * T] ELSE b)
    BY <1>1 DEF Charge
  <2>2. b \in [tokens : Nat, last : Nat] /\ b.last = now
    BY <1>2, <1>3, <1>6 DEF Refilled
  <2>3. T * c = IF accepted THEN cost * T ELSE 0
    BY <1>2
  <2> HIDE DEF b, c
  <2>4. (IF accepted THEN [b EXCEPT !.tokens = @ - cost * T] ELSE b) = new
    <3>1. ASSUME accepted PROVE [b EXCEPT !.tokens = @ - cost * T] = new
      BY <2>2, <2>3, <3>1
    <3>2. ASSUME ~ accepted PROVE b = new
      <4>1. b.tokens - T * c = b.tokens
        BY <2>2, <2>3, <3>2
      <4> QED BY <2>2, <4>1
    <3> QED BY <3>1, <3>2
  <2> QED BY <2>1, <2>4 DEF Put
<1>9. new.last = now /\ new.tokens = b.tokens - T * c /\ new \in [tokens : 0..Full(Ceiling), last : 0..clock]
  <2>1. b.tokens - T * c \in 0..Full(Ceiling)
    <3> HIDE DEF b
    <3> QED BY <1>2, <1>3, <1>6, <1>7
  <2> QED BY <1>0, <1>1, <2>1
<1> HIDE DEF new, b
<1> DEFINE entry == IF k \in DOMAIN ledger THEN ledger[k] ELSE [since |-> now, late |-> 0, high |-> now]
           lateBy == IF entry.high > now THEN entry.high - now ELSE 0
           rec == [since |-> entry.since,
                   late |-> entry.late + lateBy,
                   high |-> IF now > entry.high THEN now ELSE entry.high]
<1>10. entry \in [since : Nat, late : Nat, high : 0..clock]
  BY <1>0, <1>1 DEF BucketShape
<1>11. ledger' = [j \in DOMAIN ledger \cup {k} |-> IF j = k THEN rec ELSE ledger[j]]
  <2>1. Record(k, now)
    BY <1>1 DEF Charge
  <2> QED BY <2>1 DEF Record
<1>12. rec \in [since : Nat, late : Nat, high : 0..clock] /\ rec.high >= now /\ rec.high >= entry.high
  <2> HIDE DEF entry
  <2> QED BY <1>0, <1>1, <1>2, <1>10
<1> HIDE DEF entry, rec
<1>13. BucketShape'
  <2>1. bucket' \in [DOMAIN bucket' -> [tokens : 0..Full(Ceiling), last : 0..clock]]
    BY <1>8, <1>9 DEF BucketShape
  <2>2. ledger' \in [DOMAIN ledger' -> [since : Nat, late : Nat, high : 0..clock]]
    BY <1>11, <1>12 DEF BucketShape
  <2>3. DOMAIN bucket' \subseteq DOMAIN ledger' /\ DOMAIN ledger' \subseteq Keys
    BY <1>0, <1>1, <1>8, <1>11 DEF BucketShape
  <2>4. \A j \in DOMAIN bucket' : bucket'[j].last <= ledger'[j].high
    <3>1. ASSUME NEW j \in DOMAIN bucket' PROVE bucket'[j].last <= ledger'[j].high
      <4>1. CASE j = k
        BY <1>8, <1>9, <1>11, <1>12, <4>1
      <4>2. CASE j # k
        <5>1. j \in DOMAIN bucket /\ bucket'[j] = bucket[j] /\ ledger'[j] = ledger[j]
          BY <1>8, <1>11, <4>2 DEF BucketShape
        <5> QED BY <5>1 DEF BucketShape
      <4> QED BY <4>1, <4>2
    <3> QED BY <3>1
  <2> QED BY <2>1, <2>2, <2>3, <2>4 DEF BucketShape
<1> DEFINE gain == IF k \in DOMAIN bucket THEN Elapsed(old, now) * lim ELSE Full(lim)
           was == IF k \in DOMAIN ledger THEN Span(k) ELSE 0
<1>14. DOMAIN ledger' = DOMAIN ledger \cup {k}
  BY <1>11
<1>15. ASSUME NEW j \in DOMAIN ledger \ {k} PROVE Left(j)' = Left(j) /\ Span(j)' = Span(j)
  <2>1. /\ j \in DOMAIN bucket' <=> j \in DOMAIN bucket
        /\ j \in DOMAIN bucket => bucket'[j] = bucket[j]
        /\ ledger'[j] = ledger[j]
    BY <1>8, <1>11
  <2> QED BY <2>1 DEF Left, Span
<1>16. Left(k)' = b.tokens - T * c /\ Span(k)' = ((T + now) - rec.since) + rec.late
  <2>1. k \in DOMAIN bucket' /\ bucket'[k] = new /\ ledger'[k] = rec
    BY <1>8, <1>11
  <2>2. Left(k)' = new.tokens /\ Span(k)' = (T + new.last) - rec.since + rec.late
    BY <2>1 DEF Left, Span
  <2> QED BY <1>9, <2>2
<1>17. gain \in Nat /\ Left(k)' + T * c <= Left(k) + gain
  <2>1. b.tokens \in Nat
    BY <1>3, <1>6
  <2>2. CASE k \in DOMAIN bucket
    <3>1. Left(k) = old.tokens /\ old.tokens \in Nat
      BY <1>3, <1>4, <2>2 DEF Left, BucketFor
    <3> HIDE DEF old
    <3> QED BY <1>2, <1>5, <1>6, <1>16, <2>1, <2>2, <3>1
  <2>3. CASE k \notin DOMAIN bucket
    <3>1. Left(k) = 0
      BY <2>3 DEF Left
    <3> QED BY <1>2, <1>3, <1>6, <1>16, <2>1, <2>3, <3>1
  <2> QED BY <2>2, <2>3
<1>18. was \in Int /\ gain <= Ceiling * (Span(k)' - was)
  <2>1. ASSUME NEW d \in Nat, NEW x \in Nat, d <= x PROVE Ceiling * d <= Ceiling * x /\ Ceiling * d \in Nat
    BY <1>2, <2>1, Times
  <2>2. Full(lim) <= Ceiling * T
    BY <1>0, <1>1, <1>2, Times DEF Full
  <2>3. lateBy \in Nat /\ rec.since = entry.since /\ rec.late = entry.late + lateBy
        /\ lateBy >= entry.high - now
    BY <1>0, <1>1, <1>10 DEF rec
  <2>4. CASE k \in DOMAIN bucket
    <3>1. k \in DOMAIN ledger /\ entry = ledger[k] /\ old = bucket[k]
      BY <2>4 DEF BucketShape, entry, BucketFor
    <3>2. was = T + old.last - entry.since + entry.late /\ old.last <= entry.high
      BY <2>4, <3>1 DEF Span, BucketShape
    <3>3. Elapsed(old, now) <= Span(k)' - was /\ Span(k)' - was \in Nat /\ was \in Int
      <4> HIDE DEF old, lateBy, was
      <4> QED BY <1>0, <1>1, <1>2, <1>4, <1>10, <1>16, <2>3, <3>2 DEF Elapsed
    <3> DEFINE e == Elapsed(old, now)
               x == Span(k)' - was
    <3>4. e \in Nat /\ x \in Nat /\ e <= x
      BY <1>5, <3>3
    <3> HIDE DEF e, x
    <3>5. Ceiling * e <= Ceiling * x /\ Ceiling * e \in Nat /\ Ceiling * x \in Nat
      BY <1>2, <3>4, <2>1
    <3>6. Elapsed(old, now) * lim \in Nat /\ Elapsed(old, now) * lim <= Ceiling * e
      BY <1>5 DEF e
    <3>7. gain <= Ceiling * x
      <4>1. gain = Elapsed(old, now) * lim
        BY <2>4
      <4> HIDE DEF gain, old
      <4> QED BY <3>5, <3>6, <4>1
    <3> QED BY <3>3, <3>7 DEF x
  <2>5. CASE k \notin DOMAIN bucket
    <3>1. T <= Span(k)' - was /\ Span(k)' - was \in Nat /\ was \in Int
      <4>1. CASE k \in DOMAIN ledger
        <5>1. was = entry.high - entry.since + entry.late
          BY <2>5, <4>1 DEF Span, entry
        <5> HIDE DEF lateBy, was
        <5> QED BY <1>0, <1>1, <1>2, <1>10, <1>16, <2>3, <5>1
      <4>2. CASE k \notin DOMAIN ledger
        <5>1. was = 0 /\ entry.since = now /\ entry.late = 0 /\ entry.high = now
          BY <4>2 DEF entry
        <5> HIDE DEF lateBy, was
        <5> QED BY <1>0, <1>1, <1>2, <1>10, <1>16, <2>3, <5>1
      <4> QED BY <4>1, <4>2
    <3> DEFINE x == Span(k)' - was
    <3>2. x \in Nat /\ T <= x
      BY <3>1
    <3> HIDE DEF x
    <3>3. Ceiling * T <= Ceiling * x /\ Ceiling * T \in Nat /\ Ceiling * x \in Nat
      BY <1>2, <3>2, <2>1
    <3>4. gain = Full(lim) /\ gain \in Nat
      BY <2>5, <1>17
    <3>5. gain <= Ceiling * x
      <4> HIDE DEF gain
      <4> QED BY <2>2, <3>3, <3>4
    <3> QED BY <3>1, <3>5 DEF x
  <2> QED BY <2>4, <2>5
<1>19. Paid(req'[r]) <= Paid(req[r]) + c /\ (c >= 0 \/ req'[r].key = k)
       /\ (req'[r].key = k \/ Paid(req'[r]) = 0)
  BY <1>1, <1>2
<1> HIDE DEF c, gain, was
<1>20. c \in Int /\ gain \in Int /\ was \in Int
  BY <1>2, <1>17, <1>18
<1>21. (k \in DOMAIN ledger => was = Span(k)) /\ (k \notin DOMAIN ledger => was = 0)
  BY DEF was
<1> QED BY <1>0, <1>1, <1>13, <1>14, <1>15, <1>17, <1>18, <1>19, <1>20, <1>21, BalanceKeeps

(* A step that touches no bucket and after which a request has paid nothing *)
(* more.                                                                    *)
LEMMA MoveKeeps ==
  ASSUME RateInv, RequestShape', UNCHANGED <<clock, bucket, ledger>>, NEW r \in Requests,
         \A s \in Requests \ {r} : req'[s] = req[s],
         Paid(req'[r]) = 0 \/ (Paid(req'[r]) = Paid(req[r]) /\ req'[r].key = req[r].key)
  PROVE  RateInv'
<1> USE RateAssumption DEF RateInv
<1>1. BucketShape'
  BY DEF BucketShape
<1>2. \A s \in Requests : Paid(req'[s]) = 0 \/ req'[s].key \in DOMAIN ledger'
  OBVIOUS
<1>3. ASSUME NEW k \in DOMAIN ledger PROVE Balanced(k)'
  <2> DEFINE f == PaidTo(k)
             g == PaidTo(k)'
  <2>1. f \in [Requests -> Nat] /\ g \in [Requests -> Nat]
    BY DEF RequestShape, RequestRecord, Paid, PaidTo
  <2>2. \A s \in Requests : g[s] <= f[s]
    <3>1. \A s \in Requests : f[s] \in Nat /\ g[s] \in Nat
      BY <2>1
    <3>2. ASSUME NEW s \in Requests PROVE g[s] = 0 \/ g[s] = f[s]
      BY DEF PaidTo
    <3> HIDE DEF f, g
    <3> QED BY <3>1, <3>2
  <2>3. Spent(k)' <= Spent(k) /\ Spent(k)' \in Nat /\ Spent(k) \in Nat
    <3>1. Spent(k) = SumFunctionOnSet(f, Requests) /\ Spent(k)' = SumFunctionOnSet(g, Requests)
      BY DEF Spent
    <3> HIDE DEF f, g
    <3>2. SumFunctionOnSet(g, Requests) <= SumFunctionOnSet(f, Requests)
      <4>1. \A s \in Requests : f[s] \in Nat /\ g[s] \in Nat
        BY <2>1
      <4>2. Requests \in SUBSET Requests
        OBVIOUS
      <4> QED BY <2>2, <4>1, <4>2, SumMonotone
    <3> QED BY <2>1, <3>1, <3>2, SpentType
  <2>4. TicksPerSecond * Spent(k)' \in Nat /\ TicksPerSecond * Spent(k)' <= TicksPerSecond * Spent(k)
    BY <2>3, Times
  <2>5. Left(k)' = Left(k) /\ Span(k)' = Span(k)
    BY DEF Left, Span
  <2>6. Left(k) \in Nat /\ Span(k) \in Int
    BY DEF Left, Span, BucketShape, Full
  <2>7. TicksPerSecond * Spent(k) \in Nat /\ Ceiling * Span(k) \in Int
    BY <2>3, <2>6, Times
  <2> QED BY <2>4, <2>5, <2>6, <2>7 DEF Balanced
<1> QED BY <1>1, <1>2, <1>3

(* The layer resolves the caller: nothing is charged yet.                   *)
LEMMA ResolveKeeps ==
  ASSUME RateInv, OverridesInv, UNCHANGED clock, NEW r \in Requests, Resolve(r)
  PROVE  RateInv'
<1> USE RateAssumption
<1>0. PICK c \in Callers : \E v \in Resolutions(c) :
        MoveTo(r, [pc |-> "enter", caller |-> c, key |-> v.key, limit |-> v.limit, now |-> clock, work |-> 0])
  BY DEF Resolve
<1>1. PICK v \in Resolutions(c) :
        MoveTo(r, [pc |-> "enter", caller |-> c, key |-> v.key, limit |-> v.limit, now |-> clock, work |-> 0])
  BY <1>0
<1>2. v.key \in Keys /\ v.limit \in 0..Ceiling
  <2>1. CASE Best(cache, c.address) # {}
    <3>1. PICK o \in Best(cache, c.address) :
            v = [key |-> [space |-> "cidr", name |-> <<o.net, o.prefix>>], limit |-> o.limit]
      BY <2>1 DEF Resolutions
    <3>2. o \in cache /\ o.user = None
      BY DEF Best, Top, BlocksOf
    <3>3. Sound(o) /\ table = "rate"
      BY <3>2 DEF OverridesInv, CacheSound, Resolve
    <3>4. PICK s \in AllSubjects : o.user = s.user /\ o.net = s.net /\ o.prefix = s.prefix
      BY <3>3 DEF Sound
    <3>5. <<o.net, o.prefix>> \in {<<n.net, n.prefix>> : n \in Networks}
      BY <3>2, <3>4 DEF Networks
    <3>6. o.limit \in 0..Ceiling
      BY <3>3, OverridesAssumption DEF Sound
    <3> QED BY <3>1, <3>5, <3>6 DEF Keys
  <2>2. CASE Best(cache, c.address) = {} /\ c.tier \in {"read_uplift", "admin"}
    <3>1. v = [key |-> [space |-> "user", name |-> c.user], limit |-> Rps[c.tier]]
      BY <2>2 DEF Resolutions
    <3>2. Rps[c.tier] \in 0..Ceiling
      BY <2>2 DEF Tiers
    <3> QED BY <3>1, <3>2 DEF Keys
  <2>3. CASE Best(cache, c.address) = {} /\ c.tier \notin {"read_uplift", "admin"}
    <3>1. v = [key |-> [space |-> "ip", name |-> c.address], limit |-> Rps["anonymous"]]
      BY <2>3 DEF Resolutions
    <3>2. Rps["anonymous"] \in 0..Ceiling
      BY DEF Tiers
    <3> QED BY <3>1, <3>2 DEF Keys
  <2> QED BY <2>1, <2>2, <2>3
<1> DEFINE q == [pc |-> "enter", caller |-> c, key |-> v.key, limit |-> v.limit, now |-> clock, work |-> 0]
<1>3. q = [pc |-> "enter", caller |-> c, key |-> v.key, limit |-> v.limit, now |-> clock, work |-> 0]
  OBVIOUS
<1>4. clock \in 0..clock
  BY DEF RateInv, BucketShape
<1> HIDE DEF q
<1>5. RequestShape' /\ req'[r] = q /\ \A s \in Requests \ {r} : req'[s] = req[s]
  <2>1. q \in RequestRecord /\ q.caller \in Callers /\ q.key \in Keys /\ q.work = 0
    BY <1>2, <1>3, <1>4 DEF Stages, RequestRecord
  <2>2. MoveTo(r, q)
    BY <1>1 DEF q
  <2> QED BY <2>1, <2>2, RequestMoves DEF RateInv
<1>6. Paid(q) = 0
  BY <1>3 DEF Paid
<1>7. UNCHANGED <<bucket, ledger>>
  BY DEF Resolve
<1> QED BY <1>5, <1>6, <1>7, MoveKeeps

(* The records a request's steps go to.                                     *)
LEMMA AtStage ==
  ASSUME NEW q \in RequestRecord, NEW stage \in Stages, clock \in Nat
  PROVE  /\ At(q, stage) \in RequestRecord
         /\ At(q, stage).pc = stage /\ At(q, stage).key = q.key
         /\ At(q, stage).caller = q.caller /\ At(q, stage).work = q.work
         /\ \A w \in Nat : /\ [At(q, stage) EXCEPT !.work = w] \in RequestRecord
                           /\ [At(q, stage) EXCEPT !.work = w].pc = stage
                           /\ [At(q, stage) EXCEPT !.work = w].key = q.key
                           /\ [At(q, stage) EXCEPT !.work = w].caller = q.caller
                           /\ [At(q, stage) EXCEPT !.work = w].work = w
<1> DEFINE a == At(q, stage)
<1>1. /\ a \in RequestRecord
      /\ a.pc = stage /\ a.key = q.key /\ a.caller = q.caller /\ a.work = q.work
  <2>1. a = [[q EXCEPT !.pc = stage] EXCEPT !.now = 0]
    BY DEF At
  <2>2. 0 \in 0..clock
    OBVIOUS
  <2> DEFINE b == [q EXCEPT !.pc = stage]
  <2>3. /\ b \in RequestRecord /\ b.pc = stage
        /\ b.key = q.key /\ b.caller = q.caller /\ b.work = q.work
    BY DEF RequestRecord
  <2> HIDE DEF b
  <2>4. /\ [b EXCEPT !.now = 0] \in RequestRecord /\ [b EXCEPT !.now = 0].pc = b.pc
        /\ [b EXCEPT !.now = 0].key = b.key /\ [b EXCEPT !.now = 0].caller = b.caller
        /\ [b EXCEPT !.now = 0].work = b.work
    BY <2>2, <2>3 DEF RequestRecord
  <2> QED BY <2>1, <2>3, <2>4 DEF b
<1> HIDE DEF a
<1>2. ASSUME NEW w \in Nat
      PROVE  /\ [a EXCEPT !.work = w] \in RequestRecord
             /\ [a EXCEPT !.work = w].pc = stage
             /\ [a EXCEPT !.work = w].key = q.key
             /\ [a EXCEPT !.work = w].caller = q.caller
             /\ [a EXCEPT !.work = w].work = w
  BY <1>1 DEF RequestRecord
<1> QED BY <1>1, <1>2 DEF a

(* A request that ends has a record of its own kind.                        *)
LEMMA DoneStage ==
  ASSUME NEW q \in RequestRecord, NEW w \in Nat, clock \in Nat
  PROVE  /\ Done(q, w) \in RequestRecord /\ Done(q, w).pc = "done" /\ Done(q, w).work = w
         /\ w # 0 => Done(q, w).key = q.key
BY RateAssumption DEF Done, RequestRecord, Stages

(* The entry charge, with what the layer does after it.                     *)
LEMMA EnterKeeps ==
  ASSUME RateInv, UNCHANGED clock, NEW r \in Requests, Enter(r)
  PROVE  RateInv'
<1> USE RateAssumption DEF RateInv
<1> DEFINE q == req[r]
<1>1. PICK accepted \in BOOLEAN :
        Charge(r, 1, accepted) /\ MoveTo(r, IF accepted THEN AfterEntry(q) ELSE Done(q, 0))
  BY DEF Enter
<1>2. /\ q \in RequestRecord /\ q.pc = "enter" /\ q.work = 0 /\ clock \in Nat
      /\ q.caller \in Callers /\ q.key \in Keys
  BY DEF Enter, RequestShape, BucketShape
<1>3. \E p \in RequestRecord :
        /\ MoveTo(r, p)
        /\ p.pc \notin {"new", "done"} => p.caller \in Callers /\ p.key \in Keys
        /\ p.pc \notin {"closing", "close", "done"} => p.work = 0
        /\ Paid(p) <= IF accepted THEN 1 ELSE 0
        /\ p.key = q.key \/ Paid(p) = 0
  <2>1. CASE accepted /\ AfterEntry(q) = [At(q, "closing") EXCEPT !.work = 1]
    <3> DEFINE p == [At(q, "closing") EXCEPT !.work = 1]
    <3>1. /\ p \in RequestRecord /\ p.pc = "closing" /\ p.key = q.key
          /\ p.caller = q.caller /\ p.work = 1
      BY <1>2, AtStage DEF Stages
    <3>2. MoveTo(r, p)
      BY <1>1, <2>1
    <3> HIDE DEF p
    <3>3. Paid(p) = 1
      BY <3>1 DEF Paid
    <3> QED BY <1>2, <2>1, <3>1, <3>2, <3>3
  <2>2. CASE accepted /\ \E stage \in {"refund", "paying"} : AfterEntry(q) = At(q, stage)
    BY <1>1, <1>2, <2>2, AtStage DEF Paid, Stages
  <2>3. CASE ~ accepted
    <3> DEFINE p == Done(q, 0)
    <3>1. p \in RequestRecord /\ p.pc = "done" /\ p.work = 0 /\ MoveTo(r, p)
      BY <1>1, <1>2, <2>3, DoneStage
    <3> HIDE DEF p
    <3>2. Paid(p) = 0
      BY <3>1 DEF Paid
    <3> QED BY <2>3, <3>1, <3>2
  <2>4. \/ AfterEntry(q) = [At(q, "closing") EXCEPT !.work = 1]
        \/ \E stage \in {"refund", "paying"} : AfterEntry(q) = At(q, stage)
    BY <1>2 DEF AfterEntry, Shapes
  <2> QED BY <2>1, <2>2, <2>3, <2>4
<1>4. PICK p \in RequestRecord :
        /\ MoveTo(r, p)
        /\ p.pc \notin {"new", "done"} => p.caller \in Callers /\ p.key \in Keys
        /\ p.pc \notin {"closing", "close", "done"} => p.work = 0
        /\ Paid(p) <= IF accepted THEN 1 ELSE 0
        /\ p.key = q.key \/ Paid(p) = 0
  BY <1>3
<1>5. RequestShape' /\ req'[r] = p /\ \A s \in Requests \ {r} : req'[s] = req[s]
  BY <1>4, RequestMoves
<1>6. Paid(q) = 0
  BY <1>2 DEF Paid
<1>7. Paid(req'[r]) <= Paid(req[r]) + (IF accepted THEN 1 ELSE 0)
  BY <1>4, <1>5, <1>6
<1> QED BY <1>1, <1>2, <1>4, <1>5, <1>7, ChargeKeeps

(* The premium of a search of several queries.                              *)
LEMMA PayKeeps ==
  ASSUME RateInv, UNCHANGED clock, NEW r \in Requests, Pay(r)
  PROVE  RateInv'
<1> USE RateAssumption DEF RateInv
<1> DEFINE q == req[r]
           n == q.caller.extra
<1>1. PICK accepted \in BOOLEAN :
        /\ Charge(r, n, accepted)
        /\ MoveTo(r, IF accepted THEN [At(q, "closing") EXCEPT !.work = 1 + n] ELSE At(q, "naming"))
  BY DEF Pay
<1>2. /\ q \in RequestRecord /\ q.pc = "pay" /\ q.work = 0 /\ clock \in Nat
      /\ q.caller \in Callers /\ q.key \in Keys /\ n \in Nat
  BY DEF Pay, RequestShape, BucketShape
<1> HIDE DEF n
<1>3. \E p \in RequestRecord :
        /\ MoveTo(r, p)
        /\ p.caller \in Callers /\ p.key \in Keys
        /\ p.pc \notin {"closing", "close", "done"} => p.work = 0
        /\ Paid(p) <= 1 + IF accepted THEN n ELSE 0
        /\ p.key = q.key
  <2>1. CASE accepted
    <3> DEFINE p == [At(q, "closing") EXCEPT !.work = 1 + n]
    <3>1. /\ p \in RequestRecord /\ p.pc = "closing" /\ p.key = q.key
          /\ p.caller = q.caller /\ p.work = 1 + n
      BY <1>2, AtStage DEF Stages
    <3>2. MoveTo(r, p)
      BY <1>1, <2>1
    <3> HIDE DEF p
    <3>3. Paid(p) = 1 + n
      BY <3>1 DEF Paid
    <3> QED BY <1>2, <2>1, <3>1, <3>2, <3>3
  <2>2. CASE ~ accepted
    <3> DEFINE p == At(q, "naming")
    <3>1. /\ p \in RequestRecord /\ p.pc = "naming" /\ p.key = q.key
          /\ p.caller = q.caller /\ p.work = 0
      BY <1>2, AtStage DEF Stages
    <3>2. MoveTo(r, p)
      BY <1>1, <2>2
    <3> HIDE DEF p
    <3>3. Paid(p) = 0
      BY <3>1 DEF Paid
    <3> QED BY <1>2, <2>2, <3>1, <3>2, <3>3
  <2> QED BY <2>1, <2>2
<1>4. PICK p \in RequestRecord :
        /\ MoveTo(r, p)
        /\ p.caller \in Callers /\ p.key \in Keys
        /\ p.pc \notin {"closing", "close", "done"} => p.work = 0
        /\ Paid(p) <= 1 + IF accepted THEN n ELSE 0
        /\ p.key = q.key
  BY <1>3
<1>5. RequestShape' /\ req'[r] = p /\ \A s \in Requests \ {r} : req'[s] = req[s]
  BY <1>4, RequestMoves
<1>6. Paid(q) = 1
  BY <1>2 DEF Paid
<1>7. Paid(req'[r]) <= Paid(req[r]) + (IF accepted THEN n ELSE 0)
  BY <1>2, <1>4, <1>5, <1>6
<1> QED BY <1>1, <1>2, <1>4, <1>5, <1>7, ChargeKeeps

(* A charge of nothing, for the headers of an answer.                       *)
LEMMA PeekKeeps ==
  ASSUME RateInv, UNCHANGED clock, NEW r \in Requests, Name(r) \/ Close(r)
  PROVE  RateInv'
<1> USE RateAssumption DEF RateInv
<1> DEFINE q == req[r]
<1>1. /\ q \in RequestRecord /\ q.pc \in {"name", "close"} /\ clock \in Nat
      /\ q.caller \in Callers /\ q.key \in Keys /\ Charge(r, 0, TRUE)
      /\ q.pc = "name" => q.work = 0
  BY DEF Name, Close, RequestShape, BucketShape
<1>2. \E p \in RequestRecord :
        /\ MoveTo(r, p)
        /\ p.pc \in {"closing", "done"}
        /\ p.pc = "closing" => p.caller \in Callers /\ p.key \in Keys
        /\ Paid(p) <= Paid(q)
        /\ p.key = q.key \/ Paid(p) = 0
  <2>1. CASE Name(r)
    <3> DEFINE p == At(q, "closing")
    <3>1. /\ p \in RequestRecord /\ p.pc = "closing" /\ p.key = q.key
          /\ p.caller = q.caller /\ p.work = q.work
      BY <1>1, AtStage DEF Stages
    <3>2. MoveTo(r, p)
      BY <2>1 DEF Name
    <3> HIDE DEF p
    <3>3. Paid(p) = q.work /\ Paid(q) = q.work /\ q.work \in Nat
      BY <1>1, <3>1 DEF Paid, RequestRecord
    <3> QED BY <1>1, <3>1, <3>2, <3>3
  <2>2. CASE Close(r)
    <3> DEFINE p == Done(q, q.work)
    <3>1. q.work \in Nat
      BY <1>1 DEF RequestRecord
    <3>2. /\ p \in RequestRecord /\ p.pc = "done" /\ p.work = q.work
          /\ p.work # 0 => p.key = q.key
      BY <1>1, <3>1, DoneStage
    <3>3. MoveTo(r, p)
      BY <2>2 DEF Close
    <3> HIDE DEF p
    <3>4. Paid(p) = q.work /\ Paid(q) = q.work
      BY <1>1, <2>2, <3>2 DEF Paid, Close
    <3> QED BY <1>1, <3>1, <3>2, <3>3, <3>4
  <2> QED BY <2>1, <2>2
<1>3. PICK p \in RequestRecord :
        /\ MoveTo(r, p)
        /\ p.pc \in {"closing", "done"}
        /\ p.pc = "closing" => p.caller \in Callers /\ p.key \in Keys
        /\ Paid(p) <= Paid(q)
        /\ p.key = q.key \/ Paid(p) = 0
  BY <1>2
<1>4. RequestShape' /\ req'[r] = p /\ \A s \in Requests \ {r} : req'[s] = req[s]
  BY <1>3, RequestMoves
<1>5. Paid(q) \in Nat
  BY <1>1 DEF Paid, RequestRecord
<1>6. Paid(req'[r]) <= Paid(req[r]) + (IF TRUE THEN 0 ELSE 0)
  BY <1>3, <1>4, <1>5
<1> QED BY <1>1, <1>3, <1>4, <1>6, ChargeKeeps

(* A stage reads the clock: nothing is charged yet.                         *)
LEMMA SampleKeeps ==
  ASSUME RateInv, UNCHANGED clock, NEW r \in Requests, Sample(r)
  PROVE  RateInv'
<1> USE RateAssumption DEF RateInv
<1> DEFINE q == req[r]
<1>1. PICK stage \in {"pay", "name", "close"} :
        /\ MoveTo(r, [[q EXCEPT !.pc = stage] EXCEPT !.now = clock])
        /\ q.pc = IF stage = "pay" THEN "paying" ELSE IF stage = "name" THEN "naming" ELSE "closing"
        /\ UNCHANGED <<bucket, ledger>>
  BY DEF Sample
<1>2. /\ q \in RequestRecord /\ clock \in Nat /\ clock \in 0..clock
      /\ q.caller \in Callers /\ q.key \in Keys
      /\ q.pc \notin {"closing", "close", "done"} => q.work = 0
  BY <1>1 DEF RequestShape, BucketShape
<1> DEFINE b == [q EXCEPT !.pc = stage]
<1>3. b \in RequestRecord /\ b.pc = stage /\ b.key = q.key /\ b.caller = q.caller /\ b.work = q.work
  BY <1>2 DEF RequestRecord, Stages
<1> HIDE DEF b
<1> DEFINE p == [b EXCEPT !.now = clock]
<1>4. p \in RequestRecord /\ p.pc = stage /\ p.key = q.key /\ p.caller = q.caller /\ p.work = q.work
  BY <1>2, <1>3 DEF RequestRecord
<1>5. MoveTo(r, p)
  BY <1>1 DEF b
<1> HIDE DEF p
<1>6. RequestShape' /\ req'[r] = p /\ \A s \in Requests \ {r} : req'[s] = req[s]
  BY <1>1, <1>2, <1>4, <1>5, RequestMoves
<1>7. Paid(p) = Paid(q) /\ p.key = q.key
  BY <1>1, <1>4 DEF Paid
<1> QED BY <1>1, <1>6, <1>7, MoveKeeps

(* The refund of a search over the cap: one token less paid, one more left  *)
(* at most, whoever the bucket belongs to by now.                           *)
LEMMA RefundKeeps ==
  ASSUME RateInv, UNCHANGED clock, NEW r \in Requests, Refund(r)
  PROVE  RateInv'
<1> USE RateAssumption DEF RateInv
<1> DEFINE q == req[r]
           T == TicksPerSecond
<1>1. /\ q \in RequestRecord /\ q.pc = "refund" /\ q.work = 0 /\ clock \in Nat
      /\ q.caller \in Callers /\ q.limit \in 0..Ceiling
  BY DEF Refund, RequestShape, RequestRecord, BucketShape
<1>2. PICK k \in Keys : q.key = k
  BY <1>1 DEF Refund, RequestShape
<1> DEFINE p == At(q, "closing")
<1>3. /\ p \in RequestRecord /\ p.pc = "closing" /\ p.key = k /\ p.caller = q.caller /\ p.work = 0
      /\ MoveTo(r, p)
  BY <1>1, <1>2, AtStage DEF Stages, Refund
<1> HIDE DEF p
<1>4. RequestShape' /\ req'[r] = p /\ \A s \in Requests \ {r} : req'[s] = req[s]
  BY <1>1, <1>2, <1>3, RequestMoves
<1>5. Paid(q) = 1 /\ Paid(p) = 0
  BY <1>1, <1>3 DEF Paid
<1>6. ledger' = ledger
  BY DEF Refund
<1>7. CASE k \notin DOMAIN bucket
  <2>1. bucket' = bucket
    BY <1>2, <1>7 DEF Refund
  <2> QED BY <1>4, <1>5, <1>6, <2>1, MoveKeeps
<1>8. CASE k \in DOMAIN bucket
  <2> DEFINE t == bucket[k].tokens
             n == Min({t + T, Full(q.limit)})
  <2>1. bucket' = [bucket EXCEPT ![k].tokens = n]
    BY <1>2, <1>8 DEF Refund
  <2>2. t \in Nat /\ T \in Nat /\ Full(q.limit) \in Nat /\ Full(q.limit) <= Full(Ceiling) /\ Full(Ceiling) \in Nat
    BY <1>1, <1>8, Times DEF Full, BucketShape
  <2>3. n \in 0..Full(Ceiling) /\ n <= t + T
    <3>1. t + T \in Int
      BY <2>2
    <3>2. Min({t + T, Full(q.limit)}) = IF t + T <= Full(q.limit) THEN t + T ELSE Full(q.limit)
      BY <2>2, <3>1, MinOfTwo
    <3> HIDE DEF t, T
    <3> QED BY <2>2, <3>2
  <2>4. /\ DOMAIN bucket' = DOMAIN bucket
        /\ bucket'[k].tokens = n /\ bucket'[k].last = bucket[k].last
        /\ \A j \in DOMAIN bucket \ {k} : bucket'[j] = bucket[j]
    <3> HIDE DEF n
    <3> QED BY <1>8, <2>1 DEF BucketShape
  <2>5. BucketShape'
    <3>1. bucket' \in [DOMAIN bucket' -> [tokens : 0..Full(Ceiling), last : 0..clock]]
      <4> HIDE DEF n
      <4> QED BY <1>8, <2>1, <2>3 DEF BucketShape
    <3>2. \A j \in DOMAIN bucket' : bucket'[j].last = bucket[j].last
      BY <2>4
    <3> QED BY <1>6, <2>4, <3>1, <3>2 DEF BucketShape
  <2>6. k \in DOMAIN ledger /\ DOMAIN ledger' = DOMAIN ledger \cup {k}
    BY <1>6, <1>8 DEF BucketShape
  <2>7. \A j \in DOMAIN ledger \ {k} : Left(j)' = Left(j) /\ Span(j)' = Span(j)
    BY <1>6, <2>4 DEF Left, Span
  <2>8. Left(k)' = n /\ Left(k) = t /\ Span(k)' = Span(k) /\ Span(k) \in Int
    BY <1>6, <1>8, <2>4, <2>6 DEF Left, Span, BucketShape
  <2> HIDE DEF n, t
  <2>9. Left(k)' + T * (-1) <= Left(k) + 0
    BY <2>2, <2>3, <2>8
  <2>10. 0 <= Ceiling * (Span(k)' - Span(k))
    BY <2>8
  <2>11. Paid(req'[r]) <= Paid(req[r]) + (-1) /\ req'[r].key = k /\ req[r].key = k
    BY <1>2, <1>3, <1>4, <1>5
  <2>12. -1 \in Int /\ 0 \in Int
    OBVIOUS
  <2> QED BY <1>4, <2>5, <2>6, <2>7, <2>8, <2>9, <2>10, <2>11, <2>12, BalanceKeeps
<1> QED BY <1>7, <1>8

(* The reaper: only a bucket a full burst behind goes, so that a new one    *)
(* gives nothing that time had not given.                                   *)
LEMMA ReapKeeps ==
  ASSUME RateInv, UNCHANGED clock, Reap
  PROVE  RateInv'
<1> USE RateAssumption DEF RateInv
<1>1. PICK now \in 0..clock :
        LET gone == {k \in DOMAIN bucket : Idle(bucket[k], now)}
        IN /\ bucket' = Restrict(bucket, DOMAIN bucket \ gone)
           /\ ledger' = [k \in DOMAIN ledger |->
                           IF k \in gone /\ now > ledger[k].high
                             THEN [ledger[k] EXCEPT !.high = now] ELSE ledger[k]]
  BY DEF Reap
<1> DEFINE gone == {k \in DOMAIN bucket : Idle(bucket[k], now)}
<1>2. /\ DOMAIN bucket' = DOMAIN bucket \ gone
      /\ \A k \in DOMAIN bucket' : bucket'[k] = bucket[k]
      /\ bucket' = [k \in DOMAIN bucket \ gone |-> bucket[k]]
  BY <1>1 DEF Restrict
<1>3. /\ DOMAIN ledger' = DOMAIN ledger
      /\ \A k \in DOMAIN ledger :
           /\ ledger'[k] \in [since : Nat, late : Nat, high : 0..clock]
           /\ ledger'[k].since = ledger[k].since /\ ledger'[k].late = ledger[k].late
           /\ ledger[k].high <= ledger'[k].high
           /\ k \in gone => now <= ledger'[k].high
           /\ k \notin gone => ledger'[k] = ledger[k]
      /\ ledger' = [k \in DOMAIN ledger |-> ledger'[k]]
  <2>1. \A k \in DOMAIN ledger : ledger[k] \in [since : Nat, late : Nat, high : 0..clock] /\ clock \in Nat
    BY DEF BucketShape
  <2>2. ledger' = [k \in DOMAIN ledger |->
                     IF k \in gone /\ now > ledger[k].high
                       THEN [ledger[k] EXCEPT !.high = now] ELSE ledger[k]]
    BY <1>1
  <2> HIDE DEF gone
  <2> QED BY <2>1, <2>2
<1> HIDE DEF gone
<1>4. BucketShape'
  BY <1>2, <1>3 DEF BucketShape
<1>5. RequestShape' /\ req' = req
  BY DEF Reap, RequestShape, RequestRecord
<1>6. \A r \in Requests : Paid(req'[r]) = 0 \/ req'[r].key \in DOMAIN ledger'
  BY <1>3, <1>5
<1>7. ASSUME NEW k \in DOMAIN ledger PROVE Balanced(k)'
  <2>1. Spent(k)' = Spent(k) /\ Spent(k) \in Nat
    <3>1. PaidTo(k)' = PaidTo(k)
      BY <1>5 DEF PaidTo
    <3>2. PaidTo(k) \in [Requests -> Nat]
      BY DEF PaidTo, Paid, RequestShape, RequestRecord
    <3> QED BY <3>1, <3>2, SpentType DEF Spent
  <2>2. TicksPerSecond * Spent(k) + Left(k) <= Ceiling * Span(k)
    BY DEF Balanced
  <2>3. CASE k \notin gone
    <3>1. Left(k)' = Left(k) /\ Span(k)' = Span(k)
      BY <1>2, <1>3, <2>3 DEF Left, Span
    <3> QED BY <2>1, <2>2, <3>1 DEF Balanced
  <2>4. CASE k \in gone
    <3>1. /\ k \in DOMAIN bucket /\ bucket[k].last \in 0..clock /\ bucket[k].tokens \in Nat
          /\ k \notin DOMAIN bucket' /\ clock \in Nat
      BY <1>2, <2>4 DEF gone, BucketShape, Full
    <3>2. now - bucket[k].last >= TicksPerSecond
      BY <1>1, <2>4, <3>1 DEF gone, Idle, Elapsed
    <3>3. /\ Left(k) \in Nat /\ Left(k)' = 0
          /\ Span(k) = ((TicksPerSecond + bucket[k].last) - ledger[k].since) + ledger[k].late
          /\ Span(k)' = (ledger'[k].high - ledger[k].since) + ledger[k].late
      BY <1>3, <3>1 DEF Left, Span
    <3>4. /\ ledger[k].since \in Nat /\ ledger[k].late \in Nat /\ ledger'[k].high \in Nat
          /\ now <= ledger'[k].high
      BY <1>3, <2>4, <3>1 DEF BucketShape
    <3>5. Span(k)' - Span(k) \in Nat /\ Span(k) \in Int /\ Span(k)' \in Int
      BY <3>1, <3>2, <3>3, <3>4
    <3>6. 0 <= Ceiling * (Span(k)' - Span(k))
      BY <3>5, Times
    <3> DEFINE S == Spent(k)
               S2 == Spent(k)'
               L == Left(k)
               L2 == Left(k)'
               A == Span(k)
               A2 == Span(k)'
    <3>7. /\ S \in Int /\ S2 \in Int /\ L \in Int /\ L2 \in Int /\ A \in Int /\ A2 \in Int
          /\ TicksPerSecond * S + L <= Ceiling * A /\ S2 <= S + 0
          /\ L2 + TicksPerSecond * 0 <= L + 0 /\ 0 <= Ceiling * (A2 - A)
      BY <2>1, <2>2, <3>3, <3>5, <3>6
    <3>8. TicksPerSecond * S2 + L2 <= Ceiling * A2
      <4> HIDE DEF S, S2, L, L2, A, A2
      <4>1. 0 \in Int
        OBVIOUS
      <4> QED BY <3>7, <4>1, Rises
    <3> QED BY <3>8 DEF Balanced
  <2> QED BY <2>3, <2>4
<1> QED BY <1>3, <1>4, <1>5, <1>6, <1>7

(* A restart forgets buckets, requests and what they were paid for.         *)
LEMMA RebootKeeps ==
  ASSUME RateInv, Reboot
  PROVE  RateInv'
<1> USE RateAssumption DEF RateInv
<1>1. bucket' = <<>> /\ ledger' = <<>> /\ clock' = clock /\ clock \in Nat
      /\ req' = [r \in Requests |-> IF req[r].pc = "new" THEN req[r] ELSE Done(req[r], 0)]
  BY DEF Reboot, BucketShape
<1>2. DOMAIN bucket' = {} /\ DOMAIN ledger' = {}
  BY <1>1
<1>3. BucketShape'
  BY <1>1, <1>2 DEF BucketShape
<1>4. ASSUME NEW r \in Requests
      PROVE  /\ req'[r] \in RequestRecord /\ req'[r].pc \in {"new", "done"}
             /\ req'[r].work = 0 /\ Paid(req'[r]) = 0
  <2>1. CASE req[r].pc = "new"
    BY <1>1, <2>1 DEF RequestShape, Paid
  <2>2. CASE req[r].pc # "new"
    <3>1. req'[r] = Done(req[r], 0) /\ req[r] \in RequestRecord
      BY <1>1, <2>2 DEF RequestShape
    <3>2. req'[r] \in RequestRecord /\ req'[r].pc = "done" /\ req'[r].work = 0
      BY <1>1, <3>1, DoneStage
    <3> QED BY <3>2 DEF Paid
  <2> QED BY <2>1, <2>2
<1>5. RequestShape'
  <2>1. RequestRecord' = RequestRecord
    BY <1>1 DEF RequestRecord
  <2>2. req' \in [Requests -> RequestRecord]
    BY <1>1, <1>4
  <2> QED BY <1>4, <2>1, <2>2 DEF RequestShape
<1> QED BY <1>2, <1>3, <1>4, <1>5

(* Time passes, or the overrides change: buckets and requests stay.         *)
LEMMA IdleKeeps ==
  ASSUME RateInv, UNCHANGED rateVars, clock' \in Nat, clock <= clock'
  PROVE  RateInv'
<1> USE RateAssumption DEF RateInv, rateVars
<1>1. 0..clock \subseteq 0..clock'
  BY DEF BucketShape
<1>2. RequestShape'
  BY <1>1 DEF RequestShape, RequestRecord
<1>3. BucketShape'
  BY <1>1 DEF BucketShape
<1>4. \A k \in DOMAIN ledger : Balanced(k)'
  BY DEF Balanced, Spent, PaidTo, Left, Span
<1> QED BY <1>2, <1>3, <1>4

(* At boot nothing is charged and nothing was paid.                         *)
LEMMA InitRate == RateInit => RateInv
<1> SUFFICES ASSUME RateInit PROVE RateInv
  OBVIOUS
<1> USE RateAssumption DEF RateInit
<1>1. DOMAIN bucket = {} /\ DOMAIN ledger = {}
  OBVIOUS
<1>2. BucketShape
  BY <1>1 DEF BucketShape
<1>3. RequestShape
  BY DEF RequestShape, RequestRecord, NoReq, Stages
<1>4. \A r \in Requests : Paid(req[r]) = 0
  BY DEF Paid, NoReq
<1> QED BY <1>1, <1>2, <1>3, <1>4 DEF RateInv

(* Every step keeps the balance of every key.                               *)
LEMMA NextRate == RateInv /\ OverridesInv /\ [RateNext]_limiterVars => RateInv'
<1> SUFFICES ASSUME RateInv, OverridesInv, [RateNext]_limiterVars PROVE RateInv'
  OBVIOUS
<1>0. clock \in Nat /\ clock <= clock
  BY DEF RateInv, BucketShape
<1>1. CASE UNCHANGED rateVars /\ (Advance \/ UNCHANGED clock)
  <2>1. clock' \in Nat /\ clock <= clock'
    BY <1>0, <1>1 DEF Advance
  <2> QED BY <1>1, <2>1, IdleKeeps
<1>2. CASE Reboot
  BY <1>2, RebootKeeps
<1>3. CASE \E r \in Requests : RequestStep(r) /\ UNCHANGED <<clock, overrideVars>>
  <2>1. PICK r \in Requests : RequestStep(r) /\ UNCHANGED clock
    BY <1>3
  <2> QED BY <2>1, ResolveKeeps, EnterKeeps, RefundKeeps, SampleKeeps, PayKeeps, PeekKeeps
          DEF RequestStep
<1>4. CASE Reap /\ UNCHANGED <<clock, overrideVars>>
  BY <1>4, ReapKeeps
<1> QED BY <1>1, <1>2, <1>3, <1>4 DEF RateNext, limiterVars

(* Each key's payments and what its bucket has left stay within the highest *)
(* limit over the time its charges have seen.                               *)
THEOREM RateInvariant == RateSpec => []RateInv
BY InitRate, NextRate, OverridesInvariant, RateSafety, PTL

(* Buckets, ledgers and requests keep their types.                          *)
THEOREM RateTypes == RateSpec => []RateTypeOK
<1>1. RateInv => RateTypeOK
  BY DEF RateInv, RequestShape, RequestRecord, BucketShape, RateTypeOK
<1> QED BY <1>1, RateInvariant, PTL

(* Work is done only for what was paid, so the balance bounds it.           *)
LEMMA WorkPaid == RateInv => WorkIsBounded
<1> SUFFICES ASSUME RateInv, NEW k \in DOMAIN ledger
             PROVE TicksPerSecond * Work(k)
                     <= Ceiling * (TicksPerSecond + (clock - ledger[k].since) + ledger[k].late)
  BY DEF WorkIsBounded
<1> USE RateAssumption DEF RateInv
<1> DEFINE f == [r \in Requests |-> req[r].work]
           Q == {r \in Requests : req[r].key = k}
<1>1. Work(k) \in Nat /\ Spent(k) \in Nat /\ Work(k) <= Spent(k)
  <2> DEFINE g == PaidTo(k)
  <2>1. f \in [Requests -> Nat] /\ g \in [Requests -> Nat] /\ \A r \in Q : f[r] <= g[r]
    BY DEF RequestShape, RequestRecord, PaidTo, Paid
  <2>2. Q \in SUBSET Requests /\ IsFiniteSet(Q)
    BY FS_Subset
  <2>3. Work(k) = SumFunctionOnSet(f, Q) /\ Spent(k) = SumFunctionOnSet(g, Requests)
    BY DEF Work, Spent
  <2> HIDE DEF f, g, Q
  <2>4. (\A r \in Q : f[r] \in Nat) /\ (\A r \in Q : f[r] \in Nat /\ f[r] <= g[r]) /\ \A r \in Requests : g[r] \in Nat
    BY <2>1, <2>2
  <2>5. SumFunctionOnSet(f, Q) \in Nat
    BY <2>2, <2>4, SumNat
  <2>6. SumFunctionOnSet(f, Q) <= SumFunctionOnSet(g, Requests)
    BY <2>2, <2>4, SumMonotone
  <2> QED BY <2>1, <2>3, <2>5, <2>6, SpentType
<1>2. TicksPerSecond * Spent(k) + Left(k) <= Ceiling * Span(k)
  BY DEF Balanced
<1>3. Left(k) \in Nat /\ Span(k) \in Int
  BY DEF Left, Span, BucketShape, Full
<1> DEFINE A == TicksPerSecond + (clock - ledger[k].since) + ledger[k].late
<1>4. A \in Int /\ Span(k) <= A
  BY DEF Span, BucketShape
<1> DEFINE sp == Span(k)
           w == Work(k)
           s == Spent(k)
<1>5. A - sp \in Nat /\ sp \in Int /\ w \in Nat /\ s \in Nat /\ w <= s
  BY <1>1, <1>3, <1>4
<1>6. TicksPerSecond * s + Left(k) <= Ceiling * sp
  BY <1>2
<1> HIDE DEF A, sp, w, s
<1>7. 0 <= Ceiling * (A - sp)
  BY <1>4, <1>5, Times
<1>8. TicksPerSecond * w + 0 <= Ceiling * A
  <2>1. w \in Int /\ s \in Int /\ 0 \in Int /\ Left(k) \in Int /\ A \in Int
    BY <1>3, <1>4, <1>5
  <2>2. w <= s + 0 /\ 0 + TicksPerSecond * 0 <= Left(k) + 0
    BY <1>3, <1>5
  <2> QED BY <1>5, <1>6, <1>7, <2>1, <2>2, Rises
<1>9. TicksPerSecond * w + 0 = TicksPerSecond * w
  BY <1>5, Times
<1> QED BY <1>8, <1>9 DEF A, w

(* For any set of requests, any limits and clock: the work done for a key   *)
(* fits in one burst plus the rate since its first charge, and the delay of *)
(* the charges that came late.                                              *)
THEOREM WorkBounded == RateSpec => []WorkIsBounded
BY WorkPaid, RateInvariant, PTL
=============================================================================
