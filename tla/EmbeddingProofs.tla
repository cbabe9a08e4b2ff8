-------------------------- MODULE EmbeddingProofs ---------------------------
(***************************************************************************)
(* Proofs about TokenLimiter, for every set of subjects and requests,      *)
(* every limit, every length of the windows and every bound of the clock;  *)
(* and about Corpus, for every set of sources, models, runs and corpora    *)
(* the system may start with, and any number of rollbacks and faults.      *)
(***************************************************************************)
EXTENDS TokenLimiter, Corpus, CollectionTheorems

(* The initial state satisfies the inductive invariant: nothing is in use. *)
LEMMA InitIInv == Init => IInv
<1> SUFFICES ASSUME Init PROVE IInv
  OBVIOUS
<1> USE ClockAssumption DEF Init, Empty, NoSnap
<1>1. TypeOK
  <2>1. snap \in [phase : {"idle", "writing", "evicting"}, now : 0..MaxClock,
                  rows : SUBSET Rows, evict : SUBSET Subjects]
    OBVIOUS
  <2>2. [b \in Buckets |-> 0] \in [Buckets -> Nat]
    OBVIOUS
  <2>3. /\ minutes \in [Subjects -> [Buckets -> Nat]]
        /\ hours \in [Subjects -> [Buckets -> Nat]]
        /\ db \in [Subjects -> [Buckets -> Nat]]
        /\ consumed \in [Subjects -> [Buckets -> Nat]]
        /\ globalMinutes \in [Buckets -> Nat]
    BY <2>2
  <2>4. /\ call \in [Requests -> Calls \cup {NoCall}]
        /\ \A r \in Requests : call[r] = NoCall <=> stage[r] = "idle"
        /\ stage \in [Requests -> {"idle", "arrived", "calling", "settled", "dropped"}]
    OBVIOUS
  <2>5. clock \in 0..MaxClock /\ crashes \in 0..MaxCrashes
    OBVIOUS
  <2>7. serving \in BOOLEAN /\ lossy \in BOOLEAN /\ globalReserved \in SUBSET Requests
    OBVIOUS
  <2>6. reserved \in [Subjects -> SUBSET Requests] /\ lastSeen \in [Subjects -> 0..MaxClock]
    OBVIOUS
  <2> HIDE DEF Init, Empty, NoSnap
  <2> QED BY <2>1, <2>3, <2>4, <2>5, <2>6, <2>7 DEF TypeOK, Instants
<1>2. Deadlines /\ DownIsEmpty /\ InFlightReserved
  BY DEF Deadlines, DownIsEmpty, InFlightReserved, Timely, InFlight
<1>3. NeverOvercharged
  BY DEF NeverOvercharged, Buckets
<1> QED BY <1>1, <1>2, <1>3 DEF IInv

(* A prune yields buckets, and never raises one.                           *)
LEMMA Pruned ==
  ASSUME NEW usage \in [Buckets -> Nat], NEW now
  PROVE  /\ PruneMinutes(usage, now) \in [Buckets -> Nat]
         /\ PruneHours(usage, now) \in [Buckets -> Nat]
         /\ \A b \in Buckets : PruneHours(usage, now)[b] <= usage[b]
BY DEF PruneMinutes, PruneHours, Buckets

(* A charge yields buckets, whether or not the bucket is within range.     *)
LEMMA Charged ==
  ASSUME NEW usage \in [Buckets -> Nat], NEW b, NEW n \in Nat
  PROVE  Charge(usage, b, n) \in [Buckets -> Nat]
<1>1. CASE b \in Buckets
  <2>1. usage[b] + n \in Nat
    BY <1>1
  <2> QED BY <2>1 DEF Charge
<1>2. CASE b \notin Buckets
  BY <1>2 DEF Charge
<1> QED BY <1>1, <1>2

(* Each step of a request preserves the types.                             *)
LEMMA HandleTypeOK ==
  ASSUME TypeOK, NEW r \in Requests, Handle(r)
  PROVE  TypeOK'
<1> USE ClockAssumption, AmountAssumption
    DEF TypeOK, Instants, process, subjectUsage, globalUsage, requests
<1>1. CASE Arrive(r)
  <2>1. PICK c \in Calls : call' = [call EXCEPT ![r] = c]
    BY <1>1 DEF Arrive
  <2>2. c # NoCall
    BY <2>1, NoCallAssumption DEF Calls
  <2> QED BY <1>1, <2>1, <2>2 DEF Arrive
<1>2. ASSUME stage[r] # "idle"
      PROVE  call[r] \in Calls /\ call[r].subject \in Subjects /\ call[r].now \in Instants
  BY <1>2 DEF Calls
<1>3. CASE Admit(r)
  <2>1. PruneGlobal(call[r].now) \in [Buckets -> Nat]
    BY DEF PruneGlobal
  <2>2. Unexpired(globalReserved, call[r].now) \subseteq Requests
    BY DEF Unexpired
  <2>3. \A s \in Subjects : Unexpired(reserved[s], call[r].now) \subseteq Requests
    BY DEF Unexpired
  <2> QED BY <1>2, <1>3, <2>1, <2>2, <2>3, Pruned DEF Admit, PruneBuckets
<1>4. CASE Refuse(r)
  <2>1. PruneGlobal(call[r].now) \in [Buckets -> Nat]
    BY DEF PruneGlobal
  <2>2. Unexpired(globalReserved, call[r].now) \subseteq Requests
    BY DEF Unexpired
  <2>3. \A s \in Subjects : Unexpired(reserved[s], call[r].now) \subseteq Requests
    BY DEF Unexpired
  <2> QED BY <1>2, <1>4, <2>1, <2>2, <2>3, Pruned DEF Refuse, PruneBuckets
<1>5. CASE Settle(r)
  <2>0. call[r] \in Calls
    BY <1>2, <1>5 DEF Settle
  <2>1. PICK n \in Amounts :
          /\ minutes' = [minutes EXCEPT ![call[r].subject] =
               Charge(PruneMinutes(@, call[r].now), MinuteOf(call[r].now), n)]
          /\ hours' = [hours EXCEPT ![call[r].subject] =
               Charge(PruneHours(@, call[r].now), HourOf(call[r].now), n)]
          /\ globalMinutes' = IF call[r].bypass THEN globalMinutes
                              ELSE Charge(globalMinutes, MinuteOf(call[r].now), n)
          /\ call' = [call EXCEPT ![r].tokens = n]
          /\ consumed' = [consumed EXCEPT ![call[r].subject] =
               Charge(@, HourOf(call[r].now), n)]
    BY <1>5 DEF Settle
  <2>2. n \in Nat
    OBVIOUS
  <2>3. /\ minutes' \in [Subjects -> [Buckets -> Nat]]
        /\ hours' \in [Subjects -> [Buckets -> Nat]]
        /\ globalMinutes' \in [Buckets -> Nat]
        /\ consumed' \in [Subjects -> [Buckets -> Nat]]
    BY <2>1, <2>2, Pruned, Charged
  <2>4. call'[r] \in Calls /\ call' \in [Requests -> Calls \cup {NoCall}]
    BY <2>0, <2>1 DEF Calls
  <2>5. call'[r] # NoCall /\ \A q \in Requests \ {r} : call'[q] = call[q]
    BY <2>1, <2>4, NoCallAssumption DEF Calls
  <2>6. \A s \in Subjects : Unexpired(reserved[s], call[r].now) \subseteq Requests
    BY DEF Unexpired
  <2>7. reserved' \in [Subjects -> SUBSET Requests] /\ globalReserved' \subseteq Requests
    BY <1>5, <2>6 DEF Settle
  <2>8. lastSeen' \in [Subjects -> 0..MaxClock]
    BY <1>2, <1>5 DEF Settle
  <2> QED BY <1>5, <2>3, <2>4, <2>5, <2>7, <2>8 DEF Settle
<1>6. CASE Release(r)
  BY <1>6 DEF Release
<1>7. CASE Drop(r)
  BY <1>7 DEF Drop
<1> QED BY <1>1, <1>3, <1>4, <1>5, <1>6, <1>7 DEF Handle

(* Time, the snapshot job and the restart preserve the types.              *)
LEMMA JobTypeOK == TypeOK /\ (Tick \/ Snapshot \/ Restart) => TypeOK'
<1> SUFFICES ASSUME TypeOK, Tick \/ Snapshot \/ Restart PROVE TypeOK'
  OBVIOUS
<1> USE ClockAssumption
    DEF TypeOK, Instants, process, subjectUsage, globalUsage, requests
<1>1. CASE Tick
  BY <1>1 DEF Tick
<1>2. CASE SnapCopy
  <2>1. snap'.rows \subseteq Rows
    BY <1>2 DEF SnapCopy, Rows
  <2> QED BY <1>2, <2>1 DEF SnapCopy
<1>3. CASE SnapUpsert
  <2>1. PICK row \in snap.rows :
          /\ db' = [db EXCEPT ![row.subject][row.hour] = row.tokens]
          /\ snap' = [snap EXCEPT !.rows = @ \ {row}]
    BY <1>3 DEF SnapUpsert
  <2>2. row.tokens \in Nat
    BY DEF Rows
  <2>3. db' \in [Subjects -> [Buckets -> Nat]]
    BY <2>1, <2>2
  <2> QED BY <1>3, <2>1, <2>3 DEF SnapUpsert
<1>4. CASE SnapPrune
  BY <1>4 DEF SnapPrune
<1>5. CASE SnapEvict
  BY <1>5 DEF SnapEvict, Empty, NoSnap
<1>6. CASE SnapFail
  BY <1>6 DEF SnapFail, NoSnap
<1>7. CASE Crash
  <2>1. snap' \in [phase : {"idle", "writing", "evicting"}, now : 0..MaxClock,
                   rows : SUBSET Rows, evict : SUBSET Subjects]
    BY <1>7 DEF Crash, NoSnap
  <2>2. /\ minutes' \in [Subjects -> [Buckets -> Nat]]
        /\ hours' \in [Subjects -> [Buckets -> Nat]]
        /\ globalMinutes' \in [Buckets -> Nat]
    <3>1. [b \in Buckets |-> 0] \in [Buckets -> Nat]
      OBVIOUS
    <3> QED BY <1>7, <3>1 DEF Crash, Empty
  <2>3. /\ reserved' \in [Subjects -> SUBSET Requests]
        /\ lastSeen' \in [Subjects -> 0..MaxClock]
        /\ globalReserved' \subseteq Requests
    BY <1>7 DEF Crash
  <2>4. /\ call' \in [Requests -> Calls \cup {NoCall}]
        /\ \A r \in Requests : call'[r] = NoCall <=> stage'[r] = "idle"
        /\ stage' \in [Requests -> {"idle", "arrived", "calling", "settled", "dropped"}]
    BY <1>7 DEF Crash
  <2>5. UNCHANGED <<clock, lossy, db, consumed>> /\ serving' \in BOOLEAN
    BY <1>7 DEF Crash
  <2>6. crashes' \in 0..MaxCrashes
    BY <1>7 DEF Crash
  <2> QED BY <2>1, <2>2, <2>3, <2>4, <2>5, <2>6
<1>8. CASE LoadFromDb
  <2>1. hours' \in [Subjects -> [Buckets -> Nat]]
    <3>1. \A s \in Subjects, h \in Buckets :
            hours[s][h] + (IF LiveHour(h, clock) THEN db[s][h] ELSE 0) \in Nat
      OBVIOUS
    <3> QED BY <1>8, <3>1 DEF LoadFromDb
  <2>2. lastSeen' \in [Subjects -> 0..MaxClock]
    BY <1>8 DEF LoadFromDb
  <2> QED BY <1>8, <2>1, <2>2 DEF LoadFromDb
<1>9. CASE LoadFail
  BY <1>9 DEF LoadFail
<1> QED BY <1>1, <1>2, <1>3, <1>4, <1>5, <1>6, <1>7, <1>8, <1>9 DEF Snapshot, Restart

(* Each step preserves the types.                                          *)
LEMMA NextTypeOK == TypeOK /\ [Next]_vars => TypeOK'
<1>1. ASSUME TypeOK, UNCHANGED vars PROVE TypeOK'
  BY <1>1 DEF TypeOK, vars, process, subjectUsage, globalUsage, requests
<1> QED BY <1>1, HandleTypeOK, JobTypeOK DEF Next, Serve

(* The limiter, the requests and the snapshot always have their types.     *)
THEOREM TypeCorrect == Spec => []TypeOK
<1>1. Init => TypeOK
  BY InitIInv DEF IInv
<1> QED BY <1>1, NextTypeOK, PTL DEF Spec

-----------------------------------------------------------------------------
(* Reservations.                                                           *)

\* A subject does not count as idle within two timeouts (a day and two times two
\* minutes).  Nothing is assumed of the TTL: a call may well outlive it.
IdleOutlastsTimeouts == 2 * CallTimeout <= IdleSecs

(* What a request being handled looks like.                                *)
LEMMA OpenCall ==
  ASSUME TypeOK, NEW r \in Requests, stage[r] # "idle"
  PROVE  /\ call[r] \in Calls /\ call[r] # NoCall
         /\ call[r].subject \in Subjects
         /\ call[r].now \in Instants /\ call[r].now \in Int
BY ClockAssumption DEF TypeOK, Calls, Instants

(* A prune at an instant a request may hold, be it late or early, retains   *)
(* the reservation of every request in flight that is not older than the    *)
(* TTL.                                                                    *)
LEMMA LiveUnexpired ==
  ASSUME TypeOK, NEW q \in Timely, NEW now \in Int, now <= clock,
         NEW rs, q \in rs
  PROVE  q \in Unexpired(rs, now)
<1>1. q \in Requests /\ stage[q] = "calling" /\ call[q].now >= clock - Ttl
  BY DEF Timely, InFlight
<1>2. call[q].now \in Int
  BY <1>1, OpenCall
<1>3. clock \in Int /\ Ttl \in Int
  BY ClockAssumption DEF TypeOK, Instants
<1> QED BY <1>1, <1>2, <1>3 DEF Unexpired

(* Each step keeps every request within its deadline and its subject       *)
(* recently seen.                                                          *)
LEMMA NextDeadlines ==
  ASSUME TypeOK, TypeOK', Deadlines, DownIsEmpty, IdleOutlastsTimeouts, Next
  PROVE  Deadlines'
<1> USE ClockAssumption DEF Instants, process, subjectUsage, globalUsage, requests
<1>0. clock \in Int /\ clock' \in Int /\ snap.now \in Int /\ snap'.now \in Int
  BY DEF TypeOK
<1>1. ASSUME NEW r \in Requests, Handle(r) PROVE Deadlines'
  <2>0. clock' = clock /\ snap' = snap
    BY <1>1 DEF Handle, Arrive, Admit, Refuse, Settle, Release, Drop
  <2>1. \A q \in Requests \ {r} : stage'[q] = stage[q] /\ call'[q] = call[q]
    BY <1>1 DEF TypeOK, Handle, Arrive, Admit, Refuse, Settle, Release, Drop
  <2>2. stage'[r] \in {"arrived", "calling"} =>
          call'[r].now <= clock /\ clock <= call'[r].now + CallTimeout
    <3>1. CASE Arrive(r)
      <4>1. PICK c \in Calls : c.now = clock /\ call' = [call EXCEPT ![r] = c]
        BY <3>1 DEF Arrive
      <4> QED BY <1>0, <4>1 DEF TypeOK
    <3>2. CASE Admit(r)
      BY <3>2 DEF Admit, TypeOK, Deadlines
    <3>3. CASE Refuse(r) \/ Settle(r) \/ Release(r) \/ Drop(r)
      BY <3>3 DEF Refuse, Settle, Release, Drop, TypeOK
    <3> QED BY <1>1, <3>1, <3>2, <3>3 DEF Handle
  <2>3. ASSUME NEW q \in InFlight'
        PROVE  lastSeen'[call'[q].subject] >= call'[q].now - CallTimeout
    <3>0. q \in Requests /\ stage'[q] = "calling"
      BY DEF InFlight
    <3>1. CASE Arrive(r) \/ Refuse(r) \/ Release(r) \/ Drop(r)
      <4>1. q # r /\ q \in InFlight /\ lastSeen' = lastSeen
        BY <2>1, <3>0, <3>1 DEF Arrive, Refuse, Release, Drop, TypeOK, InFlight
      <4> QED BY <2>1, <4>1 DEF Deadlines, InFlight
    <3>2. CASE Admit(r) \/ Settle(r)
      <4>1. call[r] \in Calls /\ call[r].subject \in Subjects /\ call[r].now \in Int
        BY <3>2, OpenCall DEF Admit, Settle
      <4>2. lastSeen' = [lastSeen EXCEPT ![call[r].subject] = call[r].now]
        BY <3>2 DEF Admit, Settle
      <4>3. clock <= call[r].now + CallTimeout
        BY <3>2 DEF Admit, Settle, Deadlines
      <4>4. stage[q] \in {"arrived", "calling"} /\ call'[q] = call[q] /\ (q # r => q \in InFlight)
        BY <2>1, <3>0, <3>2 DEF Admit, Settle, TypeOK, InFlight
      <4>5. call[q].subject \in Subjects /\ call[q].now \in Int /\ call[q].now <= clock
        BY <4>4, <3>0, OpenCall DEF Deadlines
      <4>6. CASE call[q].subject = call[r].subject
        <5>1. lastSeen'[call[q].subject] = call[r].now
          BY <4>1, <4>2, <4>6 DEF TypeOK
        <5> QED BY <1>0, <4>1, <4>3, <4>4, <4>5, <5>1
      <4>7. CASE call[q].subject # call[r].subject
        <5>1. q # r /\ q \in InFlight
          BY <4>4, <4>7
        <5>2. lastSeen'[call[q].subject] = lastSeen[call[q].subject]
          BY <4>2, <4>5, <4>7 DEF TypeOK
        <5> QED BY <4>4, <5>1, <5>2 DEF Deadlines
      <4> QED BY <4>6, <4>7
    <3> QED BY <1>1, <3>1, <3>2 DEF Handle
  <2>4. \A q \in Requests : stage'[q] \in {"arrived", "calling"} =>
          call'[q].now <= clock' /\ clock' <= call'[q].now + CallTimeout
    BY <2>0, <2>1, <2>2 DEF Deadlines
  <2> QED BY <2>0, <2>3, <2>4 DEF Deadlines
<1>2. CASE Tick
  <2>1. \A q \in Requests : stage[q] \in {"arrived", "calling"} => call[q].now \in Int
    BY OpenCall
  <2> QED BY <1>0, <1>2, <2>1 DEF Tick, Deadlines, InFlight
<1>3. CASE SnapCopy \/ SnapUpsert \/ SnapPrune \/ SnapFail
  <2>1. clock' = clock /\ lastSeen' = lastSeen /\ stage' = stage /\ call' = call
    BY <1>3 DEF SnapCopy, SnapUpsert, SnapPrune, SnapFail
  <2>2. snap'.now \in {0, clock, snap.now}
    <3>1. CASE SnapUpsert
      BY <3>1 DEF SnapUpsert, TypeOK
    <3>2. CASE SnapCopy \/ SnapPrune \/ SnapFail
      BY <3>2 DEF SnapCopy, SnapPrune, SnapFail, NoSnap, TypeOK
    <3> QED BY <1>3, <3>1, <3>2
  <2> QED BY <1>0, <2>1, <2>2 DEF Deadlines, InFlight, TypeOK
<1>4. CASE SnapEvict
  <2>1. clock' = clock /\ stage' = stage /\ call' = call /\ snap'.now = 0
    BY <1>4 DEF SnapEvict, NoSnap
  <2>2. ASSUME NEW q \in InFlight
        PROVE  lastSeen'[call[q].subject] >= call[q].now - CallTimeout
    <3>1. q \in Requests /\ call[q].subject \in Subjects /\ call[q].now \in Int
      BY OpenCall DEF InFlight
    <3>2. clock <= call[q].now + CallTimeout /\ snap.now <= clock
          /\ lastSeen[call[q].subject] >= call[q].now - CallTimeout
      BY DEF Deadlines, InFlight
    <3>3. lastSeen[call[q].subject] \in Int
      BY <3>1 DEF TypeOK
    <3>4. call[q].subject \notin StillIdle
      BY <1>0, <3>1, <3>2, <3>3 DEF StillIdle, IdleOutlastsTimeouts
    <3> QED BY <1>4, <3>1, <3>2, <3>4 DEF SnapEvict
  <2> QED BY <1>0, <2>1, <2>2 DEF Deadlines, InFlight, TypeOK
<1>5. CASE Crash
  <2>1. \A q \in Requests : stage'[q] = "idle"
    BY <1>5 DEF Crash
  <2>2. clock' = clock /\ snap'.now = 0
    BY <1>5 DEF Crash, NoSnap
  <2> QED BY <1>0, <2>1, <2>2 DEF Deadlines, InFlight, TypeOK
<1>6. CASE LoadFromDb \/ LoadFail
  <2>1. clock' = clock /\ stage' = stage /\ call' = call /\ snap' = snap
    BY <1>6 DEF LoadFromDb, LoadFail
  <2>2. InFlight' = {}
    BY <1>6, <2>1 DEF LoadFromDb, LoadFail, DownIsEmpty, InFlight
  <2> QED BY <2>1, <2>2 DEF Deadlines
<1> QED BY <1>1, <1>2, <1>3, <1>4, <1>5, <1>6 DEF Next, Serve, Snapshot, Restart

(* Each step leaves a process that is down empty: only a crash stops it,   *)
(* and only the end of its boot lets anything in.                          *)
LEMMA NextDownIsEmpty ==
  ASSUME TypeOK, DownIsEmpty, Next
  PROVE  DownIsEmpty'
<1> USE DEF DownIsEmpty, process, subjectUsage, globalUsage, requests
<1>1. ASSUME NEW r \in Requests, Handle(r) PROVE DownIsEmpty'
  <2>1. serving' = serving /\ (Arrive(r) => serving) /\ (~Arrive(r) => stage[r] # "idle")
    BY <1>1 DEF Handle, Arrive, Admit, Refuse, Settle, Release, Drop
  <2> QED BY <2>1
<1>2. CASE Tick \/ SnapCopy \/ SnapUpsert \/ SnapPrune \/ SnapFail
  BY <1>2 DEF Tick, SnapCopy, SnapUpsert, SnapPrune, SnapFail
<1>3. CASE SnapEvict
  <2>1. ~serving => hours' = Empty
    BY <1>3 DEF SnapEvict, Empty
  <2> QED BY <1>3, <2>1 DEF SnapEvict
<1>4. CASE Restart
  BY <1>4 DEF Restart, Crash, LoadFromDb, LoadFail
<1> QED BY <1>1, <1>2, <1>3, <1>4 DEF Next, Serve, Snapshot

(* Each step keeps the reservations of the requests in flight.             *)
LEMMA NextInFlightReserved ==
  ASSUME TypeOK, TypeOK', Deadlines, DownIsEmpty, InFlightReserved, IdleOutlastsTimeouts, Next
  PROVE  InFlightReserved'
<1> USE ClockAssumption DEF process, subjectUsage, globalUsage, requests
<1>0. clock \in Int
  BY DEF TypeOK, Instants
<1>t. /\ \A q \in Timely : q \in Requests /\ call[q].subject \in Subjects
      /\ \A q \in Timely' : q \in Requests
  BY OpenCall DEF Timely, InFlight
<1>a. /\ \A s \in Subjects : reserved[s] \subseteq Requests
      /\ globalReserved \subseteq Requests
  BY DEF TypeOK
<1>b. /\ \A s \in Subjects : \A q \in reserved[s] :
           stage[q] \in {"calling", "dropped"} /\ call[q].subject = s
      /\ \A q \in globalReserved :
           stage[q] \in {"calling", "dropped"} /\ ~call[q].bypass
  BY DEF InFlightReserved
<1>1. ASSUME NEW r \in Requests, Handle(r) PROVE InFlightReserved'
  <2>c. clock' = clock
    BY <1>1 DEF Handle, Arrive, Admit, Refuse, Settle, Release, Drop
  <2>1. \A q \in Requests \ {r} : stage'[q] = stage[q] /\ call'[q] = call[q]
    BY <1>1 DEF TypeOK, Handle, Arrive, Admit, Refuse, Settle, Release, Drop
  <2>2. CASE Arrive(r)
    <3>1. stage[r] = "idle" /\ stage'[r] = "arrived"
      BY <2>2 DEF Arrive, TypeOK
    <3>2. r \notin globalReserved /\ \A s \in Subjects : r \notin reserved[s]
      BY <3>1 DEF InFlightReserved
    <3>3. reserved' = reserved /\ globalReserved' = globalReserved
      BY <2>2 DEF Arrive
    <3>4. \A q \in Timely' : q # r /\ q \in Timely
      BY <2>1, <2>c, <3>1 DEF Timely, InFlight
    <3>5. \A q \in Timely' : /\ q \in reserved'[call'[q].subject]
                             /\ ~call'[q].bypass => q \in globalReserved'
      BY <2>1, <3>3, <3>4 DEF InFlightReserved, Timely, InFlight
    <3>6. \A s \in Subjects : \A q \in reserved'[s] :
            stage'[q] \in {"calling", "dropped"} /\ call'[q].subject = s
      BY <1>a, <1>b, <2>1, <3>2, <3>3
    <3>7. \A q \in globalReserved' :
            stage'[q] \in {"calling", "dropped"} /\ ~call'[q].bypass
      BY <1>a, <1>b, <2>1, <3>2, <3>3
    <3> QED BY <3>5, <3>6, <3>7 DEF InFlightReserved
  <2>3. ASSUME ~Arrive(r)
        PROVE  call[r] \in Calls /\ call[r].subject \in Subjects /\ call[r].now \in Int
    <3>1. stage[r] # "idle"
      BY <1>1, <2>3 DEF Handle, Admit, Refuse, Settle, Release, Drop
    <3> QED BY <3>1, OpenCall
  <2>4. ASSUME Admit(r) \/ Refuse(r) \/ Settle(r)
        PROVE  /\ \A q \in Timely : \A rs :
                    q \in rs => q \in Unexpired(rs, call[r].now)
               /\ ~Arrive(r)
    <3>1. stage[r] \in {"arrived", "calling"}
      BY <2>4 DEF Admit, Refuse, Settle
    <3>2. call[r].now \in Int /\ call[r].now <= clock
      BY <3>1, OpenCall DEF Deadlines
    <3> QED BY <3>1, <3>2, LiveUnexpired DEF Arrive
  <2>5. \A rs : Unexpired(rs, call[r].now) \subseteq rs
    BY DEF Unexpired
  <2>6. CASE Admit(r)
    <3>1. /\ stage[r] = "arrived" /\ stage'[r] = "calling" /\ call' = call
          /\ reserved' = [reserved EXCEPT ![call[r].subject] =
               Unexpired(@, call[r].now) \cup {r}]
      BY <2>6 DEF Admit, TypeOK
    <3>2. \/ call[r].bypass /\ globalReserved' = globalReserved
          \/ ~call[r].bypass /\ globalReserved' = Unexpired(globalReserved, call[r].now) \cup {r}
      BY <2>6 DEF Admit
    <3>3. \A q \in Timely' : q = r \/ q \in Timely
      BY <2>1, <2>c DEF Timely, InFlight
    <3>4. r \notin globalReserved /\ \A s \in Subjects : r \notin reserved[s]
      BY <3>1 DEF InFlightReserved
    <3>5. \A q \in Timely' : /\ q \in reserved'[call'[q].subject]
                             /\ ~call'[q].bypass => q \in globalReserved'
      BY <1>t, <2>1, <2>3, <2>4, <2>6, <3>1, <3>2, <3>3 DEF InFlightReserved, TypeOK
    <3>6. \A s \in Subjects : \A q \in reserved'[s] :
            stage'[q] \in {"calling", "dropped"} /\ call'[q].subject = s
      BY <1>a, <1>b, <2>1, <2>3, <2>4, <2>5, <2>6, <3>1 DEF TypeOK
    <3>7. \A q \in globalReserved' :
            stage'[q] \in {"calling", "dropped"} /\ ~call'[q].bypass
      BY <1>a, <1>b, <2>1, <2>5, <3>1, <3>2
    <3> QED BY <3>5, <3>6, <3>7 DEF InFlightReserved
  <2>7. CASE Refuse(r)
    <3>1. /\ stage[r] = "arrived" /\ stage'[r] = "idle"
          /\ reserved' = [reserved EXCEPT ![call[r].subject] = Unexpired(@, call[r].now)]
          /\ globalReserved' \in {globalReserved, Unexpired(globalReserved, call[r].now)}
      BY <2>7 DEF Refuse, TypeOK
    <3>2. \A q \in Timely' : q # r /\ q \in Timely
      BY <2>1, <2>c, <3>1 DEF Timely, InFlight
    <3>3. r \notin globalReserved /\ \A s \in Subjects : r \notin reserved[s]
      BY <3>1 DEF InFlightReserved
    <3>4. \A s \in Subjects : reserved'[s] \subseteq reserved[s]
      BY <2>3, <2>4, <2>5, <2>7, <3>1 DEF TypeOK
    <3>5. \A q \in Timely' : /\ q \in reserved'[call'[q].subject]
                             /\ ~call'[q].bypass => q \in globalReserved'
      BY <1>t, <2>1, <2>3, <2>4, <2>7, <3>1, <3>2 DEF InFlightReserved, TypeOK
    <3>6. \A s \in Subjects : \A q \in reserved'[s] :
            stage'[q] \in {"calling", "dropped"} /\ call'[q].subject = s
      BY <1>a, <1>b, <2>1, <3>3, <3>4
    <3>7. \A q \in globalReserved' :
            stage'[q] \in {"calling", "dropped"} /\ ~call'[q].bypass
      BY <1>a, <1>b, <2>1, <2>5, <3>1, <3>3
    <3> QED BY <3>5, <3>6, <3>7 DEF InFlightReserved
  <2>8. CASE Settle(r)
    <3>1. /\ stage[r] = "calling" /\ stage'[r] = "settled"
          /\ reserved' = [reserved EXCEPT ![call[r].subject] =
               Unexpired(@, call[r].now) \ {r}]
          /\ globalReserved' = IF call[r].bypass THEN globalReserved ELSE globalReserved \ {r}
      BY <2>8 DEF Settle, TypeOK
    <3>2. \A q \in Timely' : q # r /\ q \in Timely
      BY <2>1, <2>c, <3>1 DEF Timely, InFlight
    <3>3. r \notin globalReserved' /\ \A s \in Subjects : r \notin reserved'[s]
      BY <2>3, <2>4, <2>8, <3>1 DEF InFlightReserved, TypeOK
    <3> QED BY <2>1, <2>3, <2>4, <2>5, <2>8, <3>1, <3>2, <3>3
            DEF InFlightReserved, TypeOK, Timely, InFlight
  <2>9. CASE Release(r)
    <3>1. /\ stage[r] = "calling" /\ stage'[r] = "idle"
          /\ reserved' = [reserved EXCEPT ![call[r].subject] = @ \ {r}]
          /\ globalReserved' = IF call[r].bypass THEN globalReserved ELSE globalReserved \ {r}
      BY <2>9 DEF Release, TypeOK
    <3>2. \A q \in Timely' : q # r /\ q \in Timely
      BY <2>1, <2>c, <3>1 DEF Timely, InFlight
    <3>3. r \notin globalReserved' /\ \A s \in Subjects : r \notin reserved'[s]
      BY <2>3, <2>9, <3>1 DEF InFlightReserved, TypeOK, Arrive
    <3> QED BY <2>1, <2>3, <2>9, <3>1, <3>2, <3>3, OpenCall
            DEF InFlightReserved, TypeOK, Timely, InFlight, Arrive
  <2>10. CASE Drop(r)
    BY <2>1, <2>c, <2>10 DEF Drop, InFlightReserved, Timely, InFlight, TypeOK
  <2> QED BY <1>1, <2>2, <2>6, <2>7, <2>8, <2>9, <2>10 DEF Handle
<1>2. CASE Tick \/ SnapCopy \/ SnapUpsert \/ SnapPrune \/ SnapFail
  <2>1. UNCHANGED <<reserved, globalReserved, stage, call>>
    BY <1>2 DEF Tick, SnapCopy, SnapUpsert, SnapPrune, SnapFail
  <2>2. clock' \in Int /\ clock <= clock'
    BY <1>0, <1>2 DEF Tick, SnapCopy, SnapUpsert, SnapPrune, SnapFail
  <2>3. \A q \in Timely' : q \in Timely
    <3>1. \A q \in Requests : stage[q] = "calling" => call[q].now \in Int
      BY OpenCall
    <3> QED BY <1>0, <2>1, <2>2, <3>1 DEF Timely, InFlight
  <2> QED BY <2>1, <2>3 DEF InFlightReserved
<1>3. CASE SnapEvict
  <2>1. UNCHANGED <<globalReserved, stage, call, clock>>
    BY <1>3 DEF SnapEvict
  <2>2. \A s \in Subjects :
          reserved'[s] = IF s \in StillIdle THEN {} ELSE reserved[s]
    BY <1>3 DEF SnapEvict
  <2>3. ASSUME NEW q \in Timely PROVE call[q].subject \in Subjects \ StillIdle
    <3>1. q \in Requests /\ call[q].subject \in Subjects /\ call[q].now \in Int
      BY OpenCall DEF Timely, InFlight
    <3>2. clock <= call[q].now + CallTimeout /\ snap.now <= clock
          /\ lastSeen[call[q].subject] >= call[q].now - CallTimeout
      BY DEF Deadlines, Timely, InFlight
    <3>3. lastSeen[call[q].subject] \in Int /\ snap.now \in Int
      BY <3>1 DEF TypeOK, Instants
    <3> QED BY <1>0, <3>1, <3>2, <3>3 DEF StillIdle, IdleOutlastsTimeouts
  <2> QED BY <2>1, <2>2, <2>3 DEF InFlightReserved, Timely, InFlight
<1>4. CASE Crash
  BY <1>4 DEF Crash, InFlightReserved, Timely, InFlight
<1>5. CASE LoadFromDb \/ LoadFail
  <2>1. UNCHANGED <<reserved, globalReserved, stage, call, clock>>
    BY <1>5 DEF LoadFromDb, LoadFail
  <2> QED BY <2>1 DEF InFlightReserved, Timely, InFlight
<1> QED BY <1>1, <1>2, <1>3, <1>4, <1>5 DEF Next, Serve, Snapshot, Restart

-----------------------------------------------------------------------------
(* Charges.                                                                *)

(* Each step keeps the charges of an hour, in memory, on the way to the    *)
(* table and in it, within what was consumed in that hour.                 *)
LEMMA NextNeverOvercharged ==
  ASSUME TypeOK, TypeOK', DownIsEmpty, NeverOvercharged, Next
  PROVE  NeverOvercharged'
<1> USE AmountAssumption DEF process, subjectUsage, globalUsage, requests
<1>0. \A s \in Subjects, h \in Buckets :
        hours[s][h] \in Nat /\ db[s][h] \in Nat /\ consumed[s][h] \in Nat
  BY DEF TypeOK
<1>1. ASSUME NEW r \in Requests, Handle(r), ~Settle(r) PROVE NeverOvercharged'
  <2>1. db' = db /\ snap' = snap /\ consumed' = consumed
    BY <1>1 DEF Handle, Arrive, Admit, Refuse, Release, Drop
  <2>2. ASSUME NEW s \in Subjects, NEW h \in Buckets PROVE hours'[s][h] <= hours[s][h]
    <3>1. hours' = hours \/ hours' = [hours EXCEPT ![call[r].subject] =
                                        PruneHours(@, call[r].now)]
      BY <1>1 DEF Handle, Arrive, Admit, Refuse, Release, Drop, PruneBuckets
    <3>2. PruneHours(hours[s], call[r].now)[h] <= hours[s][h]
      <4>1. hours[s] \in [Buckets -> Nat]
        BY DEF TypeOK
      <4> QED BY <4>1, Pruned
    <3>3. hours'[s] = hours[s] \/ hours'[s] = PruneHours(hours[s], call[r].now)
      BY <3>1 DEF TypeOK
    <3> QED BY <1>0, <3>2, <3>3
  <2>3. \A s \in Subjects, h \in Buckets : hours'[s][h] \in Nat
    BY DEF TypeOK
  <2> QED BY <1>0, <2>1, <2>2, <2>3 DEF NeverOvercharged
<1>2. ASSUME NEW r \in Requests, Settle(r) PROVE NeverOvercharged'
  <2>1. PICK n \in Amounts :
          /\ hours' = [hours EXCEPT ![call[r].subject] =
               Charge(PruneHours(@, call[r].now), HourOf(call[r].now), n)]
          /\ consumed' = [consumed EXCEPT ![call[r].subject] =
               Charge(@, HourOf(call[r].now), n)]
    BY <1>2 DEF Settle
  <2>2. n \in Nat /\ db' = db /\ snap' = snap
    BY <1>2 DEF Settle
  <2>3. ASSUME NEW s \in Subjects, NEW h \in Buckets
        PROVE  hours'[s][h] <= consumed'[s][h] /\ consumed[s][h] <= consumed'[s][h]
    <3>1. CASE s = call[r].subject
      <4>1. hours'[s] = Charge(PruneHours(hours[s], call[r].now), HourOf(call[r].now), n)
            /\ consumed'[s] = Charge(consumed[s], HourOf(call[r].now), n)
        BY <2>1, <3>1 DEF TypeOK
      <4>2. /\ hours[s] \in [Buckets -> Nat] /\ consumed[s] \in [Buckets -> Nat]
            /\ PruneHours(hours[s], call[r].now) \in [Buckets -> Nat]
            /\ PruneHours(hours[s], call[r].now)[h] <= hours[s][h]
        BY Pruned DEF TypeOK
      <4>3. hours[s][h] <= consumed[s][h]
        BY DEF NeverOvercharged
      <4>4. CASE h = HourOf(call[r].now)
        <5>1. /\ hours'[s][h] = PruneHours(hours[s], call[r].now)[h] + n
              /\ consumed'[s][h] = consumed[s][h] + n
          BY <4>1, <4>2, <4>4 DEF Charge
        <5> QED BY <2>2, <4>2, <4>3, <5>1
      <4>5. CASE h # HourOf(call[r].now)
        <5>1. /\ hours'[s][h] = PruneHours(hours[s], call[r].now)[h]
              /\ consumed'[s][h] = consumed[s][h]
          BY <4>1, <4>2, <4>5 DEF Charge
        <5> QED BY <2>2, <4>2, <4>3, <5>1
      <4> QED BY <4>4, <4>5
    <3>2. CASE s # call[r].subject
      <4>1. hours'[s] = hours[s] /\ consumed'[s] = consumed[s]
        BY <2>1, <3>2 DEF TypeOK
      <4> QED BY <1>0, <4>1 DEF NeverOvercharged
    <3> QED BY <3>1, <3>2
  <2>4. \A s \in Subjects, h \in Buckets : consumed'[s][h] \in Nat
    BY DEF TypeOK
  <2>5. \A row \in snap.rows :
          row.subject \in Subjects /\ row.hour \in Buckets /\ row.tokens \in Nat
    BY DEF TypeOK, Rows
  <2> QED BY <1>0, <2>2, <2>3, <2>4, <2>5 DEF NeverOvercharged
<1>3. CASE Tick \/ SnapFail \/ LoadFail
  BY <1>3 DEF Tick, SnapFail, LoadFail, NoSnap, NeverOvercharged
<1>4. CASE SnapCopy
  <2>1. UNCHANGED <<hours, db, consumed>>
    BY <1>4 DEF SnapCopy
  <2>2. \A row \in snap'.rows :
          /\ row.subject \in Subjects /\ row.hour \in Buckets
          /\ row.tokens = hours[row.subject][row.hour]
    BY <1>4 DEF SnapCopy
  <2> QED BY <2>1, <2>2 DEF NeverOvercharged
<1>5. CASE SnapUpsert
  <2>1. PICK row \in snap.rows :
          /\ db' = [db EXCEPT ![row.subject][row.hour] = row.tokens]
          /\ snap' = [snap EXCEPT !.rows = @ \ {row}]
    BY <1>5 DEF SnapUpsert
  <2>2. UNCHANGED <<hours, consumed>>
    BY <1>5 DEF SnapUpsert
  <2>3. row.subject \in Subjects /\ row.hour \in Buckets
        /\ row.tokens <= consumed[row.subject][row.hour]
    BY DEF TypeOK, Rows, NeverOvercharged
  <2>4. \A s \in Subjects, h \in Buckets : db'[s][h] <= consumed[s][h]
    BY <2>1, <2>3 DEF TypeOK, NeverOvercharged
  <2>5. snap'.rows \subseteq snap.rows
    BY <2>1 DEF TypeOK
  <2> QED BY <2>2, <2>4, <2>5 DEF NeverOvercharged
<1>6. CASE SnapPrune
  <2>1. UNCHANGED <<hours, consumed>> /\ snap'.rows = snap.rows
    BY <1>6 DEF SnapPrune, TypeOK
  <2>2. \A s \in Subjects, h \in Buckets : db'[s][h] \in {0, db[s][h]}
    BY <1>6 DEF SnapPrune
  <2> QED BY <1>0, <2>1, <2>2 DEF NeverOvercharged
<1>7. CASE SnapEvict
  <2>1. UNCHANGED <<db, consumed>> /\ snap'.rows = {}
    BY <1>7 DEF SnapEvict, NoSnap
  <2>2. \A s \in Subjects, h \in Buckets : hours'[s][h] \in {0, hours[s][h]}
    BY <1>7 DEF SnapEvict, Empty
  <2> QED BY <1>0, <2>1, <2>2 DEF NeverOvercharged
<1>8. CASE Crash
  <2>1. UNCHANGED <<db, consumed>> /\ snap'.rows = {}
    BY <1>8 DEF Crash, NoSnap
  <2>2. \A s \in Subjects, h \in Buckets : hours'[s][h] = 0
    BY <1>8 DEF Crash, Empty
  <2> QED BY <1>0, <2>1, <2>2 DEF NeverOvercharged
<1>9. CASE LoadFromDb
  <2>1. UNCHANGED <<db, consumed, snap>>
    BY <1>9 DEF LoadFromDb
  <2>2. \A s \in Subjects, h \in Buckets : hours[s][h] = 0
    BY <1>9 DEF LoadFromDb, DownIsEmpty, Empty
  <2>3. \A s \in Subjects, h \in Buckets : hours'[s][h] \in {0, db[s][h]}
    BY <1>0, <1>9, <2>2 DEF LoadFromDb
  <2> QED BY <1>0, <2>1, <2>3 DEF NeverOvercharged
<1> QED BY <1>1, <1>2, <1>3, <1>4, <1>5, <1>6, <1>7, <1>8, <1>9
        DEF Next, Serve, Handle, Snapshot, Restart

-----------------------------------------------------------------------------
(* The theorems.                                                           *)

(* The inductive invariant holds whenever a subject does not count as idle  *)
(* within two timeouts: types, deadlines, an empty process while down,      *)
(* reservations up to the TTL, and charges.                                *)
THEOREM InductiveInvariant == IdleOutlastsTimeouts => (Spec => []IInv)
<1> SUFFICES ASSUME IdleOutlastsTimeouts PROVE Spec => []IInv
  OBVIOUS
<1>1. IInv /\ [Next]_vars => IInv'
  <2> SUFFICES ASSUME IInv, [Next]_vars PROVE IInv'
    OBVIOUS
  <2>1. CASE Next
    BY <2>1, NextTypeOK, NextDeadlines, NextDownIsEmpty, NextInFlightReserved,
       NextNeverOvercharged DEF IInv
  <2>2. CASE UNCHANGED vars
    <3>1. TypeOK'
      BY <2>2, NextTypeOK DEF IInv
    <3> QED BY <2>2, <3>1
            DEF vars, process, subjectUsage, globalUsage, requests, IInv, Deadlines,
                DownIsEmpty, InFlightReserved, Timely, InFlight, NeverOvercharged
  <2> QED BY <2>1, <2>2
<1> QED BY <1>1, InitIInv, PTL DEF Spec

(* No prune and no eviction takes away the reservation of a request in     *)
(* flight before it is older than the TTL, however long the call may take.  *)
THEOREM ReservationsHeld == IdleOutlastsTimeouts => (Spec => []InFlightReserved)
<1> SUFFICES ASSUME IdleOutlastsTimeouts PROVE Spec => []InFlightReserved
  OBVIOUS
<1>1. Spec => []IInv
  BY InductiveInvariant
<1>2. IInv => InFlightReserved
  BY DEF IInv
<1> QED BY <1>1, <1>2, PTL

(* Whatever crashes, failed statements and failed loads there are, and     *)
(* however long a call takes, no hour is ever charged more than was        *)
(* consumed in it: a restart can only let a subject through.               *)
THEOREM NoOvercharge == Spec => []NeverOvercharged
<1> DEFINE CInv == TypeOK /\ DownIsEmpty /\ NeverOvercharged
<1>1. Init => CInv
  BY InitIInv DEF IInv
<1>2. CInv /\ [Next]_vars => CInv'
  <2> SUFFICES ASSUME CInv, [Next]_vars PROVE CInv'
    OBVIOUS
  <2>1. CASE Next
    BY <2>1, NextTypeOK, NextDownIsEmpty, NextNeverOvercharged
  <2>2. CASE UNCHANGED vars
    <3>1. TypeOK'
      BY <2>2, NextTypeOK
    <3> QED BY <2>2, <3>1 DEF vars, process, subjectUsage, requests, DownIsEmpty, NeverOvercharged
  <2> QED BY <2>1, <2>2
<1>3. CInv => NeverOvercharged
  OBVIOUS
<1> QED BY <1>1, <1>2, <1>3, PTL DEF Spec

-----------------------------------------------------------------------------
(* The ledgers.                                                            *)

\* The tokens of the settled requests whose [subject, instant, bypass] is in P.
KeyOf(c) == <<c.subject, c.now, c.bypass>>
Keys     == Subjects \X Instants \X BOOLEAN
Among(P) == {q \in Settled : KeyOf(call[q]) \in P}
Took(P)  == Tokens(Among(P))

InMinute(s, m) == {k \in Keys : k[1] = s /\ MinuteOf(k[2]) = m}
OnSite(m)      == {k \in Keys : ~k[3] /\ MinuteOf(k[2]) = m}
InHour(s, h, t) ==
  {k \in Keys : k[1] = s /\ HourOf(k[2]) = h /\ k[2] >= t - IdleSecs + CallTimeout}

\* Every instant a request holds is in the past, by no more than a call; and
\* the process is down only before its first request and its first snapshot.
Stamped ==
  /\ \A r \in Requests : stage[r] \in {"arrived", "calling"} =>
       call[r].now <= clock /\ clock <= call[r].now + CallTimeout
  /\ snap.now <= clock
  /\ ~serving => snap.phase = "idle"
  /\ snap.phase # "writing" => snap.rows = {}

\* Only requests that were admitted and have no answer are counted as pending.
OnlyOpen ==
  /\ \A s \in Subjects : \A r \in reserved[s] :
       stage[r] \in {"calling", "dropped"} /\ call[r].subject = s
  /\ \A r \in globalReserved :
       stage[r] \in {"calling", "dropped"} /\ ~call[r].bypass

\* No minute holds more than what was settled in it.
AtMostTook ==
  /\ \A s \in Subjects, m \in Buckets : minutes[s][m] <= Took(InMinute(s, m))
  /\ \A m \in Buckets : globalMinutes[m] <= Took(OnSite(m))

\* A subject that settled a request less than a day ago was seen since then,
\* give or take a call.
SettledSeen ==
  \A q \in Settled :
    /\ call[q].now <= clock
    /\ \/ lastSeen[call[q].subject] >= call[q].now - CallTimeout
       \/ call[q].now + IdleSecs < clock + CallTimeout

\* Live buckets hold all of what was settled in them; the hours also what was
\* loaded.
AtLeastTook ==
  /\ \A m \in Buckets : LiveMinute(m, clock) =>
       \A s \in Subjects : minutes[s][m] >= Took(InMinute(s, m))
  /\ \A m \in Buckets : LiveGlobal(m, clock) => globalMinutes[m] >= Took(OnSite(m))
  /\ \A h \in Buckets, t \in Nat : LiveHour(h, clock) /\ clock <= t =>
       \A s \in Subjects : hours[s][h] >= Took(InHour(s, h, t))

PInv == TypeOK /\ Stamped /\ DownIsEmpty /\ OnlyOpen /\ AtMostTook
LInv == PInv /\ SettledSeen /\ AtLeastTook

\* The instant an hour starts at.  Nothing settles any more in an hour that ended
\* longer than a call ago.
HourStart(h) == h * SecsPerHour
Closed(h) == HourStart(h) + SecsPerHour + CallTimeout <= clock

\* No bucket is ahead of the clock; a subject with a live hour was seen in it or
\* later, give or take a call.
HoursSeen ==
  /\ \A s \in Subjects, h \in Buckets : consumed[s][h] > 0 => HourStart(h) <= clock
  /\ \A s \in Subjects, h \in Buckets :
       hours[s][h] > 0 /\ LiveHour(h, clock) =>
         lastSeen[s] >= HourStart(h) - CallTimeout

\* Memory is not behind the table, but for hours that are over; nor is a row on
\* its way to it, and there is one row of an hour.
TableBehind ==
  ~lossy /\ serving =>
    /\ \A s \in Subjects, h \in Buckets : LiveHour(h, clock) =>
         hours[s][h] >= db[s][h] \/ (hours[s][h] = 0 /\ Closed(h))
    /\ \A row \in snap.rows : LiveHour(row.hour, clock) =>
         /\ db[row.subject][row.hour] <= row.tokens
         /\ \/ row.tokens <= hours[row.subject][row.hour]
            \/ hours[row.subject][row.hour] = 0 /\ Closed(row.hour)
    /\ \A x, y \in snap.rows : x.subject = y.subject /\ x.hour = y.hour => x = y

DInv == TypeOK /\ Stamped /\ DownIsEmpty /\ NeverOvercharged /\ HoursSeen /\ TableBehind

-----------------------------------------------------------------------------
(* Sums of tokens.                                                         *)

\* Tokens, over any table of calls.
TokensIn(c, T) == SumFunctionOnSet([q \in T |-> c[q].tokens], T)

(* A sum of tokens is a natural, and nothing sums to zero.                 *)
LEMMA TokensType ==
  ASSUME NEW c, NEW T \in SUBSET Requests, \A q \in T : c[q].tokens \in Nat
  PROVE  TokensIn(c, T) \in Nat /\ TokensIn(c, {}) = 0
<1>1. IsFiniteSet(T)
  BY FS_Subset, AmountAssumption
<1> DEFINE f == [q \in T |-> c[q].tokens]
<1>2. \A q \in T : f[q] \in Nat
  OBVIOUS
<1>3. TokensIn(c, T) = SumFunctionOnSet(f, T)
  BY DEF TokensIn
<1> HIDE DEF f
<1> QED BY <1>1, <1>2, <1>3, SumNat, SumEmpty DEF TokensIn

(* Only the tokens count.                                                  *)
LEMMA SameTokens ==
  ASSUME NEW c, NEW d, NEW T, \A q \in T : c[q] = d[q]
  PROVE  TokensIn(c, T) = TokensIn(d, T)
BY DEF TokensIn

(* One more request adds its tokens.                                       *)
LEMMA MoreTokens ==
  ASSUME NEW c, NEW T \in SUBSET Requests, NEW r \in Requests, r \notin T,
         \A q \in T \cup {r} : c[q].tokens \in Nat
  PROVE  TokensIn(c, T \cup {r}) = TokensIn(c, T) + c[r].tokens
<1>1. IsFiniteSet(T)
  BY FS_Subset, AmountAssumption
<1> DEFINE f == [q \in T \cup {r} |-> c[q].tokens]
           g == [q \in T |-> c[q].tokens]
<1>2. (\A q \in T \cup {r} : f[q] \in Int) /\ (\A q \in T : f[q] = g[q]) /\ f[r] = c[r].tokens
      /\ \A q \in T : g[q] \in Int
  OBVIOUS
<1>3. TokensIn(c, T \cup {r}) = SumFunctionOnSet(f, T \cup {r}) /\ TokensIn(c, T) = SumFunctionOnSet(g, T)
  BY DEF TokensIn
<1> HIDE DEF f, g
<1>4. SumFunctionOnSet(f, T \cup {r}) = f[r] + SumFunctionOnSet(f, T)
  BY <1>1, <1>2, SumAdd
<1>5. SumFunctionOnSet(f, T) = SumFunctionOnSet(g, T) /\ SumFunctionOnSet(g, T) \in Int
  BY <1>1, <1>2, SumSame, SumType
<1>6. c[r].tokens \in Nat
  OBVIOUS
<1> QED BY <1>2, <1>3, <1>4, <1>5, <1>6

(* More requests have no fewer tokens.                                     *)
LEMMA TokensMonotone ==
  ASSUME NEW c, NEW T \in SUBSET Requests, NEW S \in SUBSET T, \A q \in T : c[q].tokens \in Nat
  PROVE  TokensIn(c, S) <= TokensIn(c, T)
<1>1. IsFiniteSet(T)
  BY FS_Subset, AmountAssumption
<1> DEFINE f == [q \in S |-> c[q].tokens]
           g == [q \in T |-> c[q].tokens]
<1>2. (\A q \in T : g[q] \in Nat) /\ \A q \in S : f[q] \in Nat /\ f[q] <= g[q]
  OBVIOUS
<1>3. TokensIn(c, S) = SumFunctionOnSet(f, S) /\ TokensIn(c, T) = SumFunctionOnSet(g, T)
  BY DEF TokensIn
<1> HIDE DEF f, g
<1> QED BY <1>1, <1>2, <1>3, SumMonotone

(* The tokens of disjoint sets of requests add up.                         *)
LEMMA TokensUnion ==
  ASSUME NEW c, NEW S \in SUBSET Requests, NEW T \in SUBSET Requests, S \cap T = {},
         \A q \in S \cup T : c[q].tokens \in Nat
  PROVE  TokensIn(c, S \cup T) = TokensIn(c, S) + TokensIn(c, T)
<1>1. IsFiniteSet(S) /\ IsFiniteSet(T)
  BY FS_Subset, AmountAssumption
<1> DEFINE f == [q \in S \cup T |-> c[q].tokens]
           g == [q \in S |-> c[q].tokens]
           h == [q \in T |-> c[q].tokens]
<1>2. (\A q \in S \cup T : f[q] \in Int) /\ (\A q \in S : f[q] = g[q]) /\ \A q \in T : f[q] = h[q]
  OBVIOUS
<1>3. /\ TokensIn(c, S \cup T) = SumFunctionOnSet(f, S \cup T)
      /\ TokensIn(c, S) = SumFunctionOnSet(g, S) /\ TokensIn(c, T) = SumFunctionOnSet(h, T)
  BY DEF TokensIn
<1> HIDE DEF f, g, h
<1>4. SumFunctionOnSet(f, S \cup T) = SumFunctionOnSet(f, S) + SumFunctionOnSet(f, T)
  BY <1>1, <1>2, SumUnion
<1> QED BY <1>1, <1>2, <1>3, <1>4, SumSame

(* Requests that are being handled or are settled have their tokens.       *)
LEMMA Counted ==
  ASSUME TypeOK
  PROVE  /\ \A q \in Requests : stage[q] # "idle" =>
              call[q] \in Calls /\ call[q] # NoCall /\ call[q].tokens \in Nat
                /\ call[q].subject \in Subjects /\ call[q].now \in Instants /\ call[q].now \in Nat
                /\ KeyOf(call[q]) \in Keys /\ MinuteOf(call[q].now) \in Buckets
                /\ HourOf(call[q].now) \in Buckets
         /\ \A P : Among(P) \in SUBSET Requests /\ \A q \in Among(P) : call[q].tokens \in Nat
<1>1. ASSUME NEW q \in Requests, stage[q] # "idle"
      PROVE  call[q] \in Calls /\ call[q] # NoCall /\ call[q].tokens \in Nat
             /\ call[q].subject \in Subjects /\ call[q].now \in Instants /\ call[q].now \in Nat
             /\ KeyOf(call[q]) \in Keys /\ MinuteOf(call[q].now) \in Buckets
             /\ HourOf(call[q].now) \in Buckets
  <2>1. call[q] \in Calls /\ call[q] # NoCall
    BY <1>1 DEF TypeOK
  <2>6. /\ call[q].tokens \in Amounts /\ call[q].subject \in Subjects /\ call[q].now \in Instants
        /\ call[q].bypass \in Bypasses
    BY <2>1 DEF Calls
  <2>2. call[q].now \in Nat
    BY <2>6, ClockAssumption DEF Instants
  <2>7. call[q].tokens \in Nat
    BY <2>6, AmountAssumption
  <2>5. call[q].bypass \in BOOLEAN
    BY <2>6, AmountAssumption, Zenon
  <2>4. KeyOf(call[q]) \in Keys
    BY <2>5, <2>6 DEF KeyOf, Keys
  <2>3. MinuteOf(call[q].now) \in Buckets /\ HourOf(call[q].now) \in Buckets
    BY <2>2, <2>6, ClockAssumption, Division DEF MinuteOf, HourOf, Buckets, Instants
  <2> QED BY <2>1, <2>2, <2>3, <2>4, <2>6, <2>7
<1> QED BY <1>1 DEF Among, Settled

(* What was settled is a natural, and zero when nothing was.               *)
LEMMA TookType ==
  ASSUME TypeOK, NEW P
  PROVE  Took(P) \in Nat /\ (Among(P) = {} => Took(P) = 0) /\ Took(P) = TokensIn(call, Among(P))
BY Counted, TokensType DEF Took, Tokens, TokensIn

(* A kind that covers another took no less.                                *)
LEMMA TookMonotone ==
  ASSUME TypeOK, NEW P, NEW Q, Among(P) \subseteq Among(Q)
  PROVE  Took(P) <= Took(Q)
BY Counted, TookType, TokensMonotone

(* Steps that settle nothing, and forget nothing settled, take nothing.    *)
LEMMA QuietTook ==
  ASSUME TypeOK, TypeOK', \A q \in Requests : stage'[q] = "settled" <=> stage[q] = "settled",
         \A q \in Settled : call'[q] = call[q], NEW P
  PROVE  Took(P)' = Took(P) /\ Among(P)' = Among(P)
<1>1. Among(P)' = Among(P)
  BY DEF Among, Settled
<1>2. TokensIn(call', Among(P)) = TokensIn(call, Among(P))
  <2>1. \A q \in Among(P) : call'[q] = call[q]
    BY DEF Among
  <2> QED BY <2>1 DEF TokensIn
<1>3. Took(P)' = TokensIn(call', Among(P)')
  BY DEF Took, Tokens, TokensIn
<1> QED BY <1>1, <1>2, <1>3, TookType

(* A settlement takes what Voyage reported, of its own kind.               *)
LEMMA SettleTook ==
  ASSUME TypeOK, TypeOK', NEW r \in Requests, stage[r] = "calling", NEW n \in Nat,
         stage' = [stage EXCEPT ![r] = "settled"], call' = [call EXCEPT ![r].tokens = n], NEW P
  PROVE  Took(P)' = Took(P) + IF KeyOf(call[r]) \in P THEN n ELSE 0
<1>1. call[r] \in Calls /\ call' \in [Requests -> Calls \cup {NoCall}]
  BY Counted DEF TypeOK
<1>2. /\ call'[r].tokens = n /\ KeyOf(call'[r]) = KeyOf(call[r])
      /\ \A q \in Requests \ {r} : call'[q] = call[q]
  BY <1>1 DEF TypeOK, Calls, KeyOf
<1>3. r \notin Among(P) /\ Among(P) \in SUBSET Requests
  BY DEF Among, Settled
<1>4. Among(P)' = IF KeyOf(call[r]) \in P THEN Among(P) \cup {r} ELSE Among(P)
  BY <1>2 DEF Among, Settled, TypeOK
<1>5. (\A q \in Among(P) : call'[q] = call[q]) /\ \A q \in Among(P) \cup {r} : call'[q].tokens \in Nat
  BY <1>2, <1>3, Counted
<1> DEFINE A == Among(P)
<1>6. TokensIn(call', A) = TokensIn(call, A)
  <2>1. \A q \in A : call'[q] = call[q]
    BY <1>5
  <2> HIDE DEF A
  <2>2. PICK d, e : d = call' /\ e = call
    OBVIOUS
  <2>3. \A q \in A : d[q] = e[q]
    BY <2>1, <2>2
  <2>4. TokensIn(d, A) = TokensIn(e, A)
    BY <2>3, SameTokens
  <2> QED BY <2>2, <2>4
<1>7. Took(P)' = TokensIn(call', Among(P)')
  BY DEF Took, Tokens, TokensIn
<1>8. TokensIn(call', A \cup {r}) = TokensIn(call', A) + n
  <2>1. A \in SUBSET Requests /\ r \notin A /\ (\A q \in A \cup {r} : call'[q].tokens \in Nat) /\ call'[r].tokens = n
    BY <1>2, <1>3, <1>5
  <2> HIDE DEF A
  <2> QED BY <2>1, MoreTokens
<1> QED BY <1>4, <1>6, <1>7, <1>8, TookType

-----------------------------------------------------------------------------
(* What a step does to the requests and to the buckets.                    *)

(* A bucket that is live now was live before.                              *)
LEMMA EarlierLive ==
  ASSUME NEW a \in Nat, NEW b \in Nat, a <= b, NEW x \in Buckets
  PROVE  /\ LiveMinute(x, b) => LiveMinute(x, a)
         /\ LiveHour(x, b) => LiveHour(x, a)
         /\ LiveGlobal(x, b) => LiveGlobal(x, a)
<1>1. MinuteOf(a) \in Nat /\ MinuteOf(b) \in Nat /\ MinuteOf(a) <= MinuteOf(b)
  BY ClockAssumption, Division, DivisionMonotone DEF MinuteOf
<1>2. HourOf(a) \in Nat /\ HourOf(b) \in Nat /\ HourOf(a) <= HourOf(b)
  BY ClockAssumption, Division, DivisionMonotone DEF HourOf
<1>3. x \in Nat
  BY ClockAssumption DEF Buckets
<1> QED BY <1>1, <1>2, <1>3, ClockAssumption DEF LiveMinute, LiveHour, LiveGlobal

(* A step that neither settles nor crashes leaves what is settled alone.   *)
LEMMA SettledStays ==
  ASSUME TypeOK, Next, ~Crash, \A r \in Requests : ~Settle(r)
  PROVE  /\ \A q \in Requests : stage'[q] = "settled" <=> stage[q] = "settled"
         /\ \A q \in Settled : call'[q] = call[q]
<1>1. CASE \E r \in Requests : Handle(r)
  <2>1. PICK r \in Requests : Handle(r)
    BY <1>1
  <2>2. Arrive(r) \/ Admit(r) \/ Refuse(r) \/ Release(r) \/ Drop(r)
    BY <2>1 DEF Handle
  <2>3. stage[r] # "settled" /\ stage'[r] # "settled"
        /\ \A q \in Requests \ {r} : stage'[q] = stage[q] /\ call'[q] = call[q]
    BY <2>2 DEF TypeOK, Arrive, Admit, Refuse, Release, Drop
  <2> QED BY <2>3 DEF Settled
<1>2. CASE Tick \/ Snapshot \/ LoadFromDb \/ LoadFail
  BY <1>2 DEF Tick, Snapshot, SnapCopy, SnapUpsert, SnapPrune, SnapEvict, SnapFail, LoadFromDb,
              LoadFail, requests, Settled
<1> QED BY <1>1, <1>2 DEF Next, Serve, Restart

(* A prune at an instant that has been keeps the live buckets as they are. *)
LEMMA PruneKeepsLive ==
  ASSUME TypeOK, NEW t \in Nat, t <= clock, NEW usage \in [Buckets -> Nat], NEW b \in Buckets
  PROVE  /\ PruneMinutes(usage, t)[b] <= usage[b] /\ PruneMinutes(usage, t)[b] \in Nat
         /\ LiveMinute(b, clock) => PruneMinutes(usage, t)[b] = usage[b]
         /\ PruneHours(usage, t)[b] <= usage[b] /\ PruneHours(usage, t)[b] \in Nat
         /\ LiveHour(b, clock) => PruneHours(usage, t)[b] = usage[b]
         /\ PruneGlobal(t)[b] <= globalMinutes[b] /\ PruneGlobal(t)[b] \in Nat
         /\ LiveGlobal(b, clock) => PruneGlobal(t)[b] = globalMinutes[b]
<1>1. clock \in Nat
  BY ClockAssumption DEF TypeOK, Instants
<1>2. usage[b] \in Nat /\ globalMinutes[b] \in Nat
  BY DEF TypeOK
<1> QED BY <1>1, <1>2, EarlierLive DEF PruneMinutes, PruneHours, PruneGlobal

(* A handler that settles nothing lowers buckets, and none that is live.   *)
LEMMA HandleBuckets ==
  ASSUME TypeOK, Stamped, NEW r \in Requests, Handle(r), ~Settle(r),
         NEW s, NEW b \in Buckets
  PROVE  /\ s \in Subjects =>
              /\ minutes'[s][b] <= minutes[s][b]
              /\ LiveMinute(b, clock) => minutes'[s][b] = minutes[s][b]
              /\ hours'[s][b] <= hours[s][b]
              /\ LiveHour(b, clock) => hours'[s][b] = hours[s][b]
         /\ globalMinutes'[b] <= globalMinutes[b]
         /\ LiveGlobal(b, clock) => globalMinutes'[b] = globalMinutes[b]
<1>0. /\ globalMinutes[b] \in Nat
      /\ s \in Subjects => /\ minutes[s] \in [Buckets -> Nat] /\ minutes[s][b] \in Nat
                           /\ hours[s] \in [Buckets -> Nat] /\ hours[s][b] \in Nat
  BY DEF TypeOK
<1>1. CASE Arrive(r) \/ Release(r) \/ Drop(r)
  BY <1>0, <1>1 DEF Arrive, Release, Drop, subjectUsage, globalUsage
<1>2. CASE Admit(r) \/ Refuse(r)
  <2>1. call[r].now \in Nat /\ call[r].now <= clock /\ call[r].subject \in Subjects
    <3>1. stage[r] = "arrived"
      BY <1>2 DEF Admit, Refuse
    <3> QED BY <3>1, Counted DEF Stamped
  <2>2. PICK t \in Nat : t = call[r].now
    BY <2>1
  <2>3. /\ minutes' = [minutes EXCEPT ![call[r].subject] = PruneMinutes(@, t)]
        /\ hours' = [hours EXCEPT ![call[r].subject] = PruneHours(@, t)]
        /\ globalMinutes' = globalMinutes \/ globalMinutes' = PruneGlobal(t)
    BY <1>2, <2>2 DEF Admit, Refuse, PruneBuckets, globalUsage
  <2>4. s \in Subjects => /\ minutes'[s] \in {minutes[s], PruneMinutes(minutes[s], t)}
                          /\ hours'[s] \in {hours[s], PruneHours(hours[s], t)}
    BY <2>3 DEF TypeOK
  <2>5. \A usage \in [Buckets -> Nat] : PruneGlobal(t)[b] <= globalMinutes[b]
          /\ (LiveGlobal(b, clock) => PruneGlobal(t)[b] = globalMinutes[b])
    BY <2>1, <2>2, PruneKeepsLive
  <2>6. globalMinutes \in [Buckets -> Nat]
    BY DEF TypeOK
  <2> QED BY <1>0, <2>1, <2>2, <2>3, <2>4, <2>5, <2>6, PruneKeepsLive
<1> QED BY <1>1, <1>2 DEF Handle

\* The buckets that a settlement of r with n tokens charges.
ChargedWith(r, n) ==
  /\ minutes' = [minutes EXCEPT
       ![call[r].subject] = Charge(PruneMinutes(@, call[r].now), MinuteOf(call[r].now), n)]
  /\ hours' = [hours EXCEPT
       ![call[r].subject] = Charge(PruneHours(@, call[r].now), HourOf(call[r].now), n)]
  /\ globalMinutes' = IF call[r].bypass THEN globalMinutes
                      ELSE Charge(globalMinutes, MinuteOf(call[r].now), n)

(* A settlement charges one minute and one hour of its subject and, unless *)
(* the request bypasses the cap, one minute of the site.                   *)
LEMMA SettleBuckets ==
  ASSUME TypeOK, Stamped, NEW r \in Requests, Settle(r), NEW n \in Nat,
         ChargedWith(r, n),
         NEW s, NEW b \in Buckets
  PROVE  LET here == IF s = call[r].subject /\ b = MinuteOf(call[r].now) THEN n ELSE 0
             hour == IF s = call[r].subject /\ b = HourOf(call[r].now) THEN n ELSE 0
             site == IF ~call[r].bypass /\ b = MinuteOf(call[r].now) THEN n ELSE 0
         IN /\ s \in Subjects =>
                 /\ minutes'[s][b] <= minutes[s][b] + here
                 /\ LiveMinute(b, clock) => minutes'[s][b] = minutes[s][b] + here
                 /\ LiveHour(b, clock) => hours'[s][b] = hours[s][b] + hour
            /\ globalMinutes'[b] = globalMinutes[b] + site
<1>0. /\ s \in Subjects => /\ minutes[s] \in [Buckets -> Nat] /\ minutes[s][b] \in Nat
                           /\ hours[s] \in [Buckets -> Nat] /\ hours[s][b] \in Nat
      /\ globalMinutes \in [Buckets -> Nat] /\ globalMinutes[b] \in Nat
  BY DEF TypeOK
<1>1. /\ stage[r] = "calling" /\ call[r].now \in Nat /\ call[r].now <= clock
      /\ call[r].subject \in Subjects
      /\ MinuteOf(call[r].now) \in Buckets /\ HourOf(call[r].now) \in Buckets
  BY Counted DEF Settle, Stamped
<1>2. PICK t \in Nat, u \in Subjects, m \in Buckets, h \in Buckets :
        t = call[r].now /\ u = call[r].subject /\ m = MinuteOf(t) /\ h = HourOf(t)
  BY <1>1
<1>3. globalMinutes'[b] = globalMinutes[b] + IF ~call[r].bypass /\ b = m THEN n ELSE 0
  BY <1>0, <1>2 DEF Charge, ChargedWith
<1>6. CASE s \notin Subjects
  BY <1>2, <1>3, <1>6
<1>4. CASE s \in Subjects \ {u}
  <2>1. minutes'[s] = minutes[s] /\ hours'[s] = hours[s]
    BY <1>2, <1>4 DEF TypeOK, ChargedWith
  <2> QED BY <1>0, <1>2, <1>3, <1>4, <2>1
<1>5. CASE s = u
  <2>1. minutes'[s] = Charge(PruneMinutes(minutes[s], t), m, n)
    BY <1>2, <1>5 DEF TypeOK, ChargedWith
  <2>2. hours'[s] = Charge(PruneHours(hours[s], t), h, n)
    BY <1>2, <1>5 DEF TypeOK, ChargedWith
  <2>3. PruneMinutes(minutes[s], t) \in [Buckets -> Nat] /\ PruneHours(hours[s], t) \in [Buckets -> Nat]
    BY <1>0, <1>2, <1>5, Pruned
  <2>4. minutes'[s][b] = PruneMinutes(minutes[s], t)[b] + IF b = m THEN n ELSE 0
    BY <2>1, <2>3 DEF Charge
  <2>5. hours'[s][b] = PruneHours(hours[s], t)[b] + IF b = h THEN n ELSE 0
    BY <2>2, <2>3 DEF Charge
  <2>6. /\ PruneMinutes(minutes[s], t)[b] <= minutes[s][b] /\ PruneMinutes(minutes[s], t)[b] \in Nat
        /\ LiveMinute(b, clock) => PruneMinutes(minutes[s], t)[b] = minutes[s][b]
        /\ LiveHour(b, clock) => PruneHours(hours[s], t)[b] = hours[s][b]
    BY <1>0, <1>1, <1>2, <1>5, PruneKeepsLive
  <2> QED BY <1>0, <1>2, <1>3, <1>5, <2>4, <2>5, <2>6
<1> QED BY <1>4, <1>5, <1>6

-----------------------------------------------------------------------------
(* The invariants, step by step.                                           *)

(* Requests, snapshots and boots keep within the instants they read.       *)
LEMMA NextStamped ==
  ASSUME TypeOK, TypeOK', Stamped, DownIsEmpty, Next
  PROVE  Stamped'
<1> USE DEF process, subjectUsage, globalUsage, requests
<1>0. clock \in Nat /\ clock' \in Nat /\ CallTimeout \in Nat
  BY ClockAssumption DEF TypeOK, Instants
<1>1. CASE \E r \in Requests : Handle(r)
  <2>1. PICK r \in Requests : Handle(r)
    BY <1>1
  <2>2. /\ clock' = clock /\ snap' = snap /\ serving' = serving
        /\ \A q \in Requests \ {r} : stage'[q] = stage[q] /\ call'[q] = call[q]
    BY <2>1 DEF TypeOK, Handle, Arrive, Admit, Refuse, Settle, Release, Drop
  <2>3. stage'[r] \in {"arrived", "calling"} =>
          call'[r].now <= clock /\ clock <= call'[r].now + CallTimeout
    <3>1. CASE Arrive(r)
      <4>1. PICK c \in Calls : c.now = clock /\ call' = [call EXCEPT ![r] = c]
        BY <3>1 DEF Arrive
      <4> QED BY <1>0, <4>1 DEF TypeOK
    <3>2. CASE Admit(r)
      BY <3>2 DEF Admit, TypeOK, Stamped
    <3>3. CASE Refuse(r) \/ Settle(r) \/ Release(r) \/ Drop(r)
      BY <3>3 DEF Refuse, Settle, Release, Drop, TypeOK
    <3> QED BY <2>1, <3>1, <3>2, <3>3 DEF Handle
  <2> QED BY <2>2, <2>3 DEF Stamped
<1>2. CASE Tick
  <2>1. \A q \in Requests : stage[q] \in {"arrived", "calling"} => call[q].now \in Nat
    BY Counted
  <2>2. snap.now \in Nat
    BY ClockAssumption DEF TypeOK, Instants
  <2> QED BY <1>0, <1>2, <2>1, <2>2 DEF Tick, Stamped
<1>3. CASE Snapshot
  <2>1. UNCHANGED <<clock, stage, call, serving>>
    BY <1>3 DEF Snapshot, SnapCopy, SnapUpsert, SnapPrune, SnapEvict, SnapFail
  <2>2. /\ snap'.now <= clock /\ (~serving => snap'.phase = "idle")
        /\ snap'.phase # "writing" => snap'.rows = {}
    <3>1. CASE SnapCopy
      BY <1>0, <3>1 DEF SnapCopy
    <3>2. CASE SnapUpsert
      BY <1>0, <3>2 DEF SnapUpsert, Stamped, TypeOK
    <3>3. CASE SnapPrune
      BY <1>0, <3>3 DEF SnapPrune, Stamped, TypeOK
    <3>4. CASE SnapEvict \/ SnapFail
      BY <1>0, <3>4 DEF SnapEvict, SnapFail, NoSnap
    <3> QED BY <1>3, <3>1, <3>2, <3>3, <3>4 DEF Snapshot
  <2> QED BY <2>1, <2>2 DEF Stamped
<1>4. CASE Crash
  BY <1>0, <1>4 DEF Crash, NoSnap, Stamped
<1>5. CASE LoadFromDb \/ LoadFail
  BY <1>5 DEF LoadFromDb, LoadFail, Stamped
<1> QED BY <1>1, <1>2, <1>3, <1>4, <1>5 DEF Next, Serve, Restart

(* Nothing but an admitted request without an answer is counted pending.   *)
LEMMA NextOnlyOpen ==
  ASSUME TypeOK, TypeOK', OnlyOpen, Next
  PROVE  OnlyOpen'
<1> USE DEF process, subjectUsage, globalUsage, requests
<1>0. /\ \A s \in Subjects : reserved[s] \subseteq Requests
      /\ globalReserved \subseteq Requests
  BY DEF TypeOK
<1>1. CASE \E r \in Requests : Handle(r)
  <2>1. PICK r \in Requests : Handle(r)
    BY <1>1
  <2>2. \A q \in Requests \ {r} : stage'[q] = stage[q] /\ call'[q] = call[q]
    BY <2>1 DEF TypeOK, Handle, Arrive, Admit, Refuse, Settle, Release, Drop
  <2>3. CASE Arrive(r) \/ Drop(r)
    <3>1. UNCHANGED <<reserved, globalReserved>> /\ stage[r] \in {"idle", "calling"}
      BY <2>3 DEF Arrive, Drop
    <3>2. stage[r] = "calling" => stage'[r] = "dropped" /\ call'[r] = call[r]
      BY <2>3 DEF Arrive, Drop, TypeOK
    <3> QED BY <1>0, <2>2, <3>1, <3>2 DEF OnlyOpen
  <2>4. CASE Admit(r)
    <3>1. /\ stage[r] = "arrived" /\ stage'[r] = "calling" /\ call' = call
          /\ \A s \in Subjects : reserved'[s] \subseteq reserved[s] \cup (IF s = call[r].subject THEN {r} ELSE {})
          /\ globalReserved' \subseteq globalReserved \cup (IF call[r].bypass THEN {} ELSE {r})
      BY <2>4 DEF Admit, TypeOK, Unexpired
    <3>2. \A s \in Subjects : \A q \in reserved'[s] :
            stage'[q] \in {"calling", "dropped"} /\ call'[q].subject = s
      BY <1>0, <2>2, <3>1 DEF OnlyOpen
    <3>3. \A q \in globalReserved' : stage'[q] \in {"calling", "dropped"} /\ ~call'[q].bypass
      BY <1>0, <2>2, <3>1 DEF OnlyOpen
    <3> QED BY <3>2, <3>3 DEF OnlyOpen
  <2>5. CASE Refuse(r)
    <3>1. /\ stage[r] = "arrived"
          /\ \A s \in Subjects : reserved'[s] \subseteq reserved[s]
          /\ globalReserved' \subseteq globalReserved
      BY <2>5 DEF Refuse, TypeOK, Unexpired
    <3>2. r \notin globalReserved' /\ \A s \in Subjects : r \notin reserved'[s]
      BY <3>1 DEF OnlyOpen
    <3> QED BY <1>0, <2>2, <3>1, <3>2 DEF OnlyOpen
  <2>6. CASE Settle(r) \/ Release(r)
    <3>0. stage[r] = "calling" /\ call[r].subject \in Subjects
      BY <2>6, Counted DEF Settle, Release
    <3>3. \/ reserved' = [reserved EXCEPT ![call[r].subject] = Unexpired(@, call[r].now) \ {r}]
          \/ reserved' = [reserved EXCEPT ![call[r].subject] = @ \ {r}]
      BY <2>6 DEF Settle, Release
    <3>4. /\ \A s \in Subjects : reserved'[s] \subseteq reserved[s]
          /\ r \notin reserved'[call[r].subject]
      <4>1. reserved \in [Subjects -> SUBSET Requests]
        BY DEF TypeOK
      <4>2. PICK u \in Subjects : u = call[r].subject
        BY <3>0
      <4>3. /\ reserved'[u] \subseteq reserved[u] \ {r}
            /\ \A s \in Subjects \ {u} : reserved'[s] = reserved[s]
        BY <3>3, <4>1, <4>2 DEF Unexpired
      <4> QED BY <4>2, <4>3
    <3>5. /\ globalReserved' \subseteq globalReserved
          /\ ~call[r].bypass => r \notin globalReserved'
      BY <2>6 DEF Settle, Release
    <3>1. /\ stage[r] = "calling" /\ call[r].subject \in Subjects
          /\ \A s \in Subjects : reserved'[s] \subseteq reserved[s]
          /\ r \notin reserved'[call[r].subject]
          /\ globalReserved' \subseteq globalReserved
          /\ ~call[r].bypass => r \notin globalReserved'
      BY <3>0, <3>4, <3>5
    <3>2. r \notin globalReserved' /\ \A s \in Subjects : r \notin reserved'[s]
      BY <3>1 DEF OnlyOpen
    <3> QED BY <1>0, <2>2, <3>1, <3>2 DEF OnlyOpen
  <2> QED BY <2>1, <2>3, <2>4, <2>5, <2>6 DEF Handle
<1>2. CASE Tick \/ SnapCopy \/ SnapUpsert \/ SnapPrune \/ SnapFail \/ LoadFromDb \/ LoadFail
  <2>1. UNCHANGED <<reserved, globalReserved, stage, call>>
    BY <1>2 DEF Tick, SnapCopy, SnapUpsert, SnapPrune, SnapFail, LoadFromDb, LoadFail
  <2> QED BY <2>1 DEF OnlyOpen
<1>3. CASE SnapEvict
  <2>1. UNCHANGED <<globalReserved, stage, call>> /\ \A s \in Subjects : reserved'[s] \subseteq reserved[s]
    BY <1>3 DEF SnapEvict
  <2> QED BY <2>1 DEF OnlyOpen
<1>4. CASE Crash
  BY <1>4 DEF Crash, OnlyOpen
<1> QED BY <1>1, <1>2, <1>3, <1>4 DEF Next, Serve, Snapshot, Restart

(* What a settlement adds to each count, in the terms of its own kind.     *)
LEMMA KindOf ==
  ASSUME TypeOK, NEW q \in Requests, stage[q] # "idle"
  PROVE  /\ \A s, m : KeyOf(call[q]) \in InMinute(s, m) <=> s = call[q].subject /\ m = MinuteOf(call[q].now)
         /\ \A m : KeyOf(call[q]) \in OnSite(m) <=> ~call[q].bypass /\ m = MinuteOf(call[q].now)
         /\ \A s, h, t : KeyOf(call[q]) \in InHour(s, h, t) <=>
              s = call[q].subject /\ h = HourOf(call[q].now) /\ call[q].now >= t - IdleSecs + CallTimeout
<1>1. /\ KeyOf(call[q]) \in Keys
      /\ KeyOf(call[q])[1] = call[q].subject /\ KeyOf(call[q])[2] = call[q].now
      /\ KeyOf(call[q])[3] = call[q].bypass
  BY Counted DEF KeyOf
<1> QED BY <1>1 DEF InMinute, OnSite, InHour

(* After a crash nothing that this process settled is left to count.       *)
LEMMA CrashTook ==
  ASSUME Crash, NEW P
  PROVE  Took(P)' = 0
<1>1. Among(P)' = {}
  BY DEF Crash, Among, Settled
<1>2. TokensIn(call', {}) = 0
  BY TokensType
<1>3. Took(P)' = TokensIn(call', Among(P)')
  BY DEF Took, Tokens, TokensIn
<1> QED BY <1>1, <1>2, <1>3

(* A step that settles nothing and is no crash lowers minutes at most.     *)
LEMMA QuietMinutes ==
  ASSUME TypeOK, Stamped, Next, ~Crash, \A r \in Requests : ~Settle(r),
         NEW s, NEW m \in Buckets
  PROVE  (s \in Subjects => minutes'[s][m] <= minutes[s][m]) /\ globalMinutes'[m] <= globalMinutes[m]
<1>0. (s \in Subjects => minutes[s][m] \in Nat) /\ globalMinutes[m] \in Nat
  BY DEF TypeOK
<1>1. CASE \E r \in Requests : Handle(r)
  <2>1. PICK r \in Requests : Handle(r) /\ ~Settle(r)
    BY <1>1
  <2> QED BY <2>1, HandleBuckets
<1>2. CASE Tick \/ Snapshot \/ LoadFromDb \/ LoadFail
  <2>1. globalMinutes' = globalMinutes
    BY <1>2 DEF Tick, Snapshot, SnapCopy, SnapUpsert, SnapPrune, SnapEvict, SnapFail, LoadFromDb,
                LoadFail, globalUsage
  <2>2. s \in Subjects => minutes'[s][m] \in {0, minutes[s][m]}
    BY <1>2 DEF Tick, Snapshot, SnapCopy, SnapUpsert, SnapPrune, SnapEvict, SnapFail, LoadFromDb,
                LoadFail, subjectUsage, Empty
  <2> QED BY <1>0, <2>1, <2>2
<1> QED BY <1>1, <1>2 DEF Next, Serve, Restart

(* No step puts more into a minute than what was settled in it.            *)
LEMMA NextAtMostTook ==
  ASSUME TypeOK, TypeOK', Stamped, AtMostTook, Next
  PROVE  AtMostTook'
<1>0. /\ \A s \in Subjects, m \in Buckets : minutes[s][m] \in Nat /\ minutes'[s][m] \in Nat
      /\ \A m \in Buckets : globalMinutes[m] \in Nat /\ globalMinutes'[m] \in Nat
  BY DEF TypeOK
<1>a. \A P : Took(P) \in Nat
  BY TookType
<1>b. /\ \A s \in Subjects, m \in Buckets : minutes[s][m] <= Took(InMinute(s, m))
      /\ \A m \in Buckets : globalMinutes[m] <= Took(OnSite(m))
  BY DEF AtMostTook
<1> SUFFICES ASSUME NEW s, NEW m \in Buckets
             PROVE  /\ s \in Subjects => minutes'[s][m] <= Took(InMinute(s, m))'
                    /\ globalMinutes'[m] <= Took(OnSite(m))'
  BY DEF AtMostTook
<1>1. CASE ~Crash /\ \A r \in Requests : ~Settle(r)
  <2>1. Took(InMinute(s, m))' = Took(InMinute(s, m)) /\ Took(OnSite(m))' = Took(OnSite(m))
    BY <1>1, SettledStays, QuietTook
  <2>2. (s \in Subjects => minutes'[s][m] <= minutes[s][m]) /\ globalMinutes'[m] <= globalMinutes[m]
    BY <1>1, QuietMinutes
  <2> QED BY <1>0, <1>a, <1>b, <2>1, <2>2
<1>2. CASE \E r \in Requests : Settle(r)
  <2>1. PICK r \in Requests : Settle(r)
    BY <1>2
  <2>2. PICK n \in Nat :
          /\ ChargedWith(r, n)
          /\ call' = [call EXCEPT ![r].tokens = n]
    BY <2>1, AmountAssumption DEF Settle, ChargedWith
  <2>3. stage[r] = "calling" /\ stage' = [stage EXCEPT ![r] = "settled"]
    BY <2>1 DEF Settle
  <2>4. /\ Took(InMinute(s, m))' = Took(InMinute(s, m)) + IF KeyOf(call[r]) \in InMinute(s, m) THEN n ELSE 0
        /\ Took(OnSite(m))' = Took(OnSite(m)) + IF KeyOf(call[r]) \in OnSite(m) THEN n ELSE 0
    BY <2>2, <2>3, SettleTook
  <2>5. /\ KeyOf(call[r]) \in InMinute(s, m) <=> s = call[r].subject /\ m = MinuteOf(call[r].now)
        /\ KeyOf(call[r]) \in OnSite(m) <=> ~call[r].bypass /\ m = MinuteOf(call[r].now)
    BY <2>3, KindOf
  <2>6. /\ s \in Subjects => minutes'[s][m] <= minutes[s][m]
             + IF s = call[r].subject /\ m = MinuteOf(call[r].now) THEN n ELSE 0
        /\ globalMinutes'[m] = globalMinutes[m]
             + IF ~call[r].bypass /\ m = MinuteOf(call[r].now) THEN n ELSE 0
    BY <2>1, <2>2, SettleBuckets
  <2> QED BY <1>0, <1>a, <1>b, <2>4, <2>5, <2>6
<1>3. CASE Crash
  <2>1. (s \in Subjects => minutes'[s][m] = 0) /\ globalMinutes'[m] = 0
    BY <1>3 DEF Crash, Empty
  <2> QED BY <1>3, <2>1, CrashTook
<1> QED BY <1>1, <1>2, <1>3

\* A subject is kept for longer than its live minutes last.
IdleOutlastsHour == HourlyMinutes * SecsPerMinute + CallTimeout <= IdleSecs

(* An instant of a live minute is less than the window ago.                *)
LEMMA LiveSince ==
  ASSUME NEW t \in Nat, NEW c \in Nat, LiveMinute(MinuteOf(t), c)
  PROVE  c < t + HourlyMinutes * SecsPerMinute
<1> DEFINE M == MinuteOf(c)
           m == MinuteOf(t)
           S == SecsPerMinute
           H == HourlyMinutes
<1>1. /\ S \in Nat /\ H \in Nat /\ M \in Nat /\ m \in Nat
      /\ c < S * M + S /\ S * m <= t /\ S * M \in Nat /\ S * m \in Nat
  BY ClockAssumption, Division DEF MinuteOf
<1>2. M + 1 <= m + H
  BY <1>1, ClockAssumption DEF LiveMinute
<1> HIDE DEF M, m, S, H
<1>3. S * (M + 1) <= S * (m + H)
  BY <1>1, <1>2, Times
<1>4. S * (M + 1) = S * M + S /\ S * (m + H) = S * m + H * S /\ H * S \in Nat
  BY <1>1
<1>5. c < t + H * S
  BY <1>1, <1>3, <1>4
<1> QED BY <1>5 DEF H, S

(* A subject that settled something lately is not evicted.                 *)
LEMMA NextSettledSeen ==
  ASSUME TypeOK, TypeOK', Stamped, DownIsEmpty, SettledSeen, Next
  PROVE  SettledSeen'
<1> USE DEF process, subjectUsage, globalUsage, requests
<1>0. /\ clock \in Nat /\ clock' \in Nat /\ CallTimeout \in Nat /\ IdleSecs \in Nat /\ snap.now \in Nat
      /\ \A s \in Subjects : lastSeen[s] \in Nat
      /\ \A q \in Settled : q \in Requests /\ stage[q] = "settled"
                              /\ call[q].now \in Nat /\ call[q].subject \in Subjects
  BY ClockAssumption, Counted DEF TypeOK, Instants, Settled
<1>1. CASE \E r \in Requests : Admit(r) \/ Settle(r)
  <2>1. PICK r \in Requests : Admit(r) \/ Settle(r)
    BY <1>1
  <2>2. /\ stage[r] \in {"arrived", "calling"} /\ clock' = clock
        /\ lastSeen' = [lastSeen EXCEPT ![call[r].subject] = call[r].now]
    BY <2>1 DEF Admit, Settle
  <2>3. call[r].now \in Nat /\ call[r].subject \in Subjects
        /\ call[r].now <= clock /\ clock <= call[r].now + CallTimeout
    BY <2>2, Counted DEF Stamped
  <2>4. /\ \A q \in Requests \ {r} : stage'[q] = stage[q] /\ call'[q] = call[q]
        /\ call'[r].now = call[r].now /\ call'[r].subject = call[r].subject
    BY <2>1 DEF TypeOK, Admit, Settle, Calls
  <2>5. ASSUME NEW q \in Settled'
        PROVE  /\ call'[q].now <= clock'
               /\ \/ lastSeen'[call'[q].subject] >= call'[q].now - CallTimeout
                  \/ call'[q].now + IdleSecs < clock' + CallTimeout
    <3>1. q \in Requests /\ stage'[q] = "settled"
      BY DEF Settled
    <3>2. CASE q = r
      <4>1. lastSeen'[call[r].subject] = call[r].now
        BY <2>2, <2>3 DEF TypeOK
      <4> QED BY <1>0, <2>2, <2>3, <2>4, <3>2, <4>1
    <3>3. CASE q # r
      <4>1. q \in Settled /\ call'[q] = call[q]
        BY <2>4, <3>1, <3>3 DEF Settled
      <4>2. lastSeen'[call[q].subject] \in {lastSeen[call[q].subject], call[r].now}
        BY <1>0, <2>2, <4>1 DEF TypeOK
      <4> QED BY <1>0, <2>2, <2>3, <4>1, <4>2 DEF SettledSeen
    <3> QED BY <3>2, <3>3
  <2> QED BY <2>5 DEF SettledSeen
<1>2. CASE \E r \in Requests : Arrive(r) \/ Refuse(r) \/ Release(r) \/ Drop(r)
  <2>1. PICK r \in Requests : Arrive(r) \/ Refuse(r) \/ Release(r) \/ Drop(r)
    BY <1>2
  <2>3. /\ UNCHANGED <<clock, lastSeen>> /\ stage[r] # "settled" /\ stage'[r] # "settled"
        /\ \A q \in Requests \ {r} : stage'[q] = stage[q] /\ call'[q] = call[q]
    BY <2>1 DEF TypeOK, Arrive, Refuse, Release, Drop
  <2>2. Settled' = Settled /\ \A q \in Settled : call'[q] = call[q]
    BY <2>3 DEF Settled
  <2> QED BY <2>2, <2>3 DEF SettledSeen
<1>3. CASE Tick
  BY <1>0, <1>3 DEF Tick, SettledSeen, Settled
<1>4. CASE SnapCopy \/ SnapUpsert \/ SnapPrune \/ SnapFail
  <2>1. UNCHANGED <<clock, lastSeen, stage, call>>
    BY <1>4 DEF SnapCopy, SnapUpsert, SnapPrune, SnapFail
  <2> QED BY <2>1 DEF SettledSeen, Settled
<1>5. CASE SnapEvict
  <2>1. UNCHANGED <<clock, stage, call>> /\ snap.now <= clock
    BY <1>5 DEF SnapEvict, Stamped
  <2>2. \A s \in Subjects : lastSeen'[s] = IF s \in StillIdle THEN 0 ELSE lastSeen[s]
    BY <1>5 DEF SnapEvict
  <2>3. \A s \in StillIdle : lastSeen[s] < snap.now - IdleSecs
    BY DEF StillIdle
  <2>4. Settled' = Settled
    BY <2>1 DEF Settled
  <2> QED BY <1>0, <2>1, <2>2, <2>3, <2>4 DEF SettledSeen
<1>6. CASE Restart
  <2>1. Settled' = {}
    BY <1>6 DEF Restart, Crash, LoadFromDb, LoadFail, DownIsEmpty, Settled
  <2> QED BY <2>1 DEF SettledSeen
<1> QED BY <1>1, <1>2, <1>3, <1>4, <1>5, <1>6 DEF Next, Serve, Handle, Snapshot

(* An eviction takes away nothing that was settled in a live bucket.       *)
LEMMA EvictsNothing ==
  ASSUME TypeOK, Stamped, SettledSeen, NEW s \in StillIdle, NEW x \in Buckets
  PROVE  /\ IdleOutlastsHour /\ LiveMinute(x, clock) => Took(InMinute(s, x)) = 0
         /\ \A t \in Nat : clock <= t => Took(InHour(s, x, t)) = 0
<1>0. /\ clock \in Nat /\ CallTimeout \in Nat /\ IdleSecs \in Nat /\ snap.now \in Nat
      /\ s \in Subjects => lastSeen[s] \in Nat
  BY ClockAssumption DEF TypeOK, Instants
<1>1. lastSeen[s] < snap.now - IdleSecs /\ snap.now <= clock
  BY DEF StillIdle, Stamped
<1>2. ASSUME NEW q \in Settled, call[q].subject = s
      PROVE  call[q].now \in Nat /\ call[q].now + IdleSecs < clock + CallTimeout
  <2>1. call[q].now \in Nat /\ s \in Subjects
    BY <1>2, Counted DEF Settled
  <2> QED BY <1>0, <1>1, <1>2, <2>1 DEF SettledSeen
<1>3. ASSUME IdleOutlastsHour, LiveMinute(x, clock) PROVE Took(InMinute(s, x)) = 0
  <2>1. ASSUME NEW q \in Among(InMinute(s, x)) PROVE FALSE
    <3>1. q \in Settled /\ call[q].subject = s /\ MinuteOf(call[q].now) = x
      BY KindOf DEF Among, Settled
    <3>2. clock < call[q].now + HourlyMinutes * SecsPerMinute
      BY <1>0, <1>2, <1>3, <3>1, LiveSince
    <3>3. HourlyMinutes * SecsPerMinute \in Nat
      BY ClockAssumption
    <3> QED BY <1>0, <1>2, <1>3, <3>1, <3>2, <3>3 DEF IdleOutlastsHour
  <2> QED BY <2>1, TookType
<1>4. ASSUME NEW t \in Nat, clock <= t PROVE Took(InHour(s, x, t)) = 0
  <2>1. ASSUME NEW q \in Among(InHour(s, x, t)) PROVE FALSE
    <3>1. q \in Settled /\ call[q].subject = s /\ call[q].now >= t - IdleSecs + CallTimeout
      BY KindOf DEF Among, Settled
    <3> QED BY <1>0, <1>2, <1>4, <3>1
  <2> QED BY <2>1, TookType
<1> QED BY <1>3, <1>4

(* Live buckets keep all of what was settled in them.                      *)
LEMMA NextAtLeastTook ==
  ASSUME TypeOK, TypeOK', Stamped, DownIsEmpty, SettledSeen, AtLeastTook, Next, IdleOutlastsHour
  PROVE  AtLeastTook'
<1> USE DEF process, subjectUsage, globalUsage, requests
<1>0. /\ clock \in Nat /\ clock' \in Nat /\ clock <= clock'
      /\ \A s \in Subjects, b \in Buckets : minutes[s][b] \in Nat /\ hours[s][b] \in Nat
      /\ \A b \in Buckets : globalMinutes[b] \in Nat
  <2>1. clock \in Nat /\ clock' \in Nat
    BY ClockAssumption DEF TypeOK, Instants
  <2>2. clock' = clock \/ clock' = clock + 1
    BY DEF Next, Serve, Handle, Arrive, Admit, Refuse, Settle, Release, Drop, Tick,
           Snapshot, SnapCopy, SnapUpsert, SnapPrune, SnapEvict, SnapFail,
           Restart, Crash, LoadFromDb, LoadFail
  <2> QED BY <2>1, <2>2 DEF TypeOK
<1>a. \A P : Took(P) \in Nat
  BY TookType
<1> SUFFICES ASSUME NEW s, NEW b \in Buckets
             PROVE  /\ LiveMinute(b, clock)' /\ s \in Subjects =>
                         minutes'[s][b] >= Took(InMinute(s, b))'
                    /\ LiveGlobal(b, clock)' => globalMinutes'[b] >= Took(OnSite(b))'
                    /\ \A t \in Nat : LiveHour(b, clock)' /\ clock' <= t /\ s \in Subjects =>
                         hours'[s][b] >= Took(InHour(s, b, t))'
  BY DEF AtLeastTook
<1>b. /\ LiveMinute(b, clock)' => LiveMinute(b, clock)
      /\ LiveGlobal(b, clock)' => LiveGlobal(b, clock)
      /\ LiveHour(b, clock)' => LiveHour(b, clock)
  <2>1. PICK c \in Nat : c = clock'
    BY <1>0
  <2>2. /\ LiveMinute(b, c) => LiveMinute(b, clock)
        /\ LiveGlobal(b, c) => LiveGlobal(b, clock)
        /\ LiveHour(b, c) => LiveHour(b, clock)
    BY <1>0, <2>1, EarlierLive
  <2>3. /\ LiveMinute(b, clock)' => LiveMinute(b, c)
        /\ LiveGlobal(b, clock)' => LiveGlobal(b, c)
        /\ LiveHour(b, clock)' => LiveHour(b, c)
    BY <2>1 DEF LiveMinute, LiveGlobal, LiveHour
  <2> QED BY <2>2, <2>3
<1>c. /\ LiveMinute(b, clock) /\ s \in Subjects => minutes[s][b] >= Took(InMinute(s, b))
      /\ LiveGlobal(b, clock) => globalMinutes[b] >= Took(OnSite(b))
      /\ \A t \in Nat : LiveHour(b, clock) /\ clock <= t /\ s \in Subjects =>
           hours[s][b] >= Took(InHour(s, b, t))
  BY DEF AtLeastTook
<1>1. CASE ~Crash /\ \A r \in Requests : ~Settle(r)
  <2>2. Took(InMinute(s, b))' = Took(InMinute(s, b)) /\ Took(OnSite(b))' = Took(OnSite(b))
        /\ \A t \in Nat : Took(InHour(s, b, t))' = Took(InHour(s, b, t))
    BY <1>1, SettledStays, QuietTook
  <2>3. CASE \E r \in Requests : Handle(r)
    <3>1. PICK r \in Requests : Handle(r) /\ ~Settle(r)
      BY <1>1, <2>3
    <3>2. /\ LiveMinute(b, clock) /\ s \in Subjects => minutes'[s][b] = minutes[s][b]
          /\ LiveGlobal(b, clock) => globalMinutes'[b] = globalMinutes[b]
          /\ LiveHour(b, clock) /\ s \in Subjects => hours'[s][b] = hours[s][b]
      BY <3>1, HandleBuckets
    <3>3. clock' = clock
      BY <3>1 DEF Handle, Arrive, Admit, Refuse, Release, Drop
    <3> QED BY <1>0, <1>a, <1>b, <1>c, <2>2, <3>2, <3>3
  <2>4. CASE Tick \/ SnapCopy \/ SnapUpsert \/ SnapPrune \/ SnapFail
    <3>1. UNCHANGED <<minutes, hours, globalMinutes>>
      BY <2>4 DEF Tick, SnapCopy, SnapUpsert, SnapPrune, SnapFail
    <3> QED BY <1>0, <1>a, <1>b, <1>c, <2>2, <3>1
  <2>5. CASE SnapEvict
    <3>1. /\ UNCHANGED <<clock, globalMinutes>>
          /\ s \in Subjects => /\ minutes'[s] = IF s \in StillIdle THEN Empty[s] ELSE minutes[s]
                               /\ hours'[s] = IF s \in StillIdle THEN Empty[s] ELSE hours[s]
      BY <2>5 DEF SnapEvict
    <3>2. s \in StillIdle /\ s \in Subjects => minutes'[s][b] = 0 /\ hours'[s][b] = 0
      BY <3>1 DEF Empty
    <3>3. s \in StillIdle =>
            /\ LiveMinute(b, clock) => Took(InMinute(s, b)) = 0
            /\ \A t \in Nat : clock <= t => Took(InHour(s, b, t)) = 0
      BY EvictsNothing
    <3> QED BY <1>0, <1>a, <1>b, <1>c, <2>2, <3>1, <3>2, <3>3
  <2>6. CASE LoadFromDb \/ LoadFail
    <3>1. \A P : Took(P) = 0
      <4>1. Settled = {}
        BY <2>6 DEF LoadFromDb, LoadFail, DownIsEmpty, Settled
      <4> QED BY <4>1, TookType DEF Among
    <3>2. s \in Subjects => minutes'[s][b] \in Nat /\ hours'[s][b] \in Nat
      BY DEF TypeOK
    <3>3. globalMinutes'[b] \in Nat
      BY DEF TypeOK
    <3> QED BY <2>2, <3>1, <3>2, <3>3
  <2> QED BY <1>1, <2>3, <2>4, <2>5, <2>6 DEF Next, Serve, Snapshot, Restart
<1>2. CASE \E r \in Requests : Settle(r)
  <2>1. PICK r \in Requests : Settle(r)
    BY <1>2
  <2>2. PICK n \in Nat :
          /\ ChargedWith(r, n)
          /\ call' = [call EXCEPT ![r].tokens = n]
    BY <2>1, AmountAssumption DEF Settle, ChargedWith
  <2>3. stage[r] = "calling" /\ stage' = [stage EXCEPT ![r] = "settled"] /\ clock' = clock
    BY <2>1 DEF Settle
  <2>4. /\ Took(InMinute(s, b))' = Took(InMinute(s, b)) + IF KeyOf(call[r]) \in InMinute(s, b) THEN n ELSE 0
        /\ Took(OnSite(b))' = Took(OnSite(b)) + IF KeyOf(call[r]) \in OnSite(b) THEN n ELSE 0
        /\ \A t \in Nat : Took(InHour(s, b, t))'
             = Took(InHour(s, b, t)) + IF KeyOf(call[r]) \in InHour(s, b, t) THEN n ELSE 0
    BY <2>2, <2>3, SettleTook
  <2>5. /\ KeyOf(call[r]) \in InMinute(s, b) <=> s = call[r].subject /\ b = MinuteOf(call[r].now)
        /\ KeyOf(call[r]) \in OnSite(b) <=> ~call[r].bypass /\ b = MinuteOf(call[r].now)
        /\ \A t : KeyOf(call[r]) \in InHour(s, b, t) => s = call[r].subject /\ b = HourOf(call[r].now)
    BY <2>3, KindOf
  <2>6. /\ LiveMinute(b, clock) /\ s \in Subjects => minutes'[s][b] = minutes[s][b]
             + IF s = call[r].subject /\ b = MinuteOf(call[r].now) THEN n ELSE 0
        /\ globalMinutes'[b] = globalMinutes[b]
             + IF ~call[r].bypass /\ b = MinuteOf(call[r].now) THEN n ELSE 0
        /\ LiveHour(b, clock) /\ s \in Subjects => hours'[s][b] = hours[s][b]
             + IF s = call[r].subject /\ b = HourOf(call[r].now) THEN n ELSE 0
    BY <2>1, <2>2, SettleBuckets
  <2> QED BY <1>0, <1>a, <1>b, <1>c, <2>3, <2>4, <2>5, <2>6
<1>3. CASE Crash
  <2>1. (s \in Subjects => minutes'[s][b] = 0 /\ hours'[s][b] = 0) /\ globalMinutes'[b] = 0
    BY <1>3 DEF Crash, Empty
  <2> QED BY <1>3, <2>1, CrashTook
<1> QED BY <1>1, <1>2, <1>3

-----------------------------------------------------------------------------
(* What the ledgers promise.                                               *)

(* Nothing is settled at first.                                            *)
LEMMA InitLInv == Init => LInv
<1> SUFFICES ASSUME Init PROVE LInv
  OBVIOUS
<1>1. TypeOK /\ DownIsEmpty
  BY InitIInv DEF IInv
<1>2. Settled = {} /\ \A P : Among(P) = {}
  BY DEF Init, Settled, Among
<1>3. \A P : Took(P) = 0
  BY <1>1, <1>2, TookType
<1>4. Stamped
  BY ClockAssumption DEF Init, Stamped, NoSnap
<1>5. OnlyOpen /\ SettledSeen
  BY <1>2 DEF Init, OnlyOpen, SettledSeen
<1>6. /\ \A s \in Subjects, b \in Buckets : minutes[s][b] = 0 /\ hours[s][b] = 0
      /\ \A b \in Buckets : globalMinutes[b] = 0
  BY DEF Init, Empty
<1>7. AtMostTook
  BY <1>3, <1>6 DEF AtMostTook
<1>8. AtLeastTook
  BY <1>3, <1>6 DEF AtLeastTook
<1> QED BY <1>1, <1>4, <1>5, <1>7, <1>8 DEF LInv, PInv

(* A step that changes nothing keeps all of them.                          *)
LEMMA StutterLInv == LInv /\ UNCHANGED vars => LInv'
<1> SUFFICES ASSUME LInv, UNCHANGED vars PROVE LInv'
  OBVIOUS
<1> USE DEF vars, process, subjectUsage, globalUsage, requests
<1>1. TypeOK'
  BY NextTypeOK DEF LInv, PInv
<1>2. \A P : Took(P)' = Took(P)
  BY DEF Took, Tokens, Among, Settled
<1>3. Stamped' /\ OnlyOpen' /\ SettledSeen' /\ DownIsEmpty'
  BY DEF LInv, PInv, Stamped, OnlyOpen, SettledSeen, DownIsEmpty, Settled
<1>4. AtMostTook'
  BY <1>2 DEF LInv, PInv, AtMostTook
<1>5. AtLeastTook'
  BY <1>2 DEF LInv, AtLeastTook, LiveMinute, LiveGlobal, LiveHour
<1> QED BY <1>1, <1>3, <1>4, <1>5 DEF LInv, PInv

(* Whatever the timeouts: requests keep to the instants they read, only    *)
(* unanswered ones are reserved, and no minute is charged too much.        *)
THEOREM Pending == Spec => []PInv
<1>1. Init => PInv
  BY InitLInv DEF LInv
<1>2. PInv /\ [Next]_vars => PInv'
  <2> SUFFICES ASSUME PInv, [Next]_vars PROVE PInv'
    OBVIOUS
  <2>1. TypeOK'
    BY NextTypeOK DEF PInv
  <2>2. CASE Next
    BY <2>1, <2>2, NextStamped, NextDownIsEmpty, NextOnlyOpen, NextAtMostTook DEF PInv
  <2>3. CASE UNCHANGED vars
    <3> USE <2>3 DEF vars, process, subjectUsage, globalUsage, requests
    <3>1. \A P : Took(P)' = Took(P)
      BY DEF Took, Tokens, Among, Settled
    <3>2. AtMostTook'
      BY <3>1 DEF PInv, AtMostTook
    <3> QED BY <2>1, <3>2 DEF PInv, Stamped, OnlyOpen, DownIsEmpty
  <2> QED BY <2>2, <2>3
<1> QED BY <1>1, <1>2, PTL DEF Spec

(* With an idle limit beyond the hourly window, live buckets are complete. *)
THEOREM Ledgers == IdleOutlastsHour => (Spec => []LInv)
<1> SUFFICES ASSUME IdleOutlastsHour PROVE Spec => []LInv
  OBVIOUS
<1>1. LInv /\ [Next]_vars => LInv'
  <2> SUFFICES ASSUME LInv, [Next]_vars PROVE LInv'
    OBVIOUS
  <2>1. TypeOK'
    BY NextTypeOK DEF LInv, PInv
  <2>2. CASE Next
    BY <2>1, <2>2, NextStamped, NextDownIsEmpty, NextOnlyOpen, NextAtMostTook,
       NextSettledSeen, NextAtLeastTook DEF LInv, PInv
  <2> QED BY <2>2, StutterLInv
<1> QED BY <1>1, InitLInv, PTL DEF Spec

(* The requests a bucket stands for, in the terms of LedgersExact.         *)
LEMMA BucketOf ==
  ASSUME TypeOK, NEW s, NEW m
  PROVE  /\ {q \in Settled : MinuteOf(call[q].now) = m} \cap Of(s) = Among(InMinute(s, m))
         /\ {q \in Settled : MinuteOf(call[q].now) = m} \cap Capped = Among(OnSite(m))
<1>1. \A q \in Settled : q \in Requests /\ call[q] # NoCall /\ stage[q] # "idle"
  BY Counted DEF Settled
<1> QED BY <1>1, KindOf DEF Among, Of, Capped

(* settle keeps both ledgers exact: see LedgersExact.                      *)
THEOREM LedgersAreExact == IdleOutlastsHour => (Spec => []LedgersExact)
<1> SUFFICES ASSUME IdleOutlastsHour PROVE Spec => []LedgersExact
  OBVIOUS
<1>1. LInv => LedgersExact
  <2> SUFFICES ASSUME LInv, NEW m \in Buckets
               PROVE  /\ LiveMinute(m, clock) => \A s \in Subjects : minutes[s][m] = Took(InMinute(s, m))
                      /\ LiveGlobal(m, clock) => globalMinutes[m] = Took(OnSite(m))
    BY BucketOf DEF LedgersExact, Took, LInv, PInv
  <2>1. \A P : Took(P) \in Nat
    BY TookType DEF LInv, PInv
  <2>2. (\A s \in Subjects : minutes[s][m] \in Nat) /\ globalMinutes[m] \in Nat
    BY DEF LInv, PInv, TypeOK
  <2> QED BY <2>1, <2>2 DEF LInv, PInv, AtMostTook, AtLeastTook
<1>2. Spec => []LInv
  BY Ledgers
<1> QED BY <1>1, <1>2, PTL

-----------------------------------------------------------------------------
(* reserve.                                                                *)

(* The tokens of kinds that do not overlap add up.                         *)
LEMMA TookByBucket ==
  ASSUME TypeOK, NEW P \in [Buckets -> SUBSET Keys],
         \A a, b \in Buckets : a # b => P[a] \cap P[b] = {}, NEW R \in SUBSET Buckets
  PROVE  SumFunctionOnSet([b \in Buckets |-> Took(P[b])], R) = Took(UNION {P[b] : b \in R})
<1> DEFINE U == UNION {P[b] : b \in R}
           Q == Among(U)
           f == [q \in Q |-> call[q].tokens]
           part == [b \in R |-> Among(P[b])]
           g == [b \in Buckets |-> Took(P[b])]
<1>1. Q \in SUBSET Requests /\ \A q \in Q : call[q].tokens \in Nat
  BY Counted
<1>2. IsFiniteSet(Q) /\ IsFiniteSet(R)
  <2>1. IsFiniteSet(Buckets)
    BY ClockAssumption, FS_Interval DEF Buckets
  <2> QED BY <1>1, <2>1, FS_Subset, AmountAssumption
<1>3. ASSUME NEW m \in R
      PROVE  part[m] \in SUBSET Q /\ g[m] = SumFunctionOnSet(f, part[m])
  <2>1. Among(P[m]) \in SUBSET Q
    BY DEF Among
  <2>2. IsFiniteSet(Among(P[m]))
    BY <1>2, <2>1, FS_Subset
  <2> DEFINE e == [q \in Among(P[m]) |-> call[q].tokens]
  <2>3. (\A q \in Among(P[m]) : e[q] = f[q]) /\ g[m] = SumFunctionOnSet(e, Among(P[m]))
    BY <2>1 DEF Took, Tokens
  <2>4. part[m] = Among(P[m])
    OBVIOUS
  <2> HIDE DEF e, f, part, g
  <2>5. SumFunctionOnSet(e, Among(P[m])) = SumFunctionOnSet(f, Among(P[m]))
    BY <2>2, <2>3, SumSame
  <2> QED BY <2>1, <2>3, <2>4, <2>5
<1>4. \A m, n \in R : m # n => part[m] \cap part[n] = {}
  BY DEF Among
<1>5. \A q \in Q : f[q] \in Int
  BY <1>1
<1>6. UNION {part[b] : b \in R} = Q
  BY DEF Among
<1>7. Took(U) = SumFunctionOnSet(f, Q)
  BY DEF Took, Tokens
<1> HIDE DEF Q, f, part, g, U
<1>8. SumFunctionOnSet(g, R) = SumFunctionOnSet(f, UNION {part[b] : b \in R})
  BY <1>2, <1>3, <1>4, <1>5, SumParts
<1> QED BY <1>6, <1>7, <1>8 DEF g, U

(* Buckets with no more (no less) than what was settled in them count for  *)
(* no more (no less) than the requests of the window.                      *)
LEMMA WindowSum ==
  ASSUME TypeOK, NEW P \in [Buckets -> SUBSET Keys],
         \A a, b \in Buckets : a # b => P[a] \cap P[b] = {}, NEW R \in SUBSET Buckets,
         NEW T \in SUBSET Buckets, R \subseteq T, NEW usage \in [Buckets -> Nat]
  PROVE  /\ SumFunctionOnSet(usage, T) \in Nat
         /\ (\A b \in R : Took(P[b]) <= usage[b]) =>
              Took(UNION {P[b] : b \in R}) <= SumFunctionOnSet(usage, T)
         /\ (\A b \in R : usage[b] <= Took(P[b])) =>
              SumFunctionOnSet(usage, R) <= Took(UNION {P[b] : b \in R})
<1> DEFINE g == [b \in Buckets |-> Took(P[b])]
<1>1. IsFiniteSet(T) /\ IsFiniteSet(R)
  <2>1. IsFiniteSet(Buckets)
    BY ClockAssumption, FS_Interval DEF Buckets
  <2> QED BY <2>1, FS_Subset
<1>2. (\A b \in T : usage[b] \in Nat) /\ \A b \in R : usage[b] \in Nat /\ g[b] \in Nat
  BY TookType
<1>3. SumFunctionOnSet(g, R) = Took(UNION {P[b] : b \in R})
  BY TookByBucket
<1>4. \A b \in R : g[b] = Took(P[b])
  OBVIOUS
<1> HIDE DEF g
<1>5. SumFunctionOnSet(usage, T) \in Nat
  BY <1>1, <1>2, SumNat
<1>6. (\A b \in R : g[b] <= usage[b]) => SumFunctionOnSet(g, R) <= SumFunctionOnSet(usage, T)
  BY <1>1, <1>2, SumMonotone
<1>7. (\A b \in R : usage[b] <= g[b]) => SumFunctionOnSet(usage, R) <= SumFunctionOnSet(g, R)
  <2>1. R \in SUBSET R
    OBVIOUS
  <2> QED BY <1>1, <1>2, <2>1, SumMonotone
<1> QED BY <1>3, <1>4, <1>5, <1>6, <1>7

(* The settled requests of a window are those of its buckets.              *)
LEMMA Windows ==
  ASSUME TypeOK, NEW s, NEW t \in Nat
  PROVE  /\ WithinHour(t) \cap Of(s) = Among(UNION {InMinute(s, m) : m \in {b \in Buckets : LiveMinute(b, t)}})
         /\ WithinDay(t) \cap Of(s) = Among(UNION {InHour(s, h, t) : h \in {b \in Buckets : LiveHour(b, t)}})
         /\ WithinGlobal(t) \cap Capped = Among(UNION {OnSite(m) : m \in {b \in Buckets : LiveGlobal(b, t)}})
<1>1. \A q \in Settled : /\ q \in Requests /\ stage[q] # "idle" /\ call[q] # NoCall
                         /\ MinuteOf(call[q].now) \in Buckets /\ HourOf(call[q].now) \in Buckets
  BY Counted DEF Settled
<1>2. WithinHour(t) \cap Of(s) = Among(UNION {InMinute(s, m) : m \in {b \in Buckets : LiveMinute(b, t)}})
  BY <1>1, KindOf DEF WithinHour, Of, Among
<1>3. WithinDay(t) \cap Of(s) = Among(UNION {InHour(s, h, t) : h \in {b \in Buckets : LiveHour(b, t)}})
  BY <1>1, KindOf DEF WithinDay, Of, Among
<1>4. WithinGlobal(t) \cap Capped = Among(UNION {OnSite(m) : m \in {b \in Buckets : LiveGlobal(b, t)}})
  BY <1>1, KindOf DEF WithinGlobal, Capped, Among
<1> QED BY <1>2, <1>3, <1>4

(* The minutes of a subject against its requests of the hour.              *)
LEMMA HourWindow ==
  ASSUME TypeOK, NEW s \in Subjects, NEW u \in Nat, NEW t \in Nat, u <= t
  PROVE  /\ HourUsed(s, u) \in Nat
         /\ (\A b \in Buckets : LiveMinute(b, t) => minutes[s][b] >= Took(InMinute(s, b))) =>
              Tokens(WithinHour(t) \cap Of(s)) <= HourUsed(s, u)
         /\ (\A b \in Buckets : minutes[s][b] <= Took(InMinute(s, b))) =>
              HourUsed(s, u) <= Tokens(WithinHour(u) \cap Of(s))
<1> DEFINE P == [b \in Buckets |-> InMinute(s, b)]
           R == {b \in Buckets : LiveMinute(b, t)}
           T == {b \in Buckets : LiveMinute(b, u)}
<1>1. P \in [Buckets -> SUBSET Keys] /\ \A a, b \in Buckets : a # b => P[a] \cap P[b] = {}
  BY DEF InMinute
<1>2. R \in SUBSET Buckets /\ T \in SUBSET Buckets /\ R \subseteq T
  BY EarlierLive
<1>3. minutes[s] \in [Buckets -> Nat] /\ \A b \in R : P[b] = InMinute(s, b)
  BY DEF TypeOK
<1>4. Tokens(WithinHour(t) \cap Of(s)) = Took(UNION {P[b] : b \in R})
  <2>1. UNION {P[b] : b \in R} = UNION {InMinute(s, b) : b \in R}
    OBVIOUS
  <2> QED BY <2>1, Windows DEF Took
<1>5. Tokens(WithinHour(u) \cap Of(s)) = Took(UNION {P[b] : b \in T})
  <2>1. UNION {P[b] : b \in T} = UNION {InMinute(s, b) : b \in T}
    OBVIOUS
  <2> QED BY <2>1, Windows DEF Took
<1>6. HourUsed(s, u) = SumFunctionOnSet(minutes[s], T)
  BY DEF HourUsed
<1>7. (\A b \in Buckets : LiveMinute(b, t) => minutes[s][b] >= Took(InMinute(s, b)))
        => \A b \in R : Took(P[b]) <= minutes[s][b]
  <2>1. \A b \in R : minutes[s][b] \in Nat /\ Took(P[b]) \in Nat /\ P[b] = InMinute(s, b)
    BY <1>3, TookType
  <2> QED BY <2>1
<1>8. (\A b \in Buckets : minutes[s][b] <= Took(InMinute(s, b))) => \A b \in T : minutes[s][b] <= Took(P[b])
  OBVIOUS
<1> HIDE DEF P, R, T
<1>9. /\ SumFunctionOnSet(minutes[s], T) \in Nat
      /\ (\A b \in R : Took(P[b]) <= minutes[s][b]) =>
           Took(UNION {P[b] : b \in R}) <= SumFunctionOnSet(minutes[s], T)
  BY <1>1, <1>2, <1>3, WindowSum
<1>10. (\A b \in T : minutes[s][b] <= Took(P[b])) =>
         SumFunctionOnSet(minutes[s], T) <= Took(UNION {P[b] : b \in T})
  BY <1>1, <1>2, <1>3, WindowSum
<1> QED BY <1>4, <1>5, <1>6, <1>7, <1>8, <1>9, <1>10

(* The minutes of the site against its requests of the window.             *)
LEMMA SiteWindow ==
  ASSUME TypeOK, NEW u \in Nat, NEW t \in Nat, u <= t
  PROVE  /\ GlobalUsed(u) \in Nat
         /\ (\A b \in Buckets : LiveGlobal(b, t) => globalMinutes[b] >= Took(OnSite(b))) =>
              Tokens(WithinGlobal(t) \cap Capped) <= GlobalUsed(u)
         /\ (\A b \in Buckets : globalMinutes[b] <= Took(OnSite(b))) =>
              GlobalUsed(u) <= Tokens(WithinGlobal(u) \cap Capped)
<1> DEFINE P == [b \in Buckets |-> OnSite(b)]
           R == {b \in Buckets : LiveGlobal(b, t)}
           T == {b \in Buckets : LiveGlobal(b, u)}
<1>1. P \in [Buckets -> SUBSET Keys] /\ \A a, b \in Buckets : a # b => P[a] \cap P[b] = {}
  BY DEF OnSite
<1>2. R \in SUBSET Buckets /\ T \in SUBSET Buckets /\ R \subseteq T
  BY EarlierLive
<1>3. globalMinutes \in [Buckets -> Nat] /\ \A b \in R : P[b] = OnSite(b)
  BY DEF TypeOK
<1>4. Tokens(WithinGlobal(t) \cap Capped) = Took(UNION {P[b] : b \in R})
  <2>1. UNION {P[b] : b \in R} = UNION {OnSite(b) : b \in R}
    OBVIOUS
  <2> QED BY <2>1, Windows DEF Took
<1>5. Tokens(WithinGlobal(u) \cap Capped) = Took(UNION {P[b] : b \in T})
  <2>1. UNION {P[b] : b \in T} = UNION {OnSite(b) : b \in T}
    OBVIOUS
  <2> QED BY <2>1, Windows DEF Took
<1>6. GlobalUsed(u) = SumFunctionOnSet(globalMinutes, T)
  BY DEF GlobalUsed
<1>7. (\A b \in Buckets : LiveGlobal(b, t) => globalMinutes[b] >= Took(OnSite(b)))
        => \A b \in R : Took(P[b]) <= globalMinutes[b]
  <2>1. \A b \in R : globalMinutes[b] \in Nat /\ Took(P[b]) \in Nat /\ P[b] = OnSite(b)
    BY <1>3, TookType
  <2> QED BY <2>1
<1>8. (\A b \in Buckets : globalMinutes[b] <= Took(OnSite(b))) => \A b \in T : globalMinutes[b] <= Took(P[b])
  OBVIOUS
<1> HIDE DEF P, R, T
<1>9. /\ SumFunctionOnSet(globalMinutes, T) \in Nat
      /\ (\A b \in R : Took(P[b]) <= globalMinutes[b]) =>
           Took(UNION {P[b] : b \in R}) <= SumFunctionOnSet(globalMinutes, T)
  BY <1>1, <1>2, <1>3, WindowSum
<1>10. (\A b \in T : globalMinutes[b] <= Took(P[b])) =>
         SumFunctionOnSet(globalMinutes, T) <= Took(UNION {P[b] : b \in T})
  BY <1>1, <1>2, <1>3, WindowSum
<1> QED BY <1>4, <1>5, <1>6, <1>7, <1>8, <1>9, <1>10

(* The hours of a subject against its requests of the day.                 *)
LEMMA DayWindow ==
  ASSUME TypeOK, NEW s \in Subjects, NEW u \in Nat, NEW t \in Nat, u <= t
  PROVE  /\ DayUsed(s, u) \in Nat
         /\ (\A b \in Buckets : LiveHour(b, t) => hours[s][b] >= Took(InHour(s, b, t))) =>
              Tokens(WithinDay(t) \cap Of(s)) <= DayUsed(s, u)
<1> DEFINE P == [b \in Buckets |-> InHour(s, b, t)]
           R == {b \in Buckets : LiveHour(b, t)}
           T == {b \in Buckets : LiveHour(b, u)}
<1>1. P \in [Buckets -> SUBSET Keys] /\ \A a, b \in Buckets : a # b => P[a] \cap P[b] = {}
  BY DEF InHour
<1>2. R \in SUBSET Buckets /\ T \in SUBSET Buckets /\ R \subseteq T
  BY EarlierLive
<1>3. hours[s] \in [Buckets -> Nat] /\ \A b \in R : P[b] = InHour(s, b, t)
  BY DEF TypeOK
<1>4. Tokens(WithinDay(t) \cap Of(s)) = Took(UNION {P[b] : b \in R})
  <2>1. UNION {P[b] : b \in R} = UNION {InHour(s, b, t) : b \in R}
    OBVIOUS
  <2> QED BY <2>1, Windows DEF Took
<1>6. DayUsed(s, u) = SumFunctionOnSet(hours[s], T)
  BY DEF DayUsed
<1>7. (\A b \in Buckets : LiveHour(b, t) => hours[s][b] >= Took(InHour(s, b, t)))
        => \A b \in R : Took(P[b]) <= hours[s][b]
  <2>1. \A b \in R : hours[s][b] \in Nat /\ Took(P[b]) \in Nat /\ P[b] = InHour(s, b, t)
    BY <1>3, TookType
  <2> QED BY <2>1
<1> HIDE DEF P, R, T
<1>9. /\ SumFunctionOnSet(hours[s], T) \in Nat
      /\ (\A b \in R : Took(P[b]) <= hours[s][b]) =>
           Took(UNION {P[b] : b \in R}) <= SumFunctionOnSet(hours[s], T)
  BY <1>1, <1>2, <1>3, WindowSum
<1> QED BY <1>4, <1>6, <1>7, <1>9

(* A request that arrived leaves that stage by reserve, or by a crash.     *)
LEMMA Decided ==
  ASSUME TypeOK, [Next]_vars, NEW r \in Requests, stage[r] = "arrived"
  PROVE  /\ stage'[r] = "calling" => Admit(r)
         /\ stage'[r] = "idle" /\ serving' => Refuse(r)
<1> SUFFICES ASSUME stage'[r] # "arrived"
             PROVE  Admit(r) \/ (Refuse(r) /\ stage'[r] = "idle") \/ Crash
  BY DEF Admit, Crash, TypeOK
<1>1. CASE \E q \in Requests : Handle(q)
  <2>1. PICK q \in Requests : Handle(q)
    BY <1>1
  <2>2. \A p \in Requests \ {q} : stage'[p] = stage[p]
    BY <2>1 DEF TypeOK, Handle, Arrive, Admit, Refuse, Settle, Release, Drop
  <2>3. q = r
    BY <2>2
  <2> QED BY <2>1, <2>3 DEF Handle, Arrive, Refuse, Settle, Release, Drop, TypeOK
<1>2. CASE Tick \/ Snapshot \/ LoadFromDb \/ LoadFail \/ UNCHANGED vars
  BY <1>2 DEF Tick, Snapshot, SnapCopy, SnapUpsert, SnapPrune, SnapEvict, SnapFail, LoadFromDb,
              LoadFail, requests, vars
<1> QED BY <1>1, <1>2 DEF Next, Serve, Restart

(* What is pending and what is settled are apart, and add up.              *)
LEMMA Apart ==
  ASSUME TypeOK, NEW A, NEW B, A \subseteq Requests, B \subseteq Settled,
         \A q \in A : stage[q] \in {"calling", "dropped"}
  PROVE  Tokens(A \cup B) = Tokens(A) + Tokens(B) /\ Tokens(A) \in Nat /\ Tokens(B) \in Nat
<1>1. B \in SUBSET Requests /\ \A q \in B : stage[q] = "settled"
  BY DEF Settled
<1>2. \A q \in A \cup B : call[q].tokens \in Nat
  BY <1>1, Counted
<1>3. A \in SUBSET Requests /\ A \cap B = {}
  BY <1>1
<1>4. \A C : Tokens(C) = TokensIn(call, C)
  BY DEF Tokens, TokensIn
<1> QED BY <1>1, <1>2, <1>3, <1>4, TokensUnion, TokensType

(* More requests that have a call hold no fewer tokens.                    *)
LEMMA Fewer ==
  ASSUME TypeOK, NEW A, NEW B, A \subseteq B, B \subseteq Requests, \A q \in B : stage[q] # "idle"
  PROVE  Tokens(A) \in Nat /\ Tokens(B) \in Nat /\ Tokens(A) <= Tokens(B)
<1>1. \A q \in B : call[q].tokens \in Nat
  BY Counted
<1>2. \A C : Tokens(C) = TokensIn(call, C)
  BY DEF Tokens, TokensIn
<1>3. A \in SUBSET B /\ B \in SUBSET Requests /\ A \in SUBSET Requests
  OBVIOUS
<1> QED BY <1>1, <1>2, <1>3, TokensType, TokensMonotone

(* What reserve counts covers what the property counts.                    *)
LEMMA AdmitStep ==
  ASSUME IInv, LInv, IdleOutlastsTimeouts, NEW r \in Requests, Admit(r)
  PROVE  WithinCeilings(r)
<1> DEFINE s == call[r].subject
           u == call[r].now
           n == call[r].tokens
           mine == Of(s)
           mineOpen == Unexpired(reserved[s], u)
           siteOpen == Unexpired(globalReserved, u)
<1>0. TypeOK /\ Stamped /\ Deadlines /\ InFlightReserved /\ OnlyOpen
  BY DEF IInv, LInv, PInv
<1>1. /\ stage[r] = "arrived" /\ s \in Subjects /\ u \in Nat /\ u \in Int /\ clock \in Nat /\ u <= clock
      /\ n \in Nat /\ call[r].limits.hourly \in Nat /\ call[r].limits.daily \in Nat
      /\ GlobalLimit \in Nat
  <2>1. stage[r] = "arrived"
    BY DEF Admit
  <2>2. s \in Subjects /\ u \in Nat /\ n \in Nat /\ u <= clock /\ call[r] \in Calls
    BY <1>0, <2>1, Counted DEF Stamped
  <2>3. clock \in Nat
    BY <1>0, ClockAssumption DEF TypeOK, Instants
  <2>4. call[r].limits \in LimitPairs
    BY <2>2 DEF Calls
  <2> QED BY <2>1, <2>2, <2>3, <2>4, AmountAssumption
<1>2. /\ HourUsed(s, u) + Tokens(mineOpen) + n <= call[r].limits.hourly
      /\ DayUsed(s, u) + Tokens(mineOpen) + n <= call[r].limits.daily
      /\ ~call[r].bypass => GlobalUsed(u) + Tokens(siteOpen) + n <= GlobalLimit
  BY DEF Admit, FitsSubject, FitsGlobal
<1>3. /\ Timely \in SUBSET Requests /\ \A q \in Timely : stage[q] \in {"calling", "dropped"}
      /\ WithinHour(clock) \in SUBSET Settled /\ WithinDay(clock) \in SUBSET Settled
      /\ WithinGlobal(clock) \in SUBSET Settled
  BY DEF Timely, InFlight, WithinHour, WithinDay, WithinGlobal
<1>4. /\ mineOpen \in SUBSET Requests /\ \A q \in mineOpen : stage[q] # "idle"
      /\ siteOpen \in SUBSET Requests /\ \A q \in siteOpen : stage[q] # "idle"
  BY <1>0, <1>1 DEF Unexpired, OnlyOpen, TypeOK
<1>r. \A q \in Timely : /\ q \in reserved[call[q].subject]
                        /\ ~call[q].bypass => q \in globalReserved
  BY DEF IInv, InFlightReserved
<1>5. Timely \cap mine \subseteq mineOpen
  <2>1. ASSUME NEW q \in Timely, q \in mine PROVE q \in mineOpen
    <3>1. call[q].subject = s
      BY <2>1 DEF Of
    <3>2. q \in reserved[s]
      BY <1>r, <3>1
    <3> QED BY <1>0, <1>1, <3>2, LiveUnexpired
  <2> QED BY <2>1
<1>6. Timely \cap Capped \subseteq siteOpen
  <2>1. ASSUME NEW q \in Timely, q \in Capped PROVE q \in siteOpen
    <3>1. ~call[q].bypass
      BY <2>1 DEF Capped
    <3>2. q \in globalReserved
      BY <1>r, <3>1
    <3> QED BY <1>0, <1>1, <3>2, LiveUnexpired
  <2> QED BY <2>1
<1>7. /\ HourUsed(s, u) \in Nat /\ Tokens(WithinHour(clock) \cap mine) <= HourUsed(s, u)
      /\ DayUsed(s, u) \in Nat /\ Tokens(WithinDay(clock) \cap mine) <= DayUsed(s, u)
      /\ GlobalUsed(u) \in Nat /\ Tokens(WithinGlobal(clock) \cap Capped) <= GlobalUsed(u)
  <2>1. \A b \in Buckets : /\ LiveMinute(b, clock) => minutes[s][b] >= Took(InMinute(s, b))
                           /\ LiveGlobal(b, clock) => globalMinutes[b] >= Took(OnSite(b))
                           /\ LiveHour(b, clock) => hours[s][b] >= Took(InHour(s, b, clock))
    BY <1>1 DEF LInv, AtLeastTook
  <2> HIDE DEF s, u
  <2>2. HourUsed(s, u) \in Nat /\ Tokens(WithinHour(clock) \cap Of(s)) <= HourUsed(s, u)
    BY <1>0, <1>1, <2>1, HourWindow
  <2>3. DayUsed(s, u) \in Nat /\ Tokens(WithinDay(clock) \cap Of(s)) <= DayUsed(s, u)
    BY <1>0, <1>1, <2>1, DayWindow
  <2>4. GlobalUsed(u) \in Nat /\ Tokens(WithinGlobal(clock) \cap Capped) <= GlobalUsed(u)
    BY <1>0, <1>1, <2>1, SiteWindow
  <2> QED BY <2>2, <2>3, <2>4
<1> HIDE DEF s, u, n, mine, mineOpen, siteOpen
<1>8. /\ Tokens((Timely \cup WithinHour(clock)) \cap mine) = Tokens(Timely \cap mine) + Tokens(WithinHour(clock) \cap mine)
      /\ Tokens(Timely \cap mine) \in Nat /\ Tokens(WithinHour(clock) \cap mine) \in Nat
  <2>1. (Timely \cup WithinHour(clock)) \cap mine = (Timely \cap mine) \cup (WithinHour(clock) \cap mine)
    OBVIOUS
  <2>2. /\ Timely \cap mine \subseteq Requests /\ WithinHour(clock) \cap mine \subseteq Settled
        /\ \A q \in Timely \cap mine : stage[q] \in {"calling", "dropped"}
    BY <1>3
  <2> QED BY <1>0, <2>1, <2>2, Apart
<1>9. /\ Tokens((Timely \cup WithinDay(clock)) \cap mine) = Tokens(Timely \cap mine) + Tokens(WithinDay(clock) \cap mine)
      /\ Tokens(Timely \cap mine) \in Nat /\ Tokens(WithinDay(clock) \cap mine) \in Nat
  <2>1. (Timely \cup WithinDay(clock)) \cap mine = (Timely \cap mine) \cup (WithinDay(clock) \cap mine)
    OBVIOUS
  <2>2. /\ Timely \cap mine \subseteq Requests /\ WithinDay(clock) \cap mine \subseteq Settled
        /\ \A q \in Timely \cap mine : stage[q] \in {"calling", "dropped"}
    BY <1>3
  <2> QED BY <1>0, <2>1, <2>2, Apart
<1>10. /\ Tokens((Timely \cup WithinGlobal(clock)) \cap Capped) = Tokens(Timely \cap Capped) + Tokens(WithinGlobal(clock) \cap Capped)
      /\ Tokens(Timely \cap Capped) \in Nat /\ Tokens(WithinGlobal(clock) \cap Capped) \in Nat
  <2>1. (Timely \cup WithinGlobal(clock)) \cap Capped = (Timely \cap Capped) \cup (WithinGlobal(clock) \cap Capped)
    OBVIOUS
  <2>2. /\ Timely \cap Capped \subseteq Requests /\ WithinGlobal(clock) \cap Capped \subseteq Settled
        /\ \A q \in Timely \cap Capped : stage[q] \in {"calling", "dropped"}
    BY <1>3
  <2> QED BY <1>0, <2>1, <2>2, Apart
<1>12. Tokens(mineOpen) \in Nat /\ Tokens(Timely \cap mine) <= Tokens(mineOpen)
  BY <1>0, <1>4, <1>5, Fewer
<1>13. Tokens(siteOpen) \in Nat /\ Tokens(Timely \cap Capped) <= Tokens(siteOpen)
  BY <1>0, <1>4, <1>6, Fewer
<1>11. /\ Tokens((Timely \cup WithinHour(clock)) \cap mine) + n <= call[r].limits.hourly
       /\ Tokens((Timely \cup WithinDay(clock)) \cap mine) + n <= call[r].limits.daily
       /\ ~call[r].bypass =>
            Tokens((Timely \cup WithinGlobal(clock)) \cap Capped) + n <= GlobalLimit
  BY <1>1, <1>2, <1>7, <1>8, <1>9, <1>10, <1>12, <1>13
<1> QED BY <1>11 DEF mine, n, s, WithinCeilings

(* What reserve promises holds of every admission: see NoOvershoot.        *)
THEOREM NeverOvershoots == IdleOutlastsTimeouts /\ IdleOutlastsHour => (Spec => NoOvershoot)
<1> SUFFICES ASSUME IdleOutlastsTimeouts, IdleOutlastsHour PROVE Spec => NoOvershoot
  OBVIOUS
<1> DEFINE Kept == \A r \in Requests :
                     stage[r] = "arrived" /\ stage'[r] = "calling" => WithinCeilings(r)
<1>1. IInv /\ LInv /\ [Next]_vars => Kept
  <2> SUFFICES ASSUME IInv, LInv, [Next]_vars, NEW r \in Requests, stage[r] = "arrived",
                      stage'[r] = "calling"
               PROVE  WithinCeilings(r)
    OBVIOUS
  <2>1. Admit(r)
    BY Decided DEF IInv
  <2> QED BY <2>1, AdmitStep
<1>2. Spec => []IInv /\ []LInv
  BY InductiveInvariant, Ledgers, PTL
<1>3. Spec => [][Kept]_vars
  BY <1>1, <1>2, PTL DEF Spec
<1> QED BY <1>3 DEF NoOvershoot

(* The hours of the day hold no more than was consumed in them.            *)
LEMMA DayConsumed ==
  ASSUME TypeOK, NeverOvercharged, NEW s \in Subjects, NEW u \in Nat
  PROVE  LET spent == SumFunctionOnSet(consumed[s], {h \in Buckets : LiveHour(h, u)})
         IN DayUsed(s, u) \in Nat /\ spent \in Nat /\ DayUsed(s, u) <= spent
<1> DEFINE T == {h \in Buckets : LiveHour(h, u)}
<1>1. IsFiniteSet(T) /\ T \in SUBSET T
  <2>1. IsFiniteSet(Buckets)
    BY ClockAssumption, FS_Interval DEF Buckets
  <2> QED BY <2>1, FS_Subset
<1>2. \A h \in T : hours[s][h] \in Nat /\ consumed[s][h] \in Nat /\ hours[s][h] <= consumed[s][h]
  BY DEF TypeOK, NeverOvercharged
<1>3. DayUsed(s, u) = SumFunctionOnSet(hours[s], T)
  BY DEF DayUsed
<1> HIDE DEF T
<1>4. SumFunctionOnSet(hours[s], T) \in Nat /\ SumFunctionOnSet(consumed[s], T) \in Nat
  BY <1>1, <1>2, SumNat
<1>5. SumFunctionOnSet(hours[s], T) <= SumFunctionOnSet(consumed[s], T)
  BY <1>1, <1>2, SumMonotone
<1> QED BY <1>3, <1>4, <1>5 DEF T

(* What reserve counts is covered by what the property counts.             *)
LEMMA RefuseStep ==
  ASSUME PInv, NeverOvercharged, NEW r \in Requests, Refuse(r)
  PROVE  NoRoom(r)
<1> DEFINE s == call[r].subject
           u == call[r].now
           n == call[r].tokens
           mine == Of(s)
           busy == InFlight \cup Leaked(u)
           mineOpen == Unexpired(reserved[s], u)
           siteOpen == Unexpired(globalReserved, u)
           spent == SumFunctionOnSet(consumed[s], {h \in Buckets : LiveHour(h, u)})
<1>0. TypeOK /\ Stamped /\ OnlyOpen
  BY DEF PInv
<1>1. /\ stage[r] = "arrived" /\ s \in Subjects /\ u \in Nat
      /\ n \in Nat /\ call[r].limits.hourly \in Nat /\ call[r].limits.daily \in Nat
      /\ GlobalLimit \in Nat
  <2>1. stage[r] = "arrived"
    BY DEF Refuse
  <2>2. s \in Subjects /\ u \in Nat /\ n \in Nat /\ call[r] \in Calls
    BY <1>0, <2>1, Counted
  <2>4. call[r].limits \in LimitPairs
    BY <2>2 DEF Calls
  <2> QED BY <2>1, <2>2, <2>4, AmountAssumption
<1>2. \/ ~(HourUsed(s, u) + Tokens(mineOpen) + n <= call[r].limits.hourly)
      \/ ~(DayUsed(s, u) + Tokens(mineOpen) + n <= call[r].limits.daily)
      \/ ~call[r].bypass /\ ~(GlobalUsed(u) + Tokens(siteOpen) + n <= GlobalLimit)
  BY DEF Refuse, FitsSubject, FitsGlobal
<1>3. /\ busy \in SUBSET Requests /\ \A q \in busy : stage[q] \in {"calling", "dropped"}
      /\ WithinHour(u) \in SUBSET Settled /\ WithinGlobal(u) \in SUBSET Settled
  BY DEF InFlight, Leaked, WithinHour, WithinGlobal
<1>4. mineOpen \subseteq busy \cap mine /\ siteOpen \subseteq busy \cap Capped
  <2>1. \A q \in Requests : stage[q] # "idle" => call[q] # NoCall
    BY <1>0 DEF TypeOK
  <2>2. reserved[s] \subseteq Requests /\ globalReserved \subseteq Requests
    BY <1>0, <1>1 DEF TypeOK
  <2>3. /\ \A q \in reserved[s] : stage[q] \in {"calling", "dropped"} /\ call[q].subject = s
        /\ \A q \in globalReserved : stage[q] \in {"calling", "dropped"} /\ ~call[q].bypass
    BY <1>0, <1>1 DEF OnlyOpen
  <2> QED BY <2>1, <2>2, <2>3 DEF Unexpired, InFlight, Leaked, Of, Capped
<1>5. /\ HourUsed(s, u) \in Nat /\ HourUsed(s, u) <= Tokens(WithinHour(u) \cap mine)
      /\ GlobalUsed(u) \in Nat /\ GlobalUsed(u) <= Tokens(WithinGlobal(u) \cap Capped)
      /\ DayUsed(s, u) \in Nat /\ spent \in Nat /\ DayUsed(s, u) <= spent
  <2>1. \A b \in Buckets : minutes[s][b] <= Took(InMinute(s, b)) /\ globalMinutes[b] <= Took(OnSite(b))
    BY <1>1 DEF PInv, AtMostTook
  <2> HIDE DEF s, u
  <2>2. HourUsed(s, u) \in Nat /\ HourUsed(s, u) <= Tokens(WithinHour(u) \cap Of(s))
    BY <1>0, <1>1, <2>1, HourWindow
  <2>3. GlobalUsed(u) \in Nat /\ GlobalUsed(u) <= Tokens(WithinGlobal(u) \cap Capped)
    BY <1>0, <1>1, <2>1, SiteWindow
  <2>4. DayUsed(s, u) \in Nat /\ spent \in Nat /\ DayUsed(s, u) <= spent
    BY <1>0, <1>1, DayConsumed
  <2> QED BY <2>2, <2>3, <2>4
<1> HIDE DEF s, u, n, mine, busy, mineOpen, siteOpen, spent
<1>6. /\ Tokens((busy \cup WithinHour(u)) \cap mine) = Tokens(busy \cap mine) + Tokens(WithinHour(u) \cap mine)
      /\ Tokens(busy \cap mine) \in Nat /\ Tokens(WithinHour(u) \cap mine) \in Nat
  <2>1. (busy \cup WithinHour(u)) \cap mine = (busy \cap mine) \cup (WithinHour(u) \cap mine)
    OBVIOUS
  <2>2. /\ busy \cap mine \subseteq Requests /\ WithinHour(u) \cap mine \subseteq Settled
        /\ \A q \in busy \cap mine : stage[q] \in {"calling", "dropped"}
    BY <1>3
  <2> QED BY <1>0, <2>1, <2>2, Apart
<1>7. /\ Tokens((busy \cup WithinGlobal(u)) \cap Capped) = Tokens(busy \cap Capped) + Tokens(WithinGlobal(u) \cap Capped)
      /\ Tokens(busy \cap Capped) \in Nat /\ Tokens(WithinGlobal(u) \cap Capped) \in Nat
  <2>1. (busy \cup WithinGlobal(u)) \cap Capped = (busy \cap Capped) \cup (WithinGlobal(u) \cap Capped)
    OBVIOUS
  <2>2. /\ busy \cap Capped \subseteq Requests /\ WithinGlobal(u) \cap Capped \subseteq Settled
        /\ \A q \in busy \cap Capped : stage[q] \in {"calling", "dropped"}
    BY <1>3
  <2> QED BY <1>0, <2>1, <2>2, Apart
<1>8. Tokens(mineOpen) \in Nat /\ Tokens(mineOpen) <= Tokens(busy \cap mine)
  <2>1. busy \cap mine \subseteq Requests /\ \A q \in busy \cap mine : stage[q] # "idle"
    BY <1>3
  <2> QED BY <1>0, <1>4, <2>1, Fewer
<1>9. Tokens(siteOpen) \in Nat /\ Tokens(siteOpen) <= Tokens(busy \cap Capped)
  <2>1. busy \cap Capped \subseteq Requests /\ \A q \in busy \cap Capped : stage[q] # "idle"
    BY <1>3
  <2> QED BY <1>0, <1>4, <2>1, Fewer
<1>10. \/ Tokens((busy \cup WithinHour(u)) \cap mine) + n > call[r].limits.hourly
       \/ spent + Tokens(busy \cap mine) + n > call[r].limits.daily
       \/ /\ ~call[r].bypass
          /\ Tokens((busy \cup WithinGlobal(u)) \cap Capped) + n > GlobalLimit
  BY <1>1, <1>2, <1>5, <1>6, <1>7, <1>8, <1>9
<1> QED BY <1>10 DEF mine, n, s, busy, spent, u, NoRoom

(* Whatever the timeouts and the crashes, a 429 is explained: see          *)
(* RefusalJustified.                                                       *)
THEOREM RefusalsJustified == Spec => RefusalJustified
<1> DEFINE Justified == \A r \in Requests :
                          stage[r] = "arrived" /\ stage'[r] = "idle" /\ serving' => NoRoom(r)
<1>1. PInv /\ NeverOvercharged /\ [Next]_vars => Justified
  <2> SUFFICES ASSUME PInv, NeverOvercharged, [Next]_vars, NEW r \in Requests,
                      stage[r] = "arrived", stage'[r] = "idle", serving'
               PROVE  NoRoom(r)
    OBVIOUS
  <2>1. Refuse(r)
    BY Decided DEF PInv
  <2> QED BY <2>1, RefuseStep
<1>2. Spec => []PInv /\ []NeverOvercharged
  BY Pending, NoOvercharge, PTL
<1>3. Spec => [][Justified]_vars
  BY <1>1, <1>2, PTL DEF Spec
<1> QED BY <1>3 DEF RefusalJustified

-----------------------------------------------------------------------------
(* The table.                                                              *)

\* A subject is kept until nothing more can settle in the hour it was last seen
\* in; and rows are kept in the table for the whole daily window.
IdleOutlastsCalls == SecsPerHour + 2 * CallTimeout <= IdleSecs
TableOutlastsDay  == DailyHours - 1 <= SnapshotHours

(* Hours start at instants, and an instant is within its hour.             *)
LEMMA HourStarts ==
  /\ \A h \in Buckets : HourStart(h) \in Nat
  /\ \A t \in Nat : HourStart(HourOf(t)) <= t /\ t < HourStart(HourOf(t)) + SecsPerHour
<1>1. ASSUME NEW h \in Buckets PROVE HourStart(h) \in Nat
  <2>1. h \in Nat /\ SecsPerHour \in Nat
    BY ClockAssumption DEF Buckets
  <2> QED BY <2>1, Times DEF HourStart
<1>2. ASSUME NEW t \in Nat PROVE HourStart(HourOf(t)) <= t /\ t < HourStart(HourOf(t)) + SecsPerHour
  <2> DEFINE d == SecsPerHour
             q == HourOf(t)
  <2>1. d \in Nat \ {0}
    BY ClockAssumption
  <2>2. q \in Nat /\ d * q <= t /\ t < d * q + d
    BY <2>1, Division DEF HourOf
  <2> HIDE DEF d, q
  <2>3. d * q = q * d
    BY <2>1, <2>2
  <2>4. q * d <= t /\ t < q * d + d
    BY <2>2, <2>3
  <2> QED BY <2>4 DEF d, q, HourStart
<1> QED BY <1>1, <1>2

(* The types these proofs do arithmetic with.                              *)
LEMMA Numbers ==
  ASSUME TypeOK
  PROVE  /\ clock \in Nat /\ snap.now \in Nat
         /\ \A s \in Subjects : lastSeen[s] \in Nat
         /\ \A s \in Subjects, h \in Buckets :
              hours[s][h] \in Nat /\ db[s][h] \in Nat /\ consumed[s][h] \in Nat
         /\ snap.rows \subseteq Rows
BY ClockAssumption DEF TypeOK, Instants

(* What a step does to the clock.                                          *)
LEMMA ClockAdvances ==
  ASSUME TypeOK, TypeOK', Next
  PROVE  /\ clock \in Nat /\ clock' \in Nat /\ clock <= clock'
         /\ ~Tick => clock' = clock
         /\ \A h \in Buckets : LiveHour(h, clock') => LiveHour(h, clock)
<1> USE DEF process, subjectUsage, globalUsage, requests
<1>1. clock \in Nat /\ clock' \in Nat
  BY ClockAssumption DEF TypeOK, Instants
<1>2. (Tick => clock' = clock + 1) /\ (~Tick => clock' = clock)
  BY DEF Next, Serve, Handle, Arrive, Admit, Refuse, Settle, Release, Drop, Tick,
         Snapshot, SnapCopy, SnapUpsert, SnapPrune, SnapEvict, SnapFail,
         Restart, Crash, LoadFromDb, LoadFail
<1>3. PICK c \in Nat : c = clock'
  BY <1>1
<1>4. \A h \in Buckets : LiveHour(h, c) => LiveHour(h, clock)
  BY <1>1, <1>2, <1>3, EarlierLive
<1> QED BY <1>1, <1>2, <1>3, <1>4

(* A settlement charges the hour of its instant, which is not closed.      *)
LEMMA SettleHours ==
  ASSUME TypeOK, TypeOK', Stamped, NEW r \in Requests, Settle(r)
  PROVE  \E s \in Subjects, h \in Buckets :
           /\ HourStart(h) <= clock /\ ~Closed(h) /\ s = call[r].subject
           /\ \A t \in Subjects, b \in Buckets : t # s \/ b # h =>
                /\ consumed'[t][b] = consumed[t][b]
                /\ LiveHour(b, clock) => hours'[t][b] = hours[t][b]
           /\ LiveHour(h, clock) => hours'[s][h] >= hours[s][h]
<1> DEFINE s == call[r].subject
           u == call[r].now
           h == HourOf(u)
<1>1. PICK n \in Nat : ChargedWith(r, n) /\ consumed' = [consumed EXCEPT ![s] = Charge(@, h, n)]
  BY AmountAssumption DEF Settle, ChargedWith
<1>2. s \in Subjects /\ h \in Buckets /\ u \in Nat /\ u <= clock /\ clock <= u + CallTimeout
  BY Counted DEF Settle, Stamped
<1>3. clock \in Nat /\ CallTimeout \in Nat /\ SecsPerHour \in Nat
  BY Numbers, ClockAssumption
<1>4. HourStart(h) \in Nat /\ HourStart(h) <= u /\ u < HourStart(h) + SecsPerHour
  BY <1>2, HourStarts
<1>5. \A t \in Subjects, b \in Buckets : LiveHour(b, clock) =>
        hours'[t][b] = hours[t][b] + IF t = s /\ b = h THEN n ELSE 0
  BY <1>1, SettleBuckets
<1>6. \A t \in Subjects, b \in Buckets : hours[t][b] \in Nat
  BY Numbers
<1>7. consumed \in [Subjects -> [Buckets -> Nat]]
  BY DEF TypeOK
<1> HIDE DEF s, u, h
<1>8. \A t \in Subjects, b \in Buckets : t # s \/ b # h => consumed'[t][b] = consumed[t][b]
  BY <1>1, <1>2, <1>7 DEF Charge
<1>9. HourStart(h) <= clock /\ ~Closed(h)
  BY <1>2, <1>3, <1>4 DEF Closed
<1> QED BY <1>2, <1>5, <1>6, <1>8, <1>9 DEF s

(* Nothing is consumed ahead of the clock.                                 *)
LEMMA NextNotAhead ==
  ASSUME TypeOK, TypeOK', Stamped, Next,
         \A s \in Subjects, h \in Buckets : consumed[s][h] > 0 => HourStart(h) <= clock
  PROVE  \A s \in Subjects, h \in Buckets : consumed'[s][h] > 0 => HourStart(h) <= clock'
<1> USE DEF process, subjectUsage, globalUsage, requests
<1>0. clock \in Nat /\ clock' \in Nat /\ clock <= clock' /\ \A h \in Buckets : HourStart(h) \in Nat
  BY ClockAdvances, HourStarts
<1>1. CASE \E r \in Requests : Settle(r)
  <2>1. PICK r \in Requests : Settle(r)
    BY <1>1
  <2>2. PICK s \in Subjects, h \in Buckets :
          /\ HourStart(h) <= clock
          /\ \A t \in Subjects, b \in Buckets : t # s \/ b # h => consumed'[t][b] = consumed[t][b]
    BY <2>1, SettleHours
  <2> QED BY <1>0, <2>2
<1>2. CASE \A r \in Requests : ~Settle(r)
  <2>1. consumed' = consumed
    BY <1>2 DEF Next, Serve, Handle, Arrive, Admit, Refuse, Release, Drop, Tick,
                Snapshot, SnapCopy, SnapUpsert, SnapPrune, SnapEvict, SnapFail,
                Restart, Crash, LoadFromDb, LoadFail
  <2> QED BY <1>0, <2>1
<1> QED BY <1>1, <1>2

(* Each step keeps a subject that has a live hour recently seen.           *)
LEMMA NextHoursSeen ==
  ASSUME TypeOK, TypeOK', Stamped, DownIsEmpty, NeverOvercharged, NeverOvercharged', HoursSeen, Next
  PROVE  HoursSeen'
<1> USE DEF process, subjectUsage, globalUsage, requests
<1>0. /\ clock \in Nat /\ clock' \in Nat /\ clock <= clock' /\ CallTimeout \in Nat
      /\ \A h \in Buckets : HourStart(h) \in Nat /\ (LiveHour(h, clock') => LiveHour(h, clock))
  BY ClockAdvances, HourStarts, ClockAssumption
<1>1. \A s \in Subjects, h \in Buckets : consumed'[s][h] > 0 => HourStart(h) <= clock'
  BY NextNotAhead DEF HoursSeen
<1>2. \A s \in Subjects, h \in Buckets :
        /\ hours[s][h] \in Nat /\ hours'[s][h] \in Nat /\ consumed'[s][h] \in Nat
        /\ hours'[s][h] <= consumed'[s][h] /\ lastSeen[s] \in Nat /\ lastSeen'[s] \in Nat
        /\ db[s][h] \in Nat /\ consumed[s][h] \in Nat /\ db[s][h] <= consumed[s][h]
  BY ClockAssumption DEF TypeOK, NeverOvercharged, Instants
<1> SUFFICES ASSUME NEW s \in Subjects, NEW h \in Buckets, hours'[s][h] > 0, LiveHour(h, clock')
             PROVE  lastSeen'[s] >= HourStart(h) - CallTimeout
  <2>1. \A b : LiveHour(b, clock)' = LiveHour(b, clock')
    BY DEF LiveHour
  <2> QED BY <1>1, <2>1 DEF HoursSeen
<1>3. hours[s][h] > 0 => lastSeen[s] >= HourStart(h) - CallTimeout
  BY <1>0 DEF HoursSeen
<1>4. CASE \E r \in Requests : Handle(r)
  <2>1. PICK r \in Requests : Handle(r)
    BY <1>4
  <2>2. clock' = clock
    BY <2>1 DEF Handle, Arrive, Admit, Refuse, Settle, Release, Drop
  <2>3. CASE Admit(r) \/ Settle(r)
    <3>1. /\ stage[r] \in {"arrived", "calling"}
          /\ lastSeen' = [lastSeen EXCEPT ![call[r].subject] = call[r].now]
      BY <2>3 DEF Admit, Settle
    <3>2. call[r].now \in Nat /\ clock <= call[r].now + CallTimeout /\ call[r].subject \in Subjects
      BY <3>1, Counted DEF Stamped
    <3>3. CASE s = call[r].subject
      <4>1. lastSeen'[s] = call[r].now
        BY <3>1, <3>2, <3>3 DEF TypeOK
      <4>2. HourStart(h) <= clock
        BY <1>1, <1>2, <2>2
      <4> QED BY <1>0, <3>2, <4>1, <4>2
    <3>4. CASE s # call[r].subject
      <4>1. lastSeen'[s] = lastSeen[s]
        BY <3>1, <3>4 DEF TypeOK
      <4>2. hours'[s] = hours[s]
        BY <2>3, <3>4 DEF TypeOK, Admit, Settle, PruneBuckets
      <4> QED BY <1>3, <4>1, <4>2
    <3> QED BY <3>3, <3>4
  <2>4. CASE ~(Admit(r) \/ Settle(r))
    <3>1. lastSeen' = lastSeen
      BY <2>1, <2>4 DEF Handle, Arrive, Refuse, Release, Drop
    <3>2. hours'[s][h] <= hours[s][h]
      BY <2>1, <2>4, HandleBuckets
    <3>3. hours[s][h] > 0
      BY <1>2, <3>2
    <3> QED BY <1>3, <3>1, <3>3
  <2> QED BY <2>3, <2>4
<1>5. CASE Tick \/ SnapCopy \/ SnapUpsert \/ SnapPrune \/ SnapFail \/ LoadFail
  <2>1. hours' = hours /\ lastSeen' = lastSeen
    BY <1>5 DEF Tick, SnapCopy, SnapUpsert, SnapPrune, SnapFail, LoadFail
  <2> QED BY <1>3, <2>1
<1>6. CASE SnapEvict
  <2>1. /\ s \in StillIdle => hours'[s] = Empty[s]
        /\ s \notin StillIdle => hours'[s] = hours[s] /\ lastSeen'[s] = lastSeen[s]
    BY <1>6 DEF SnapEvict
  <2>2. Empty[s][h] = 0
    BY DEF Empty
  <2> QED BY <1>3, <2>1, <2>2
<1>7. CASE Crash
  <2>1. hours'[s][h] = 0
    BY <1>7 DEF Crash, Empty
  <2> QED BY <2>1
<1>8. CASE LoadFromDb
  <2>1. hours[s][h] = 0
    BY <1>8 DEF LoadFromDb, DownIsEmpty, Empty
  <2>2. hours'[s][h] = hours[s][h] + IF LiveHour(h, clock) THEN db[s][h] ELSE 0
    BY <1>8 DEF LoadFromDb
  <2>3. LiveHour(h, clock) /\ db[s][h] > 0
    BY <1>2, <2>1, <2>2
  <2>4. lastSeen'[s] = clock
    BY <1>8, <2>3 DEF LoadFromDb
  <2>5. HourStart(h) <= clock
    BY <1>2, <2>3 DEF HoursSeen
  <2> QED BY <1>0, <2>4, <2>5
<1> QED BY <1>4, <1>5, <1>6, <1>7, <1>8 DEF Next, Serve, Snapshot, Restart

(* Each step keeps the table no further than memory, but for closed hours. *)
LEMMA NextTableBehind ==
  ASSUME TypeOK, TypeOK', Stamped, Stamped', DownIsEmpty, HoursSeen, TableBehind, Next,
         IdleOutlastsCalls
  PROVE  TableBehind'
<1> USE DEF process, subjectUsage, globalUsage, requests
<1>0. /\ clock \in Nat /\ clock' \in Nat /\ clock <= clock' /\ CallTimeout \in Nat
      /\ SecsPerHour \in Nat /\ IdleSecs \in Nat /\ snap.now \in Nat /\ (~Tick => clock' = clock)
      /\ \A h \in Buckets : HourStart(h) \in Nat /\ (LiveHour(h, clock') => LiveHour(h, clock))
      /\ \A s \in Subjects : lastSeen[s] \in Nat
      /\ \A s \in Subjects, h \in Buckets : hours[s][h] \in Nat /\ db[s][h] \in Nat
      /\ \A s \in Subjects, h \in Buckets : hours'[s][h] \in Nat /\ db'[s][h] \in Nat
  BY ClockAdvances, HourStarts, Numbers, ClockAssumption DEF TypeOK
<1>a. \A row \in Rows : row.subject \in Subjects /\ row.hour \in Buckets /\ row.tokens \in Nat
  BY DEF Rows
<1>b. snap.rows \subseteq Rows /\ snap'.rows \subseteq Rows
  BY DEF TypeOK
<1> SUFFICES ASSUME ~lossy', serving'
             PROVE  /\ \A s \in Subjects, h \in Buckets : LiveHour(h, clock') =>
                         hours'[s][h] >= db'[s][h] \/ (hours'[s][h] = 0 /\ Closed(h)')
                    /\ \A row \in snap'.rows : LiveHour(row.hour, clock') =>
                         /\ db'[row.subject][row.hour] <= row.tokens
                         /\ \/ row.tokens <= hours'[row.subject][row.hour]
                            \/ hours'[row.subject][row.hour] = 0 /\ Closed(row.hour)'
                    /\ \A x, y \in snap'.rows : x.subject = y.subject /\ x.hour = y.hour => x = y
  <2>1. \A b : LiveHour(b, clock)' = LiveHour(b, clock')
    BY DEF LiveHour
  <2> QED BY <2>1 DEF TableBehind
<1>c. \A h \in Buckets : Closed(h) => Closed(h)'
  <2>1. \A h : Closed(h)' <=> HourStart(h) + SecsPerHour + CallTimeout <= clock'
    BY DEF Closed, HourStart
  <2> QED BY <1>0, <2>1 DEF Closed
<1>d. ~Crash /\ ~LoadFromDb /\ ~LoadFail => ~lossy /\ serving
  BY DEF Next, Serve, Handle, Arrive, Admit, Refuse, Settle, Release, Drop, Tick,
         Snapshot, SnapCopy, SnapUpsert, SnapPrune, SnapEvict, SnapFail, Restart
<1>e. ~lossy /\ serving =>
        /\ \A s \in Subjects, h \in Buckets : LiveHour(h, clock) =>
             hours[s][h] >= db[s][h] \/ (hours[s][h] = 0 /\ Closed(h))
        /\ \A row \in snap.rows : LiveHour(row.hour, clock) =>
             /\ db[row.subject][row.hour] <= row.tokens
             /\ \/ row.tokens <= hours[row.subject][row.hour]
                \/ hours[row.subject][row.hour] = 0 /\ Closed(row.hour)
        /\ \A x, y \in snap.rows : x.subject = y.subject /\ x.hour = y.hour => x = y
  BY DEF TableBehind
<1>1. CASE \E r \in Requests : Handle(r)
  <2>1. PICK r \in Requests : Handle(r)
    BY <1>1
  <2>a. /\ clock' = clock /\ snap' = snap /\ db' = db
        /\ serving' = serving /\ lossy' = lossy
    BY <2>1 DEF Handle, Arrive, Admit, Refuse, Settle, Release, Drop
  <2>2. /\ clock' = clock /\ snap' = snap /\ db' = db /\ ~lossy /\ serving
    BY <2>a
  <2>3. \A s \in Subjects, h \in Buckets : LiveHour(h, clock) =>
          hours'[s][h] >= hours[s][h] /\ (hours'[s][h] = hours[s][h] \/ ~Closed(h))
    <3>1. CASE Settle(r)
      <4>1. PICK u \in Subjects, g \in Buckets :
              /\ ~Closed(g)
              /\ \A t \in Subjects, b \in Buckets :
                   (t # u \/ b # g) /\ LiveHour(b, clock) => hours'[t][b] = hours[t][b]
              /\ LiveHour(g, clock) => hours'[u][g] >= hours[u][g]
        BY <3>1, SettleHours
      <4> QED BY <1>0, <4>1
    <3>2. CASE ~Settle(r)
      <4>1. \A s \in Subjects, h \in Buckets : LiveHour(h, clock) => hours'[s][h] = hours[s][h]
        BY <2>1, <3>2, HandleBuckets
      <4> QED BY <1>0, <4>1
    <3> QED BY <3>1, <3>2
  <2> QED BY <1>0, <1>a, <1>b, <1>c, <1>e, <2>2, <2>3
<1>2. CASE Tick
  <2>1. UNCHANGED <<hours, db, snap>> /\ ~lossy /\ serving
    BY <1>2, <1>d DEF Tick, Crash, LoadFromDb, LoadFail
  <2> QED BY <1>0, <1>a, <1>b, <1>c, <1>e, <2>1
<1>3. CASE SnapCopy
  <2>1. UNCHANGED <<clock, hours, db>> /\ ~lossy /\ serving
    BY <1>3 DEF SnapCopy
  <2>2. snap'.rows = {[subject |-> p[1], hour |-> p[2], tokens |-> hours[p[1]][p[2]]] :
                        p \in {q \in Subjects \X Buckets :
                                 LiveHour(q[2], clock) /\ hours[q[1]][q[2]] > 0}}
    BY <1>3 DEF SnapCopy
  <2>3. \A row \in snap'.rows : /\ row.tokens = hours[row.subject][row.hour]
                                /\ hours[row.subject][row.hour] > 0
    BY <2>2
  <2>4. \A x, y \in snap'.rows : x.subject = y.subject /\ x.hour = y.hour => x = y
    BY <2>2
  <2> QED BY <1>0, <1>a, <1>b, <1>c, <1>e, <2>1, <2>3, <2>4
<1>4. CASE SnapUpsert
  <2>1. UNCHANGED <<clock, hours>> /\ ~lossy /\ serving
    BY <1>4, <1>d DEF SnapUpsert, Crash, LoadFromDb, LoadFail
  <2>2. PICK row \in snap.rows : /\ db' = [db EXCEPT ![row.subject][row.hour] = row.tokens]
                                 /\ snap' = [snap EXCEPT !.rows = @ \ {row}]
    BY <1>4 DEF SnapUpsert
  <2>3. snap'.rows = snap.rows \ {row} /\ row \in Rows
    BY <1>b, <2>2 DEF TypeOK
  <2>4. \A s \in Subjects, h \in Buckets :
          db'[s][h] = IF s = row.subject /\ h = row.hour THEN row.tokens ELSE db[s][h]
    BY <1>a, <2>2, <2>3 DEF TypeOK
  <2> QED BY <1>0, <1>a, <1>b, <1>c, <1>e, <2>1, <2>2, <2>3, <2>4
<1>5. CASE SnapPrune
  <2>1. UNCHANGED <<clock, hours>> /\ ~lossy /\ serving
    BY <1>5, <1>d DEF SnapPrune, Crash, LoadFromDb, LoadFail
  <2>2. snap'.rows = {}
    BY <1>5 DEF SnapPrune, TypeOK
  <2>3. \A s \in Subjects, h \in Buckets : db'[s][h] \in {0, db[s][h]}
    BY <1>5 DEF SnapPrune
  <2> QED BY <1>0, <1>c, <1>e, <2>1, <2>2, <2>3
<1>6. CASE SnapEvict
  <2>1. UNCHANGED <<clock, db>> /\ ~lossy /\ serving
    BY <1>6, <1>d DEF SnapEvict, Crash, LoadFromDb, LoadFail
  <2>2. snap'.rows = {}
    BY <1>6 DEF SnapEvict, NoSnap
  <2>3. ASSUME NEW s \in Subjects, NEW h \in Buckets, LiveHour(h, clock')
        PROVE  hours'[s][h] >= db'[s][h] \/ (hours'[s][h] = 0 /\ Closed(h)')
    <3>1. LiveHour(h, clock)
      BY <1>0, <2>3
    <3>2. hours[s][h] >= db[s][h] \/ (hours[s][h] = 0 /\ Closed(h))
      BY <1>e, <2>1, <3>1
    <3>3. CASE s \notin StillIdle
      <4>1. hours'[s] = hours[s]
        BY <1>6, <3>3 DEF SnapEvict
      <4> QED BY <1>0, <1>c, <2>1, <3>2, <4>1
    <3>4. CASE s \in StillIdle
      <4>1. hours'[s][h] = 0
        BY <1>6, <3>4 DEF SnapEvict, Empty
      <4>2. lastSeen[s] < snap.now - IdleSecs /\ snap.now <= clock
        BY <3>4 DEF StillIdle, Stamped
      <4>3. CASE hours[s][h] > 0
        <5>1. lastSeen[s] >= HourStart(h) - CallTimeout
          BY <3>1, <4>3 DEF HoursSeen
        <5>2. Closed(h)
          BY <1>0, <4>2, <5>1 DEF IdleOutlastsCalls, Closed
        <5> QED BY <1>c, <4>1, <5>2
      <4>4. CASE ~(hours[s][h] > 0)
        BY <1>0, <1>c, <2>1, <3>2, <4>1, <4>4
      <4> QED BY <4>3, <4>4
    <3> QED BY <3>3, <3>4
  <2> QED BY <2>2, <2>3
<1>7. CASE SnapFail
  <2>1. UNCHANGED <<clock, hours, db>> /\ ~lossy /\ serving
    BY <1>7, <1>d DEF SnapFail, Crash, LoadFromDb, LoadFail
  <2>2. snap'.rows = {}
    BY <1>7 DEF SnapFail, NoSnap
  <2> QED BY <1>0, <1>c, <1>e, <2>1, <2>2
<1>8. CASE Crash \/ LoadFail
  BY <1>8 DEF Crash, LoadFail
<1>9. CASE LoadFromDb
  <2>1. UNCHANGED <<clock, db, snap>> /\ ~serving
    BY <1>9 DEF LoadFromDb
  <2>2. snap'.rows = {}
    BY <2>1 DEF Stamped
  <2>3. \A s \in Subjects, h \in Buckets : LiveHour(h, clock) => hours'[s][h] = hours[s][h] + db[s][h]
    BY <1>9 DEF LoadFromDb
  <2> QED BY <1>0, <2>1, <2>2, <2>3
<1> QED BY <1>1, <1>2, <1>3, <1>4, <1>5, <1>6, <1>7, <1>8, <1>9 DEF Next, Serve, Snapshot, Restart

(* The hours in memory carry what is needed to keep the table up.          *)
THEOREM Durable == IdleOutlastsCalls => (Spec => []DInv)
<1> SUFFICES ASSUME IdleOutlastsCalls PROVE Spec => []DInv
  OBVIOUS
<1>1. Init => DInv
  <2> SUFFICES ASSUME Init PROVE DInv
    OBVIOUS
  <2>1. TypeOK /\ DownIsEmpty /\ NeverOvercharged /\ Stamped
    BY InitIInv, InitLInv DEF IInv, LInv, PInv
  <2>2. \A s \in Subjects, h \in Buckets : consumed[s][h] = 0 /\ hours[s][h] = 0 /\ db[s][h] = 0
    BY DEF Init, Empty
  <2>3. snap.rows = {}
    BY DEF Init, NoSnap
  <2> QED BY <2>1, <2>2, <2>3 DEF DInv, HoursSeen, TableBehind
<1>2. DInv /\ [Next]_vars => DInv'
  <2> SUFFICES ASSUME DInv, [Next]_vars PROVE DInv'
    OBVIOUS
  <2>1. TypeOK'
    BY NextTypeOK DEF DInv
  <2>2. CASE Next
    <3>1. Stamped' /\ DownIsEmpty' /\ NeverOvercharged'
      BY <2>1, <2>2, NextStamped, NextDownIsEmpty, NextNeverOvercharged DEF DInv
    <3> QED BY <2>1, <2>2, <3>1, NextHoursSeen, NextTableBehind DEF DInv
  <2>3. CASE UNCHANGED vars
    <3> USE <2>3 DEF vars, process, subjectUsage, globalUsage, requests
    <3>1. Stamped' /\ DownIsEmpty' /\ NeverOvercharged'
      BY DEF DInv, Stamped, DownIsEmpty, NeverOvercharged
    <3>2. HoursSeen'
      BY DEF DInv, HoursSeen, LiveHour
    <3>3. TableBehind'
      BY DEF DInv, TableBehind, LiveHour, Closed
    <3> QED BY <2>1, <3>1, <3>2, <3>3 DEF DInv
  <2> QED BY <2>2, <2>3
<1> QED BY <1>1, <1>2, PTL DEF Spec

(* The durable count of a live hour never goes down: see DurableMonotone.  *)
THEOREM DurableCounts == IdleOutlastsCalls /\ TableOutlastsDay => (Spec => DurableMonotone)
<1> SUFFICES ASSUME IdleOutlastsCalls, TableOutlastsDay PROVE Spec => DurableMonotone
  OBVIOUS
<1> DEFINE Kept == \A s \in Subjects, h \in Buckets :
                     LiveHour(h, clock) /\ ~lossy => db'[s][h] >= db[s][h]
<1>1. DInv /\ [Next]_vars => Kept
  <2> SUFFICES ASSUME DInv, [Next]_vars, NEW s \in Subjects, NEW h \in Buckets,
                      LiveHour(h, clock), ~lossy
               PROVE  db'[s][h] >= db[s][h]
    OBVIOUS
  <2>0. TypeOK /\ Stamped /\ TableBehind
    BY DEF DInv
  <2>1. db[s][h] \in Nat /\ clock \in Nat /\ snap.now \in Nat /\ snap.rows \subseteq Rows
    BY <2>0, Numbers
  <2>2. CASE SnapUpsert
    <3>1. PICK row \in snap.rows : db' = [db EXCEPT ![row.subject][row.hour] = row.tokens]
      BY <2>2 DEF SnapUpsert
    <3>2. row.subject \in Subjects /\ row.hour \in Buckets /\ row.tokens \in Nat
      BY <2>1 DEF Rows
    <3>3. serving
      BY <2>0, <2>2 DEF Stamped, SnapUpsert
    <3>4. LiveHour(row.hour, clock) => db[row.subject][row.hour] <= row.tokens
      BY <2>0, <3>3 DEF TableBehind
    <3>5. db'[s][h] = IF s = row.subject /\ h = row.hour THEN row.tokens ELSE db[s][h]
      BY <2>0, <3>1, <3>2 DEF TypeOK
    <3> QED BY <2>1, <3>2, <3>4, <3>5
  <2>3. CASE SnapPrune
    <3>1. db'[s][h] = IF h < HourOf(snap.now) - SnapshotHours THEN 0 ELSE db[s][h]
      BY <2>3 DEF SnapPrune
    <3>2. snap.now <= clock
      BY <2>0 DEF Stamped
    <3>3. HourOf(snap.now) \in Nat /\ HourOf(clock) \in Nat /\ HourOf(snap.now) <= HourOf(clock)
      BY <2>1, <3>2, ClockAssumption, Division, DivisionMonotone DEF HourOf
    <3>4. h \in Nat /\ DailyHours \in Nat /\ SnapshotHours \in Nat
      BY ClockAssumption DEF Buckets
    <3>5. ~(h < HourOf(snap.now) - SnapshotHours)
      BY <3>3, <3>4 DEF LiveHour, TableOutlastsDay
    <3> QED BY <2>1, <3>1, <3>5
  <2>4. CASE ~SnapUpsert /\ ~SnapPrune
    <3>1. db' = db
      BY <2>4 DEF vars, Next, Serve, Handle, Arrive, Admit, Refuse, Settle, Release, Drop, Tick,
                  Snapshot, SnapCopy, SnapEvict, SnapFail, Restart, Crash, LoadFromDb, LoadFail
    <3> QED BY <2>1, <3>1
  <2> QED BY <2>2, <2>3, <2>4
<1>2. Spec => []DInv
  BY Durable
<1>3. Spec => [][Kept]_vars
  BY <1>1, <1>2, PTL DEF Spec
<1> QED BY <1>3 DEF DurableMonotone

-----------------------------------------------------------------------------
(* The active model.                                                       *)

(* Finitely many naturals have a greatest.                                 *)
LEMMA Greatest ==
  ASSUME NEW f, IsFiniteSet(DOMAIN f), DOMAIN f # {}, \A x \in DOMAIN f : f[x] \in Nat
  PROVE  Latest(f) \in DOMAIN f
<1> DEFINE D == DOMAIN f
           S == {n \in Nat : \A x \in D : f[x] <= n}
<1>1. S # {}
  <2>1. ASSUME NEW x \in D PROVE f[x] <= SumFunctionOnSet(f, D)
    <3>1. {x} \in SUBSET D /\ \A y \in {x} : f[y] \in Nat /\ f[y] <= f[y]
      OBVIOUS
    <3>2. SumFunctionOnSet(f, {x}) <= SumFunctionOnSet(f, D)
      BY <3>1, SumMonotone
    <3>3. SumFunctionOnSet(f, {x}) = f[x]
      <4>1. IsFiniteSet({}) /\ x \notin {} /\ {} \cup {x} = {x} /\ \A y \in {} \cup {x} : f[y] \in Int
        BY FS_EmptySet
      <4>2. SumFunctionOnSet(f, {} \cup {x}) = f[x] + SumFunctionOnSet(f, {})
        BY <4>1, SumAdd
      <4> QED BY <4>1, <4>2, SumEmpty
    <3> QED BY <3>2, <3>3
  <2>2. SumFunctionOnSet(f, D) \in Nat
    BY SumNat
  <2> QED BY <2>1, <2>2
<1>2. PICK m \in S : \A n \in S : m <= n
  <2>1. S \subseteq Nat
    OBVIOUS
  <2> HIDE DEF S
  <2> QED BY <1>1, <2>1, Least
<1>3. \E x \in D : f[x] = m
  <2> SUFFICES ASSUME \A x \in D : f[x] # m PROVE FALSE
    OBVIOUS
  <2>1. \A x \in D : f[x] < m
    BY <1>2
  <2>2. m - 1 \in S
    BY <1>2, <2>1
  <2> QED BY <1>2, <2>2
<1>4. PICK v \in D : \A w \in D : f[w] <= f[v]
  BY <1>2, <1>3
<1> QED BY <1>4 DEF Latest

(* A corpus is a finite table of versions.                                 *)
LEMMA TableRows ==
  ASSUME NEW vs \in Seq(Versions)
  PROVE  /\ Len(vs) \in Nat /\ DOMAIN vs = 1..Len(vs) /\ IsFiniteSet(DOMAIN vs)
         /\ DOMAIN vs \subseteq Nat
         /\ \A v \in DOMAIN vs : /\ vs[v] \in Versions /\ vs[v].src \in Sources
                                 /\ vs[v].model \in Models /\ vs[v].space \in Names
                                 /\ vs[v].blank \in BOOLEAN /\ vs[v].status \in Statuses
                                 /\ vs[v].at \in Nat
         /\ Serving(vs) \in SUBSET (DOMAIN vs) /\ IsFiniteSet(Serving(vs))
<1>1. Len(vs) \in Nat /\ DOMAIN vs = 1..Len(vs) /\ vs \in [1..Len(vs) -> Versions]
  BY LenProperties
<1>2. IsFiniteSet(DOMAIN vs)
  BY <1>1, FS_Interval
<1>3. Serving(vs) \in SUBSET (DOMAIN vs)
  BY DEF Serving
<1>4. IsFiniteSet(Serving(vs))
  BY <1>2, <1>3, FS_Subset
<1> QED BY <1>1, <1>2, <1>3, <1>4 DEF Versions

(* The active model is that of a version that is served, or the newest.    *)
LEMMA ActiveServed ==
  ASSUME NEW vs \in Seq(Versions)
  PROVE  /\ Serving(vs) # {} => LastIngest(vs) \in Serving(vs)
         /\ Active(vs) \in Models
         /\ ActiveCorpus(vs) \in Models \cup {NoModel}
         /\ ActiveCorpus(vs) = NoModel <=> Serving(vs) = {}
<1>1. DOMAIN Ages(vs) = Serving(vs) /\ \A v \in Serving(vs) : Ages(vs)[v] \in Nat
  BY TableRows DEF Ages
<1>2. Serving(vs) # {} => LastIngest(vs) \in Serving(vs)
  <2>1. IsFiniteSet(DOMAIN Ages(vs))
    BY <1>1, TableRows
  <2> QED BY <1>1, <2>1, Greatest DEF LastIngest
<1> QED BY <1>2, TableRows, CorpusAssumption DEF Active, ActiveCorpus

(* It depends on what is served, on its models and on its times only.      *)
LEMMA SameActive ==
  ASSUME NEW vs \in Seq(Versions), NEW ws \in Seq(Versions), Serving(vs) = Serving(ws),
         \A v \in Serving(vs) : vs[v].at = ws[v].at /\ vs[v].model = ws[v].model
  PROVE  /\ Active(vs) = Active(ws) /\ ActiveCorpus(vs) = ActiveCorpus(ws)
         /\ ServingNames(vs) = ServingNames(ws)
<1>1. Ages(vs) = Ages(ws)
  BY DEF Ages
<1>2. LastIngest(vs) = LastIngest(ws)
  BY <1>1 DEF LastIngest
<1>3. ServingNames(vs) = ServingNames(ws)
  BY DEF ServingNames
<1> QED BY <1>2, <1>3, ActiveServed DEF Active, ActiveCorpus

-----------------------------------------------------------------------------
(* What a step does to the table.                                          *)

\* vs with v changed, or added, and nothing that is served.
Behind(vs, ws, v) ==
  /\ ws \in Seq(Versions) /\ DOMAIN ws = DOMAIN vs \cup {v}
  /\ ws[v].status # "active" /\ (v \in DOMAIN vs => vs[v].status # "active")
  /\ \A w \in DOMAIN vs \ {v} : ws[w] = vs[w]

\* v is served in place of the version its source had.
Served(vs, ws, v) ==
  /\ ws \in Seq(Versions) /\ DOMAIN ws = DOMAIN vs /\ v \in DOMAIN vs
  /\ ws[v].status = "active"
  /\ \A w \in DOMAIN vs : ws[w].model = vs[w].model /\ ws[w].space = vs[w].space
  /\ \A w \in DOMAIN vs \ {v} :
       /\ ws[w].blank = vs[w].blank
       /\ ws[w].status = vs[w].status
            \/ (vs[w].status = "active" /\ ws[w].status = "inactive")

(* What is not served does not change what is.                             *)
LEMMA BehindServes ==
  ASSUME NEW vs \in Seq(Versions), NEW ws, NEW v, Behind(vs, ws, v)
  PROVE  /\ Serving(vs) = Serving(ws) /\ ServingNames(vs) = ServingNames(ws)
         /\ Active(vs) = Active(ws) /\ ws \in Seq(Versions)
<1>1. Serving(vs) = Serving(ws) /\ \A w \in Serving(vs) : vs[w] = ws[w]
  BY DEF Behind, Serving
<1>2. ws \in Seq(Versions)
  BY DEF Behind
<1> QED BY <1>1, <1>2, SameActive

(* A new row is at the end.                                                *)
LEMMA Appended ==
  ASSUME NEW vs \in Seq(Versions), NEW e \in Versions, e.status # "active"
  PROVE  /\ Behind(vs, Append(vs, e), Len(vs) + 1) /\ Append(vs, e)[Len(vs) + 1] = e
         /\ Len(vs) + 1 \notin DOMAIN vs
<1> DEFINE ws == Append(vs, e)
<1>1. /\ ws \in Seq(Versions) /\ Len(ws) = Len(vs) + 1 /\ ws[Len(vs) + 1] = e
      /\ \A i \in 1..Len(vs) : ws[i] = vs[i]
  BY AppendProperties
<1> HIDE DEF ws
<1>2. /\ DOMAIN vs = 1..Len(vs) /\ Len(vs) \in Nat /\ DOMAIN ws = 1..Len(ws)
  BY <1>1, TableRows
<1>3. DOMAIN ws = DOMAIN vs \cup {Len(vs) + 1} /\ Len(vs) + 1 \notin DOMAIN vs
  BY <1>1, <1>2
<1>4. Behind(vs, ws, Len(vs) + 1)
  BY <1>1, <1>2, <1>3 DEF Behind
<1> QED BY <1>1, <1>3, <1>4 DEF ws

(* A row of a run that has not finalized is replaced.                      *)
LEMMA Replaced ==
  ASSUME NEW vs \in Seq(Versions), NEW v \in DOMAIN vs, NEW e \in Versions,
         vs[v].status # "active", e.status # "active"
  PROVE  Behind(vs, [vs EXCEPT ![v] = e], v) /\ [vs EXCEPT ![v] = e][v] = e
<1> DEFINE ws == [vs EXCEPT ![v] = e]
<1>1. v \in 1..Len(vs) /\ DOMAIN vs = 1..Len(vs)
  BY TableRows
<1>2. ws \in Seq(Versions) /\ \A j \in 1..Len(vs) : ws[j] = IF j = v THEN e ELSE vs[j]
  BY <1>1, ExceptSeq
<1>3. DOMAIN ws = DOMAIN vs
  OBVIOUS
<1> HIDE DEF ws
<1>4. Behind(vs, ws, v) /\ ws[v] = e
  BY <1>1, <1>2, <1>3 DEF Behind
<1> QED BY <1>4 DEF ws

(* A version becomes active in place of the one its source had.            *)
LEMMA ActivatedServes ==
  ASSUME NEW vs \in Seq(Versions), NEW v \in DOMAIN vs
  PROVE  Served(vs, Activated(vs, v), v)
<1> DEFINE ws == Activated(vs, v)
           val(w) == IF w = v THEN [vs[w] EXCEPT !.status = "active"]
                     ELSE IF w \in Serving(vs) /\ vs[w].src = vs[v].src
                          THEN [vs[w] EXCEPT !.status = "inactive"]
                          ELSE vs[w]
<1>1. DOMAIN ws = DOMAIN vs /\ \A w \in DOMAIN vs : ws[w] = val(w)
  BY DEF Activated
<1>2. ASSUME NEW w \in DOMAIN vs
      PROVE  /\ ws[w] \in Versions
             /\ ws[w].model = vs[w].model /\ ws[w].space = vs[w].space /\ ws[w].blank = vs[w].blank
             /\ (w = v => ws[w].status = "active")
             /\ w # v => ws[w].status = vs[w].status
                           \/ (vs[w].status = "active" /\ ws[w].status = "inactive")
  <2>1. vs[w] \in Versions /\ ws[w] = val(w)
    BY <1>1, TableRows
  <2> HIDE DEF ws
  <2> QED BY <2>1 DEF Versions, Statuses, Serving
<1>3. ws \in Seq(Versions)
  <2>1. DOMAIN vs = 1..Len(vs) /\ Len(vs) \in Nat
    BY TableRows
  <2>2. ws \in [1..Len(vs) -> Versions]
    <3>1. ws = [w \in DOMAIN vs |-> ws[w]]
      BY DEF Activated
    <3> QED BY <1>2, <2>1, <3>1
  <2> QED BY <2>1, <2>2, SeqDef
<1> HIDE DEF ws
<1>4. Served(vs, ws, v)
  BY <1>1, <1>2, <1>3 DEF Served
<1> QED BY <1>4 DEF ws

(* A finalize also stamps it.                                              *)
LEMMA IngestedServes ==
  ASSUME NEW vs \in Seq(Versions), NEW v \in DOMAIN vs
  PROVE  Served(vs, [Ingested(vs, v) EXCEPT ![v].blank = FALSE], v)
<1> DEFINE as == Activated(vs, v)
           now == 1 + Cardinality({w \in DOMAIN vs : vs[w].at > 0})
           e == [as[v] EXCEPT !.at = now]
           bs == [as EXCEPT ![v] = e]
           f == [e EXCEPT !.blank = FALSE]
           cs == [bs EXCEPT ![v] = f]
<1>1. Served(vs, as, v)
  BY ActivatedServes
<1>2. now \in Nat
  <2>1. IsFiniteSet({w \in DOMAIN vs : vs[w].at > 0})
    BY TableRows, FS_Subset
  <2>2. Cardinality({w \in DOMAIN vs : vs[w].at > 0}) \in Nat
    BY <2>1, FS_CardinalityType
  <2> QED BY <2>2
<1>3. as \in Seq(Versions) /\ DOMAIN as = DOMAIN vs /\ v \in DOMAIN as
      /\ as[v] \in Versions /\ as[v].status = "active"
      /\ \A w \in DOMAIN vs : as[w] \in Versions
  <2>1. as \in Seq(Versions) /\ DOMAIN as = DOMAIN vs /\ as[v].status = "active"
    BY <1>1 DEF Served
  <2> HIDE DEF as
  <2> QED BY <2>1, TableRows
<1> HIDE DEF as, now
<1>4. e \in Versions /\ e.model = as[v].model /\ e.space = as[v].space /\ e.status = "active"
  <2>1. PICK a \in Versions : a = as[v]
    BY <1>3
  <2>2. [a EXCEPT !.at = now] \in Versions
    BY <1>2 DEF Versions
  <2>3. [a EXCEPT !.at = now].model = a.model /\ [a EXCEPT !.at = now].space = a.space
        /\ [a EXCEPT !.at = now].status = a.status
    BY DEF Versions
  <2> QED BY <1>3, <2>1, <2>2, <2>3
<1> HIDE DEF e
<1>5. f \in Versions /\ f.model = as[v].model /\ f.space = as[v].space /\ f.status = "active"
  <2>1. [e EXCEPT !.blank = FALSE] \in Versions
    BY <1>4 DEF Versions
  <2>2. [e EXCEPT !.blank = FALSE].model = e.model /\ [e EXCEPT !.blank = FALSE].space = e.space
        /\ [e EXCEPT !.blank = FALSE].status = e.status
    BY <1>4 DEF Versions
  <2> QED BY <1>4, <2>1, <2>2
<1> HIDE DEF e, f
<1>6. bs \in Seq(Versions) /\ DOMAIN bs = DOMAIN vs
      /\ \A w \in DOMAIN vs : bs[w] = IF w = v THEN e ELSE as[w]
  <2>1. v \in 1..Len(as) /\ DOMAIN as = 1..Len(as)
    BY <1>3, TableRows
  <2> QED BY <1>3, <1>4, <2>1, ExceptSeq
<1> HIDE DEF bs
<1>7. cs \in Seq(Versions) /\ DOMAIN cs = DOMAIN vs
      /\ \A w \in DOMAIN vs : cs[w] = IF w = v THEN f ELSE as[w]
  <2>1. v \in 1..Len(bs) /\ DOMAIN bs = 1..Len(bs)
    BY <1>3, <1>6, TableRows
  <2>2. cs \in Seq(Versions) /\ \A w \in 1..Len(bs) : cs[w] = IF w = v THEN f ELSE bs[w]
    BY <1>5, <1>6, <2>1, ExceptSeq
  <2> QED BY <1>6, <2>1, <2>2
<1>8. cs = [Ingested(vs, v) EXCEPT ![v].blank = FALSE]
  <2>1. Ingested(vs, v) = bs
    BY DEF Ingested, bs, e, as, now
  <2>2. bs[v] = e
    BY <1>3, <1>6
  <2> QED BY <2>1, <2>2 DEF f
<1> HIDE DEF cs
<1>9. Served(vs, cs, v)
  BY <1>1, <1>5, <1>7 DEF Served
<1> QED BY <1>8, <1>9

(* What is served afterwards.                                              *)
LEMMA ServedServes ==
  ASSUME NEW vs \in Seq(Versions), NEW ws, NEW v, Served(vs, ws, v)
  PROVE  /\ v \in Serving(ws) /\ Serving(ws) \subseteq Serving(vs) \cup {v}
         /\ ServingNames(ws) \subseteq ServingNames(vs) \cup {NameOf[vs[v].model]}
         /\ NameOf[vs[v].model] \in ServingNames(ws)
         /\ ws \in Seq(Versions)
BY DEF Served, Serving, ServingNames

(* The table's rows have their types.                                      *)
LEMMA Rowed ==
  ASSUME CorpusTypeOK
  PROVE  versions \in Seq(Versions) /\ \A v \in DOMAIN versions : v # 0 /\ versions[v] \in Versions
BY TableRows DEF CorpusTypeOK

(* A start adds a row, or refuses.                                        *)
LEMMA StartTable ==
  ASSUME CorpusTypeOK, HoldsBuilding, NEW r \in Runners, Start(r)
  PROVE  \/ Ended(r, "failed") /\ versions' = versions
         \/ /\ Len(versions) + 1 \notin DOMAIN versions
            /\ Behind(versions, versions', Len(versions) + 1)
            /\ ActiveCorpus(versions) \in {NoModel} \cup {m \in Models : NameOf[m] = NameOf[run[r].want]}
            /\ versions'[Len(versions) + 1] =
                 [src |-> run[r].src, model |-> run[r].want, space |-> NameOf[run[r].want],
                  blank |-> ActiveCorpus(versions) = NoModel, status |-> "building", at |-> 0]
            /\ run' = [run EXCEPT ![r] = [@ EXCEPT !.pc = "building", !.ver = Len(versions) + 1]]
<1> DEFINE e == [src |-> run[r].src, model |-> run[r].want, space |-> NameOf[run[r].want],
                 blank |-> ActiveCorpus(versions) = NoModel, status |-> "building", at |-> 0]
<1>1. e \in Versions /\ e.status # "active"
  BY CorpusAssumption DEF CorpusTypeOK, Runs, Versions, Statuses, Names
<1>2. CASE Ended(r, "failed") /\ versions' = versions
  BY <1>2
<1>3. CASE /\ versions' = Append(versions, e)
           /\ ActiveCorpus(versions) \in {NoModel} \cup {m \in Models : NameOf[m] = NameOf[run[r].want]}
           /\ run' = [run EXCEPT ![r] = [@ EXCEPT !.pc = "building", !.ver = Len(versions) + 1]]
  <2> HIDE DEF e
  <2>1. /\ Behind(versions, versions', Len(versions) + 1) /\ versions'[Len(versions) + 1] = e
        /\ Len(versions) + 1 \notin DOMAIN versions
    BY Rowed, <1>1, <1>3, Appended
  <2> QED BY <1>3, <2>1 DEF e
<1> QED BY <1>2, <1>3 DEF Start

(* An upload fills the row of its run.                                     *)
LEMMA UploadTable ==
  ASSUME CorpusTypeOK, HoldsBuilding, NEW r \in Runners, Upload(r)
  PROVE  LET v == run[r].ver IN
         /\ v \in DOMAIN versions /\ versions[v].status = "building"
         /\ Behind(versions, versions', v)
         /\ versions'[v] = [versions[v] EXCEPT !.space = Space(r, run[r].want)]
<1> DEFINE v == run[r].ver
           e == [versions[v] EXCEPT !.space = Space(r, run[r].want)]
<1>1. v \in DOMAIN versions /\ versions[v].status = "building" /\ versions[v] \in Versions
  BY Rowed DEF Upload, HoldsBuilding, Held
<1>2. Space(r, run[r].want) \in Names
  BY DEF Space, CorpusTypeOK, Runs, Names
<1>3. e \in Versions /\ e.status = "building"
  BY <1>1, <1>2 DEF Versions
<1>4. versions' = [versions EXCEPT ![v] = e]
  BY <1>1 DEF Upload
<1> HIDE DEF v, e
<1>5. Behind(versions, versions', v) /\ versions'[v] = e
  BY Rowed, <1>1, <1>3, <1>4, Replaced
<1> QED BY <1>1, <1>5 DEF v, e

(* An abort marks it.                                                      *)
LEMMA GiveUpTable ==
  ASSUME CorpusTypeOK, HoldsBuilding, NEW r \in Runners, GiveUp(r)
  PROVE  LET v == run[r].ver IN
         \/ v = 0 /\ versions' = versions
         \/ /\ v \in DOMAIN versions /\ versions[v].status = "building" /\ Held(r)
            /\ Behind(versions, versions', v)
            /\ versions'[v] = [versions[v] EXCEPT !.status = "aborted"]
<1> DEFINE v == run[r].ver
           e == [versions[v] EXCEPT !.status = "aborted"]
<1>1. CASE v = 0
  BY <1>1 DEF GiveUp
<1>2. CASE v # 0
  <2>1. Held(r) /\ v \in DOMAIN versions /\ versions[v].status = "building" /\ versions[v] \in Versions
    BY Rowed, <1>2 DEF GiveUp, HoldsBuilding, Held
  <2>2. e \in Versions /\ e.status = "aborted"
    BY <2>1 DEF Versions, Statuses
  <2>3. versions' = [versions EXCEPT ![v] = e]
    BY <1>2, <2>1 DEF GiveUp
  <2> HIDE DEF v, e
  <2>4. Behind(versions, versions', v) /\ versions'[v] = e
    BY Rowed, <2>1, <2>2, <2>3, Replaced
  <2> QED BY <2>1, <2>4 DEF v, e
<1> QED BY <1>1, <1>2

(* A finalize serves it.                                                   *)
LEMMA CommitTable ==
  ASSUME CorpusTypeOK, HoldsBuilding, NEW r \in Runners, Commit(r)
  PROVE  Served(versions, versions', run[r].ver)
<1>1. run[r].ver \in DOMAIN versions
  BY DEF Commit, HoldsBuilding, Held
<1> QED BY Rowed, <1>1, IngestedServes DEF Commit

\* The steps that leave the table alone.
Quiet ==
  \/ \E r \in Runners : ChooseAny(r) \/ Reread(r) \/ Swap(r) \/ RereadFails(r) \/ Dropped(r)
  \/ ListSome \/ DriveSteps \/ Boot \/ Search

(* What each step does to the table.                                       *)
LEMMA Table ==
  ASSUME CorpusTypeOK, HoldsBuilding, CorpusNext
  PROVE  \/ Quiet /\ versions' = versions
         \/ \E r \in Runners : Start(r) /\ Ended(r, "failed") /\ versions' = versions
         \/ \E r \in Runners :
              /\ Start(r) /\ Len(versions) + 1 \notin DOMAIN versions
              /\ Behind(versions, versions', Len(versions) + 1)
              /\ ActiveCorpus(versions) \in {NoModel} \cup {m \in Models : NameOf[m] = NameOf[run[r].want]}
              /\ versions'[Len(versions) + 1] =
                   [src |-> run[r].src, model |-> run[r].want, space |-> NameOf[run[r].want],
                    blank |-> ActiveCorpus(versions) = NoModel, status |-> "building", at |-> 0]
              /\ run' = [run EXCEPT ![r] = [@ EXCEPT !.pc = "building", !.ver = Len(versions) + 1]]
         \/ \E r \in Runners :
              LET v == run[r].ver IN
              /\ Upload(r) /\ v \in DOMAIN versions /\ versions[v].status = "building"
              /\ Behind(versions, versions', v)
              /\ versions'[v] = [versions[v] EXCEPT !.space = Space(r, run[r].want)]
         \/ \E r \in Runners : GiveUp(r) /\ run[r].ver = 0 /\ versions' = versions
         \/ \E r \in Runners :
              LET v == run[r].ver IN
              /\ GiveUp(r) /\ v \in DOMAIN versions /\ versions[v].status = "building"
              /\ Held(r) /\ Behind(versions, versions', v)
              /\ versions'[v] = [versions[v] EXCEPT !.status = "aborted"]
         \/ \E r \in Runners : Commit(r) /\ Served(versions, versions', run[r].ver)
         \/ \E v \in DOMAIN versions : Promote(v) /\ Served(versions, versions', v)
<1>1. versions \in Seq(Versions)
  BY DEF CorpusTypeOK
<1>2. \A v \in DOMAIN versions : v # 0 /\ versions[v] \in Versions
  BY <1>1, TableRows
<1>3. CASE Quiet
  <2>1. versions' = versions
    BY <1>3 DEF Quiet, ChooseAny, Choose, Reread, Swap, RereadFails, Dropped, ListSome, List, DriveSteps,
                NextSource, StopBetween, Migrated, Aborted, Boot, Search, FetchModel, EmbedQuery, Check,
                VectorHalf, TextHalf, Answer
  <2> QED BY <1>3, <2>1
<1>4. ASSUME NEW v \in DOMAIN versions, Promote(v)
      PROVE  Served(versions, versions', v)
  BY <1>1, <1>4, ActivatedServes DEF Promote
<1> QED
  BY <1>3, <1>4, StartTable, UploadTable, GiveUpTable, CommitTable DEF CorpusNext, RunSteps, RunFaults, Quiet

-----------------------------------------------------------------------------
(* Types and runs.                                                         *)

(* What a run that is over, or has not begun, has.                         *)
LEMMA Idling ==
  /\ Idle.src \in Sources /\ Idle.want = Newest /\ Idle.ver = 0 /\ Idle.seen = NoModel
  /\ Newest \in Models
BY CorpusAssumption DEF Idle

(* A list of some of the sources is a sequence of them.                    *)
LEMMA Listed ==
  ASSUME NEW S \in SUBSET Sources, NEW q \in Orders(S)
  PROVE  q \in Seq(Sources)
<1>1. IsFiniteSet(S)
  BY CorpusAssumption, FS_Subset
<1>2. Cardinality(S) \in Nat
  BY <1>1, FS_CardinalityType
<1>3. q \in [1..Cardinality(S) -> Sources]
  BY DEF Orders
<1> QED BY <1>2, <1>3, SeqDef

(* A run's record after a step.                                            *)
LEMMA RunRecords ==
  ASSUME NEW a \in Runs
  PROVE  /\ \A pc \in {"uploaded", "committed"} : [a EXCEPT !.pc = pc] \in Runs
         /\ \A s \in Sources, m \in Models : [a EXCEPT !.pc = "chosen", !.src = s, !.want = m] \in Runs
         /\ \A s \in Sources, m \in Models : [Idle EXCEPT !.pc = "chosen", !.src = s, !.want = m] \in Runs
         /\ \A n \in Nat : [a EXCEPT !.pc = "building", !.ver = n] \in Runs
         /\ \A m \in Models : [a EXCEPT !.pc = "reread", !.seen = m] \in Runs
         /\ \A pc \in {"ok", "failed"} : [Idle EXCEPT !.pc = pc] \in Runs
         /\ Idle \in Runs
<1>1. Idle \in [pc : {"idle"}, src : Sources, want : Models, ver : Nat, seen : {NoModel}]
  BY Idling DEF Idle
<1> QED BY <1>1 DEF Runs

(* Every step keeps the types of the runs.                                 *)
LEMMA RunsKept ==
  ASSUME CorpusTypeOK, CorpusNext
  PROVE  run' \in [Runners -> Runs]
<1>1. run \in [Runners -> Runs] /\ \A r \in Runners : run[r] \in Runs
  BY DEF CorpusTypeOK
<1>2. Active(versions) \in Models /\ Len(versions) + 1 \in Nat /\ Named \subseteq Models
      /\ Migrator \in Runners
  BY ActiveServed, TableRows, CorpusAssumption DEF CorpusTypeOK
<1>3. ASSUME NEW r \in Runners, NEW x \in Runs, run' = [run EXCEPT ![r] = x]
      PROVE  run' \in [Runners -> Runs]
  BY <1>1, <1>3
<1>4. ASSUME NEW r \in Runners, ChooseAny(r) PROVE run' \in [Runners -> Runs]
  <2>1. PICK s \in Sources : \E m \in {Active(versions)} \cup Named : Choose(r, s, m)
    BY <1>4 DEF ChooseAny
  <2>2. PICK m \in Models : Choose(r, s, m)
    BY <1>2, <2>1
  <2>3. [run[r] EXCEPT !.pc = "chosen", !.src = s, !.want = m] \in Runs
    BY <1>1, RunRecords
  <2> QED BY <1>1, <1>3, <2>2, <2>3 DEF Choose
<1>5. ASSUME NEW r \in Runners, NEW pc \in {"ok", "failed"}, Ended(r, pc) PROVE run' \in [Runners -> Runs]
  BY <1>1, <1>3, <1>5, RunRecords DEF Ended
<1>6. ASSUME NEW r \in Runners, NEW pc \in {"uploaded", "committed"}, To(r, pc)
      PROVE run' \in [Runners -> Runs]
  <2>1. [run[r] EXCEPT !.pc = pc] \in Runs
    BY <1>1, RunRecords
  <2> QED BY <1>3, <1>6, <2>1 DEF To
<1>7. ASSUME NEW r \in Runners, Start(r) PROVE run' \in [Runners -> Runs]
  <2>1. [run[r] EXCEPT !.pc = "building", !.ver = Len(versions) + 1] \in Runs
    BY <1>1, <1>2, RunRecords
  <2> QED BY <1>3, <1>5, <1>7, <2>1 DEF Start
<1>8. ASSUME NEW r \in Runners, Reread(r) PROVE run' \in [Runners -> Runs]
  <2>1. [run[r] EXCEPT !.pc = "reread", !.seen = Active(versions)] \in Runs
    BY <1>1, <1>2, RunRecords
  <2> QED BY <1>3, <1>8, <2>1 DEF Reread
<1>9. CASE NextSource
  <2>1. drive.list[drive.next] \in Sources /\ drive.target \in Models
    <3>1. drive.list \in Seq(Sources) /\ drive.next \in 1..Len(drive.list) /\ drive.target \in Models
      BY <1>9 DEF NextSource, CorpusTypeOK, Drives
    <3> QED BY <3>1, ElementOfSeq
  <2>2. [Idle EXCEPT !.pc = "chosen", !.src = drive.list[drive.next], !.want = drive.target] \in Runs
    BY <1>1, <1>2, <2>1, RunRecords
  <2> QED BY <1>2, <1>3, <1>9, <2>2 DEF NextSource
<1>10. CASE Boot
  BY <1>1, <1>10, RunRecords DEF Boot
<1> QED
  BY <1>1, <1>4, <1>5, <1>6, <1>7, <1>8, <1>9, <1>10
     DEF CorpusNext, RunSteps, RunFaults, Upload, GiveUp, Commit, Swap, RereadFails, Dropped, ListSome, List,
         DriveSteps, StopBetween, Migrated, Aborted, Promote, Search, FetchModel, EmbedQuery, Check,
         VectorHalf, TextHalf, Answer

(* Of the migration loop.                                                  *)
LEMMA DrivesKept ==
  ASSUME CorpusTypeOK, CorpusNext
  PROVE  drive' \in Drives /\ (drive'.pc = "running" => drive'.next <= Len(drive'.list))
<1> DEFINE good(d) == d \in Drives /\ (d.pc = "running" => d.next <= Len(d.list))
<1>1. good(drive)
  BY DEF CorpusTypeOK
<1>2. CASE ListSome
  <2>1. PICK m \in Targets : \E left \in SUBSET OffTarget(m) : List(m, left)
    BY <1>2 DEF ListSome
  <2>2. PICK left \in SUBSET OffTarget(m) : List(m, left)
    BY <2>1
  <2>3. PICK q \in Orders(left) : drive' = [pc |-> "between", target |-> m, list |-> q, next |-> 1]
    BY <2>2 DEF List
  <2>4. q \in Seq(Sources) /\ m \in Models
    BY Listed, CorpusAssumption DEF OffTarget
  <2> QED BY <2>3, <2>4 DEF Drives
<1>3. CASE NextSource
  BY <1>1, <1>3 DEF NextSource, Drives
<1>4. CASE StopBetween \/ Aborted
  <2>1. <<>> \in Seq(Sources) /\ Newest \in Models
    BY EmptySeq, Idling
  <2>2. \A pc : [Parked EXCEPT !.pc = pc] = [pc |-> pc, target |-> Newest, list |-> <<>>, next |-> 1]
    BY DEF Parked
  <2>3. \E pc \in {"stopped", "aborted"} :
          drive' = [pc |-> pc, target |-> Newest, list |-> <<>>, next |-> 1]
    BY <1>4, <2>2 DEF StopBetween, Aborted
  <2> QED BY <2>1, <2>3 DEF Drives
<1>4a. CASE Migrated
  <2>1. drive \in Drives /\ drive.next + 1 \in Nat \ {0}
    BY <1>1 DEF Drives
  <2>2. [drive EXCEPT !.pc = "between", !.next = drive.next + 1] \in Drives
        /\ [drive EXCEPT !.pc = "between", !.next = drive.next + 1].pc = "between"
    BY <2>1 DEF Drives
  <2> QED BY <1>4a, <2>2 DEF Migrated
<1>5. CASE drive' = drive
  BY <1>1, <1>5
<1> QED
  BY <1>2, <1>3, <1>4, <1>4a, <1>5
     DEF CorpusNext, RunSteps, RunFaults, ChooseAny, Choose, Start, Upload, GiveUp, Commit, Reread, Swap,
         RereadFails, Dropped, DriveSteps, Boot, Promote, Search, FetchModel, EmbedQuery, Check,
         VectorHalf, TextHalf, Answer

(* And of the search.                                                      *)
LEMMA AsksKept ==
  ASSUME CorpusTypeOK, CorpusNext
  PROVE  ask' \in Asks
<1>1. ask \in Asks /\ Silent \in Asks /\ Named \subseteq Models
  BY Idling, CorpusAssumption DEF CorpusTypeOK, Silent, Asks, Names
<1>2. Active(versions) \in Models
  BY ActiveServed DEF CorpusTypeOK
<1>3. \A m : OnModel(m) \subseteq Nat
  BY TableRows DEF OnModel, Serving, CorpusTypeOK
<1>4. CASE FetchModel
  BY <1>1, <1>2, <1>4 DEF FetchModel, Asks
<1>5. CASE EmbedQuery
  <2>1. Space(Client, ask.wire) \in Names
    BY <1>1 DEF Space, CorpusTypeOK, Asks, Names
  <2> QED BY <1>1, <1>5, <2>1 DEF EmbedQuery, Asks
<1>6. CASE Check
  <2>1. label \in Models
    BY DEF CorpusTypeOK
  <2> QED BY <1>1, <1>6, <2>1 DEF Check, Asks
<1>7. CASE VectorHalf \/ TextHalf
  <2>1. PICK H \in SUBSET Nat : H = OnModel(ask.snap)
    BY <1>3
  <2>2. [ask EXCEPT !.pc = "ranked", !.hits = H] \in Asks
    BY <1>1 DEF Asks
  <2>3. [ask EXCEPT !.pc = "found", !.hits = @ \cup H] \in Asks
    BY <1>1 DEF Asks
  <2> QED BY <1>7, <2>1, <2>2, <2>3 DEF VectorHalf, TextHalf
<1>8. CASE Answer \/ Boot \/ ask' = ask
  BY <1>1, <1>8 DEF Answer, Boot
<1> QED
  BY <1>4, <1>5, <1>6, <1>7, <1>8
     DEF CorpusNext, RunSteps, RunFaults, ChooseAny, Choose, Start, Upload, GiveUp, Commit, Reread, Swap,
         RereadFails, Dropped, DriveSteps, NextSource, StopBetween, Migrated, Aborted, ListSome, List,
         Promote, Search

\* What a step does to the record of run q.
Rests(q)   == run'[q] = run[q]
Resets(q)  == /\ run[q].pc \notin {"committed", "reread"}
              /\ run'[q].pc \in {"chosen", "failed"} /\ run'[q].ver = 0
Settles(q) == /\ run[q].pc \in {"committed", "reread"}
              /\ run'[q].pc \in {"ok", "failed"} /\ run'[q].ver = 0
              /\ Swap(q) \/ RereadFails(q) \/ Dropped(q) \/ Boot
Begins(q)  == /\ Start(q) /\ run'[q].pc = "building" /\ run'[q].ver = Len(versions) + 1
              /\ run'[q].want = run[q].want
Fills(q)   == /\ Upload(q) /\ run'[q].pc = "uploaded" /\ run'[q].ver = run[q].ver
              /\ run'[q].want = run[q].want
Ends(q)    == Commit(q) /\ run'[q].pc = "committed"
Looks(q)   == Reread(q) /\ run'[q].pc = "reread" /\ run'[q].seen = Active(versions)

(* Every step does one of these to each of them.                           *)
LEMMA Moves ==
  ASSUME CorpusTypeOK, HoldsBuilding, CorpusNext
  PROVE  \A q \in Runners :
           Rests(q) \/ Resets(q) \/ Settles(q) \/ Begins(q) \/ Fills(q) \/ Ends(q) \/ Looks(q)
<1> SUFFICES ASSUME NEW q \in Runners
             PROVE  Rests(q) \/ Resets(q) \/ Settles(q) \/ Begins(q) \/ Fills(q) \/ Ends(q) \/ Looks(q)
  OBVIOUS
<1>1. run \in [Runners -> Runs] /\ run[q] \in Runs
  BY DEF CorpusTypeOK
<1>2. ASSUME NEW r \in Runners, NEW x, run' = [run EXCEPT ![r] = x]
      PROVE  (q # r => Rests(q)) /\ run'[r] = x
  BY <1>1, <1>2 DEF Rests
<1>3. ASSUME NEW r \in Runners, NEW pc, Ended(r, pc)
      PROVE  (q # r => Rests(q)) /\ run'[r].pc = pc /\ run'[r].ver = 0
  BY <1>1, <1>3, Idling DEF Ended, Rests, Idle
<1>4. ASSUME NEW r \in Runners, NEW pc, To(r, pc)
      PROVE  (q # r => Rests(q)) /\ run'[r].pc = pc /\ run'[r].ver = run[r].ver /\ run'[r].want = run[r].want
  BY <1>1, <1>4 DEF To, Rests, CorpusTypeOK, Runs
<1>5. ASSUME NEW r \in Runners, ChooseAny(r) PROVE Rests(q) \/ Resets(q)
  <2>1. run[r].pc = "idle" /\ run[r].ver = 0 /\ run[r] \in Runs
    BY <1>5 DEF ChooseAny, Choose, HoldsBuilding, CorpusTypeOK
  <2>2. PICK s, m : run' = [run EXCEPT ![r] = [run[r] EXCEPT !.pc = "chosen", !.src = s, !.want = m]]
    BY <1>5 DEF ChooseAny, Choose
  <2>3. [run[r] EXCEPT !.pc = "chosen", !.src = s, !.want = m].pc = "chosen"
        /\ [run[r] EXCEPT !.pc = "chosen", !.src = s, !.want = m].ver = run[r].ver
    BY <2>1 DEF Runs
  <2> QED BY <1>2, <2>1, <2>2, <2>3 DEF Resets
<1>6. ASSUME NEW r \in Runners, Start(r) PROVE Rests(q) \/ Resets(q) \/ Begins(q)
  <2>1. run[r].pc = "chosen" /\ run[r] \in Runs
    BY <1>6 DEF Start, CorpusTypeOK
  <2>2. CASE Ended(r, "failed")
    BY <1>3, <2>1, <2>2 DEF Resets
  <2>3. CASE run' = [run EXCEPT ![r] = [run[r] EXCEPT !.pc = "building", !.ver = Len(versions) + 1]]
    <3>1. LET x == [run[r] EXCEPT !.pc = "building", !.ver = Len(versions) + 1]
          IN  x.pc = "building" /\ x.ver = Len(versions) + 1 /\ x.want = run[r].want
      BY <2>1 DEF Runs
    <3> QED BY <1>2, <1>6, <2>3, <3>1 DEF Begins
  <2> QED BY <1>6, <2>2, <2>3 DEF Start
<1>7. ASSUME NEW r \in Runners, Upload(r) PROVE Rests(q) \/ Fills(q)
  BY <1>4, <1>7 DEF Upload, Fills
<1>8. ASSUME NEW r \in Runners, GiveUp(r) PROVE Rests(q) \/ Resets(q)
  BY <1>3, <1>8 DEF GiveUp, Resets
<1>9. ASSUME NEW r \in Runners, Commit(r) PROVE Rests(q) \/ Ends(q)
  BY <1>4, <1>9 DEF Commit, Ends
<1>10. ASSUME NEW r \in Runners, Reread(r) PROVE Rests(q) \/ Looks(q)
  <2>1. run[r] \in Runs
    BY DEF CorpusTypeOK
  <2>2. LET x == [run[r] EXCEPT !.pc = "reread", !.seen = Active(versions)]
        IN  x.pc = "reread" /\ x.seen = Active(versions)
    BY <2>1 DEF Runs
  <2>3. run' = [run EXCEPT ![r] = [run[r] EXCEPT !.pc = "reread", !.seen = Active(versions)]]
    BY <1>10 DEF Reread
  <2> QED BY <1>2, <1>10, <2>2, <2>3 DEF Looks
<1>11. ASSUME NEW r \in Runners, Swap(r) \/ RereadFails(r) \/ Dropped(r) PROVE Rests(q) \/ Settles(q)
  BY <1>3, <1>11 DEF Swap, RereadFails, Dropped, Settles
<1>12. CASE NextSource
  <2>1. Migrator \in Runners /\ run[Migrator].pc \in {"idle", "ok", "failed"}
    BY <1>12, CorpusAssumption DEF NextSource, HoldsBuilding
  <2>2. PICK s, m : run' = [run EXCEPT ![Migrator] = [Idle EXCEPT !.pc = "chosen", !.src = s, !.want = m]]
    BY <1>12 DEF NextSource
  <2>3. [Idle EXCEPT !.pc = "chosen", !.src = s, !.want = m].pc = "chosen"
        /\ [Idle EXCEPT !.pc = "chosen", !.src = s, !.want = m].ver = 0
    BY DEF Idle
  <2> QED BY <1>2, <2>1, <2>2, <2>3 DEF Resets
<1>13. CASE Boot
  <2>1. CASE run[q].pc \in {"committed", "reread"}
    <3>1. run'[q] = [Idle EXCEPT !.pc = "failed"]
      BY <1>13, <2>1 DEF Boot
    <3> QED BY <1>13, <2>1, <3>1 DEF Idle, Settles
  <2>2. CASE run[q].pc \notin {"committed", "reread"}
    BY <1>13, <2>2 DEF Boot, Rests
  <2> QED BY <2>1, <2>2
<1>14. CASE run' = run
  BY <1>14 DEF Rests
<1> QED
  BY <1>5, <1>6, <1>7, <1>8, <1>9, <1>10, <1>11, <1>12, <1>13, <1>14
     DEF CorpusNext, RunSteps, RunFaults, ListSome, List, DriveSteps, StopBetween, Migrated, Aborted, Promote,
         Search, FetchModel, EmbedQuery, Check, VectorHalf, TextHalf, Answer

(* Every step keeps the types.                                             *)
LEMMA TypesKept ==
  ASSUME CorpusTypeOK, HoldsBuilding, CorpusNext
  PROVE  CorpusTypeOK'
<1>1. versions \in Seq(Versions) /\ versions' \in Seq(Versions)
  <2>1. versions \in Seq(Versions)
    BY DEF CorpusTypeOK
  <2> QED BY <2>1, Table, BehindServes, ServedServes
<1>2. Active(versions) \in Models /\ NameOf[Active(versions)] \in Names
  BY <1>1, ActiveServed DEF Names
<1>3. label' \in Models /\ proxy' \in Names
  <2>1. CASE Boot
    BY <1>2, <2>1 DEF Boot
  <2>2. ASSUME NEW r \in Runners, Swap(r) PROVE label' \in Models /\ proxy' \in Names
    BY <2>2 DEF Swap, CorpusTypeOK
  <2>3. CASE label' = label /\ proxy' = proxy
    BY <2>3 DEF CorpusTypeOK
  <2> QED
    BY <2>1, <2>2, <2>3
       DEF CorpusNext, RunSteps, RunFaults, ChooseAny, Choose, Start, Upload, GiveUp, Commit, Reread,
           RereadFails, Dropped, DriveSteps, NextSource, StopBetween, Migrated, Aborted, ListSome, List,
           Promote, Search, FetchModel, EmbedQuery, Check, VectorHalf, TextHalf, Answer
<1>4. switches' \in 0..MaxSwitches /\ faults' \in 0..MaxFaults
  <2>1. switches \in 0..MaxSwitches /\ faults \in 0..MaxFaults /\ MaxSwitches \in Nat /\ MaxFaults \in Nat
    BY CorpusAssumption DEF CorpusTypeOK
  <2>2. \/ switches' = switches
        \/ switches < MaxSwitches /\ switches' = switches + 1
    BY DEF CorpusNext, RunSteps, RunFaults, ChooseAny, Choose, Start, Upload, GiveUp, Commit, Reread, Swap,
           RereadFails, Dropped, DriveSteps, NextSource, StopBetween, Migrated, Aborted, ListSome, List,
           Boot, Promote, Search, FetchModel, EmbedQuery, Check, VectorHalf, TextHalf, Answer, bounds
  <2>3. \/ faults' = faults
        \/ faults < MaxFaults /\ faults' = faults + 1
    BY DEF CorpusNext, RunSteps, RunFaults, ChooseAny, Choose, Start, Upload, GiveUp, Commit, Reread, Swap,
           RereadFails, Dropped, DriveSteps, NextSource, StopBetween, Migrated, Aborted, ListSome, List,
           Boot, Promote, Search, FetchModel, EmbedQuery, Check, VectorHalf, TextHalf, Answer, bounds
  <2> QED BY <2>1, <2>2, <2>3
<1>6. \A r \in Runners : run'[r].pc = "reread" => run'[r].seen \in Models
  <2> SUFFICES ASSUME NEW q \in Runners, run'[q].pc = "reread" PROVE run'[q].seen \in Models
    OBVIOUS
  <2>1. run' \in [Runners -> Runs] /\ run \in [Runners -> Runs]
    BY RunsKept DEF CorpusTypeOK
  <2> QED BY <1>2, <2>1, Moves DEF CorpusTypeOK, Rests, Resets, Settles, Begins, Fills, Ends, Looks
<1>5. crossed' \in BOOLEAN /\ drifted' \in BOOLEAN /\ excused' \in BOOLEAN
  BY ZenonT(30)
     DEF CorpusTypeOK, CorpusNext, RunSteps, RunFaults, ChooseAny, Choose, Start, Upload, GiveUp, Commit, Reread, Swap,
         RereadFails, Dropped, DriveSteps, NextSource, StopBetween, Migrated, Aborted, ListSome, List,
         Boot, Promote, Search, FetchModel, EmbedQuery, Check, VectorHalf, TextHalf, Answer, history
<1> QED BY <1>1, <1>3, <1>4, <1>5, <1>6, RunsKept, DrivesKept, AsksKept DEF CorpusTypeOK

-----------------------------------------------------------------------------
(* The runs and their versions.                                            *)

(* While a run goes on, its version stays the one it began, building.      *)
LEMMA HeldRows ==
  ASSUME CorpusTypeOK, HoldsBuilding, CorpusNext, NEW r \in Runners, Held(r), Held(r)'
  PROVE  LET v == run[r].ver IN
         /\ run'[r].ver = v /\ run'[r].want = run[r].want
         /\ v \in DOMAIN versions /\ v \in DOMAIN versions'
         /\ versions'[v].status = "building"
         /\ versions'[v].model = versions[v].model /\ versions'[v].blank = versions[v].blank
<1> DEFINE v == run[r].ver
<1>1. v \in DOMAIN versions /\ versions[v].status = "building" /\ versions[v] \in Versions
  BY Rowed DEF HoldsBuilding
<1>2. Rests(r) \/ Fills(r)
  BY Moves DEF Held, Rests, Resets, Settles, Begins, Fills, Ends, Looks, Start, Upload, Commit, Reread
<1>3. run'[r].ver = v /\ run'[r].want = run[r].want
  BY <1>2 DEF Rests, Fills
<1> DEFINE same == /\ v \in DOMAIN versions'
                   /\ versions'[v].status = "building"
                   /\ versions'[v].model = versions[v].model /\ versions'[v].blank = versions[v].blank
<1>4. same
  <2>1. CASE versions' = versions
    BY <1>1, <2>1
  <2>2. ASSUME NEW w, Behind(versions, versions', w), w # v PROVE same
    BY <1>1, <2>2 DEF Behind
  <2>3. ASSUME NEW q \in Runners, Upload(q), run[q].ver = v, Behind(versions, versions', v),
               versions'[v] = [versions[v] EXCEPT !.space = Space(q, run[q].want)]
        PROVE  same
    BY <1>1, <2>3 DEF Behind, Versions
  <2>4. ASSUME NEW w, Served(versions, versions', w), w # v PROVE same
    BY <1>1, <2>4 DEF Served
  <2>5. ASSUME NEW q \in Runners, GiveUp(q) PROVE versions' = versions \/ run[q].ver # v
    <3>1. CASE q = r
      <4>1. run'[r].pc = "failed"
        BY <2>5, <3>1 DEF GiveUp, Ended, CorpusTypeOK
      <4> QED BY <4>1 DEF Held
    <3>2. CASE q # r
      BY <2>5, <3>2, GiveUpTable DEF HoldsBuilding
    <3> QED BY <3>1, <3>2
  <2>6. ASSUME NEW q \in Runners, Commit(q) PROVE run[q].ver # v
    <3>1. CASE q = r
      <4>1. run'[r].pc = "committed"
        BY <2>6, <3>1 DEF Commit, To, CorpusTypeOK
      <4> QED BY <4>1 DEF Held
    <3>2. CASE q # r
      BY <2>6, <3>2 DEF HoldsBuilding, Held, Commit
    <3> QED BY <3>1, <3>2
  <2>7. \A w : Promote(w) => w # v
    BY <1>1 DEF Promote
  <2> HIDE DEF same
  <2> QED BY <1>1, <2>1, <2>2, <2>3, <2>4, <2>5, <2>6, <2>7, Table
<1> QED BY <1>1, <1>3, <1>4

(* A run that begins holds a version of its own.                           *)
LEMMA NewlyHeld ==
  ASSUME CorpusTypeOK, HoldsBuilding, CorpusNext, NEW r \in Runners, ~Held(r), Held(r)'
  PROVE  LET v == run'[r].ver IN
         /\ Begins(r) /\ v \notin DOMAIN versions /\ v \in DOMAIN versions'
         /\ Behind(versions, versions', v) /\ v = Len(versions) + 1
         /\ ActiveCorpus(versions) \in {NoModel} \cup {m \in Models : NameOf[m] = NameOf[run[r].want]}
         /\ versions'[v] =
              [src |-> run[r].src, model |-> run[r].want, space |-> NameOf[run[r].want],
               blank |-> ActiveCorpus(versions) = NoModel, status |-> "building", at |-> 0]
<1>1. Begins(r)
  BY Moves DEF Held, Rests, Resets, Settles, Begins, Fills, Ends, Looks, Start, Upload, Commit, Reread
<1>2. ~Ended(r, "failed")
  BY DEF Ended, Held, CorpusTypeOK, Idle
<1> QED BY <1>1, <1>2, StartTable DEF Begins, Behind

(* Every step keeps the versions the runs hold.                            *)
LEMMA HoldsKept ==
  ASSUME CorpusTypeOK, HoldsBuilding, CorpusNext
  PROVE  HoldsBuilding'
<1>1. ASSUME NEW r \in Runners, Held(r)'
      PROVE  /\ run'[r].ver \in DOMAIN versions' /\ versions'[run'[r].ver].status = "building"
             /\ versions'[run'[r].ver].model = run'[r].want
  <2>1. CASE Held(r)
    BY <1>1, <2>1, HeldRows DEF HoldsBuilding
  <2>2. CASE ~Held(r)
    <3>1. Behind(versions, versions', run'[r].ver) /\ Begins(r)
          /\ versions'[run'[r].ver] =
               [src |-> run[r].src, model |-> run[r].want, space |-> NameOf[run[r].want],
                blank |-> ActiveCorpus(versions) = NoModel, status |-> "building", at |-> 0]
      BY <1>1, <2>2, NewlyHeld
    <3> QED BY <3>1 DEF Behind, Begins
  <2> QED BY <2>1, <2>2
<1>2. ASSUME NEW r \in Runners, run'[r].pc \in {"idle", "chosen", "ok", "failed"}
      PROVE  run'[r].ver = 0
  BY <1>2, Moves DEF HoldsBuilding, Rests, Resets, Settles, Begins, Fills, Ends, Looks
<1>3. ASSUME NEW r \in Runners, NEW q \in Runners, Held(r)', Held(q)', run'[r].ver = run'[q].ver
      PROVE  r = q
  <2>1. CASE Held(r) /\ Held(q)
    BY <1>3, <2>1, HeldRows DEF HoldsBuilding
  <2>2. ASSUME NEW x \in Runners, NEW y \in Runners, Held(x), Held(x)', ~Held(y), Held(y)'
        PROVE  run'[x].ver # run'[y].ver
    <3>1. run'[x].ver \in DOMAIN versions
      BY <2>2, HeldRows
    <3>2. run'[y].ver \notin DOMAIN versions
      BY <2>2, NewlyHeld
    <3> QED BY <3>1, <3>2
  <2>3. CASE ~Held(r) /\ ~Held(q)
    <3>1. Start(r) /\ Start(q) /\ run'[q].pc = "building" /\ run[q].pc = "chosen"
      BY <1>3, <2>3, NewlyHeld DEF Begins, Start
    <3>2. q # r => run'[q] = run[q]
      BY <3>1 DEF Start, Ended, CorpusTypeOK
    <3> QED BY <3>1, <3>2
  <2> QED BY <1>3, <2>1, <2>2, <2>3
<1>4. ASSUME drive'.pc # "running" PROVE run'[Migrator].pc \in {"idle", "ok", "failed"}
  <2>1. Migrator \in Runners /\ run \in [Runners -> Runs]
    BY CorpusAssumption DEF CorpusTypeOK
  <2>2. CASE drive.pc = "running"
    <3>1. Migrated \/ Aborted
      BY <1>4, <2>2
         DEF CorpusNext, RunSteps, RunFaults, ChooseAny, Choose, Start, Upload, GiveUp, Commit, Reread, Swap,
             RereadFails, Dropped, DriveSteps, NextSource, StopBetween, ListSome, List, Boot, Promote,
             Search, FetchModel, EmbedQuery, Check, VectorHalf, TextHalf, Answer
    <3> QED BY <3>1 DEF Migrated, Aborted
  <2>3. CASE drive.pc # "running"
    <3>1. run[Migrator].pc \in {"idle", "ok", "failed"}
      BY <2>3 DEF HoldsBuilding
    <3>2. ASSUME NEW r \in Runners, ChooseAny(r) \/ RunSteps(r) \/ RunFaults(r)
          PROVE  run'[Migrator] = run[Migrator]
      <4>1. r # Migrator
        BY <3>1, <3>2
           DEF ChooseAny, Choose, RunSteps, RunFaults, Start, Upload, GiveUp, Commit, Reread, Swap,
               RereadFails, Dropped
      <4> QED
        BY <2>1, <3>2, <4>1
           DEF ChooseAny, Choose, RunSteps, RunFaults, Start, Upload, GiveUp, Commit, Reread, Swap,
               RereadFails, Dropped, Ended, To
    <3>3. CASE NextSource
      BY <1>4, <3>3 DEF NextSource, CorpusTypeOK, Drives
    <3>4. CASE Boot
      BY <2>1, <3>1, <3>4 DEF Boot
    <3>5. CASE run' = run
      BY <3>1, <3>5
    <3> QED
      BY <3>1, <3>2, <3>3, <3>4, <3>5
         DEF CorpusNext, ListSome, List, DriveSteps, StopBetween, Migrated, Aborted, Promote,
             Search, FetchModel, EmbedQuery, Check, VectorHalf, TextHalf, Answer
  <2> QED BY <2>2, <2>3
<1> QED BY <1>1, <1>2, <1>3, <1>4 DEF HoldsBuilding

-----------------------------------------------------------------------------
(* The name of what is served.                                             *)

Alone(vs) == \A n, m \in ServingNames(vs) : n = m

(* At most one name is no two.                                             *)
LEMMA AtMostOne ==
  ASSUME NEW vs \in Seq(Versions)
  PROVE  /\ Cardinality(ServingNames(vs)) \in Nat
         /\ Cardinality(ServingNames(vs)) <= 1 <=> Alone(vs)
<1>1. IsFiniteSet(ServingNames(vs))
  <2>1. IsFiniteSet(Serving(vs))
    BY TableRows
  <2>2. IsFiniteSet({NameOf[vs[v].model] : v \in Serving(vs)})
    <3> DEFINE F == [v \in Serving(vs) |-> NameOf[vs[v].model]]
    <3>1. F \in Surjection(Serving(vs), ServingNames(vs))
      BY DEF Surjection, ServingNames
    <3> QED BY <2>1, <3>1, FS_Surjection DEF ServingNames
  <2> QED BY <2>2 DEF ServingNames
<1>2. Cardinality(ServingNames(vs)) \in Nat
  BY <1>1, FS_CardinalityType
<1>3. ASSUME Cardinality(ServingNames(vs)) <= 1 PROVE Alone(vs)
  <2> SUFFICES ASSUME NEW n \in ServingNames(vs), NEW m \in ServingNames(vs), n # m PROVE FALSE
    BY DEF Alone
  <2>1. Cardinality({n}) = 1 /\ IsFiniteSet({n})
    BY FS_Singleton
  <2>2. Cardinality({n} \cup {m}) = 2
    <3>1. m \notin {n}
      OBVIOUS
    <3> DEFINE S == {n}
    <3> HIDE DEF S
    <3>2. Cardinality(S \cup {m}) = Cardinality(S) + 1 /\ Cardinality(S) = 1
      BY <2>1, <3>1, FS_AddElement DEF S
    <3>3. Cardinality(S \cup {m}) = 2
      BY <3>2
    <3> QED BY <3>3 DEF S
  <2>3. Cardinality({n} \cup {m}) <= Cardinality(ServingNames(vs))
    BY <1>1, FS_Subset
  <2> DEFINE K == Cardinality(ServingNames(vs))
  <2>4. K \in Nat /\ K <= 1 /\ 2 <= K
    BY <1>2, <1>3, <2>2, <2>3
  <2> HIDE DEF K
  <2> QED BY <2>4
<1>4. ASSUME Alone(vs) PROVE Cardinality(ServingNames(vs)) <= 1
  <2>1. CASE ServingNames(vs) = {}
    BY <2>1, FS_EmptySet
  <2>2. CASE ServingNames(vs) # {}
    <3>1. PICK n : ServingNames(vs) = {n}
      BY <1>4, <2>2 DEF Alone
    <3>2. Cardinality(ServingNames(vs)) = 1
      BY <3>1, FS_Singleton
    <3> QED BY <3>2
  <2> QED BY <2>1, <2>2
<1> QED BY <1>2, <1>3, <1>4

(* A step leaves the names alone, or leaves the only one there was.        *)
LEMMA NamesMove ==
  ASSUME CorpusTypeOK, HoldsBuilding, StartedInName, CorpusNext, ~crossed'
  PROVE  /\ ~crossed
         /\ \/ ServingNames(versions') = ServingNames(versions)
            \/ \E n : ServingNames(versions') = {n} /\ ServingNames(versions) \subseteq {n}
<1> DEFINE good == \/ ServingNames(versions') = ServingNames(versions)
                   \/ \E n : ServingNames(versions') = {n} /\ ServingNames(versions) \subseteq {n}
<1>1. versions \in Seq(Versions)
  BY DEF CorpusTypeOK
<1>2. ~crossed
  BY DEF CorpusNext, RunSteps, RunFaults, ChooseAny, Choose, Start, Upload, GiveUp, Commit, Reread, Swap,
         RereadFails, Dropped, DriveSteps, NextSource, StopBetween, Migrated, Aborted, ListSome, List,
         Boot, Promote, Search, FetchModel, EmbedQuery, Check, VectorHalf, TextHalf, Answer, history
<1>3. ASSUME NEW w, Behind(versions, versions', w) PROVE good
  BY <1>1, <1>3, BehindServes
<1>4. ASSUME NEW v, Served(versions, versions', v), ServingNames(versions) \subseteq {NameOf[versions[v].model]}
      PROVE  good
  <2> DEFINE n == NameOf[versions[v].model]
  <2>1. ServingNames(versions') \subseteq ServingNames(versions) \cup {n} /\ n \in ServingNames(versions')
    BY <1>1, <1>4, ServedServes
  <2>2. ServingNames(versions') = {n} /\ ServingNames(versions) \subseteq {n}
    BY <1>4, <2>1
  <2> HIDE DEF n
  <2> QED BY <2>2
<1>5. ASSUME NEW r \in Runners, Commit(r), Served(versions, versions', run[r].ver) PROVE good
  <2>1. CASE versions[run[r].ver].blank
    <3>1. ~Crosses(versions, run[r].ver)
      BY <1>5, <2>1 DEF Commit
    <3> QED BY <1>4, <1>5, <3>1 DEF Crosses
  <2>2. CASE ~versions[run[r].ver].blank
    <3>1. ServingNames(versions) = {NameOf[versions[run[r].ver].model]}
      BY <1>2, <1>5, <2>2 DEF StartedInName, Held, Commit
    <3> QED BY <1>4, <1>5, <3>1
  <2> QED BY <2>1, <2>2
<1>6. ASSUME NEW v, Promote(v), Served(versions, versions', v) PROVE good
  <2>1. ~Crosses(versions, v)
    BY <1>6 DEF Promote
  <2> QED BY <1>4, <1>6, <2>1 DEF Crosses
<1>7. ASSUME versions' = versions PROVE good
  <2>1. ServingNames(versions') = ServingNames(versions)
    BY <1>7
  <2> QED BY <2>1
<1> HIDE DEF good
<1>8. good
  BY <1>3, <1>5, <1>6, <1>7, Table
<1> QED BY <1>2, <1>8 DEF good

(* Every step keeps the corpus under one name.                             *)
LEMMA NamesKept ==
  ASSUME CorpusTypeOK, HoldsBuilding, StartedInName, OneName, CorpusNext
  PROVE  StartedInName' /\ OneName'
<1>1. versions \in Seq(Versions) /\ versions' \in Seq(Versions)
  BY TypesKept DEF CorpusTypeOK
<1>2. ~crossed => Alone(versions)
  BY <1>1, AtMostOne DEF OneName
<1>3. ASSUME ~crossed' PROVE Alone(versions')
  BY <1>2, <1>3, NamesMove DEF Alone
<1>4. OneName'
  BY <1>1, <1>3, AtMostOne DEF OneName
<1>5. ASSUME ~crossed', NEW r \in Runners, Held(r)', ~versions'[run'[r].ver].blank
      PROVE  ServingNames(versions') = {NameOf[versions'[run'[r].ver].model]}
  <2>1. CASE Held(r)
    <3> DEFINE n == NameOf[versions[run[r].ver].model]
    <3>1. /\ run'[r].ver = run[r].ver
          /\ versions'[run[r].ver].model = versions[run[r].ver].model
          /\ versions'[run[r].ver].blank = versions[run[r].ver].blank
      BY <1>5, <2>1, HeldRows
    <3>2. ServingNames(versions) = {n}
      BY <1>5, <2>1, <3>1, NamesMove DEF StartedInName
    <3>3. ServingNames(versions') = {n}
      BY <1>5, <3>2, NamesMove
    <3> QED BY <3>1, <3>3
  <2>2. CASE ~Held(r)
    <3> DEFINE m == run[r].want
               v == run'[r].ver
    <3>1. /\ Behind(versions, versions', v)
          /\ ActiveCorpus(versions) \in {NoModel} \cup {k \in Models : NameOf[k] = NameOf[m]}
          /\ versions'[v] =
               [src |-> run[r].src, model |-> m, space |-> NameOf[m],
                blank |-> ActiveCorpus(versions) = NoModel, status |-> "building", at |-> 0]
      BY <1>5, <2>2, NewlyHeld
    <3>2. ActiveCorpus(versions) # NoModel /\ NameOf[ActiveCorpus(versions)] = NameOf[m]
      <4>1. versions'[v].blank = (ActiveCorpus(versions) = NoModel)
        BY <3>1
      <4>2. ActiveCorpus(versions) # NoModel
        BY <1>5, <4>1, Zenon
      <4> QED BY <3>1, <4>2
    <3>3. NameOf[m] \in ServingNames(versions)
      <4>1. Serving(versions) # {} /\ LastIngest(versions) \in Serving(versions)
        BY <1>1, <3>2, ActiveServed
      <4> QED BY <3>2, <4>1 DEF ActiveCorpus, ServingNames
    <3>4. ServingNames(versions) = {NameOf[m]}
      BY <1>2, <1>5, <3>3, NamesMove DEF Alone
    <3>5. ServingNames(versions') = {NameOf[m]}
      BY <1>1, <3>1, <3>4, BehindServes
    <3> QED BY <3>1, <3>5
  <2> QED BY <2>1, <2>2
<1> QED BY <1>4, <1>5 DEF StartedInName

-----------------------------------------------------------------------------
(* The label, the proxy and the search.                                    *)

(* A version keeps its model, and once it has been served its space too.   *)
LEMMA RowsMove ==
  ASSUME CorpusTypeOK, HoldsBuilding, CorpusNext, NEW v \in DOMAIN versions
  PROVE  /\ v \in DOMAIN versions' /\ versions'[v].model = versions[v].model
         /\ \/ versions'[v].space = versions[v].space
            \/ versions[v].status = "building"
               /\ versions'[v].space \in {NameOf[versions[v].model], proxy}
         /\ versions[v].status \in {"active", "inactive"} =>
              versions'[v].status \in {"active", "inactive"}
<1> DEFINE good == /\ v \in DOMAIN versions' /\ versions'[v].model = versions[v].model
                   /\ \/ versions'[v].space = versions[v].space
                      \/ versions[v].status = "building"
                         /\ versions'[v].space \in {NameOf[versions[v].model], proxy}
                   /\ versions[v].status \in {"active", "inactive"} =>
                        versions'[v].status \in {"active", "inactive"}
<1>1. versions[v] \in Versions
  BY Rowed
<1>2. ASSUME NEW w, Behind(versions, versions', w), w # v PROVE good
  BY <1>2 DEF Behind
<1>3. ASSUME NEW r \in Runners, Upload(r), v = run[r].ver PROVE good
  <2>1. /\ Behind(versions, versions', v) /\ versions[v].status = "building"
        /\ versions'[v] = [versions[v] EXCEPT !.space = Space(r, run[r].want)]
    BY <1>3, UploadTable
  <2>2. versions'[v].model = versions[v].model /\ versions'[v].space = Space(r, run[r].want)
    BY <1>1, <2>1 DEF Versions
  <2>3. run[r].want = versions[v].model
    BY <1>3 DEF HoldsBuilding, Held, Upload
  <2> QED BY <2>1, <2>2, <2>3 DEF Behind, Space
<1>4. ASSUME NEW r \in Runners, GiveUp(r), v = run[r].ver PROVE good
  <2>1. v # 0
    BY Rowed
  <2>2. /\ Behind(versions, versions', v) /\ versions[v].status = "building"
        /\ versions'[v] = [versions[v] EXCEPT !.status = "aborted"]
    BY <1>4, <2>1, GiveUpTable
  <2>3. versions'[v].model = versions[v].model /\ versions'[v].space = versions[v].space
    BY <1>1, <2>2 DEF Versions
  <2> QED BY <2>2, <2>3 DEF Behind
<1>5. ASSUME NEW w, Served(versions, versions', w) PROVE good
  BY <1>5 DEF Served
<1>6. ASSUME versions' = versions PROVE good
  BY <1>6
<1> HIDE DEF good
<1>7. good
  <2>1. Len(versions) + 1 \notin DOMAIN versions => Len(versions) + 1 # v
    OBVIOUS
  <2> QED BY <1>2, <1>3, <1>4, <1>5, <1>6, <2>1, Table
<1> QED BY <1>7 DEF good

(* A new one is in its model's space.                                      *)
LEMMA NewRows ==
  ASSUME CorpusTypeOK, HoldsBuilding, CorpusNext, NEW v \in DOMAIN versions', v \notin DOMAIN versions
  PROVE  versions'[v].space = NameOf[versions'[v].model]
<1>1. ASSUME NEW r \in Runners, Start(r) PROVE versions'[v].space = NameOf[versions'[v].model]
  <2>1. versions' # versions
    OBVIOUS
  <2>2. /\ Behind(versions, versions', Len(versions) + 1)
        /\ versions'[Len(versions) + 1] =
             [src |-> run[r].src, model |-> run[r].want, space |-> NameOf[run[r].want],
              blank |-> ActiveCorpus(versions) = NoModel, status |-> "building", at |-> 0]
    BY <1>1, <2>1, StartTable
  <2>3. v = Len(versions) + 1
    BY <2>2 DEF Behind
  <2> QED BY <2>2, <2>3
<1>2. ASSUME NEW w \in DOMAIN versions PROVE ~Behind(versions, versions', w) /\ ~Served(versions, versions', w)
  BY <1>2 DEF Behind, Served
<1>3. \A w : ~Served(versions, versions', w)
  BY <1>2 DEF Served
<1> QED BY <1>1, <1>2, <1>3, Table

(* Without a drift the proxy keeps its model.                              *)
LEMMA ProxyStays ==
  ASSUME CorpusTypeOK, OneProxy, CorpusNext, ~drifted'
  PROVE  ~drifted /\ proxy' = proxy
<1>1. ~drifted
  BY DEF CorpusNext, RunSteps, RunFaults, ChooseAny, Choose, Start, Upload, GiveUp, Commit, Reread, Swap,
         RereadFails, Dropped, DriveSteps, NextSource, StopBetween, Migrated, Aborted, ListSome, List,
         Boot, Promote, Search, FetchModel, EmbedQuery, Check, VectorHalf, TextHalf, Answer, history
<1>2. NameOf[Active(versions)] = proxy
  <2>1. CASE Serving(versions) = {}
    BY <1>1, <2>1 DEF OneProxy, Active
  <2>2. CASE Serving(versions) # {}
    <3>1. LastIngest(versions) \in Serving(versions)
      BY <2>2, ActiveServed DEF CorpusTypeOK
    <3>2. NameOf[Active(versions)] \in ServingNames(versions)
      BY <2>2, <3>1 DEF Active, ServingNames
    <3> QED BY <1>1, <3>2 DEF OneProxy
  <2> QED BY <2>1, <2>2
<1>3. proxy' = proxy \/ Boot
  BY DEF CorpusNext, RunSteps, RunFaults, ChooseAny, Choose, Start, Upload, GiveUp, Commit, Reread, Swap,
         RereadFails, Dropped, DriveSteps, NextSource, StopBetween, Migrated, Aborted, ListSome, List,
         Promote, Search, FetchModel, EmbedQuery, Check, VectorHalf, TextHalf, Answer
<1> QED BY <1>1, <1>2, <1>3 DEF Boot

\* What a step does to the search.
Keeps  == ask' = ask
Leaves == ask'.pc \in {"idle", "labelled"}
Embeds == /\ ask'.pc = "embedded" /\ ask'.wire = ask.wire
          /\ ask'.space \in {NameOf[ask.wire], proxy}
Passes == /\ ask.pc = "embedded" /\ ask'.pc = "checked"
          /\ ask'.wire = ask.wire /\ ask'.space = ask.space /\ ask'.snap = ask.wire
Finds  == /\ ask.pc \in {"checked", "ranked"} /\ ask'.pc \in {"ranked", "found"}
          /\ ask'.wire = ask.wire /\ ask'.space = ask.space /\ ask'.snap = ask.snap
          /\ \/ ask'.hits = OnModel(ask.snap)
             \/ ask.pc = "ranked" /\ ask'.hits = ask.hits \cup OnModel(ask.snap)
          /\ versions' = versions /\ drifted' = drifted /\ proxy' = proxy

(* Every step does one of these to it.                                     *)
LEMMA AskMoves ==
  ASSUME CorpusTypeOK, CorpusNext
  PROVE  Keeps \/ Leaves \/ Embeds \/ Passes \/ Finds
<1>1. ask \in Asks
  BY DEF CorpusTypeOK
<1>2. CASE FetchModel
  BY <1>1, <1>2 DEF FetchModel, Leaves, Asks
<1>3. CASE EmbedQuery
  <2>1. Space(Client, ask.wire) \in {NameOf[ask.wire], proxy}
    BY DEF Space
  <2> QED BY <1>1, <1>3, <2>1 DEF EmbedQuery, Embeds, Asks
<1>4. CASE Check
  BY <1>1, <1>4 DEF Check, Passes, Leaves, Asks, Silent
<1>5. CASE VectorHalf
  <2>1. PICK H : H = OnModel(ask.snap)
    OBVIOUS
  <2>2. LET x == [ask EXCEPT !.pc = "ranked", !.hits = H]
        IN  x.pc = "ranked" /\ x.hits = H /\ x.wire = ask.wire /\ x.space = ask.space /\ x.snap = ask.snap
    BY <1>1 DEF Asks
  <2> QED BY <1>5, <2>1, <2>2 DEF VectorHalf, Finds, history
<1>6. CASE TextHalf
  <2>1. PICK H : H = OnModel(ask.snap)
    OBVIOUS
  <2>2. LET x == [ask EXCEPT !.pc = "found", !.hits = @ \cup H]
        IN  x.pc = "found" /\ x.hits = ask.hits \cup H /\ x.wire = ask.wire /\ x.space = ask.space
            /\ x.snap = ask.snap
    BY <1>1 DEF Asks
  <2> QED BY <1>6, <2>1, <2>2 DEF TextHalf, Finds, history
<1>7. CASE Answer \/ Boot
  BY <1>7 DEF Answer, Boot, Silent, Keeps, Leaves
<1> QED
  BY <1>2, <1>3, <1>4, <1>5, <1>6, <1>7
     DEF CorpusNext, RunSteps, RunFaults, ChooseAny, Choose, Start, Upload, GiveUp, Commit, Reread, Swap,
         RereadFails, Dropped, DriveSteps, NextSource, StopBetween, Migrated, Aborted, ListSome, List,
         Promote, Search, Keeps

(* Every step keeps the proxy's model the one served.                      *)
LEMMA ProxyKept ==
  ASSUME CorpusTypeOK, HoldsBuilding, OneProxy, CorpusNext
  PROVE  OneProxy'
<1> SUFFICES ASSUME ~drifted'
             PROVE  /\ ServingNames(versions') \subseteq {proxy'}
                    /\ Serving(versions') = {} => proxy' = NameOf[Newest]
                    /\ \A v \in DOMAIN versions' :
                         versions'[v].space \in {NameOf[versions'[v].model], proxy'}
                    /\ ask'.pc \in {"embedded", "checked", "ranked", "found"} =>
                         ask'.space \in {NameOf[ask'.wire], proxy'}
  BY DEF OneProxy
<1>1. ~drifted /\ proxy' = proxy
  BY ProxyStays
<1>2. versions \in Seq(Versions)
  BY DEF CorpusTypeOK
<1>3. /\ ServingNames(versions) \subseteq {proxy} /\ (Serving(versions) = {} => proxy = NameOf[Newest])
      /\ \A v \in DOMAIN versions : versions[v].space \in {NameOf[versions[v].model], proxy}
      /\ ask.pc \in {"embedded", "checked", "ranked", "found"} => ask.space \in {NameOf[ask.wire], proxy}
  BY <1>1 DEF OneProxy
<1> DEFINE good == /\ ServingNames(versions') \subseteq {proxy}
                   /\ Serving(versions') = {} => proxy = NameOf[Newest]
<1>4. ASSUME NEW v, Behind(versions, versions', v) PROVE good
  BY <1>2, <1>3, <1>4, BehindServes
<1>5. ASSUME NEW v, Served(versions, versions', v), drifted' = (drifted \/ Drifts(versions', proxy)) PROVE good
  <2>1. Serving(versions') # {}
    BY <1>2, <1>5, ServedServes
  <2>2. ServingNames(versions') \subseteq {proxy}
    BY <1>5 DEF Drifts
  <2> QED BY <2>1, <2>2
<1>6. ASSUME versions' = versions PROVE good
  BY <1>3, <1>6
<1> HIDE DEF good
<1>7. good
  BY <1>4, <1>5, <1>6, Table DEF Commit, Promote
<1>8. ASSUME NEW v \in DOMAIN versions' PROVE versions'[v].space \in {NameOf[versions'[v].model], proxy}
  <2>1. CASE v \in DOMAIN versions
    BY <1>3, <2>1, RowsMove
  <2>2. CASE v \notin DOMAIN versions
    BY <1>8, <2>2, NewRows
  <2> QED BY <2>1, <2>2
<1>9. ask'.pc \in {"embedded", "checked", "ranked", "found"} => ask'.space \in {NameOf[ask'.wire], proxy}
  BY <1>3, AskMoves DEF Keeps, Leaves, Embeds, Passes, Finds
<1> QED BY <1>1, <1>7, <1>8, <1>9 DEF good

(* Every step keeps what a search has found.                               *)
LEMMA SearchKept ==
  ASSUME CorpusTypeOK, HoldsBuilding, OneProxy, HitsServed, SameSpace, CorpusNext
  PROVE  HitsServed' /\ SameSpace'
<1> DEFINE open == ask.pc \in {"ranked", "found"}
           fine(v) == /\ v \in DOMAIN versions' /\ versions'[v].status \in {"active", "inactive"}
                      /\ versions'[v].model = ask'.wire
                      /\ drifted' \/ versions'[v].space = ask'.space
<1>1. ask'.pc \in {"checked", "ranked", "found"} => ask'.snap = ask'.wire
  BY AskMoves DEF HitsServed, Keeps, Leaves, Embeds, Passes, Finds
<1>2. drifted' \/ ~drifted
  BY DEF CorpusNext, RunSteps, RunFaults, ChooseAny, Choose, Start, Upload, GiveUp, Commit, Reread, Swap,
         RereadFails, Dropped, DriveSteps, NextSource, StopBetween, Migrated, Aborted, ListSome, List,
         Boot, Promote, Search, FetchModel, EmbedQuery, Check, VectorHalf, TextHalf, Answer, history
<1>3. ASSUME NEW v \in ask.hits, open, ask'.wire = ask.wire, ask'.space = ask.space PROVE fine(v)
  <2>1. /\ v \in DOMAIN versions /\ versions[v].status \in {"active", "inactive"}
        /\ versions[v].model = ask.wire /\ (drifted \/ versions[v].space = ask.space)
    BY <1>3 DEF HitsServed, SameSpace
  <2> QED BY <1>2, <1>3, <2>1, RowsMove
<1>4. ASSUME NEW v \in OnModel(ask.snap), Finds PROVE fine(v)
  <2>1. v \in DOMAIN versions /\ versions[v].status = "active" /\ versions[v].model = ask.wire
    BY <1>4 DEF OnModel, Serving, HitsServed, Finds
  <2>2. ~drifted => versions[v].space = ask.space
    <3>1. NameOf[versions[v].model] \in ServingNames(versions)
      BY <2>1 DEF ServingNames, Serving
    <3>2. ~drifted => /\ NameOf[ask.wire] = proxy
                      /\ versions[v].space \in {NameOf[ask.wire], proxy}
                      /\ ask.space \in {NameOf[ask.wire], proxy}
      BY <1>4, <2>1, <3>1 DEF OneProxy, Finds
    <3> QED BY <3>2
  <2> QED BY <1>4, <2>1, <2>2 DEF Finds
<1>5. ASSUME ask'.pc \in {"ranked", "found"}, NEW v \in ask'.hits PROVE fine(v)
  BY <1>3, <1>4, <1>5, AskMoves DEF Keeps, Leaves, Embeds, Passes, Finds
<1> QED BY <1>1, <1>5 DEF HitsServed, SameSpace

(* Every step keeps the label, or has an excuse for it.                    *)
LEMMA LabelKept ==
  ASSUME CorpusTypeOK, HoldsBuilding, LabelSettles, CorpusNext
  PROVE  LabelSettles'
<1> SUFFICES ASSUME \A r \in Runners : run'[r].pc \notin {"committed", "reread"}
             PROVE  excused' \/ label' = Active(versions')
  BY DEF LabelSettles
<1>1. versions \in Seq(Versions)
  BY DEF CorpusTypeOK
<1>2. ASSUME NEW r \in Runners, Swap(r) \/ RereadFails(r) \/ Dropped(r) PROVE excused' \/ label' = Active(versions')
  BY <1>2 DEF Swap, RereadFails, Dropped
<1>3. CASE Boot
  BY <1>3 DEF Boot
<1>4. ASSUME NEW v, Promote(v) PROVE excused' \/ label' = Active(versions')
  BY <1>4 DEF Promote
<1>5. ASSUME NEW r \in Runners, Commit(r) \/ Reread(r) PROVE FALSE
  <2>1. run'[r].pc \in {"committed", "reread"}
    BY <1>5 DEF Commit, Reread, To, CorpusTypeOK, Runs
  <2> QED BY <2>1
<1>6. CASE /\ ~Boot /\ \A r \in Runners : ~(Swap(r) \/ RereadFails(r) \/ Dropped(r) \/ Commit(r) \/ Reread(r))
           /\ \A v : ~Promote(v)
  <2>1. \A r \in Runners : run[r].pc \notin {"committed", "reread"}
    BY <1>6, Moves DEF Rests, Resets, Settles, Begins, Fills, Ends, Looks, Start, Upload
  <2>2. excused \/ label = Active(versions)
    BY <2>1 DEF LabelSettles
  <2>3. Active(versions') = Active(versions)
    BY <1>1, <1>6, Table, BehindServes
  <2>4. label' = label /\ excused' = excused
    BY <1>6
       DEF CorpusNext, RunSteps, RunFaults, ChooseAny, Choose, Start, Upload, GiveUp, DriveSteps, NextSource,
           StopBetween, Migrated, Aborted, ListSome, List, Search, FetchModel, EmbedQuery, Check,
           VectorHalf, TextHalf, Answer, history
  <2> QED BY <2>2, <2>3, <2>4
<1> QED BY <1>2, <1>3, <1>4, <1>5, <1>6

-----------------------------------------------------------------------------
(* The invariant.                                                          *)

(* It holds of every corpus the system may start with.                     *)
LEMMA Begun ==
  ASSUME CorpusInit
  PROVE  CorpusInv
<1>1. /\ versions \in Seq(Versions)
      /\ \A v \in DOMAIN versions :
           versions[v].status \in {"active", "inactive"} /\ versions[v].space = NameOf[versions[v].model]
  BY CorporaAssumption DEF CorpusInit
<1>2. Active(versions) \in Models /\ NameOf[Active(versions)] \in Names /\ NameOf[Newest] \in Names
  BY <1>1, ActiveServed, Idling DEF Names
<1>9. crossed \in BOOLEAN /\ (~crossed => Cardinality(ServingNames(versions)) <= 1)
  BY Zenon DEF CorpusInit
<1>3. CorpusTypeOK
  <2>1. run \in [Runners -> Runs] /\ \A r \in Runners : run[r] = Idle
    <3>1. Idle \in Runs
      BY Idling DEF Idle, Runs
    <3> QED BY <3>1 DEF CorpusInit
  <2>2. drive \in Drives /\ drive.pc = "off"
    BY EmptySeq, Idling DEF CorpusInit, Parked, Drives
  <2>3. ask \in Asks
    BY <1>2, Idling DEF CorpusInit, Silent, Asks
  <2>4. switches \in 0..MaxSwitches /\ faults \in 0..MaxFaults
    BY CorpusAssumption DEF CorpusInit
  <2>5. drifted \in BOOLEAN /\ excused \in BOOLEAN
    BY Zenon DEF CorpusInit, Drifts
  <2>6. \A r \in Runners : run[r].pc # "reread"
    BY <2>1 DEF Idle
  <2>7. label \in Models /\ proxy \in Names
    BY <1>2 DEF CorpusInit
  <2> QED BY <1>1, <1>9, <2>1, <2>2, <2>3, <2>4, <2>5, <2>6, <2>7 DEF CorpusTypeOK
<1>4. /\ \A r \in Runners : run[r].pc = "idle" /\ run[r].ver = 0
      /\ ask.pc = "idle" /\ Migrator \in Runners
  BY CorpusAssumption DEF CorpusInit, Idle, Silent
<1>5. HoldsBuilding /\ StartedInName /\ HitsServed /\ SameSpace
  BY <1>4 DEF HoldsBuilding, StartedInName, HitsServed, SameSpace, Held
<1>6. OneProxy
  BY <1>1, <1>4 DEF CorpusInit, OneProxy, Drifts, Active
<1>7. OneName
  BY <1>9 DEF OneName
<1>8. LabelSettles
  BY DEF CorpusInit, LabelSettles
<1> QED BY <1>3, <1>5, <1>6, <1>7, <1>8 DEF CorpusInv

(* The runs hold versions of their own, still building and in the corpus's *)
(* one name; the proxy embeds with the model that is served; what a search *)
(* has found was served under its label.                                   *)
THEOREM CorpusInvariant == CorpusSpec => []CorpusInv
<1>1. ASSUME CorpusInv, [CorpusNext]_corpusVars PROVE CorpusInv'
  <2>1. CASE CorpusNext
    BY <1>1, <2>1, TypesKept, HoldsKept, NamesKept, ProxyKept, SearchKept, LabelKept DEF CorpusInv
  <2>2. CASE UNCHANGED corpusVars
    <3>1. CorpusTypeOK'
      BY <1>1, <2>2 DEF CorpusInv, corpusVars, CorpusTypeOK
    <3>2. HoldsBuilding' /\ StartedInName' /\ OneName'
      BY <1>1, <2>2 DEF CorpusInv, corpusVars, HoldsBuilding, Held, StartedInName, OneName
    <3>3. OneProxy' /\ HitsServed' /\ SameSpace'
      BY <1>1, <2>2 DEF CorpusInv, corpusVars, OneProxy, HitsServed, SameSpace
    <3>4. LabelSettles'
      BY <1>1, <2>2 DEF CorpusInv, corpusVars, LabelSettles
    <3> QED BY <3>1, <3>2, <3>3, <3>4 DEF CorpusInv
  <2> QED BY <1>1, <2>1, <2>2
<1> QED BY <1>1, Begun, PTL DEF CorpusSpec

(* A search compares its query with chunks of the model it was labelled    *)
(* with only, and, while the proxy's model is the one served, with chunks  *)
(* the same model has embedded.                                            *)
THEOREM SearchesAlike == CorpusSpec => []SameSpace
<1>1. CorpusInv => SameSpace
  BY DEF CorpusInv
<1> QED BY <1>1, CorpusInvariant, PTL

(* The active corpus is under one model name, unless a run that found it   *)
(* empty, or a rollback, has brought another.                              *)
THEOREM NamedAlike == CorpusSpec => []OneName
<1>1. CorpusInv => OneName
  BY DEF CorpusInv
<1> QED BY <1>1, CorpusInvariant, PTL

(* Between two finalizes the label is the active model, unless a rollback, *)
(* a refresh that failed or one that was overtaken has left it behind.     *)
THEOREM LabelFollows == CorpusSpec => []LabelSettles
<1>1. CorpusInv => LabelSettles
  BY DEF CorpusInv
<1> QED BY <1>1, CorpusInvariant, PTL

=============================================================================
