---------------------------- MODULE TokenLimiter ----------------------------
(***************************************************************************)
(* The embedding-token limiter of midnight-manual-server: rolling hourly   *)
(* and daily ceilings per subject, a site-wide cap, reservations for the   *)
(* requests in flight, the periodic snapshot of the hour buckets and the   *)
(* restart that loads it; with the POST /v1/embeddings handler that        *)
(* reserves, calls Voyage and settles or releases.                         *)
(*                                                                         *)
(* Every method of the limiter holds the usage mutex from its first to its *)
(* last access (the global mutex is only taken inside it), so a method is  *)
(* one action.  What is not atomic is the handler: it reads the clock      *)
(* once, before reserve, and passes that instant to settle after the call; *)
(* and snapshot_to_db, which copies under the lock and writes without it.  *)
(* A missing bucket and an empty one are the same to every sum, and so are *)
(* a missing subject and one with nothing in it, so both are zeros here.   *)
(* A request that is not subject to the cap (the admin bypass, or a cap    *)
(* disabled by configuration) has bypass = TRUE.                           *)
(***************************************************************************)
EXTENDS Integers, FiniteSets, Functions

CONSTANTS
  Subjects,        \* client addresses and user ids
  Requests,        \* slots for concurrent requests to /v1/embeddings
  NoCall,          \* an empty slot
  LimitPairs,      \* effective [hourly, daily] ceilings (tier or override)
  Amounts,         \* token counts, estimated or actual
  Bypasses,        \* whether requests skip the cap: FALSE, TRUE or either
  GlobalLimit,     \* global_limit
  SecsPerMinute,   \* 60
  SecsPerHour,     \* 3600
  HourlyMinutes,   \* minute buckets in the hourly window: 60
  DailyHours,      \* hour buckets in the daily window: 24
  GlobalMinutes,   \* global_window_min
  IdleSecs,        \* 86400: a subject idle for longer is evicted
  SnapshotHours,   \* 25: older snapshot rows are deleted
  Ttl,             \* RESERVATION_TTL_SECS
  CallTimeout,     \* longest time between a request's clock and its answer
  MaxClock,        \* bound: last instant
  MaxCrashes       \* bound: crashes of the server

ASSUME ClockAssumption ==
  /\ SecsPerMinute \in Nat \ {0}
  /\ SecsPerHour \in Nat \ {0}
  /\ HourlyMinutes \in Nat /\ DailyHours \in Nat /\ GlobalMinutes \in Nat
  /\ IdleSecs \in Nat /\ SnapshotHours \in Nat /\ Ttl \in Nat /\ CallTimeout \in Nat
  /\ MaxClock \in Nat /\ MaxCrashes \in Nat

ASSUME AmountAssumption ==
  /\ IsFiniteSet(Requests)
  /\ Amounts \subseteq Nat /\ GlobalLimit \in Nat
  /\ LimitPairs \subseteq [hourly : Nat, daily : Nat]
  /\ Bypasses \subseteq BOOLEAN

ASSUME NoCallAssumption ==
  NoCall \notin [subject : Subjects, limits : LimitPairs, bypass : Bypasses,
                 now : 0..MaxClock, tokens : Amounts]

VARIABLES
  clock,           \* the server's clock, in seconds
  serving,         \* FALSE between a crash and the end of the boot sequence
  crashes,
  minutes,         \* SubjectUsage.minutes
  hours,           \* SubjectUsage.hours
  reserved,        \* SubjectUsage.reservations: the requests they belong to
  lastSeen,        \* SubjectUsage.last_seen_secs
  globalMinutes,   \* GlobalUsage.minutes
  globalReserved,  \* GlobalUsage.reservations
  stage,           \* where each request's handler is
  call,            \* its subject, limits, bypass, now and token count
  db,              \* token_usage_snapshot
  snap,            \* the snapshot job
  lossy,           \* history: this process failed to load the snapshot
  consumed         \* history: tokens Voyage reported, by subject and hour

subjectUsage == <<minutes, hours, reserved, lastSeen>>
globalUsage  == <<globalMinutes, globalReserved>>
requests     == <<stage, call>>
process      == <<serving, crashes, lossy>>
vars == <<clock, process, subjectUsage, globalUsage, requests, db, snap, consumed>>

MinuteOf(t) == t \div SecsPerMinute
HourOf(t)   == t \div SecsPerHour
Instants    == 0..MaxClock
Buckets     == 0..MaxClock    \* enough minutes and hours for every instant

Calls  == [subject : Subjects, limits : LimitPairs, bypass : Bypasses,
           now : Instants, tokens : Amounts]
Rows   == [subject : Subjects, hour : Buckets, tokens : Nat]
NoSnap == [phase |-> "idle", now |-> 0, rows |-> {}, evict |-> {}]
Empty  == [s \in Subjects |-> [b \in Buckets |-> 0]]

TypeOK ==
  /\ clock \in Instants
  /\ serving \in BOOLEAN /\ lossy \in BOOLEAN
  /\ crashes \in 0..MaxCrashes
  /\ minutes \in [Subjects -> [Buckets -> Nat]]
  /\ hours \in [Subjects -> [Buckets -> Nat]]
  /\ reserved \in [Subjects -> SUBSET Requests]
  /\ lastSeen \in [Subjects -> Instants]
  /\ globalMinutes \in [Buckets -> Nat]
  /\ globalReserved \in SUBSET Requests
  /\ stage \in [Requests -> {"idle", "arrived", "calling", "settled", "dropped"}]
  /\ call \in [Requests -> Calls \cup {NoCall}]
  /\ \A r \in Requests : call[r] = NoCall <=> stage[r] = "idle"
  /\ db \in [Subjects -> [Buckets -> Nat]]
  /\ snap \in [phase : {"idle", "writing", "evicting"}, now : Instants,
               rows : SUBSET Rows, evict : SUBSET Subjects]
  /\ consumed \in [Subjects -> [Buckets -> Nat]]

Init ==
  /\ clock = 0
  /\ serving = TRUE /\ crashes = 0 /\ lossy = FALSE
  /\ minutes = Empty /\ hours = Empty
  /\ reserved = [s \in Subjects |-> {}]
  /\ lastSeen = [s \in Subjects |-> 0]
  /\ globalMinutes = [b \in Buckets |-> 0] /\ globalReserved = {}
  /\ stage = [r \in Requests |-> "idle"]
  /\ call = [r \in Requests |-> NoCall]
  /\ db = Empty /\ snap = NoSnap /\ consumed = Empty

-----------------------------------------------------------------------------
(* Windows and sums.                                                       *)

LiveMinute(m, now) == m >= MinuteOf(now) - (HourlyMinutes - 1)
LiveHour(h, now)   == h >= HourOf(now) - (DailyHours - 1)
LiveGlobal(m, now) == m >= MinuteOf(now) - (GlobalMinutes - 1)

\* Mutant, not part of the specification: a prune that never drops a reservation.
UnexpiredForever(rs, now) == rs
\* Mutant, not part of the specification: a prune one second too eager.
UnexpiredStrict(rs, now) == {q \in rs : call[q].now > now - Ttl}

\* The reservations among rs that a prune at instant now retains.
Unexpired(rs, now) == {q \in rs : call[q].now >= now - Ttl}

Tokens(rs)       == SumFunctionOnSet([q \in rs |-> call[q].tokens], rs)
HourUsed(s, now) == SumFunctionOnSet(minutes[s], {m \in Buckets : LiveMinute(m, now)})
DayUsed(s, now)  == SumFunctionOnSet(hours[s], {h \in Buckets : LiveHour(h, now)})
GlobalUsed(now)  == SumFunctionOnSet(globalMinutes, {m \in Buckets : LiveGlobal(m, now)})

\* Mutant, not part of the specification: a prune one minute too eager.
PruneMinutesEarly(usage, now) ==
  [m \in Buckets |-> IF m > MinuteOf(now) - (HourlyMinutes - 1) THEN usage[m] ELSE 0]

PruneMinutes(usage, now) == [m \in Buckets |-> IF LiveMinute(m, now) THEN usage[m] ELSE 0]
PruneHours(usage, now)   == [h \in Buckets |-> IF LiveHour(h, now) THEN usage[h] ELSE 0]
PruneGlobal(now) == [m \in Buckets |-> IF LiveGlobal(m, now) THEN globalMinutes[m] ELSE 0]
Charge(usage, b, n)      == [usage EXCEPT ![b] = @ + n]

\* SubjectUsage::prune on the buckets of s.
PruneBuckets(s, now) ==
  /\ minutes' = [minutes EXCEPT ![s] = PruneMinutes(@, now)]
  /\ hours' = [hours EXCEPT ![s] = PruneHours(@, now)]

-----------------------------------------------------------------------------
(* The handler of POST /v1/embeddings.                                     *)

\* The handler resolves the subject and its limits, reads the clock and
\* estimates the tokens; reserve comes after, with that reading of the clock.
Arrive(r) ==
  /\ serving
  /\ stage[r] = "idle"
  /\ \E c \in Calls : c.now = clock /\ call' = [call EXCEPT ![r] = c]
  /\ stage' = [stage EXCEPT ![r] = "arrived"]
  /\ UNCHANGED <<clock, process, subjectUsage, globalUsage, db, snap, consumed>>

\* Mutant, not part of the specification: check instead of reserve.
FitsSettledOnly(c) ==
  /\ HourUsed(c.subject, c.now) + c.tokens <= c.limits.hourly
  /\ DayUsed(c.subject, c.now) + c.tokens <= c.limits.daily

FitsSubject(c) ==
  LET pending == Tokens(Unexpired(reserved[c.subject], c.now))
  IN /\ HourUsed(c.subject, c.now) + pending + c.tokens <= c.limits.hourly
     /\ DayUsed(c.subject, c.now) + pending + c.tokens <= c.limits.daily

FitsGlobal(c) ==
  GlobalUsed(c.now) + Tokens(Unexpired(globalReserved, c.now)) + c.tokens
    <= GlobalLimit

\* reserve, accepting.
Admit(r) ==
  LET c == call[r]
      s == c.subject
  IN /\ stage[r] = "arrived"
     /\ FitsSubject(c)
     /\ PruneBuckets(s, c.now)
     /\ reserved' = [reserved EXCEPT ![s] = Unexpired(@, c.now) \cup {r}]
     /\ lastSeen' = [lastSeen EXCEPT ![s] = c.now]
     /\ \/ c.bypass /\ UNCHANGED globalUsage
        \/ /\ ~c.bypass /\ FitsGlobal(c)
           /\ globalMinutes' = PruneGlobal(c.now)
           /\ globalReserved' = Unexpired(globalReserved, c.now) \cup {r}
     /\ stage' = [stage EXCEPT ![r] = "calling"]
     /\ UNCHANGED <<clock, process, call, db, snap, consumed>>

\* reserve, refusing (429): the prunes done before the failing check remain.
Refuse(r) ==
  LET c == call[r]
      s == c.subject
  IN /\ stage[r] = "arrived"
     /\ PruneBuckets(s, c.now)
     /\ reserved' = [reserved EXCEPT ![s] = Unexpired(@, c.now)]
     /\ \/ ~FitsSubject(c) /\ UNCHANGED globalUsage
        \/ /\ FitsSubject(c) /\ ~c.bypass /\ ~FitsGlobal(c)
           /\ globalMinutes' = PruneGlobal(c.now)
           /\ globalReserved' = Unexpired(globalReserved, c.now)
     /\ stage' = [stage EXCEPT ![r] = "idle"]
     /\ call' = [call EXCEPT ![r] = NoCall]
     /\ UNCHANGED <<clock, process, lastSeen, db, snap, consumed>>

\* Voyage answered: settle with the tokens it reports, at the instant the
\* handler read before reserve.  The global map is not pruned here.
Settle(r) ==
  LET c == call[r]
      s == c.subject
  IN /\ stage[r] = "calling"
     /\ \E n \in Amounts :
          /\ minutes' = [minutes EXCEPT
               ![s] = Charge(PruneMinutes(@, c.now), MinuteOf(c.now), n)]
          /\ hours' = [hours EXCEPT
               ![s] = Charge(PruneHours(@, c.now), HourOf(c.now), n)]
          /\ globalMinutes' = IF c.bypass THEN globalMinutes
                              ELSE Charge(globalMinutes, MinuteOf(c.now), n)
          /\ call' = [call EXCEPT ![r].tokens = n]
          /\ consumed' = [consumed EXCEPT ![s] = Charge(@, HourOf(c.now), n)]
     /\ reserved' = [reserved EXCEPT ![s] = Unexpired(@, c.now) \ {r}]
     /\ globalReserved' = IF c.bypass THEN globalReserved ELSE globalReserved \ {r}
     /\ lastSeen' = [lastSeen EXCEPT ![s] = c.now]
     /\ stage' = [stage EXCEPT ![r] = "settled"]
     /\ UNCHANGED <<clock, process, db, snap>>

\* Voyage failed or timed out, or the embedder of this type is not configured.
Release(r) ==
  LET c == call[r]
  IN /\ stage[r] = "calling"
     /\ reserved' = [reserved EXCEPT ![c.subject] = @ \ {r}]
     /\ globalReserved' = IF c.bypass THEN globalReserved ELSE globalReserved \ {r}
     /\ stage' = [stage EXCEPT ![r] = "idle"]
     /\ call' = [call EXCEPT ![r] = NoCall]
     /\ UNCHANGED <<clock, process, minutes, hours, lastSeen, globalMinutes, db,
                    snap, consumed>>

\* The client hangs up, or the task panics, while Voyage is being awaited: the
\* handler's future is dropped, and neither settle nor release runs.
Drop(r) ==
  /\ stage[r] = "calling"
  /\ stage' = [stage EXCEPT ![r] = "dropped"]
  /\ UNCHANGED <<clock, process, subjectUsage, globalUsage, call, db, snap, consumed>>

\* Time passes, no further than the deadline of a request being handled: the
\* timeout of the provider's client (120 s), which is longer than the TTL of a
\* reservation (60 s), so that a call may outlive its reservation.
Tick ==
  /\ clock < MaxClock
  /\ \A r \in Requests :
       stage[r] \in {"arrived", "calling"} => clock < call[r].now + CallTimeout
  /\ clock' = clock + 1
  /\ UNCHANGED <<process, subjectUsage, globalUsage, requests, db, snap, consumed>>

-----------------------------------------------------------------------------
(* snapshot_to_db, and the restart.                                        *)

SnapCopy ==
  /\ serving
  /\ snap.phase = "idle"
  /\ snap' = [phase |-> "writing", now |-> clock,
              rows  |-> {[subject |-> p[1], hour |-> p[2], tokens |-> hours[p[1]][p[2]]] :
                           p \in {q \in Subjects \X Buckets :
                              LiveHour(q[2], clock) /\ hours[q[1]][q[2]] > 0}},
              evict |-> {s \in Subjects : lastSeen[s] < clock - IdleSecs}]
  /\ UNCHANGED <<clock, process, subjectUsage, globalUsage, requests, db, consumed>>

SnapUpsert ==
  /\ snap.phase = "writing"
  /\ \E row \in snap.rows :
       /\ db' = [db EXCEPT ![row.subject][row.hour] = row.tokens]
       /\ snap' = [snap EXCEPT !.rows = @ \ {row}]
  /\ UNCHANGED <<clock, process, subjectUsage, globalUsage, requests, consumed>>

\* Mutant, not part of the specification: a floor one hour too high.
SnapPruneEarly ==
  /\ snap.phase = "writing"
  /\ snap.rows = {}
  /\ db' = [s \in Subjects |-> [h \in Buckets |->
              IF h <= HourOf(snap.now) - SnapshotHours THEN 0 ELSE db[s][h]]]
  /\ snap' = [snap EXCEPT !.phase = "evicting"]
  /\ UNCHANGED <<clock, process, subjectUsage, globalUsage, requests, consumed>>

SnapPrune ==
  /\ snap.phase = "writing"
  /\ snap.rows = {}
  /\ db' = [s \in Subjects |-> [h \in Buckets |->
              IF h < HourOf(snap.now) - SnapshotHours THEN 0 ELSE db[s][h]]]
  /\ snap' = [snap EXCEPT !.phase = "evicting"]
  /\ UNCHANGED <<clock, process, subjectUsage, globalUsage, requests, consumed>>

\* The re-check under the re-acquired lock, with the idle_before of the copy.
StillIdle == {s \in snap.evict : lastSeen[s] < snap.now - IdleSecs}

SnapEvict ==
  /\ snap.phase = "evicting"
  /\ minutes' = [s \in Subjects |-> IF s \in StillIdle THEN Empty[s] ELSE minutes[s]]
  /\ hours' = [s \in Subjects |-> IF s \in StillIdle THEN Empty[s] ELSE hours[s]]
  /\ reserved' = [s \in Subjects |-> IF s \in StillIdle THEN {} ELSE reserved[s]]
  /\ lastSeen' = [s \in Subjects |-> IF s \in StillIdle THEN 0 ELSE lastSeen[s]]
  /\ snap' = NoSnap
  /\ UNCHANGED <<clock, process, globalUsage, requests, db, consumed>>

\* A statement fails: the tick ends there and the next one starts over.
SnapFail ==
  /\ snap.phase = "writing"
  /\ snap' = NoSnap
  /\ UNCHANGED <<clock, process, subjectUsage, globalUsage, requests, db, consumed>>

Crash ==
  /\ serving
  /\ crashes < MaxCrashes
  /\ serving' = FALSE /\ crashes' = crashes + 1
  /\ minutes' = Empty /\ hours' = Empty
  /\ reserved' = [s \in Subjects |-> {}]
  /\ lastSeen' = [s \in Subjects |-> 0]
  /\ globalMinutes' = [b \in Buckets |-> 0] /\ globalReserved' = {}
  /\ stage' = [r \in Requests |-> "idle"]
  /\ call' = [r \in Requests |-> NoCall]
  /\ snap' = NoSnap
  /\ UNCHANGED <<clock, lossy, db, consumed>>

\* Mutant, not part of the specification: a load into a serving process's memory.
LoadWhileServing ==
  /\ serving' = TRUE /\ lossy' = FALSE
  /\ hours' = [s \in Subjects |-> [h \in Buckets |->
                 hours[s][h] + IF LiveHour(h, clock) THEN db[s][h] ELSE 0]]
  /\ lastSeen' = [s \in Subjects |->
                    IF \E h \in Buckets : LiveHour(h, clock) /\ db[s][h] > 0
                    THEN clock ELSE lastSeen[s]]
  /\ UNCHANGED <<clock, crashes, minutes, reserved, globalUsage, requests, db,
                 snap, consumed>>

\* load_from_db merges the rows of the day window into the (empty) memory.
LoadFromDb ==
  /\ ~serving
  /\ serving' = TRUE /\ lossy' = FALSE
  /\ hours' = [s \in Subjects |-> [h \in Buckets |->
                 hours[s][h] + IF LiveHour(h, clock) THEN db[s][h] ELSE 0]]
  /\ lastSeen' = [s \in Subjects |->
                    IF \E h \in Buckets : LiveHour(h, clock) /\ db[s][h] > 0
                    THEN clock ELSE lastSeen[s]]
  /\ UNCHANGED <<clock, crashes, minutes, reserved, globalUsage, requests, db,
                 snap, consumed>>

\* The load fails; the server logs it and serves with empty memory.
LoadFail ==
  /\ ~serving
  /\ serving' = TRUE /\ lossy' = TRUE
  /\ UNCHANGED <<clock, crashes, subjectUsage, globalUsage, requests, db, snap,
                 consumed>>

Snapshot == SnapCopy \/ SnapUpsert \/ SnapPrune \/ SnapEvict \/ SnapFail
Restart  == Crash \/ LoadFromDb \/ LoadFail

Handle(r) ==
  Arrive(r) \/ Admit(r) \/ Refuse(r) \/ Settle(r) \/ Release(r) \/ Drop(r)
Serve == (\E r \in Requests : Handle(r)) \/ Tick
Next  == Serve \/ Snapshot \/ Restart

Spec      == Init /\ [][Next]_vars

-----------------------------------------------------------------------------
(* Properties, stated on the requests themselves and not on the buckets.   *)

InFlight       == {q \in Requests : stage[q] = "calling"}
\* The requests in flight that have not outlived their reservation.
Timely         == {q \in InFlight : call[q].now >= clock - Ttl}
Settled        == {q \in Requests : stage[q] = "settled"}
Of(s)          == {q \in Requests : call[q] # NoCall /\ call[q].subject = s}
Capped         == {q \in Requests : call[q] # NoCall /\ ~call[q].bypass}
\* Abandoned requests whose reservation is not older than the TTL at now.
Leaked(now)    == {q \in Requests : stage[q] = "dropped" /\ call[q].now >= now - Ttl}
WithinHour(now)   == {q \in Settled : LiveMinute(MinuteOf(call[q].now), now)}
WithinGlobal(now) == {q \in Settled : LiveGlobal(MinuteOf(call[q].now), now)}
\* Settled less than a day ago, the longest call deducted.
WithinDay(now) == {q \in Settled : /\ LiveHour(HourOf(call[q].now), now)
                                   /\ call[q].now >= now - IdleSecs + CallTimeout}

\* r's own tokens, those of every other request that has been in flight for no
\* longer than the TTL and those that the settled requests of the window really
\* took, however late they settled, are within its subject's ceilings and the
\* site-wide cap.  (The windows end at the true clock.)
WithinCeilings(r) ==
  LET c == call[r]
      mine == Of(c.subject)
  IN /\ Tokens((Timely \cup WithinHour(clock)) \cap mine) + c.tokens
          <= c.limits.hourly
     /\ Tokens((Timely \cup WithinDay(clock)) \cap mine) + c.tokens
          <= c.limits.daily
     /\ ~c.bypass =>
          Tokens((Timely \cup WithinGlobal(clock)) \cap Capped) + c.tokens
            <= GlobalLimit

\* What reserve promises: a request is admitted only within the ceilings.  Calls
\* that have outlived their reservation are not in the account until they
\* settle: the ceilings can be overshot by those, and by nothing else.
NoOvershoot ==
  [][\A r \in Requests :
       stage[r] = "arrived" /\ stage'[r] = "calling" => WithinCeilings(r)]_vars

\* What was consumed in the window, what is in flight and the leaks of one TTL
\* leave no room for r.
NoRoom(r) ==
  LET c == call[r]
      mine == Of(c.subject)
      busy == InFlight \cup Leaked(c.now)
  IN \/ Tokens((busy \cup WithinHour(c.now)) \cap mine) + c.tokens
          > c.limits.hourly
     \/ SumFunctionOnSet(consumed[c.subject], {h \in Buckets : LiveHour(h, c.now)})
          + Tokens(busy \cap mine) + c.tokens > c.limits.daily
     \/ /\ ~c.bypass
        /\ Tokens((busy \cup WithinGlobal(c.now)) \cap Capped) + c.tokens
             > GlobalLimit

\* The converse, "never wrongly reject" (load_from_db) and a leaked reservation
\* "can't permanently inflate the in-flight total": every 429 is explained.
RefusalJustified ==
  [][\A r \in Requests :
       stage[r] = "arrived" /\ stage'[r] = "idle" /\ serving' => NoRoom(r)]_vars

\* settle keeps both ledgers exact: in the windows that end now, each minute
\* bucket of a subject and each of the site-wide cap holds what the requests
\* settled in that minute took, whatever older instants were settled late.
LedgersExact ==
  \A m \in Buckets :
    LET then == {q \in Settled : MinuteOf(call[q].now) = m}
    IN /\ LiveMinute(m, clock) =>
            \A s \in Subjects : minutes[s][m] = Tokens(then \cap Of(s))
       /\ LiveGlobal(m, clock) => globalMinutes[m] = Tokens(then \cap Capped)

\* A request in flight is counted against its subject and, unless it bypasses
\* the cap, against the site, until it is settled or released or is older than
\* the TTL: no prune by a request whose clock reading is earlier or later, and no
\* eviction, takes its reservation away before.  Nothing else is counted but
\* requests in flight and abandoned ones.
InFlightReserved ==
  /\ \A r \in Timely : /\ r \in reserved[call[r].subject]
                       /\ ~call[r].bypass => r \in globalReserved
  /\ \A s \in Subjects : \A r \in reserved[s] :
       stage[r] \in {"calling", "dropped"} /\ call[r].subject = s
  /\ \A r \in globalReserved :
       stage[r] \in {"calling", "dropped"} /\ ~call[r].bypass

\* Across snapshots, crashes and loads, no hour is ever charged more than what
\* Voyage reported for it: not in memory, not in the table, not on the way.
NeverOvercharged ==
  /\ \A s \in Subjects, h \in Buckets :
       hours[s][h] <= consumed[s][h] /\ db[s][h] <= consumed[s][h]
  /\ \A row \in snap.rows : row.tokens <= consumed[row.subject][row.hour]

\* A request is answered within CallTimeout of the instant it read, and that
\* instant is not far ahead of its subject's last_seen.
Deadlines ==
  /\ \A r \in Requests : stage[r] \in {"arrived", "calling"} =>
       call[r].now <= clock /\ clock <= call[r].now + CallTimeout
  /\ \A r \in InFlight : lastSeen[call[r].subject] >= call[r].now - CallTimeout
  /\ snap.now <= clock

DownIsEmpty == ~serving => hours = Empty /\ \A r \in Requests : stage[r] = "idle"

\* The inductive invariant behind InFlightReserved and NeverOvercharged: the
\* deadlines are what keeps the eviction away from live reservations.
IInv == TypeOK /\ Deadlines /\ DownIsEmpty /\ InFlightReserved /\ NeverOvercharged

\* The durable count of an hour in the day window never goes down, unless the
\* process that writes it could not load what was there.
DurableMonotone ==
  [][\A s \in Subjects, h \in Buckets :
       LiveHour(h, clock) /\ ~lossy => db'[s][h] >= db[s][h]]_vars

=============================================================================
