---------------------------- MODULE RateLimiter ----------------------------
(***************************************************************************)
(* The request rate limiter: the bearer and rate-limit middleware, the     *)
(* token buckets they share with the search handler, the reaper of idle    *)
(* buckets, and the override cache (Overrides) that may raise or lower a   *)
(* caller's limit at any moment.                                           *)
(*                                                                         *)
(* A charge reads the monotonic clock, then takes the lock: requests on    *)
(* different threads may reach a bucket in the opposite order of their     *)
(* readings.  One tick is 1/TicksPerSecond of a second, and token counts   *)
(* are kept in units of 1/TicksPerSecond of a token, so that the f64       *)
(* arithmetic of the code is exact here.                                   *)
(***************************************************************************)
EXTENDS Overrides, Functions

CONSTANTS
  Requests,        \* requests, each served once, numbered as they arrive
  Callers,         \* what a request may be: [address, user, tier, shape, extra]
  Rps,             \* [{"anonymous", "read_uplift", "admin"} -> the tier's limit]
  TicksPerSecond,
  IdleTicks,       \* a bucket idle this long is reaped
  Ceiling          \* the highest limit any tier or override sets

Tiers == {"anonymous", "read_uplift", "admin"}
Shapes == {"plain", "overcap", "multi"}

ASSUME RateAssumption ==
  /\ Requests \subseteq Nat /\ IsFiniteSet(Requests)
  /\ TicksPerSecond \in Nat \ {0}
  /\ IdleTicks \in Nat /\ IdleTicks >= TicksPerSecond
  /\ Rps \in [Tiers -> Nat]
  /\ Ceiling \in Nat
  /\ \A t \in Tiers : Rps[t] <= Ceiling
  /\ \A l \in Limits.rate : l <= Ceiling
  /\ \A c \in Callers :
       /\ c.address \in Addresses /\ c.tier \in Tiers \cup {"rejected"}
       /\ c.shape \in Shapes /\ c.extra \in Nat

VARIABLES
  bucket,    \* partial function from keys to [tokens, last]
  req,       \* [Requests -> where it is, who calls, what it resolved to, its clock
             \* reading, and the work done for it]
  ledger     \* [keys charged -> [since, late, high]], history

rateVars == <<bucket, req, ledger>>
limiterVars == <<clock, overrideVars, rateVars>>

NoReq == [pc |-> "new", caller |-> None, key |-> None, limit |-> 0, now |-> 0, work |-> 0]

Keys == [space : {"ip"}, name : Addresses]
        \cup [space : {"user"}, name : {c.user : c \in Callers}]
        \cup [space : {"cidr"}, name : {<<s.net, s.prefix>> : s \in Networks}]

Full(limit) == limit * TicksPerSecond

-----------------------------------------------------------------------------
(* resolve: a matching override first, then the tier of the token, then     *)
(* the address.  A rejected token resolves as no token.                     *)
Resolutions(c) ==
  LET best == Best(cache, c.address)
  IN IF best # {}
       THEN {[key |-> [space |-> "cidr", name |-> <<o.net, o.prefix>>], limit |-> o.limit] :
               o \in best}
     ELSE IF c.tier \in {"read_uplift", "admin"}
       THEN {[key |-> [space |-> "user", name |-> c.user], limit |-> Rps[c.tier]]}
     ELSE {[key |-> [space |-> "ip", name |-> c.address], limit |-> Rps["anonymous"]]}

(* TokenBucket::charge, after or_insert_with.                               *)
Elapsed(b, now) == IF now > b.last THEN now - b.last ELSE 0

BucketFor(k, limit, now) ==
  IF k \in DOMAIN bucket THEN bucket[k] ELSE [tokens |-> Full(limit), last |-> now]

Refilled(b, limit, now) ==
  [tokens |-> Min({b.tokens + Elapsed(b, now) * limit, Full(limit)}), last |-> now]

Affords(b, cost) == b.tokens >= cost * TicksPerSecond

Put(k, b) == bucket' = [j \in DOMAIN bucket \cup {k} |-> IF j = k THEN b ELSE bucket[j]]

(* Since when a key is charged, and by how much its charges were behind the *)
(* latest reading that reached it before them.                              *)
Record(k, now) ==
  LET old == IF k \in DOMAIN ledger THEN ledger[k] ELSE [since |-> now, late |-> 0, high |-> now]
      new == [since |-> old.since,
              late |-> old.late + (IF old.high > now THEN old.high - now ELSE 0),
              high |-> IF now > old.high THEN now ELSE old.high]
  IN ledger' = [j \in DOMAIN ledger \cup {k} |-> IF j = k THEN new ELSE ledger[j]]

-----------------------------------------------------------------------------
(* One request.                                                             *)

(* Instant::now, before the lock.                                           *)
At(q, pc) == [q EXCEPT !.pc = pc, !.now = 0]

Done(q, work) ==
  [pc |-> "done", caller |-> None, key |-> IF work = 0 THEN None ELSE q.key,
   limit |-> 0, now |-> 0, work |-> work]

MoveTo(r, q) == req' = [req EXCEPT ![r] = q]

(* The middleware resolves the caller and reads the clock.                  *)
Resolve(r) ==
  /\ req[r].pc = "new"
  /\ \A q \in Requests : q < r => req[q].pc # "new"
  /\ table = "rate" /\ ticker \notin {"boot", "loading"}
  /\ \E c \in Callers : \E v \in Resolutions(c) :
       MoveTo(r, [pc |-> "enter", caller |-> c, key |-> v.key, limit |-> v.limit,
                now |-> clock, work |-> 0])
  /\ UNCHANGED <<bucket, ledger>>

(* The locked part.  Whatever it decides, the bucket is refilled and its    *)
(* stamp is the caller's reading.                                           *)
Charge(r, cost, accepted) ==
  LET q == req[r]
      b == Refilled(BucketFor(q.key, q.limit, q.now), q.limit, q.now)
  IN /\ accepted = Affords(b, cost)
     /\ Put(q.key, IF accepted THEN [b EXCEPT !.tokens = @ - cost * TicksPerSecond] ELSE b)
     /\ Record(q.key, q.now)

(* The middleware's charge: 429, or on to the handler; a rejected token is  *)
(* answered 401 only now.  The handler refuses a search over the cap and    *)
(* owes a token per further distinct query.                                 *)
AfterEntry(q) ==
  IF q.caller.tier = "rejected" THEN [At(q, "closing") EXCEPT !.work = 1]
  ELSE CASE q.caller.shape = "overcap" -> At(q, "refund")
         [] q.caller.shape = "multi" -> At(q, "paying")
         [] OTHER -> [At(q, "closing") EXCEPT !.work = 1]

Enter(r) ==
  /\ req[r].pc = "enter"
  /\ \E accepted \in BOOLEAN :
       /\ Charge(r, 1, accepted)
       /\ MoveTo(r, IF accepted THEN AfterEntry(req[r]) ELSE Done(req[r], 0))

Refund(r) ==
  /\ req[r].pc = "refund"
  /\ LET q == req[r] IN
       IF q.key \in DOMAIN bucket
         THEN bucket' = [bucket EXCEPT ![q.key].tokens = Min({@ + TicksPerSecond, Full(q.limit)})]
         ELSE UNCHANGED bucket
  /\ UNCHANGED ledger
  /\ MoveTo(r, At(req[r], "closing"))

Sample(r) ==
  /\ \/ req[r].pc = "paying"  /\ MoveTo(r, [req[r] EXCEPT !.pc = "pay", !.now = clock])
     \/ req[r].pc = "naming"  /\ MoveTo(r, [req[r] EXCEPT !.pc = "name", !.now = clock])
     \/ req[r].pc = "closing" /\ MoveTo(r, [req[r] EXCEPT !.pc = "close", !.now = clock])
  /\ UNCHANGED <<bucket, ledger>>

(* The premium of a multi-query search; refused, the answer names what is   *)
(* left.                                                                    *)
Pay(r) ==
  /\ req[r].pc = "pay"
  /\ LET q == req[r] IN
       \E accepted \in BOOLEAN :
         /\ Charge(r, q.caller.extra, accepted)
         /\ MoveTo(r, IF accepted THEN [At(q, "closing") EXCEPT !.work = 1 + q.caller.extra]
                                ELSE At(q, "naming"))

(* Both answers' headers are a charge of nothing.                           *)
Name(r) ==
  /\ req[r].pc = "name"
  /\ Charge(r, 0, TRUE)
  /\ MoveTo(r, At(req[r], "closing"))

Close(r) ==
  /\ req[r].pc = "close"
  /\ Charge(r, 0, TRUE)
  /\ MoveTo(r, Done(req[r], req[r].work))

(* The reaper, with a reading that may be behind.                           *)
IdleAlready(b, now) == now >= b.last      \* plausible slip, for the mutants
Idle(b, now) == Elapsed(b, now) >= IdleTicks

Reap ==
  /\ \E now \in 0..clock :
       LET gone == {k \in DOMAIN bucket : Idle(bucket[k], now)}
       IN /\ gone # {}
          /\ bucket' = Restrict(bucket, DOMAIN bucket \ gone)
          /\ ledger' = [k \in DOMAIN ledger |->
                          IF k \in gone /\ now > ledger[k].high
                            THEN [ledger[k] EXCEPT !.high = now] ELSE ledger[k]]
  /\ UNCHANGED req

RequestStep(r) ==
  \/ Resolve(r) \/ Enter(r) \/ Refund(r) \/ Sample(r)
  \/ Pay(r) \/ Name(r) \/ Close(r)

(* The process starts again: buckets and requests in flight are gone.       *)
Reboot ==
  /\ Boot
  /\ bucket' = <<>> /\ ledger' = <<>>
  /\ req' = [r \in Requests |-> IF req[r].pc = "new" THEN req[r]
                                ELSE Done(req[r], 0)]
  /\ UNCHANGED clock

RateInit ==
  /\ clock = 0
  /\ OverridesInit
  /\ bucket = <<>> /\ ledger = <<>>
  /\ req = [r \in Requests |-> NoReq]

RateNext ==
  \/ Advance /\ UNCHANGED <<overrideVars, rateVars>>
  \/ Reboot
  \/ TickerStep /\ UNCHANGED <<clock, rateVars>>
  \/ \E a \in Admins : AdminStep(a) /\ UNCHANGED <<clock, rateVars>>
  \/ \E r \in Requests : RequestStep(r) /\ UNCHANGED <<clock, overrideVars>>
  \/ Reap /\ UNCHANGED <<clock, overrideVars>>

(* The loop of main.rs is a task of its own, woken by a timer: it does not  *)
(* wait forever at an enabled step; nor does a reread that has begun.       *)
RateSpec ==
  /\ RateInit
  /\ [][RateNext]_limiterVars
  /\ WF_limiterVars(TickerStep /\ UNCHANGED <<clock, rateVars>>)
  /\ \A a \in Admins : WF_limiterVars((AdminInstalls(a) \/ AdminAnswers(a)) /\ UNCHANGED <<clock, rateVars>>)

-----------------------------------------------------------------------------
(* Types: a bucket never holds more than one second of the highest limit,   *)
(* and no stamp is ahead of the clock.                                      *)
RateTypeOK ==
  /\ DOMAIN bucket \subseteq Keys
  /\ \A k \in DOMAIN bucket :
       bucket[k].tokens \in 0..Full(Ceiling) /\ bucket[k].last \in 0..clock
  /\ \A r \in Requests : req[r].limit \in 0..Ceiling /\ req[r].now \in 0..clock

Work(k) ==
  SumFunctionOnSet([r \in Requests |-> req[r].work], {r \in Requests : req[r].key = k})

(* The work done for a key, 401 answers included, fits in one burst plus    *)
(* the limit's rate over the time since its first charge, whatever the      *)
(* interleaving of charges, refunds, reaping and changes of the limit.  A   *)
(* charge that reaches the lock behind later readings lets through at most  *)
(* the rate over that delay once more: RateLimiter::charge reads the clock  *)
(* before it locks.                                                         *)
WorkIsBounded ==
  \A k \in DOMAIN ledger :
    TicksPerSecond * Work(k)
      <= Ceiling * (TicksPerSecond + (clock - ledger[k].since) + ledger[k].late)

=============================================================================
