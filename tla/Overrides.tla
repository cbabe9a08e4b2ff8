----------------------------- MODULE Overrides -----------------------------
(***************************************************************************)
(* The operator's temporary limit overrides: a table in Postgres, the      *)
(* admin routes that change it, and the cache each server process matches  *)
(* requests against.                                                       *)
(*                                                                         *)
(* The module stands for two tables with the same life.  "rate" rows hold  *)
(* requests per second for a network block; "token" rows hold embedding    *)
(* tokens for a network block or for a user.  A background loop rereads    *)
(* the active rows at an interval; the token routes also reread them after *)
(* each of their own changes, the rate routes do not.  A reread is a query *)
(* and then a swap of the cache, and two of them may overlap.              *)
(***************************************************************************)
EXTENDS Naturals, FiniteSets, FiniteSetsExt

CONSTANTS
  Admins,        \* admin requests that may be in flight at once
  Subjects,      \* [table -> what an override names: network blocks and users]
  Limits,        \* [table -> the ceilings an operator sets]
  Lifetimes,     \* [table -> how long an override is to last, in ticks]
  Width,         \* bits of an address
  None,
  MaxChanges,    \* bound: [table -> admin requests that change it]
  MaxFailures,   \* bound: [table -> rereads that fail]
  MaxBoots,      \* bound: restarts of the process
  MaxClock       \* bound: the clock stops here

Addresses == [1..Width -> {0, 1}]       \* high bit first
Tables == {"rate", "token"}
AllSubjects == UNION {Subjects[t] : t \in Tables}
Networks == {s \in AllSubjects : s.user = None}

ASSUME OverridesAssumption ==
  /\ Width \in Nat /\ "ticker" \notin Admins
  /\ \A s \in AllSubjects : s.user = None => s.prefix \in 0..Width /\ s.net \in Addresses
  /\ Limits.rate \subseteq Nat \ {0} /\ Limits.token \subseteq Nat
  /\ \A t \in Tables : Lifetimes[t] \subseteq Nat \ {0}      \* parse_future_timestamp
  /\ MaxClock \in Nat

VARIABLES
  clock,
  table,     \* which of the two tables this behaviour is about
  rows,      \* its rows, expired ones included
  nextId,
  cache,     \* the overrides the process matches against
  ticker,    \* where the background loop is
  admin,     \* [Admins -> where each admin request is]
  reading,   \* [ticker or admin -> the rows its query returned]
  failures, boots,
  version,   \* number of changes so far, history
  readAt,    \* [ticker or admin -> the version its query saw], history
  cachedAt,  \* the version the cache was read at, history
  wrote,     \* [Admins -> the version its own change made], history
  alone      \* [Admins -> no other reread, change or restart since its change], history

Loop == "ticker"
Readers == Admins \cup {Loop}

tableVars == <<table, rows, nextId>>
historyVars == <<version, readAt, cachedAt, wrote, alone>>
overrideVars == <<tableVars, cache, ticker, admin, reading, failures, boots, historyVars>>

OverridesInit ==
  /\ table \in Tables
  /\ rows = {} /\ nextId = 0
  /\ cache = {}
  /\ ticker = "boot"
  /\ admin = [a \in Admins |-> "idle"]
  /\ reading = [p \in Readers |-> {}]
  /\ failures = 0 /\ boots = 0
  /\ version = 0 /\ cachedAt = 0
  /\ readAt = [p \in Readers |-> 0]
  /\ wrote = [a \in Admins |-> 0]
  /\ alone = [a \in Admins |-> FALSE]

-----------------------------------------------------------------------------
(* Matching.                                                                *)

(* ip_in: the first prefix bits agree.                                      *)
Covers(o, address) == \A b \in 1..o.prefix : address[b] = o.net[b]

BlocksOf(overrides, address) ==
  {o \in overrides : o.user = None /\ Covers(o, address)}

(* Longest prefix, then newest.  Rows made in one instant are in no order.  *)
Outranks(o, p) ==
  \/ o.prefix > p.prefix
  \/ o.prefix = p.prefix /\ o.created > p.created

Top(candidates) == {o \in candidates : ~ \E p \in candidates : Outranks(p, o)}

Best(overrides, address) == Top(BlocksOf(overrides, address))

-----------------------------------------------------------------------------
(* The table.                                                               *)

Active == {r \in rows : r.expires > clock}

(* A token route rereads the table before it answers.                       *)
AnswersAtOnce == "answering"     \* plausible slip, for the mutants
AfterChange == "refresh"

Change(a, newRows) ==
  /\ ticker # "boot"
  /\ admin[a] = "idle"
  /\ version < MaxChanges[table]
  /\ rows' = newRows
  /\ version' = version + 1
  /\ IF table = "token"
       THEN /\ admin' = [admin EXCEPT ![a] = AfterChange]
            /\ wrote' = [wrote EXCEPT ![a] = version + 1]
            /\ alone' = [b \in Admins |-> b = a /\ ticker = "waiting"
                                           /\ \A c \in Admins \ {a} : admin[c] = "idle"]
       ELSE UNCHANGED <<admin, wrote, alone>>
  /\ UNCHANGED <<table, cache, ticker, reading, failures, boots, readAt, cachedAt>>

(* A rate row names a block and its limit is positive; a token row may also *)
(* name a user and deny all spend.                                          *)
Nameable == {s \in Subjects[table] : table = "rate" => s.user = None}

CreateOverride(a) ==
  \E s \in Nameable, l \in Limits[table], t \in Lifetimes[table] :
    /\ Change(a, rows \cup {[id |-> nextId, user |-> s.user, net |-> s.net, prefix |-> s.prefix,
                             limit |-> l, created |-> clock, expires |-> clock + t]})
    /\ nextId' = nextId + 1

(* Any subset of the limit and the expiry; an expired row comes back.       *)
UpdateOverride(a) ==
  \E r \in rows : \E l \in Limits[table] \cup {r.limit}, x \in {clock + t : t \in Lifetimes[table]} \cup {r.expires} :
    /\ Change(a, (rows \ {r}) \cup {[r EXCEPT !.limit = l, !.expires = x]})
    /\ UNCHANGED nextId

DeleteOverride(a) ==
  \E r \in rows :
    /\ Change(a, rows \ {r})
    /\ UNCHANGED nextId

-----------------------------------------------------------------------------
(* Rereading the table.  Every step of one reader disturbs the others.      *)

Disturb(p) == alone' = [a \in Admins |-> alone[a] /\ a = p]

Query(p) ==
  /\ reading' = [reading EXCEPT ![p] = Active]
  /\ readAt' = [readAt EXCEPT ![p] = version]
  /\ Disturb(p)
  /\ UNCHANGED <<tableVars, cache, failures, boots, version, cachedAt, wrote>>

Install(p) ==
  /\ cache' = reading[p]
  /\ cachedAt' = readAt[p]
  /\ Disturb(p)
  /\ reading' = [reading EXCEPT ![p] = {}]
  /\ readAt' = [readAt EXCEPT ![p] = 0]
  /\ UNCHANGED <<tableVars, failures, boots, version, wrote>>

QueryFails(p) ==
  /\ failures < MaxFailures[table]
  /\ failures' = failures + 1
  /\ alone' = [a \in Admins |-> FALSE]
  /\ UNCHANGED <<tableVars, cache, reading, boots, version, readAt, cachedAt, wrote>>

(* The loop: the load before the server serves, then one reread per tick.   *)
(* A failed one is logged and the loop goes on.                             *)
StopsAfterFailure == "stopped"   \* plausible slip, for the mutants
AfterFailure == "waiting"

TickerQueries ==
  /\ ticker \in {"boot", "waiting"}
  /\ ticker' = IF ticker = "boot" THEN "loading" ELSE "reading"
  /\ Query(Loop)
  /\ UNCHANGED admin

TickerInstalls ==
  /\ ticker \in {"loading", "reading"}
  /\ ticker' = "waiting"
  /\ Install(Loop)
  /\ UNCHANGED admin

TickerFails ==
  /\ ticker \in {"boot", "waiting"}
  /\ ticker' = AfterFailure
  /\ QueryFails(Loop)
  /\ UNCHANGED admin

(* refresh_after_mutation, then the answer.                                 *)
AdminQueries(a) ==
  /\ admin[a] = "refresh"
  /\ admin' = [admin EXCEPT ![a] = "reading"]
  /\ Query(a)
  /\ UNCHANGED ticker

AdminInstalls(a) ==
  /\ admin[a] = "reading"
  /\ admin' = [admin EXCEPT ![a] = "answering"]
  /\ Install(a)
  /\ UNCHANGED ticker

AdminFails(a) ==
  /\ admin[a] = "refresh"
  /\ admin' = [admin EXCEPT ![a] = "answering"]
  /\ QueryFails(a)
  /\ UNCHANGED ticker

AdminAnswers(a) ==
  /\ admin[a] = "answering"
  /\ admin' = [admin EXCEPT ![a] = "idle"]
  /\ wrote' = [wrote EXCEPT ![a] = 0]
  /\ alone' = [alone EXCEPT ![a] = FALSE]
  /\ UNCHANGED <<tableVars, cache, ticker, reading, failures, boots, version, readAt, cachedAt>>

(* The process starts again with an empty cache; the table survives.        *)
Boot ==
  /\ boots < MaxBoots
  /\ boots' = boots + 1
  /\ cache' = {} /\ cachedAt' = 0
  /\ ticker' = "boot"
  /\ admin' = [a \in Admins |-> "idle"]
  /\ reading' = [p \in Readers |-> {}]
  /\ readAt' = [p \in Readers |-> 0]
  /\ wrote' = [a \in Admins |-> 0]
  /\ alone' = [a \in Admins |-> FALSE]
  /\ UNCHANGED <<tableVars, failures, version>>

TickerStep == TickerQueries \/ TickerInstalls \/ TickerFails

AdminStep(a) ==
  \/ CreateOverride(a) \/ UpdateOverride(a) \/ DeleteOverride(a)
  \/ AdminQueries(a) \/ AdminInstalls(a) \/ AdminFails(a) \/ AdminAnswers(a)

Advance == clock < MaxClock /\ clock' = clock + 1

-----------------------------------------------------------------------------
(* Types.                                                                   *)
Row == [id : 0..nextId, user : {s.user : s \in AllSubjects}, net : {s.net : s \in AllSubjects},
        prefix : {s.prefix : s \in AllSubjects}, limit : Limits.rate \cup Limits.token,
        created : 0..clock, expires : Nat]

OverridesTypeOK ==
  /\ clock \in 0..MaxClock
  /\ rows \subseteq Row /\ cache \subseteq Row
  /\ ticker \in {"boot", "loading", "waiting", "reading"}
  /\ admin \in [Admins -> {"idle", "refresh", "reading", "answering"}]

(* The block chosen for an address is the innermost of the cached blocks    *)
(* that hold it, and among rows of one block the newest (EC-63), for both   *)
(* limiters: ratelimit::match_override, tokenlimit_override::match_cidr.    *)
Block(o) == {x \in Addresses : Covers(o, x)}

InnermostWins ==
  \A x \in Addresses : \A o \in Best(cache, x) :
    \A p \in cache :
      p.user = None /\ x \in Block(p) =>
        /\ Block(o) \subseteq Block(p)
        /\ Block(o) = Block(p) => p.created <= o.created

(* When nothing else rereads or changes the overrides meanwhile, a token    *)
(* route answers after its change is in the cache, unless its reread failed *)
(* (refresh_after_mutation).                                                *)
LoneChangeTakesEffect ==
  \A a \in Admins : admin[a] = "answering" /\ alone[a] => cachedAt >= wrote[a]

(* The overrides that decide are the right ones of the cache, and the cache  *)
(* has what a change put there by the time the change is answered.          *)
OverridesApply == InnermostWins /\ LoneChangeTakesEffect

(* Whatever overlapped, failed or restarted, the cache ends up with the     *)
(* rows that are in force: the background loop outlives its failures.       *)
CacheCatchesUp == <>[](cache = Active)

=============================================================================
