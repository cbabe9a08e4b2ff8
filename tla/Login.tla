------------------------------- MODULE Login -------------------------------
(***************************************************************************)
(* The two logins of midnight-manual, from the CLI's first request to the  *)
(* token in auth.toml.                                                     *)
(*                                                                         *)
(* "admin" is mnm login: the server mints a challenge, the CLI signs it,   *)
(* the server consumes it and answers with a token.  "github" is mnm auth  *)
(* github: the CLI listens on a local port and opens a browser; the server *)
(* mints an OAuth state, GitHub sends the browser back to the callback,    *)
(* which consumes the state, talks to GitHub and redirects the browser to  *)
(* the local port.  "logout" is mnm auth logout.                           *)
(*                                                                         *)
(* Outstanding challenges and states live in two in-memory stores with     *)
(* the same code.  Handlers run side by side, read the clock before they   *)
(* take a store's lock, and requests may be repeated: a reloaded page, a   *)
(* retry on the way.  Every CLI of a user shares one auth.toml.            *)
(***************************************************************************)
EXTENDS Naturals, FiniteSets, FiniteSetsExt, Functions

CONSTANTS
  Flows,        \* CLI invocations
  Handlers,     \* server tasks
  Ids,          \* the UUIDs the server will draw
  Ports,        \* local ports the kernel hands out
  FirstFiles,   \* what auth.toml may be at first: "old", a file with both sections, or None
  None,
  Ttl,          \* of a challenge or of a state, in ticks
  MaxEntries,   \* cap of each store
  MaxClock,     \* bound: the clock stops here
  MaxRestarts   \* bound: server restarts

Kinds == {"admin", "github"}
Commands == Kinds \cup {"logout"}

ASSUME LoginAssumption ==
  /\ IsFiniteSet(Ids)
  /\ FirstFiles \subseteq {"old", None}
  /\ {Ttl, MaxClock, MaxRestarts} \subseteq Nat
  /\ MaxEntries \in Nat \ {0}
  /\ None \notin Flows \cup Handlers \cup Ids \cup Ports \cup {"old"}
  /\ "old" \notin Flows

VARIABLES
  clock, restarts,
  store,      \* [Kinds -> partial function from Ids to the expiry]
  owner,      \* [Ids -> the flow whose request minted it]: what the entry carries
  task,       \* [Handlers -> the request in hand, the clock reading, the ticket held]
  net,        \* requests that may reach the server, now or again
  answers,    \* what is on its way back to the CLIs
  granted,    \* [Ids -> number of tokens minted for it], history
  accepted,   \* the tickets a handler took out of a store in time, history
  cmd, pc, port, token,   \* per flow: the command, where it is, its port, its token
  path, tmp,  \* what auth.toml and auth.toml.tmp name: a flow's file, "old" or None
  body,       \* [file -> its content]
  copy,       \* [Flows -> the content the flow has read and edited]
  overlap     \* two writers have been at the files at once, history

serverVars == <<restarts, store, owner, task, granted, accepted>>
fileVars == <<path, tmp, body, copy, overlap>>
vars == <<clock, serverVars, net, answers, cmd, pc, port, token, fileVars>>

Idle == [op |-> "idle", flow |-> None, id |-> None, now |-> 0]
Request(op, f, i) == [op |-> op, flow |-> f, id |-> i]

(* What a file holds: nothing yet, or the two sections.                     *)
Empty == [whole |-> FALSE, admin |-> None, github |-> None]
Blank == [whole |-> TRUE, admin |-> None, github |-> None]   \* AuthFile::empty
OldFile == [whole |-> TRUE, admin |-> "old", github |-> "old"]

Waiting == {"asked", "verifying", "listening"}
Editing == {"editing", "cleared", "created", "written"}
Ended == {"done", "failed"}

OwnerOf(i) == owner[i]
Busy(f) == pc[f] \in Editing

TypeOK ==
  /\ clock \in 0..MaxClock /\ restarts \in 0..MaxRestarts
  /\ \A k \in Kinds : DOMAIN store[k] \subseteq Ids /\ Cardinality(DOMAIN store[k]) <= MaxEntries
  /\ owner \in [Ids -> Flows \cup {None}]
  /\ granted \in [Ids -> Nat] /\ accepted \subseteq Ids
  /\ cmd \in [Flows -> Commands]
  /\ pc \in [Flows -> {"start", "read"} \cup Waiting \cup Editing \cup Ended]
  /\ port \in [Flows -> Ports \cup {None}]
  /\ token \in [Flows -> Ids \cup {None}]
  /\ {path, tmp} \subseteq Flows \cup {"old", None}
  /\ overlap \in BOOLEAN

Init ==
  /\ clock = 0 /\ restarts = 0
  /\ store = [k \in Kinds |-> <<>>]
  /\ owner = [i \in Ids |-> None]
  /\ granted = [i \in Ids |-> 0]
  /\ accepted = {}
  /\ task = [h \in Handlers |-> Idle]
  /\ net = {} /\ answers = {}
  /\ cmd \in [Flows -> Commands]
  /\ pc = [f \in Flows |-> "start"]
  /\ port = [f \in Flows |-> None]
  /\ token = [f \in Flows |-> None]
  /\ path \in FirstFiles /\ tmp = None
  /\ body = [x \in Flows \cup {"old"} |-> IF x = path THEN OldFile ELSE Blank]
  /\ copy = [f \in Flows |-> Blank]
  /\ overlap = FALSE

-----------------------------------------------------------------------------
(* The stores.                                                              *)

Expired(s, now) == {i \in DOMAIN s : s[i] <= now}
Usable(s, now) == DOMAIN s \ Expired(s, now)

(* Plausible slips, for the mutants.                                        *)
MintedAny(s, i, now) ==
  LET live == Restrict(s, DOMAIN s \ Expired(s, now))
      kept == IF Cardinality(DOMAIN s) >= MaxEntries THEN live ELSE s
      victims == IF Cardinality(DOMAIN kept) >= MaxEntries THEN DOMAIN kept ELSE {None}
  IN {[j \in (DOMAIN kept \ {v}) \cup {i} |-> IF j = i THEN now + Ttl ELSE kept[j]] :
        v \in victims}

ConsumedLater(s, i) == s              \* looked up, removed once the token is out

FreshAgain == {i \in Ids : \A k \in Kinds : i \notin DOMAIN store[k]}

(* The store after a mint of `i` at the reading `now`, one for each entry   *)
(* the eviction may take: those that expire soonest.                        *)
Minted(s, i, now) ==
  LET live == Restrict(s, Usable(s, now))
      kept == IF Cardinality(DOMAIN s) >= MaxEntries THEN live ELSE s
      victims == IF Cardinality(DOMAIN kept) >= MaxEntries
                 THEN {v \in DOMAIN kept : \A w \in DOMAIN kept : kept[v] <= kept[w]}
                 ELSE {None}
  IN {[j \in (DOMAIN kept \ {v}) \cup {i} |-> IF j = i THEN now + Ttl ELSE kept[j]] :
        v \in victims}

Consumed(s, i) == Restrict(s, DOMAIN s \ {i})

Fresh == {i \in Ids : owner[i] = None}

-----------------------------------------------------------------------------
(* The server.  Receive is the handler up to its clock reading; the store's *)
(* lock is taken in the next step, when others may have moved on.           *)

Receive(h) ==
  /\ task[h] = Idle
  /\ \E r \in net :
       /\ r.op \in {"challenge", "start"} => Fresh # {}
       /\ task' = [task EXCEPT ![h] =
            [op |-> r.op, flow |-> r.flow, id |-> r.id, now |-> clock]]
  /\ UNCHANGED <<clock, restarts, store, owner, granted, accepted, net, answers, cmd, pc, port, token,
                 fileVars>>

(* A new entry of store k for the request's flow, whose port and nonce it    *)
(* carries.                                                                  *)
Mint(h, k, i) ==
  /\ \E s \in Minted(store[k], i, task[h].now) : store' = [store EXCEPT ![k] = s]
  /\ owner' = [owner EXCEPT ![i] = task[h].flow]
  /\ task' = [task EXCEPT ![h] = Idle]
  /\ UNCHANGED <<clock, restarts, granted, accepted, cmd, pc, port, token, fileVars>>

(* routes/auth.rs challenge: an id and a nonce to sign.                      *)
Challenge(h) ==
  /\ task[h].op = "challenge"
  /\ \E i \in Fresh :
       /\ Mint(h, "admin", i)
       /\ answers' = answers \cup {[op |-> "challenged", to |-> task[h].flow, id |-> i]}
  /\ UNCHANGED net

(* routes/github.rs start: the browser goes to GitHub and may come back.     *)
Start(h) ==
  /\ task[h].op = "start"
  /\ \E i \in Fresh :
       /\ Mint(h, "github", i)
       /\ net' = net \cup {Request("callback", task[h].flow, i)}
  /\ UNCHANGED answers

Grant(i) == granted' = [granted EXCEPT ![i] = @ + 1]

(* routes/auth.rs verify: whatever the outcome, the challenge is gone.       *)
Verify(h) ==
  /\ task[h].op = "verify"
  /\ LET i == task[h].id IN
     /\ store' = [store EXCEPT !["admin"] = Consumed(@, i)]
     /\ accepted' = accepted \cup (Usable(store["admin"], task[h].now) \cap {i})
     /\ \/ /\ i \in Usable(store["admin"], task[h].now)
           /\ Grant(i)                                  \* the signature verifies
           /\ answers' = answers \cup {[op |-> "token", to |-> task[h].flow, id |-> i]}
        \/ UNCHANGED <<granted, answers>>               \* not found, expired, or bad
  /\ task' = [task EXCEPT ![h] = Idle]
  /\ UNCHANGED <<clock, restarts, owner, net, cmd, pc, port, token, fileVars>>

(* routes/github.rs callback up to the first call to GitHub.                 *)
Callback(h) ==
  /\ task[h].op = "callback"
  /\ LET i == task[h].id IN
     /\ store' = [store EXCEPT !["github"] = Consumed(@, i)]
     /\ accepted' = accepted \cup (Usable(store["github"], task[h].now) \cap {i})
     /\ task' = [task EXCEPT ![h] =
          IF i \in Usable(store["github"], @.now)
          THEN [@ EXCEPT !.op = "exchange"] ELSE Idle]
  /\ UNCHANGED <<clock, restarts, owner, granted, net, answers, cmd, pc, port, token, fileVars>>

(* The rest of callback: the code exchange, /user and the membership, each   *)
(* of which may fail or be dropped, then the token and the redirect to the   *)
(* port and with the nonce the state carried.                                *)
Exchange(h) ==
  /\ task[h].op = "exchange"
  /\ \/ LET i == task[h].id IN
        /\ Grant(i)
        /\ answers' = answers \cup
             {[op |-> "redirect", to |-> port[OwnerOf(i)], nonce |-> OwnerOf(i), id |-> i]}
     \/ UNCHANGED <<granted, answers>>
  /\ task' = [task EXCEPT ![h] = Idle]
  /\ UNCHANGED <<clock, restarts, store, owner, accepted, net, cmd, pc, port, token, fileVars>>

(* The stores are in memory.                                                 *)
Restart ==
  /\ restarts < MaxRestarts
  /\ restarts' = restarts + 1
  /\ store' = [k \in Kinds |-> <<>>]
  /\ task' = [h \in Handlers |-> Idle]
  /\ UNCHANGED <<clock, owner, granted, accepted, net, answers, cmd, pc, port, token, fileVars>>

Tick ==
  /\ clock < MaxClock
  /\ clock' = clock + 1
  /\ UNCHANGED <<serverVars, net, answers, cmd, pc, port, token, fileVars>>

-----------------------------------------------------------------------------
(* The CLI.                                                                 *)

Goto(f, l) == pc' = [pc EXCEPT ![f] = l]

(* commands/login.rs run_with_paths: POST /v1/auth/challenge.                *)
Ask(f) ==
  /\ pc[f] = "start" /\ cmd[f] = "admin"
  /\ Goto(f, "asked")
  /\ net' = net \cup {Request("challenge", f, None)}
  /\ UNCHANGED <<clock, serverVars, answers, cmd, port, token, fileVars>>

(* Sign the nonce and POST /v1/auth/verify.                                  *)
Sign(f) ==
  /\ pc[f] = "asked"
  /\ \E a \in answers :
       /\ a.op = "challenged" /\ a.to = f
       /\ net' = net \cup {Request("verify", f, a.id)}
  /\ Goto(f, "verifying")
  /\ UNCHANGED <<clock, serverVars, answers, cmd, port, token, fileVars>>

(* commands/auth.rs github: a port nobody listens on, and the browser.       *)
Listen(f) ==
  /\ pc[f] = "start" /\ cmd[f] = "github"
  /\ \E p \in Ports \ {port[g] : g \in {x \in Flows : pc[x] = "listening"}} :
       port' = [port EXCEPT ![f] = p]
  /\ net' = net \cup {Request("start", f, None)}
  /\ Goto(f, "listening")
  /\ UNCHANGED <<clock, serverVars, answers, cmd, token, fileVars>>

AcceptedAny(f) == {a \in answers : a.op = "redirect" /\ a.to = port[f]}

(* The redirects the listener accepts: a mismatched state is answered 403    *)
(* and the listener keeps waiting.                                           *)
Accepted(f) ==
  {a \in answers : a.op = "redirect" /\ a.to = port[f] /\ a.nonce = f}

TokensFor(f) ==
  IF pc[f] = "listening" THEN Accepted(f)
  ELSE IF pc[f] = "verifying" THEN {a \in answers : a.op = "token" /\ a.to = f}
  ELSE {}

(* The token arrives; with --dry-run it is not kept.                         *)
Arrive(f) ==
  /\ \E a \in TokensFor(f) : token' = [token EXCEPT ![f] = a.id]
  /\ \E l \in {"read", "done"} : Goto(f, l)
  /\ UNCHANGED <<clock, serverVars, net, answers, cmd, port, fileVars>>

StartLogout(f) ==
  /\ pc[f] = "start" /\ cmd[f] = "logout"
  /\ Goto(f, "read")
  /\ UNCHANGED <<clock, serverVars, net, answers, cmd, port, token, fileVars>>

(* A refusal, an error or the timeout: 15 s for a request, 300 s for the     *)
(* listener.                                                                 *)
GiveUp(f) ==
  /\ pc[f] \in Waiting
  /\ Goto(f, "failed")
  /\ UNCHANGED <<clock, serverVars, net, answers, cmd, port, token, fileVars>>

-----------------------------------------------------------------------------
(* auth.toml: read_optional, the edit of one section, and atomic_write, one *)
(* file operation a step.                                                   *)

Content == IF path = None THEN Blank ELSE body[path]

EditedFromEmpty(f) ==
  IF cmd[f] = "admin" THEN [Blank EXCEPT !.admin = token[f]] ELSE [Blank EXCEPT !.github = token[f]]

(* The content with the flow's own section replaced.                        *)
Edited(f) ==
  IF cmd[f] = "admin"
  THEN [Content EXCEPT !.admin = token[f]]
  ELSE [Content EXCEPT !.github = token[f]]   \* None for a logout

Read(f) ==
  /\ pc[f] = "read"
  /\ IF ~Content.whole
     THEN Goto(f, "failed") /\ UNCHANGED <<copy, overlap>>   \* does not parse
     ELSE IF cmd[f] = "logout" /\ Content.github = None
     THEN Goto(f, "done") /\ UNCHANGED <<copy, overlap>>     \* nothing to clear
     ELSE /\ Goto(f, "editing")
          /\ copy' = [copy EXCEPT ![f] = Edited(f)]
          /\ overlap' = (overlap \/ \E g \in Flows : Busy(g))
  /\ UNCHANGED <<clock, serverVars, net, answers, cmd, port, token, path, tmp, body>>

(* Best-effort removal of a tmp left behind.                                 *)
ClearTmp(f) ==
  /\ pc[f] = "editing"
  /\ tmp' = None
  /\ Goto(f, "cleared")
  /\ UNCHANGED <<clock, serverVars, net, answers, cmd, port, token, path, body, copy, overlap>>

(* open with O_EXCL: refused when another writer's tmp is there.             *)
CreateTmp(f) ==
  /\ pc[f] = "cleared"
  /\ IF tmp # None
     THEN Goto(f, "failed") /\ UNCHANGED <<tmp, body>>
     ELSE tmp' = f /\ body' = [body EXCEPT ![f] = Empty] /\ Goto(f, "created")
  /\ UNCHANGED <<clock, serverVars, net, answers, cmd, port, token, path, copy, overlap>>

(* The body goes to the file that was opened, whatever names it now.         *)
WriteTmp(f) ==
  /\ pc[f] = "created"
  /\ body' = [body EXCEPT ![f] = copy[f]]
  /\ Goto(f, "written")
  /\ UNCHANGED <<clock, serverVars, net, answers, cmd, port, token, path, tmp, copy, overlap>>

(* rename moves whatever the name tmp denotes.                               *)
Rename(f) ==
  /\ pc[f] = "written"
  /\ IF tmp = None
     THEN Goto(f, "failed") /\ UNCHANGED <<path, tmp>>
     ELSE path' = tmp /\ tmp' = None /\ Goto(f, "done")
  /\ UNCHANGED <<clock, serverVars, net, answers, cmd, port, token, body, copy, overlap>>

(* The process is killed while it edits the file.                            *)
Kill(f) ==
  /\ pc[f] \in Editing
  /\ Goto(f, "failed")
  /\ UNCHANGED <<clock, serverVars, net, answers, cmd, port, token, fileVars>>

-----------------------------------------------------------------------------
Serve(h) == Receive(h) \/ Challenge(h) \/ Start(h) \/ Verify(h) \/ Callback(h) \/ Exchange(h)

Step(f) ==
  \/ Ask(f) \/ Sign(f) \/ Listen(f) \/ StartLogout(f) \/ Arrive(f) \/ GiveUp(f)
  \/ Read(f) \/ ClearTmp(f) \/ CreateTmp(f) \/ WriteTmp(f) \/ Rename(f)

Next ==
  \/ Restart \/ Tick
  \/ \E h \in Handlers : Serve(h)
  \/ \E f \in Flows : Step(f) \/ Kill(f)

Spec == Init /\ [][Next]_vars

-----------------------------------------------------------------------------
(* Properties.                                                              *)

Holding(i) == {h \in Handlers : task[h].op = "exchange" /\ task[h].id = i}

(* However often a verify or a callback is repeated and however its handlers
   interleave, a challenge or a state yields at most one token, and once a
   handler holds it or it has yielded one it is in no store.               *)
OneTokenPerTicket ==
  \A i \in Ids :
    /\ granted[i] + Cardinality(Holding(i)) <= 1
    /\ granted[i] + Cardinality(Holding(i)) = 1 => \A k \in Kinds : i \notin DOMAIN store[k]

(* The store implements the abstract one-shot tickets.                       *)
Abstract == INSTANCE Tickets WITH
  open <- UNION {DOMAIN store[k] : k \in Kinds},
  used <- accepted

ImplementsTickets == Abstract!TicketsSpec

(* A mint that makes room drops a login that could still complete only when
   the store is full of such logins, and then the one with the least time
   left, though the mint's clock reading may be older than the store.       *)
EvictionIsFair ==
  [][\A k \in Kinds :
       DOMAIN store'[k] \ DOMAIN store[k] # {} =>
         \A v \in DOMAIN store[k] \ DOMAIN store'[k] :
           store[k][v] > clock =>
             /\ Cardinality(DOMAIN store[k]) = MaxEntries
             /\ \A w \in DOMAIN store[k] : store[k][v] <= store[k][w]]_vars

(* A CLI keeps only a token that answers its own request, even when the
   kernel gave it the port of an earlier invocation whose browser tab is
   still open.                                                              *)
OwnToken == \A f \in Flows : token[f] # None => OwnerOf(token[f]) = f

(* As long as no two writers have been at the file at once, auth.toml is
   never half written, whatever is killed in between; a writer that reports
   success has put its own section into the file and left the other as it
   was.                                                                     *)
SerialWritesLand ==
  [][~overlap' =>
       /\ Content'.whole
       /\ \A f \in Flows : pc[f] = "written" /\ pc'[f] = "done" =>
            /\ cmd[f] = "admin" => Content'.admin = token[f] /\ Content'.github = Content.github
            /\ cmd[f] # "admin" => Content'.github = token[f] /\ Content'.admin = Content.admin]_vars

=============================================================================
