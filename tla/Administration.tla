--------------------------- MODULE Administration ---------------------------
(***************************************************************************)
(* Who may change the corpus, and the registry of sources they change.      *)
(*                                                                         *)
(* Operators share a workstation.  mnm keys generate writes a private key   *)
(* and prints the public one; mnm users edits users.toml, which is also     *)
(* edited by hand; a deployment boots a server with a copy of that file.    *)
(* Logins turn keys into tokens that outlive the deployment, and admin      *)
(* requests present them.  The two handlers of a login are one step here:   *)
(* Login has both.                                                          *)
(***************************************************************************)
EXTENDS Integers, Sequences, FiniteSets

CONSTANTS
  Users,        \* of the user store
  Guests,       \* GitHub logins
  Operators,    \* shells of the workstation
  Slugs,        \* well-formed source slugs
  Workers,     \* server tasks
  FirstStores,  \* what users.toml may be at first
  Nil,
  AdminTtl, GuestTtl,       \* of the two tiers of tokens, in ticks
  Grace,               \* ticks a retired source is kept
  Keeps, MinKeep, MaxKeep, DefaultKeep,  \* retention counts: asked for, allowed, default
  MaxTime, MaxKeys, MaxEdits, MaxDeploys, MaxRequests   \* bounds

ASSUME AdministrationAssumption ==
  /\ {AdminTtl, GuestTtl} \subseteq Nat \ {0}
  /\ Grace \in Nat /\ Keeps \subseteq Int
  /\ {MinKeep, MaxKeep} \subseteq Int /\ DefaultKeep \in MinKeep..MaxKeep
  /\ Users \cap Guests = {}
  /\ \A s \in FirstStores : s # Nil => s \in Seq([user : Users, role : STRING, key : Int])
  /\ Nil \notin Users \cup Guests \cup Int
  /\ Nil \notin [keep : Int, retired : Nat \cup {Nil}]

VARIABLES
  time,
  key, printed,      \* per user: the private key on disk, the public key last printed
  drawn,             \* keys drawn so far
  userStore, draft,      \* users.toml and users.toml.tmp: a sequence of rows, or Nil
  edit,              \* per operator: the command in hand, what it will write and where its descriptor leads
  edits, byHand,     \* edits so far; a row was put there by hand, history
  crossed,           \* an operator emptied the draft another was at, history
  server,            \* [state, rows]: "down", "open" (without authentication) or "on", with its users
  deploys, secret,   \* deployments so far; the generation of the signing secret
  held,              \* per user: the token in hand
  lastAdmin,         \* per subject: the last instant at which the running server had it as admin, history
  sources,           \* the registry: a row or Nil
  job, requests     \* per handler: the request and its stage; requests so far

workstation == <<key, printed, drawn, userStore, draft, edit, edits, byHand, crossed>>
serving == <<server, deploys, secret>>
registry == <<sources, job, requests>>
administrationVars == <<time, workstation, serving, held, lastAdmin, registry>>

-----------------------------------------------------------------------------
(* Keys and rows.  Two values stand for keys that are not keys: Odd has the *)
(* right prefix and cannot be decoded, Bad does not even have the prefix.   *)

Odd == -1
Bad == -2
Parses(k) == k # Nil /\ k > 0
Prefixed(k) == k # Bad

Roles == {"admin", "writer"}
Row(u, role, k) == [user |-> u, role |-> role, key |-> k]
RowsOf(file) == IF file = Nil THEN <<>> ELSE file
Names(rows) == {rows[i].user : i \in DOMAIN rows}
First(rows, u) == CHOOSE i \in DOMAIN rows : rows[i].user = u /\ \A j \in DOMAIN rows \ {i} : rows[j].user = u => i < j

\* UserStore::parse, stricter than the reader of the CLI.
Boots(rows) ==
  /\ \A i \in DOMAIN rows : rows[i].role \in Roles /\ Prefixed(rows[i].key)
  /\ \A i, j \in DOMAIN rows : rows[i].user = rows[j].user => i = j

\* What a draft holds before it is written, and what is left when two writers
\* mix or one stops half way: files that neither reader parses.
Hollow == <<Row(Nil, Nil, Bad)>>
Torn == <<Row(Nil, Nil, Bad), Row(Nil, Nil, Bad)>>
Reads(file) == file # Hollow /\ file # Torn

AtRest == [cmd |-> "none", rows |-> <<>>, user |-> Nil, key |-> 0, at |-> "none"]
Quiet == [op |-> "none", stage |-> "idle", slug |-> Nil, keep |-> Nil, token |-> Nil]
Open == [state |-> "open", rows |-> <<>>]

AdministrationInit ==
  /\ time = 0
  /\ key = [u \in Users |-> Nil] /\ printed = [u \in Users |-> Bad] /\ drawn = 0
  /\ userStore \in FirstStores /\ draft = Nil /\ crossed = FALSE
  /\ edit = [o \in Operators |-> AtRest] /\ edits = 0
  /\ byHand = ~Boots(RowsOf(userStore))
  /\ server = Open /\ deploys = 0 /\ secret = 0
  /\ held = [u \in Users \cup Guests |-> Nil]
  /\ lastAdmin = [u \in Users |-> Nil]
  /\ sources = [s \in Slugs |-> Nil]
  /\ job = [h \in Workers |-> Quiet] /\ requests = 0

-----------------------------------------------------------------------------
(* Keys.  A dry run draws a key, prints it and forgets it.                  *)

Generate(o, u, dry, force) ==
  /\ edit[o] = AtRest /\ drawn < MaxKeys
  /\ dry \/ force \/ key[u] = Nil
  /\ drawn' = drawn + 1
  /\ IF dry THEN printed' = [printed EXCEPT ![u] = drawn + 1] /\ UNCHANGED edit
            ELSE edit' = [edit EXCEPT ![o] = [AtRest EXCEPT !.cmd = "generate", !.user = u, !.key = drawn + 1]]
                 /\ UNCHANGED printed
  /\ UNCHANGED <<time, key, userStore, draft, edits, byHand, crossed, serving, held, lastAdmin, registry>>

WriteKey(o) ==
  /\ edit[o].cmd = "generate"
  /\ LET u == edit[o].user IN
     key' = [key EXCEPT ![u] = edit[o].key] /\ printed' = [printed EXCEPT ![u] = edit[o].key]
  /\ edit' = [edit EXCEPT ![o] = AtRest]
  /\ UNCHANGED <<time, drawn, userStore, draft, edits, byHand, crossed, serving, held, lastAdmin, registry>>

-----------------------------------------------------------------------------
(* The user store.  Nil for a role or a key leaves it as it is.            *)

Added(rows, u, role, k) == Append(rows, Row(u, role, k))
Updated(rows, u, role, k) ==
  LET i == First(rows, u)
      row == rows[i]
  IN  [rows EXCEPT ![i] = Row(u, IF role = Nil THEN row.role ELSE role, IF k = Nil THEN row.key ELSE k)]
Removed(rows, u) ==
  LET kept == {i \in DOMAIN rows : rows[i].user # u}
  IN  [n \in 1..Cardinality(kept) |-> rows[CHOOSE i \in kept : Cardinality({j \in kept : j <= i}) = n]]

\* Whether a command goes on.
Applies(cmd, rows, u, k) ==
  CASE cmd = "add" -> u \notin Names(rows) /\ Parses(k)
    [] cmd = "update" -> u \in Names(rows) /\ (k = Nil \/ Parses(k))
    [] OTHER -> u \in Names(rows)

\* A command up to what it is going to write.
Edit(o, cmd, u, role, k) ==
  LET rows == RowsOf(userStore) IN
  /\ edit[o] = AtRest /\ edits < MaxEdits
  /\ Reads(userStore) /\ Applies(cmd, rows, u, k)
  /\ edits' = edits + 1
  /\ edit' = [edit EXCEPT ![o] =
       [AtRest EXCEPT !.cmd = cmd, !.user = u,
          !.rows = CASE cmd = "add" -> Added(rows, u, role, k)
                     [] cmd = "update" -> Updated(rows, u, role, k)
                     [] OTHER -> Removed(rows, u)]]
  /\ UNCHANGED <<time, key, printed, drawn, userStore, draft, byHand, crossed, serving, held, lastAdmin, registry>>

(* StoreFile::write.  Every command writes the one users.toml.tmp, with no   *)
(* lock; a rename takes the descriptors still open on the draft along.       *)

Amending(o) == edit[o].cmd \in {"add", "update", "remove"}
DraftStep(o, at) ==
  /\ Amending(o) /\ edit[o].at \in at
  /\ UNCHANGED <<time, key, printed, drawn, edits, byHand, serving, held, lastAdmin, registry>>

\* fs::write truncates whatever draft is there ...
OpenDraft(o) ==
  /\ DraftStep(o, {"none"})
  /\ draft' = Hollow
  /\ edit' = [edit EXCEPT ![o].at = "draft"]
  /\ crossed' = (crossed \/ \E p \in Operators \ {o} : edit[p].at # "none")
  /\ UNCHANGED userStore

\* ... and writes from the start, over what another may have written since: the
\* longer text shows at the end.
Overlay(file, rows) == IF file = Hollow THEN {rows} ELSE {rows, file, Torn}

\* A write that stops half way ends the command; the mutant's renames all the same.
Heedless(o, whole) == [edit[o] EXCEPT !.at = "written"]
AfterWrite(o, whole) == IF whole THEN [edit[o] EXCEPT !.at = "written"] ELSE AtRest

WriteDraft(o, whole) ==
  LET behind == IF edit[o].at = "store" THEN userStore ELSE draft IN
  /\ DraftStep(o, {"draft", "store", "gone"})
  /\ \E new \in IF whole THEN Overlay(behind, edit[o].rows) ELSE {Torn} :
       /\ draft' = IF edit[o].at = "draft" THEN new ELSE draft
       /\ userStore' = IF edit[o].at = "store" THEN new ELSE userStore
  /\ edit' = [edit EXCEPT ![o] = AfterWrite(o, whole)]
  /\ UNCHANGED crossed

Carried(at) == CASE at = "draft" -> "store" [] at = "store" -> "gone" [] OTHER -> at
Install(o) ==
  /\ DraftStep(o, {"written"})
  /\ IF draft = Nil
     THEN edit' = [edit EXCEPT ![o] = AtRest] /\ UNCHANGED <<userStore, draft>>
     ELSE /\ userStore' = draft /\ draft' = Nil
          /\ edit' = [p \in Operators |-> IF p = o THEN AtRest ELSE [edit[p] EXCEPT !.at = Carried(edit[p].at)]]
  /\ UNCHANGED crossed

\* The command is interrupted; what it wrote stays.
Interrupt(o) ==
  /\ DraftStep(o, {"draft", "store", "gone", "written"})
  /\ edit' = [edit EXCEPT ![o] = AtRest]
  /\ UNCHANGED <<userStore, draft, crossed>>

Saving(o) ==
  \/ OpenDraft(o) \/ Install(o) \/ Interrupt(o)
  \/ \E whole \in BOOLEAN : WriteDraft(o, whole)

\* The row that keys generate prints is pasted into the file: always an admin's.
Paste(u) ==
  /\ edits < MaxEdits /\ edits' = edits + 1
  /\ printed[u] # Bad
  /\ userStore' = IF Reads(userStore) THEN Append(RowsOf(userStore), Row(u, "admin", printed[u])) ELSE Torn
  /\ byHand' = TRUE
  /\ UNCHANGED <<time, key, printed, drawn, draft, edit, crossed, serving, held, lastAdmin, registry>>

-----------------------------------------------------------------------------
(* The server.  A deployment replaces the process, and with it every        *)
(* request in hand.                                                         *)

UserRow(u) == server.rows[First(server.rows, u)]
Knows(u) == server.state = "on" /\ u \in Names(server.rows)
Admins(srv) == {u \in Users : srv.state = "on" /\ \E i \in DOMAIN srv.rows : srv.rows[i].user = u /\ srv.rows[i].role = "admin"}
Remember(srv, now) == lastAdmin' = [u \in Users |-> IF u \in Admins(srv) THEN now ELSE lastAdmin[u]]

\* AuthState::from_config, over the store that was deployed.
Booted(file) ==
  IF file = Nil THEN Open
  ELSE IF Boots(file) THEN [state |-> "on", rows |-> file] ELSE [state |-> "down", rows |-> <<>>]

Deploy(rotated) ==
  /\ deploys < MaxDeploys /\ deploys' = deploys + 1
  /\ server' = Booted(userStore)
  /\ secret' = IF rotated THEN secret + 1 ELSE secret
  /\ job' = [h \in Workers |-> Quiet]
  /\ Remember(server', time)
  /\ UNCHANGED <<time, workstation, held, sources, requests>>

TimePasses ==
  /\ time < MaxTime /\ time' = time + 1
  /\ Remember(server, time')
  /\ UNCHANGED <<workstation, serving, held, registry>>

Token(sub, role, tier, ttl) == [sub |-> sub, role |-> role, tier |-> tier, exp |-> time + ttl, secret |-> secret]

\* A challenge signed with the key on disk verifies under the deployed key only.
Login(u) ==
  /\ Knows(u)
  /\ Parses(UserRow(u).key) /\ key[u] = UserRow(u).key
  /\ held' = [held EXCEPT ![u] = Token(u, UserRow(u).role, "admin", AdminTtl)]
  /\ UNCHANGED <<time, workstation, serving, lastAdmin, registry>>

Uplift(g) ==
  /\ server.state = "on"
  /\ held' = [held EXCEPT ![g] = Token(g, "writer", "read_uplift", GuestTtl)]
  /\ UNCHANGED <<time, workstation, serving, lastAdmin, registry>>

-----------------------------------------------------------------------------
(* A request, from the command line to its answer.                          *)

Answers == {"created", "updated", "retired", "started", "unauthorized", "forbidden", "invalid", "missing", "unavailable"}
Working == {"insert", "read back", "patch", "look up", "retire", "started"}

\* The client's own look at its token; the mutant's server trusts it.
Unexpired(token) == time < token.exp
TrustsTheClient(token) == token.secret = secret
Verifies(token) == token.secret = secret /\ time < token.exp
CanAdmin(token) == token.tier = "admin" /\ token.role = "admin"
KeepAllowed(keep) == keep = Nil \/ keep \in MinKeep..MaxKeep

\* The commands send the token of mnm login while it lasts, other clients that
\* of a guest.
Send(h, sub, op, slug, keep) ==
  /\ job[h].stage \in Answers \cup {"idle"}
  /\ requests < MaxRequests /\ requests' = requests + 1
  /\ held[sub] # Nil /\ (sub \in Users => Unexpired(held[sub]))
  /\ job' = [job EXCEPT ![h] = [op |-> op, stage |-> "sent", slug |-> slug, keep |-> keep, token |-> held[sub]]]
  /\ UNCHANGED <<time, workstation, serving, held, lastAdmin, sources>>

To(h, stage) == job' = [job EXCEPT ![h].stage = stage]

FirstStage(t) ==
  IF server.state # "on" \/ ~Verifies(t.token) THEN "unauthorized"
  ELSE IF ~CanAdmin(t.token) THEN "forbidden"
  ELSE IF ~KeepAllowed(t.keep) THEN "invalid"
  ELSE CASE t.op = "create" -> "insert" [] t.op = "update" -> "patch" [] t.op = "retire" -> "look up"
         [] OTHER -> "started"

\* bearer::layer, admin_reject and the validation of the body.
Screen(h) ==
  /\ job[h].stage = "sent" /\ server.state # "down"
  /\ To(h, FirstStage(job[h]))
  /\ UNCHANGED <<time, workstation, serving, held, lastAdmin, sources, requests>>

Statement(h, stage) ==
  /\ job[h].stage = stage
  /\ UNCHANGED <<time, workstation, serving, held, lastAdmin, requests>>

\* The slug is unique, and a retired source still owns its own.
Insert(h) ==
  LET t == job[h] IN
  /\ Statement(h, "insert")
  /\ IF sources[t.slug] = Nil
     THEN /\ sources' = [sources EXCEPT ![t.slug] =
                           [keep |-> IF t.keep = Nil THEN DefaultKeep ELSE t.keep, retired |-> Nil]]
          /\ To(h, "read back")
     ELSE To(h, "invalid") /\ UNCHANGED sources

Patch(h) ==
  LET t == job[h] IN
  /\ Statement(h, "patch")
  /\ IF sources[t.slug] = Nil
     THEN To(h, "missing") /\ UNCHANGED sources
     ELSE /\ sources' = IF t.keep = Nil THEN sources ELSE [sources EXCEPT ![t.slug].keep = t.keep]
          /\ To(h, "updated")

LookUp(h) ==
  LET row == sources[job[h].slug] IN
  /\ Statement(h, "look up")
  /\ To(h, IF row = Nil THEN "missing" ELSE IF row.retired # Nil THEN "invalid" ELSE "retire")
  /\ UNCHANGED sources

\* COALESCE(retired_at, now()); the mutant writes the time anew.
RetiredAnew(row) == [row EXCEPT !.retired = time]
RetiredRow(row) == IF row.retired = Nil THEN [row EXCEPT !.retired = time] ELSE row

Retire(h) ==
  LET t == job[h] IN
  /\ Statement(h, "retire")
  /\ IF sources[t.slug] = Nil
     THEN To(h, "missing") /\ UNCHANGED sources
     ELSE sources' = [sources EXCEPT ![t.slug] = RetiredRow(sources[t.slug])] /\ To(h, "read back")

ReadBack(h) ==
  LET t == job[h] IN
  /\ Statement(h, "read back")
  /\ To(h, IF sources[t.slug] = Nil THEN "unavailable" ELSE IF t.op = "create" THEN "created" ELSE "retired")
  /\ UNCHANGED sources

\* A statement that fails: what was written before it stays.
Fail(h) ==
  /\ job[h].stage \in Working \ {"started"}
  /\ To(h, "unavailable")
  /\ UNCHANGED <<time, workstation, serving, held, lastAdmin, sources, requests>>

\* sweep_retired
Lapsed(row) == row # Nil /\ row.retired # Nil /\ row.retired + Grace < time
SweepRetired ==
  /\ \E s \in Slugs : Lapsed(sources[s])
  /\ sources' = [s \in Slugs |-> IF Lapsed(sources[s]) THEN Nil ELSE sources[s]]
  /\ UNCHANGED <<time, workstation, serving, held, lastAdmin, job, requests>>

-----------------------------------------------------------------------------

AdministrationNext ==
  \/ TimePasses \/ SweepRetired
  \/ \E o \in Operators :
       \/ \E u \in Users, dry, force \in BOOLEAN : Generate(o, u, dry, force)
       \/ \E u \in Users, role \in Roles \cup {Nil}, k \in {printed[v] : v \in Users} \cup {Odd, Nil},
             cmd \in {"add", "update", "remove"} :
            /\ cmd = "add" => role # Nil /\ k # Nil
            /\ cmd = "remove" => role = Nil /\ k = Nil
            /\ Edit(o, cmd, u, role, k)
       \/ WriteKey(o) \/ Saving(o)
  \/ \E u \in Users : Paste(u) \/ Login(u)
  \/ \E g \in Guests : Uplift(g)
  \/ \E rotated \in BOOLEAN : Deploy(rotated)
  \/ \E h \in Workers :
       \/ \E sub \in Users \cup Guests, op \in {"create", "update", "retire", "ingest"}, s \in Slugs,
             keep \in Keeps \cup {Nil} :
            (op \in {"retire", "ingest"} => keep = Nil) /\ Send(h, sub, op, s, keep)
       \/ Screen(h) \/ Insert(h) \/ Patch(h) \/ LookUp(h) \/ Retire(h) \/ ReadBack(h) \/ Fail(h)

AdministrationSpec == AdministrationInit /\ [][AdministrationNext]_administrationVars

-----------------------------------------------------------------------------
(* Properties.                                                              *)

\* Every request a handler lets through belongs to somebody whom the server had
\* as an admin less than a token's life ago, however the store, the keys and the
\* deployments have moved on since.
AuthorityIsRecent ==
  [][\A h \in Workers :
       job[h].stage = "sent" /\ job'[h].stage \in Working =>
         LET sub == job[h].token.sub IN
         sub \in Users /\ lastAdmin[sub] # Nil /\ time - lastAdmin[sub] < AdminTtl]_administrationVars

\* A file that only mnm users has edited is one that a server boots with, however
\* the commands of several operators overlap and wherever one of them stops, as
\* long as none emptied the draft that another had opened and not yet renamed.
EditedStoreBoots == ~byHand /\ ~crossed => server.state # "down" /\ Boots(RowsOf(userStore))

\* The date of a retirement never moves, whoever retires the source again and
\* however the statements mix: a source that goes has been retired for the grace.
RetirementStands ==
  [][\A s \in Slugs :
       sources[s] # Nil /\ sources[s].retired # Nil =>
         \/ sources'[s] # Nil /\ sources'[s].retired = sources[s].retired
         \/ sources'[s] = Nil /\ sources[s].retired + Grace < time]_administrationVars
=============================================================================
