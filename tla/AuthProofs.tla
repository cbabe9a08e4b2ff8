----------------------------- MODULE AuthProofs -----------------------------
(***************************************************************************)
(* Proofs about Login, for every set of invocations, handlers, ids and     *)
(* ports and every capacity of the stores; and about Administration, for   *)
(* every set of users, guests, operators, handlers and slugs, and every    *)
(* life of a token.                                                        *)
(***************************************************************************)
EXTENDS Login, Administration, FiniteSetTheorems, TLAPS

-----------------------------------------------------------------------------
(* The logins.                                                             *)

Ops == {"challenge", "start", "verify", "callback"}
Tasks == [op : Ops \cup {"idle", "exchange"}, flow : Flows \cup {None}, id : Ids \cup {None}, now : Nat]
Contents == [whole : BOOLEAN, admin : Ids \cup {"old", None}, github : Ids \cup {"old", None}]

(* What TypeOK leaves open: the stores map to instants, a handler's clock   *)
(* reading is not ahead of the clock, and requests and files have a shape.  *)
Shapes ==
  /\ TypeOK
  /\ clock \in Nat
  /\ DOMAIN store = Kinds
  /\ \A k \in Kinds : store[k] \in [DOMAIN store[k] -> Nat]
  /\ task \in [Handlers -> Tasks]
  /\ \A h \in Handlers : task[h].now <= clock
  /\ net \subseteq [op : Ops, flow : Flows, id : Ids \cup {None}]
  /\ body \in [Flows \cup {"old"} -> Contents]
  /\ copy \in [Flows -> Contents]

(* The life of an id: drawn once, in at most one store, accepted at most    *)
(* once, and only an accepted one yields a token.                           *)
OneLife ==
  \A i \in Ids :
    /\ owner[i] = None => i \notin accepted /\ \A k \in Kinds : i \notin DOMAIN store[k]
    /\ i \in accepted => \A k \in Kinds : i \notin DOMAIN store[k]
    /\ i \notin DOMAIN store["admin"] \/ i \notin DOMAIN store["github"]
    /\ granted[i] <= 1
    /\ granted[i] # 0 => i \in accepted

(* A handler in the exchange holds an id nobody else holds, not yet granted. *)
OneHolder ==
  \A h \in Handlers :
    task[h].op = "exchange" =>
      /\ task[h].id \in accepted
      /\ granted[task[h].id] = 0
      /\ \A g \in Handlers : task[g].op = "exchange" /\ task[g].id = task[h].id => g = h

(* Whoever speaks of an id speaks of the flow it was minted for.            *)
Ownership ==
  /\ \A r \in net :
       r.op \in {"verify", "callback"} => r.id \in Ids /\ owner[r.id] = r.flow
  /\ \A h \in Handlers :
       /\ task[h].op \in {"challenge", "start"} => task[h].flow \in Flows
       /\ task[h].op \in {"verify", "callback", "exchange"} =>
            task[h].id \in Ids /\ task[h].flow \in Flows /\ owner[task[h].id] = task[h].flow
  /\ \A a \in answers :
       /\ a.id \in Ids
       /\ a.op \in {"challenged", "token"} => a.to \in Flows /\ owner[a.id] = a.to
       /\ a.op = "redirect" => a.nonce = owner[a.id] /\ a.nonce \in Flows
       /\ a.op \in {"challenged", "token", "redirect"}
  /\ OwnToken

TicketInv == Shapes /\ OneLife /\ OneHolder /\ Ownership

-----------------------------------------------------------------------------
(* Minting into a store.                                                    *)

(* A mint keeps the store within its capacity, puts the new id in, and      *)
(* drops an entry that had not expired at its reading of the clock only     *)
(* when the store is full, and then one that expires soonest.               *)
LEMMA MintedStore ==
  ASSUME NEW s, DOMAIN s \in SUBSET Ids, s \in [DOMAIN s -> Nat],
         Cardinality(DOMAIN s) <= MaxEntries,
         NEW i \in Ids, i \notin DOMAIN s, NEW now \in Nat,
         NEW t \in Minted(s, i, now)
  PROVE  /\ i \in DOMAIN t
         /\ DOMAIN t \subseteq DOMAIN s \cup {i}
         /\ t \in [DOMAIN t -> Nat]
         /\ Cardinality(DOMAIN t) <= MaxEntries
         /\ \A v \in DOMAIN s \ DOMAIN t :
              s[v] > now => /\ Cardinality(DOMAIN s) = MaxEntries
                            /\ \A w \in DOMAIN s : s[v] <= s[w]
<1> DEFINE live == Restrict(s, Usable(s, now))
           kept == IF Cardinality(DOMAIN s) >= MaxEntries THEN live ELSE s
           victims == IF Cardinality(DOMAIN kept) >= MaxEntries
                      THEN {v \in DOMAIN kept : \A w \in DOMAIN kept : kept[v] <= kept[w]}
                      ELSE {None}
<1>1. PICK v \in victims :
        t = [j \in (DOMAIN kept \ {v}) \cup {i} |-> IF j = i THEN now + Ttl ELSE kept[j]]
  BY DEF Minted
<1>2. /\ DOMAIN live = Usable(s, now)
      /\ \A j \in DOMAIN live : live[j] = s[j]
  BY DEF Restrict
<1>3. /\ DOMAIN kept \subseteq DOMAIN s
      /\ \A j \in DOMAIN kept : kept[j] = s[j]
  BY <1>2 DEF Usable
<1>4. /\ IsFiniteSet(DOMAIN s) /\ IsFiniteSet(DOMAIN kept)
      /\ Cardinality(DOMAIN kept) <= Cardinality(DOMAIN s)
      /\ Cardinality(DOMAIN kept) = Cardinality(DOMAIN s) => DOMAIN kept = DOMAIN s
      /\ Cardinality(DOMAIN s) \in Nat /\ Cardinality(DOMAIN kept) \in Nat
  <2>1. IsFiniteSet(DOMAIN s)
    BY FS_Subset, LoginAssumption
  <2>2. DOMAIN kept \in SUBSET DOMAIN s
    BY <1>3
  <2>3. /\ IsFiniteSet(DOMAIN kept)
        /\ Cardinality(DOMAIN kept) <= Cardinality(DOMAIN s)
        /\ Cardinality(DOMAIN kept) = Cardinality(DOMAIN s) => DOMAIN kept = DOMAIN s
    <3> HIDE DEF kept
    <3> QED BY <2>1, <2>2, FS_Subset
  <2> HIDE DEF kept
  <2> QED BY <2>1, <2>3, FS_CardinalityType
<1>5. DOMAIN t = (DOMAIN kept \ {v}) \cup {i}
  <2> HIDE DEF kept, victims
  <2> QED BY <1>1
<1>6. Cardinality(DOMAIN t) <= MaxEntries
  <2>1. i \notin DOMAIN kept \ {v}
    BY <1>3
  <2>2. /\ IsFiniteSet(DOMAIN kept \ {v})
        /\ Cardinality(DOMAIN kept \ {v}) =
             IF v \in DOMAIN kept THEN Cardinality(DOMAIN kept) - 1 ELSE Cardinality(DOMAIN kept)
    <3> HIDE DEF kept
    <3> QED BY <1>4, FS_RemoveElement
  <2>3. Cardinality(DOMAIN t) = Cardinality(DOMAIN kept \ {v}) + 1
    <3> DEFINE rest == DOMAIN kept \ {v}
    <3>1. DOMAIN t = rest \cup {i} /\ IsFiniteSet(rest) /\ i \notin rest
      BY <1>5, <2>1, <2>2
    <3> HIDE DEF rest
    <3>2. Cardinality(DOMAIN t) = Cardinality(rest) + 1
      BY <3>1, FS_AddElement
    <3> QED BY <3>2 DEF rest
  <2>4. CASE Cardinality(DOMAIN kept) >= MaxEntries
    <3>1. v \in DOMAIN kept
      BY <1>1, <2>4
    <3> HIDE DEF kept
    <3> QED BY <2>2, <2>3, <3>1, <1>4, LoginAssumption
  <2>5. CASE ~(Cardinality(DOMAIN kept) >= MaxEntries)
    <3> HIDE DEF kept
    <3> QED BY <2>2, <2>3, <2>5, <1>4, LoginAssumption
  <2> QED BY <2>4, <2>5
<1>7. t \in [DOMAIN t -> Nat]
  <2> HIDE DEF kept, victims
  <2> QED BY <1>1, <1>3, <1>5, LoginAssumption
<1>8. ASSUME NEW x \in DOMAIN s \ DOMAIN t, s[x] > now
      PROVE  /\ Cardinality(DOMAIN s) = MaxEntries
             /\ \A w \in DOMAIN s : s[x] <= s[w]
  <2>1. x \in DOMAIN kept
    BY <1>2, <1>8 DEF Usable, Expired
  <2>2. x = v
    BY <1>5, <1>8, <2>1
  <2>3. v # None
    BY <1>8, <2>2, LoginAssumption
  <2>4. Cardinality(DOMAIN kept) >= MaxEntries /\ \A w \in DOMAIN kept : kept[v] <= kept[w]
    BY <1>1, <2>3
  <2>5. DOMAIN kept = DOMAIN s /\ Cardinality(DOMAIN s) = MaxEntries
    <3> HIDE DEF kept
    <3> QED BY <1>4, <2>4, LoginAssumption
  <2> HIDE DEF kept
  <2> QED BY <1>3, <2>2, <2>4, <2>5
<1> QED BY <1>3, <1>5, <1>6, <1>7, <1>8

-----------------------------------------------------------------------------
(* Types.                                                                   *)

LEMMA InitTicketInv == Init => TicketInv
<1> SUFFICES ASSUME Init PROVE TicketInv
  OBVIOUS
<1> USE LoginAssumption
<1>1. DOMAIN << >> = {} /\ << >> \in [{} -> Nat] /\ Cardinality({}) = 0
  BY FS_EmptySet
<1>2. \A k \in Kinds : store[k] = << >>
  BY DEF Init
<1>3. TypeOK
  <2>1. \A k \in Kinds : DOMAIN store[k] \subseteq Ids /\ Cardinality(DOMAIN store[k]) <= MaxEntries
    BY <1>1, <1>2
  <2>2. {path, tmp} \subseteq Flows \cup {"old", None}
    BY DEF Init
  <2>3. clock \in 0..MaxClock /\ restarts \in 0..MaxRestarts
    BY DEF Init
  <2> QED BY <2>1, <2>2, <2>3 DEF Init, TypeOK, Waiting, Editing, Ended
<1>4. Shapes
  BY <1>1, <1>2, <1>3 DEF Init, Shapes, Tasks, Idle, Contents, OldFile, Blank
<1>5. OneLife
  BY <1>1, <1>2 DEF Init, OneLife, Kinds
<1>6. OneHolder /\ Ownership
  BY DEF Init, OneHolder, Ownership, OwnToken, Idle
<1> QED BY <1>4, <1>5, <1>6 DEF TicketInv

(* A mint keeps the shapes: the store stays within its capacity.            *)
LEMMA MintShapes ==
  ASSUME Shapes, NEW h \in Handlers, NEW k \in Kinds, NEW i \in Ids, Mint(h, k, i),
         i \notin DOMAIN store[k], task[h].flow \in Flows
  PROVE  /\ DOMAIN store' = Kinds
         /\ i \in DOMAIN store'[k] /\ DOMAIN store'[k] \subseteq DOMAIN store[k] \cup {i}
         /\ \A l \in Kinds \ {k} : store'[l] = store[l]
         /\ \A l \in Kinds :
              /\ store'[l] \in [DOMAIN store'[l] -> Nat]
              /\ DOMAIN store'[l] \subseteq Ids /\ Cardinality(DOMAIN store'[l]) <= MaxEntries
<1>1. PICK t \in Minted(store[k], i, task[h].now) : store' = [store EXCEPT ![k] = t]
  BY DEF Mint
<1>2. task[h].now \in Nat
  BY DEF Shapes, Tasks
<1>3. /\ i \in DOMAIN t /\ DOMAIN t \subseteq DOMAIN store[k] \cup {i}
      /\ t \in [DOMAIN t -> Nat] /\ Cardinality(DOMAIN t) <= MaxEntries
  <2>1. DOMAIN store[k] \in SUBSET Ids /\ store[k] \in [DOMAIN store[k] -> Nat]
        /\ Cardinality(DOMAIN store[k]) <= MaxEntries
    BY DEF Shapes, TypeOK
  <2> QED BY <1>2, <2>1, MintedStore
<1> QED BY <1>1, <1>3 DEF Shapes, TypeOK

(* Taking an entry out, or losing all of them, keeps the shape of a store.  *)
LEMMA ConsumedShape ==
  ASSUME Shapes, NEW k \in Kinds, NEW i, store' = [store EXCEPT ![k] = Consumed(@, i)]
  PROVE  /\ DOMAIN store' = Kinds
         /\ DOMAIN store'[k] = DOMAIN store[k] \ {i}
         /\ \A l \in Kinds \ {k} : store'[l] = store[l]
         /\ \A l \in Kinds :
              /\ store'[l] \in [DOMAIN store'[l] -> Nat]
              /\ DOMAIN store'[l] \subseteq Ids /\ Cardinality(DOMAIN store'[l]) <= MaxEntries
<1>1. store'[k] = [x \in DOMAIN store[k] \ {i} |-> store[k][x]]
  BY DEF Shapes, Consumed, Restrict
<1>2. DOMAIN store'[k] = DOMAIN store[k] \ {i} /\ store'[k] \in [DOMAIN store'[k] -> Nat]
  BY <1>1 DEF Shapes
<1>3. DOMAIN store[k] \subseteq Ids /\ Cardinality(DOMAIN store[k]) <= MaxEntries
  BY DEF Shapes, TypeOK
<1>4. IsFiniteSet(DOMAIN store[k])
  BY <1>3, FS_Subset, LoginAssumption
<1>5. Cardinality(DOMAIN store'[k]) <= MaxEntries
  <2>1. DOMAIN store'[k] \in SUBSET DOMAIN store[k]
    BY <1>2
  <2>2. /\ Cardinality(DOMAIN store'[k]) <= Cardinality(DOMAIN store[k])
        /\ IsFiniteSet(DOMAIN store'[k])
    BY <1>4, <2>1, FS_Subset
  <2> QED BY <1>3, <1>4, <2>2, FS_CardinalityType, LoginAssumption
<1> QED BY <1>2, <1>3, <1>5 DEF Shapes, TypeOK

(* The file a flow reads, and what it makes of it, have the shape of a file. *)
LEMMA EditedShape ==
  ASSUME Shapes, NEW f \in Flows
  PROVE  Content \in Contents /\ Edited(f) \in Contents
<1>1. Content \in Contents
  BY DEF Content, Blank, Shapes, TypeOK, Contents
<1>2. token[f] \in Ids \cup {None}
  BY DEF Shapes, TypeOK
<1>3. [Content EXCEPT !.admin = token[f]] \in Contents /\ [Content EXCEPT !.github = token[f]] \in Contents
  BY <1>1, <1>2 DEF Contents
<1> QED BY <1>1, <1>3 DEF Edited

(* Each step preserves the shapes.                                          *)
LEMMA NextShapes == TicketInv /\ [Next]_vars => Shapes'
<1> SUFFICES ASSUME TicketInv, [Next]_vars PROVE Shapes'
  OBVIOUS
<1> USE LoginAssumption DEF TicketInv
<1>1. ASSUME NEW h \in Handlers, Receive(h) PROVE Shapes'
  BY <1>1 DEF Receive, Shapes, TypeOK, Tasks, Ops, fileVars
<1>2. ASSUME NEW h \in Handlers, NEW k \in Kinds, NEW i \in Fresh, Mint(h, k, i),
             task[h].flow \in Flows,
             net' = net \/ net' = net \cup {Request("callback", task[h].flow, i)}
      PROVE  Shapes'
  <2>1. i \in Ids /\ i \notin DOMAIN store[k] /\ owner[i] = None
    BY <1>2 DEF Fresh, OneLife
  <2>2. /\ DOMAIN store' = Kinds
        /\ \A l \in Kinds :
             /\ store'[l] \in [DOMAIN store'[l] -> Nat]
             /\ DOMAIN store'[l] \subseteq Ids /\ Cardinality(DOMAIN store'[l]) <= MaxEntries
    BY <1>2, <2>1, MintShapes
  <2>3. task' \in [Handlers -> Tasks] /\ \A g \in Handlers : task'[g].now <= clock'
    BY <1>2 DEF Mint, Idle, Shapes, Tasks
  <2>4. net' \subseteq [op : Ops, flow : Flows, id : Ids \cup {None}]
    BY <1>2, <2>1 DEF Request, Shapes, Ops
  <2>5. TypeOK'
    BY <1>2, <2>1, <2>2 DEF Mint, Shapes, TypeOK, fileVars
  <2> QED BY <1>2, <2>2, <2>3, <2>4, <2>5 DEF Mint, Shapes, fileVars
<1>3. ASSUME NEW h \in Handlers, Challenge(h) PROVE Shapes'
  BY <1>2, <1>3 DEF Challenge, Ownership, Kinds
<1>4. ASSUME NEW h \in Handlers, Start(h) PROVE Shapes'
  BY <1>2, <1>4 DEF Start, Ownership, Kinds
<1>5. ASSUME NEW h \in Handlers, Verify(h) PROVE Shapes'
  <2>1. task[h].id \in Ids
    BY <1>5 DEF Verify, Ownership
  <2>2. /\ DOMAIN store' = Kinds
        /\ \A l \in Kinds :
             /\ store'[l] \in [DOMAIN store'[l] -> Nat]
             /\ DOMAIN store'[l] \subseteq Ids /\ Cardinality(DOMAIN store'[l]) <= MaxEntries
    BY <1>5, ConsumedShape DEF Verify, Kinds
  <2>3. task' \in [Handlers -> Tasks] /\ \A g \in Handlers : task'[g].now <= clock'
    BY <1>5 DEF Verify, Idle, Shapes, Tasks
  <2>4. granted' \in [Ids -> Nat] /\ accepted' \subseteq Ids
    BY <1>5, <2>1 DEF Verify, Grant, Shapes, TypeOK
  <2>5. TypeOK'
    BY <1>5, <2>2, <2>4 DEF Verify, Shapes, TypeOK, fileVars
  <2> QED BY <1>5, <2>2, <2>3, <2>5 DEF Verify, Shapes, fileVars
<1>6. ASSUME NEW h \in Handlers, Callback(h) PROVE Shapes'
  <2>1. task[h].id \in Ids
    BY <1>6 DEF Callback, Ownership
  <2>2. /\ DOMAIN store' = Kinds
        /\ \A l \in Kinds :
             /\ store'[l] \in [DOMAIN store'[l] -> Nat]
             /\ DOMAIN store'[l] \subseteq Ids /\ Cardinality(DOMAIN store'[l]) <= MaxEntries
    BY <1>6, ConsumedShape DEF Callback, Kinds
  <2>3. task' \in [Handlers -> Tasks] /\ \A g \in Handlers : task'[g].now <= clock'
    BY <1>6 DEF Callback, Idle, Shapes, Tasks
  <2>4. accepted' \subseteq Ids
    BY <1>6, <2>1 DEF Callback, Shapes, TypeOK
  <2>5. TypeOK'
    BY <1>6, <2>2, <2>4 DEF Callback, Shapes, TypeOK, fileVars
  <2> QED BY <1>6, <2>2, <2>3, <2>5 DEF Callback, Shapes, fileVars
<1>7. ASSUME NEW h \in Handlers, Exchange(h) PROVE Shapes'
  <2>1. task[h].id \in Ids
    BY <1>7 DEF Exchange, Ownership
  <2>2. task' \in [Handlers -> Tasks] /\ \A g \in Handlers : task'[g].now <= clock'
    BY <1>7 DEF Exchange, Idle, Shapes, Tasks
  <2>3. granted' \in [Ids -> Nat]
    BY <1>7, <2>1 DEF Exchange, Grant, Shapes, TypeOK
  <2>4. TypeOK'
    BY <1>7, <2>3 DEF Exchange, Shapes, TypeOK, fileVars
  <2> QED BY <1>7, <2>2, <2>4 DEF Exchange, Shapes, fileVars
<1>8. ASSUME Restart PROVE Shapes'
  <2>1. \A k \in Kinds : /\ DOMAIN store'[k] = {}
                         /\ store'[k] \in [DOMAIN store'[k] -> Nat]
                         /\ Cardinality(DOMAIN store'[k]) = 0
    BY <1>8, FS_EmptySet DEF Restart
  <2>2. TypeOK'
    BY <1>8, <2>1 DEF Restart, Shapes, TypeOK, fileVars
  <2> QED BY <1>8, <2>1, <2>2 DEF Restart, Shapes, Tasks, Idle, fileVars
<1>9. ASSUME Tick PROVE Shapes'
  <2>1. TypeOK'
    BY <1>9 DEF Tick, Shapes, TypeOK, serverVars, fileVars
  <2> QED BY <1>9, <2>1 DEF Tick, Shapes, Tasks, serverVars, fileVars
<1>10. ASSUME NEW f \in Flows, Ask(f) \/ Listen(f) \/ Sign(f) PROVE Shapes'
  <2>1. net' \subseteq [op : Ops, flow : Flows, id : Ids \cup {None}]
    BY <1>10 DEF Ask, Listen, Sign, Request, Shapes, Ops, Ownership
  <2>2. TypeOK'
    BY <1>10 DEF Ask, Listen, Sign, Goto, Shapes, TypeOK, Waiting, serverVars, fileVars
  <2> QED BY <1>10, <2>1, <2>2 DEF Ask, Listen, Sign, Shapes, serverVars, fileVars
<1>11. ASSUME NEW f \in Flows, Arrive(f) \/ StartLogout(f) \/ GiveUp(f) \/ Kill(f) PROVE Shapes'
  <2>1. TypeOK'
    BY <1>11 DEF Arrive, TokensFor, Accepted, StartLogout, GiveUp, Kill, Goto, Shapes, TypeOK, Ended,
                 Ownership, serverVars, fileVars
  <2> QED BY <1>11, <2>1 DEF Arrive, StartLogout, GiveUp, Kill, Shapes, serverVars, fileVars
<1>12. ASSUME NEW f \in Flows, Read(f) PROVE Shapes'
  <2>1. Edited(f) \in Contents
    BY EditedShape
  <2>2. pc' \in [Flows -> {"start", "read"} \cup Waiting \cup Editing \cup Ended]
    BY <1>12 DEF Read, Goto, Shapes, TypeOK, Editing, Ended
  <2>3. overlap' \in BOOLEAN
    BY <1>12 DEF Read, Shapes, TypeOK
  <2>4. copy' \in [Flows -> Contents]
    BY <1>12, <2>1 DEF Read, Shapes
  <2>5. TypeOK'
    BY <1>12, <2>2, <2>3 DEF Read, Shapes, TypeOK, serverVars
  <2> QED BY <1>12, <2>4, <2>5 DEF Read, Shapes, serverVars
<1>13. ASSUME NEW f \in Flows, ClearTmp(f) \/ CreateTmp(f) \/ WriteTmp(f) \/ Rename(f) PROVE Shapes'
  <2>1. body' \in [Flows \cup {"old"} -> Contents]
    <3>1. CASE CreateTmp(f)
      <4>1. Empty \in Contents
        BY DEF Empty, Contents
      <4>2. body' = body \/ body' = [body EXCEPT ![f] = Empty]
        BY <3>1 DEF CreateTmp
      <4> QED BY <4>1, <4>2 DEF Shapes
    <3>2. CASE WriteTmp(f)
      BY <3>2 DEF WriteTmp, Shapes
    <3> QED BY <1>13, <3>1, <3>2 DEF ClearTmp, Rename, Shapes
  <2>2. pc' \in [Flows -> {"start", "read"} \cup Waiting \cup Editing \cup Ended]
    BY <1>13 DEF ClearTmp, CreateTmp, WriteTmp, Rename, Goto, Shapes, TypeOK, Editing, Ended
  <2>3. {path, tmp}' \subseteq Flows \cup {"old", None}
    BY <1>13 DEF ClearTmp, CreateTmp, WriteTmp, Rename, Shapes, TypeOK
  <2>4. UNCHANGED <<clock, serverVars, net, answers, cmd, port, token, copy, overlap>>
    BY <1>13 DEF ClearTmp, CreateTmp, WriteTmp, Rename
  <2>5. TypeOK'
    BY <2>2, <2>3, <2>4 DEF Shapes, TypeOK, serverVars
  <2> QED BY <2>1, <2>4, <2>5 DEF Shapes, serverVars
<1>14. CASE UNCHANGED vars
  BY <1>14 DEF vars, serverVars, fileVars, Shapes, TypeOK
<1> QED
  BY <1>1, <1>3, <1>4, <1>5, <1>6, <1>7, <1>8, <1>9, <1>10, <1>11, <1>12, <1>13, <1>14
  DEF Next, Serve, Step

-----------------------------------------------------------------------------
(* Tickets.                                                                 *)

(* What a mint does to the life of ids.                                     *)
LEMMA MintLife ==
  ASSUME TicketInv, NEW h \in Handlers, NEW k \in Kinds, NEW i \in Fresh, Mint(h, k, i),
         task[h].flow \in Flows
  PROVE  /\ i \in Ids /\ owner[i] = None /\ i \notin accepted
         /\ \A l \in Kinds : i \notin DOMAIN store[l]
         /\ \A l \in Kinds : DOMAIN store'[l] \subseteq DOMAIN store[l] \cup (IF l = k THEN {i} ELSE {})
         /\ i \in DOMAIN store'[k]
         /\ owner' = [owner EXCEPT ![i] = task[h].flow]
         /\ task' = [task EXCEPT ![h] = Idle]
         /\ UNCHANGED <<granted, accepted, token>>
<1>1. i \in Ids /\ owner[i] = None /\ i \notin accepted /\ \A l \in Kinds : i \notin DOMAIN store[l]
  BY DEF Fresh, TicketInv, OneLife
<1>2. Shapes
  BY DEF TicketInv
<1>3. /\ i \in DOMAIN store'[k] /\ DOMAIN store'[k] \subseteq DOMAIN store[k] \cup {i}
      /\ \A l \in Kinds \ {k} : store'[l] = store[l]
  BY <1>1, <1>2, MintShapes
<1> QED BY <1>1, <1>3 DEF Mint

(* The CLI touches nothing of the server's.                                 *)
LEMMA CliKeepsServer ==
  ASSUME NEW f \in Flows, Step(f) \/ Kill(f)
  PROVE  UNCHANGED serverVars
BY DEF Step, Ask, Sign, Listen, StartLogout, Arrive, GiveUp, Read, ClearTmp, CreateTmp, WriteTmp,
       Rename, Kill

(* Each step keeps the life of every id, and the holders of tickets apart.  *)
LEMMA NextOneLife == TicketInv /\ [Next]_vars => OneLife' /\ OneHolder'
<1> SUFFICES ASSUME TicketInv, [Next]_vars PROVE OneLife' /\ OneHolder'
  OBVIOUS
<1>0. /\ granted \in [Ids -> Nat] /\ accepted \subseteq Ids /\ task \in [Handlers -> Tasks]
      /\ owner \in [Ids -> Flows \cup {None}] /\ DOMAIN store = Kinds
  BY DEF TicketInv, Shapes, TypeOK
<1>00. OneLife /\ OneHolder /\ Ownership /\ Shapes
  BY DEF TicketInv
<1>1. ASSUME NEW h \in Handlers, Receive(h) PROVE OneLife' /\ OneHolder'
  <2>1. task'[h].op # "exchange" /\ \A g \in Handlers \ {h} : task'[g] = task[g]
    BY <1>0, <1>00, <1>1 DEF Receive, Shapes, Ops
  <2> QED BY <1>00, <1>1, <2>1 DEF Receive, OneLife, OneHolder
<1>2. ASSUME NEW h \in Handlers, NEW k \in Kinds, NEW i \in Fresh, Mint(h, k, i), task[h].flow \in Flows
      PROVE  OneLife' /\ OneHolder'
  <2>1. OneLife'
    BY <1>0, <1>00, <1>2, MintLife, LoginAssumption DEF OneLife, Kinds
  <2>2. OneHolder'
    BY <1>0, <1>00, <1>2, MintLife DEF OneHolder, Idle
  <2> QED BY <2>1, <2>2
<1>3. ASSUME NEW h \in Handlers, Challenge(h) \/ Start(h) PROVE OneLife' /\ OneHolder'
  BY <1>00, <1>2, <1>3 DEF Challenge, Start, Ownership, Kinds
<1>4. ASSUME NEW h \in Handlers, Verify(h) PROVE OneLife' /\ OneHolder'
  <2> DEFINE i == task[h].id
  <2>1. i \in Ids /\ owner[i] # None
    BY <1>00, <1>4, LoginAssumption DEF Verify, Ownership
  <2>2. /\ DOMAIN store'["admin"] = DOMAIN store["admin"] \ {i}
        /\ store'["github"] = store["github"]
    BY <1>00, <1>4, ConsumedShape DEF Verify, Kinds
  <2>3. /\ accepted' = accepted \/ (accepted' = accepted \cup {i} /\ i \in DOMAIN store["admin"])
        /\ granted' # granted => i \in DOMAIN store["admin"] /\ i \in accepted' /\ granted' = [granted EXCEPT ![i] = @ + 1]
    BY <1>4 DEF Verify, Usable, Grant
  <2>4. \A j \in Ids : granted'[j] = IF granted' # granted /\ j = i THEN granted[j] + 1 ELSE granted[j]
    BY <1>0, <2>1, <2>3
  <2>5. OneLife'
    <3> SUFFICES ASSUME NEW j \in Ids
                 PROVE  /\ owner'[j] = None => j \notin accepted' /\ \A k \in Kinds : j \notin DOMAIN store'[k]
                        /\ j \in accepted' => \A k \in Kinds : j \notin DOMAIN store'[k]
                        /\ j \notin DOMAIN store'["admin"] \/ j \notin DOMAIN store'["github"]
                        /\ granted'[j] <= 1
                        /\ granted'[j] # 0 => j \in accepted'
      BY DEF OneLife
    <3>1. owner' = owner
      BY <1>4 DEF Verify
    <3> QED BY <1>0, <1>00, <2>1, <2>2, <2>3, <2>4, <3>1 DEF OneLife, Kinds
  <2>6. task' = [task EXCEPT ![h] = Idle]
    BY <1>4 DEF Verify
  <2>7. OneHolder'
    BY <1>0, <1>00, <2>1, <2>3, <2>4, <2>6 DEF OneHolder, OneLife, Idle, Kinds
  <2> QED BY <2>5, <2>7
<1>5. ASSUME NEW h \in Handlers, Callback(h) PROVE OneLife' /\ OneHolder'
  <2> DEFINE i == task[h].id
  <2>1. i \in Ids /\ owner[i] # None
    BY <1>00, <1>5, LoginAssumption DEF Callback, Ownership
  <2>2. /\ DOMAIN store'["github"] = DOMAIN store["github"] \ {i}
        /\ store'["admin"] = store["admin"]
    BY <1>00, <1>5, ConsumedShape DEF Callback, Kinds
  <2>3. /\ accepted' = accepted \/ (accepted' = accepted \cup {i} /\ i \in DOMAIN store["github"])
        /\ task'[h].op = "exchange" => i \in DOMAIN store["github"] /\ i \in accepted' /\ task'[h].id = i
        /\ \A g \in Handlers \ {h} : task'[g] = task[g]
    BY <1>0, <1>5 DEF Callback, Usable, Idle, Tasks
  <2>4. UNCHANGED <<owner, granted>>
    BY <1>5 DEF Callback
  <2>5. OneLife'
    BY <1>0, <1>00, <2>1, <2>2, <2>3, <2>4 DEF OneLife, Kinds
  <2>6. OneHolder'
    BY <1>0, <1>00, <2>1, <2>3, <2>4 DEF OneHolder, OneLife, Kinds
  <2> QED BY <2>5, <2>6
<1>6. ASSUME NEW h \in Handlers, Exchange(h) PROVE OneLife' /\ OneHolder'
  <2> DEFINE i == task[h].id
  <2>1. i \in Ids /\ i \in accepted /\ granted[i] = 0
    BY <1>00, <1>6 DEF Exchange, Ownership, OneHolder
  <2>2. granted' = granted \/ granted' = [granted EXCEPT ![i] = @ + 1]
    BY <1>6 DEF Exchange, Grant
  <2>3. \A j \in Ids : granted'[j] = granted[j] \/ (j = i /\ granted'[j] = 1)
    BY <1>0, <2>1, <2>2
  <2>4. UNCHANGED <<owner, accepted, store>> /\ task' = [task EXCEPT ![h] = Idle]
    BY <1>6 DEF Exchange
  <2>5. OneLife'
    BY <1>0, <1>00, <2>1, <2>3, <2>4 DEF OneLife
  <2>6. OneHolder'
    BY <1>0, <1>00, <1>6, <2>1, <2>3, <2>4 DEF OneHolder, Idle, Exchange
  <2> QED BY <2>5, <2>6
<1>7. ASSUME Restart PROVE OneLife' /\ OneHolder'
  BY <1>00, <1>7 DEF Restart, OneLife, OneHolder, Idle, Kinds
<1>8. ASSUME Tick \/ UNCHANGED vars \/ (\E f \in Flows : Step(f) \/ Kill(f)) PROVE OneLife' /\ OneHolder'
  <2>1. UNCHANGED serverVars
    BY <1>8, CliKeepsServer DEF Tick, vars
  <2> QED BY <1>00, <2>1 DEF serverVars, OneLife, OneHolder
<1> QED BY <1>1, <1>3, <1>4, <1>5, <1>6, <1>7, <1>8 DEF Next, Serve

(* An owner, once an id has one, is the owner for ever.                     *)
LEMMA OwnerStays ==
  ASSUME TicketInv, [Next]_vars, NEW i \in Ids, owner[i] # None
  PROVE  owner'[i] = owner[i]
<1>1. CASE \E h \in Handlers : Challenge(h) \/ Start(h)
  BY <1>1 DEF Challenge, Start, Mint, Fresh, TicketInv, Shapes, TypeOK
<1>2. CASE \E h \in Handlers : Receive(h) \/ Verify(h) \/ Callback(h) \/ Exchange(h)
  BY <1>2 DEF Receive, Verify, Callback, Exchange
<1>3. CASE Restart \/ Tick \/ UNCHANGED vars \/ \E f \in Flows : Step(f) \/ Kill(f)
  BY <1>3, CliKeepsServer DEF Restart, Tick, vars, serverVars
<1> QED BY <1>1, <1>2, <1>3 DEF Next, Serve

(* Each step keeps everybody speaking of the flow that owns the id.         *)
LEMMA NextOwnership == TicketInv /\ [Next]_vars => Ownership'
<1> SUFFICES ASSUME TicketInv, [Next]_vars PROVE Ownership'
  OBVIOUS
<1> USE LoginAssumption
<1>1. /\ OneLife /\ OneHolder /\ Ownership /\ Shapes
      /\ task \in [Handlers -> Tasks] /\ owner \in [Ids -> Flows \cup {None}]
      /\ token \in [Flows -> Ids \cup {None}]
      /\ net \subseteq [op : Ops, flow : Flows, id : Ids \cup {None}]
  BY DEF TicketInv, Shapes, TypeOK
<1>2. \A i \in Ids : owner[i] # None => owner'[i] = owner[i]
  BY OwnerStays
<1> DEFINE NetOwned == \A r \in net : r.op \in {"verify", "callback"} => r.id \in Ids /\ owner[r.id] = r.flow
           TaskOwned ==
             \A h \in Handlers :
               /\ task[h].op \in {"challenge", "start"} => task[h].flow \in Flows
               /\ task[h].op \in {"verify", "callback", "exchange"} =>
                    task[h].id \in Ids /\ task[h].flow \in Flows /\ owner[task[h].id] = task[h].flow
           AnswerOwned ==
             \A a \in answers :
               /\ a.id \in Ids
               /\ a.op \in {"challenged", "token"} => a.to \in Flows /\ owner[a.id] = a.to
               /\ a.op = "redirect" => a.nonce = owner[a.id] /\ a.nonce \in Flows
               /\ a.op \in {"challenged", "token", "redirect"}
<1>3. NetOwned /\ TaskOwned /\ AnswerOwned /\ OwnToken
  BY <1>1 DEF Ownership
<1>4. \A r \in net : r.flow \in Flows
  BY <1>1
<1>5. ASSUME NEW h \in Handlers, NEW k \in Kinds, NEW i \in Fresh, Mint(h, k, i), task[h].flow \in Flows,
             \/ net' = net /\ answers' = answers \cup {[op |-> "challenged", to |-> task[h].flow, id |-> i]}
             \/ net' = net \cup {Request("callback", task[h].flow, i)} /\ answers' = answers
      PROVE  Ownership'
  <2>1. /\ i \in Ids /\ owner'[i] = task[h].flow
        /\ task' = [task EXCEPT ![h] = Idle] /\ token' = token
    BY <1>1, <1>5, MintLife
  <2>2. NetOwned'
    BY <1>2, <1>3, <1>4, <1>5, <2>1 DEF Request
  <2>3. TaskOwned'
    BY <1>1, <1>2, <1>3, <2>1 DEF Idle
  <2>4. AnswerOwned'
    BY <1>2, <1>3, <1>5, <2>1
  <2>5. OwnToken'
    BY <1>1, <1>2, <1>3, <2>1 DEF OwnToken, OwnerOf
  <2> QED BY <2>2, <2>3, <2>4, <2>5 DEF Ownership
<1>6. ASSUME NEW h \in Handlers, Challenge(h) \/ Start(h) PROVE Ownership'
  BY <1>3, <1>5, <1>6 DEF Challenge, Start, Kinds
<1>7. ASSUME NEW h \in Handlers, Receive(h) PROVE Ownership'
  <2>1. /\ task' \in [Handlers -> Tasks]
        /\ \A g \in Handlers \ {h} : task'[g] = task[g]
        /\ \E r \in net : task'[h].op = r.op /\ task'[h].flow = r.flow /\ task'[h].id = r.id
        /\ UNCHANGED <<owner, net, answers, token>>
    BY <1>1, <1>7, NextShapes DEF Receive, Shapes
  <2>2. TaskOwned'
    BY <1>1, <1>3, <1>4, <2>1 DEF Ops
  <2>3. NetOwned' /\ AnswerOwned' /\ OwnToken'
    BY <1>3, <2>1 DEF OwnToken, OwnerOf
  <2> QED BY <2>2, <2>3 DEF Ownership
<1>8. ASSUME NEW h \in Handlers, Verify(h) \/ Callback(h) \/ Exchange(h) PROVE Ownership'
  <2> DEFINE i == task[h].id
  <2>1. i \in Ids /\ task[h].flow \in Flows /\ owner[i] = task[h].flow
    BY <1>3, <1>8 DEF Verify, Callback, Exchange
  <2>2. UNCHANGED <<owner, net, token>>
    BY <1>8 DEF Verify, Callback, Exchange
  <2>3. \/ answers' = answers
        \/ answers' = answers \cup {[op |-> "token", to |-> task[h].flow, id |-> i]}
        \/ answers' = answers \cup {[op |-> "redirect", to |-> port[OwnerOf(i)], nonce |-> OwnerOf(i), id |-> i]}
    BY <1>8 DEF Verify, Callback, Exchange
  <2>4. AnswerOwned'
    BY <1>3, <2>1, <2>2, <2>3 DEF OwnerOf
  <2>5. /\ \A g \in Handlers \ {h} : task'[g] = task[g]
        /\ task'[h] = Idle \/ (task'[h].op = "exchange" /\ task'[h].id = i /\ task'[h].flow = task[h].flow)
    BY <1>1, <1>8 DEF Verify, Callback, Exchange, Tasks
  <2>6. TaskOwned'
    BY <1>3, <2>1, <2>2, <2>5 DEF Idle
  <2>7. NetOwned' /\ OwnToken'
    BY <1>3, <2>2 DEF OwnToken, OwnerOf
  <2> QED BY <2>4, <2>6, <2>7 DEF Ownership
<1>9. ASSUME Restart \/ Tick \/ UNCHANGED vars PROVE Ownership'
  <2>1. UNCHANGED <<owner, net, answers, token>>
    BY <1>9 DEF Restart, Tick, vars, serverVars
  <2>2. \A h \in Handlers : task'[h] = task[h] \/ task'[h] = Idle
    BY <1>9 DEF Restart, Tick, vars, serverVars
  <2>3. TaskOwned'
    BY <1>3, <2>1, <2>2 DEF Idle
  <2>4. NetOwned' /\ AnswerOwned' /\ OwnToken'
    BY <1>3, <2>1 DEF OwnToken, OwnerOf
  <2> QED BY <2>3, <2>4 DEF Ownership
<1>10. ASSUME NEW f \in Flows, Step(f) \/ Kill(f) PROVE Ownership'
  <2>1. UNCHANGED serverVars
    BY <1>10, CliKeepsServer
  <2>2. TaskOwned'
    BY <1>3, <2>1 DEF serverVars
  <2>3. CASE Ask(f) \/ Listen(f) \/ Sign(f)
    <3>1. UNCHANGED <<answers, token>>
      BY <2>3 DEF Ask, Listen, Sign
    <3>2. \A r \in net' \ net : r.op \in {"verify", "callback"} => r.id \in Ids /\ owner[r.id] = r.flow
      BY <1>3, <2>3 DEF Ask, Listen, Sign, Request
    <3> QED BY <1>3, <2>1, <2>2, <3>1, <3>2 DEF Ownership, OwnToken, OwnerOf, serverVars
  <2>4. CASE Arrive(f)
    <3>1. PICK a \in TokensFor(f) : token' = [token EXCEPT ![f] = a.id]
      BY <2>4 DEF Arrive
    <3>2. a.id \in Ids /\ owner[a.id] = f
      BY <1>3 DEF TokensFor, Accepted
    <3>3. UNCHANGED <<net, answers>>
      BY <2>4 DEF Arrive
    <3> QED BY <1>1, <1>3, <2>1, <2>2, <3>1, <3>2, <3>3 DEF Ownership, OwnToken, OwnerOf, serverVars
  <2>5. CASE ~(Ask(f) \/ Listen(f) \/ Sign(f) \/ Arrive(f))
    <3>1. UNCHANGED <<net, answers, token>>
      BY <1>10, <2>5 DEF Step, StartLogout, GiveUp, Read, ClearTmp, CreateTmp, WriteTmp, Rename, Kill
    <3> QED BY <1>3, <2>1, <2>2, <3>1 DEF Ownership, OwnToken, OwnerOf, serverVars
  <2> QED BY <2>3, <2>4, <2>5
<1> QED BY <1>6, <1>7, <1>8, <1>9, <1>10 DEF Next, Serve

(* Shapes, ids, holders and owners together are inductive.                  *)
THEOREM TicketInvariant == Spec => []TicketInv
<1>1. TicketInv /\ [Next]_vars => TicketInv'
  BY NextShapes, NextOneLife, NextOwnership DEF TicketInv
<1> QED BY <1>1, InitTicketInv, PTL DEF Spec

(* Every variable of the login keeps its type, and the stores their cap.    *)
THEOREM TypeCorrect == Spec => []TypeOK
<1>1. TicketInv => TypeOK
  BY DEF TicketInv, Shapes
<1> QED BY <1>1, TicketInvariant, PTL

(* However often a verify or a callback is repeated and however handlers    *)
(* interleave, a challenge or a state yields at most one token.             *)
THEOREM OneToken == Spec => []OneTokenPerTicket
<1>1. TicketInv => OneTokenPerTicket
  <2> SUFFICES ASSUME TicketInv, NEW i \in Ids
               PROVE  /\ granted[i] + Cardinality(Holding(i)) <= 1
                      /\ granted[i] + Cardinality(Holding(i)) = 1 => \A k \in Kinds : i \notin DOMAIN store[k]
    BY DEF OneTokenPerTicket
  <2>1. granted[i] \in Nat /\ granted[i] <= 1
    BY DEF TicketInv, Shapes, TypeOK, OneLife
  <2>2. CASE Holding(i) = {}
    BY <2>1, <2>2, FS_EmptySet DEF TicketInv, OneLife
  <2>3. CASE Holding(i) # {}
    <3>1. PICK h \in Handlers : Holding(i) = {h} /\ i \in accepted /\ granted[i] = 0
      BY <2>3 DEF Holding, TicketInv, OneHolder
    <3>2. Cardinality(Holding(i)) = 1
      BY <3>1, FS_Singleton
    <3> QED BY <3>1, <3>2 DEF TicketInv, OneLife
  <2> QED BY <2>2, <2>3
<1> QED BY <1>1, TicketInvariant, PTL

(* A CLI keeps only a token that answers its own request, whoever had its   *)
(* port before.                                                             *)
THEOREM OwnTokens == Spec => []OwnToken
<1>1. TicketInv => OwnToken
  BY DEF TicketInv, Ownership
<1> QED BY <1>1, TicketInvariant, PTL

-----------------------------------------------------------------------------
(* The stores.                                                              *)

(* An entry that leaves a store as another comes in was expired, or the     *)
(* store was full of entries that last at least as long.                    *)
THEOREM FairEviction == Spec => EvictionIsFair
<1> DEFINE Fair ==
      \A k \in Kinds :
        DOMAIN store'[k] \ DOMAIN store[k] # {} =>
          \A v \in DOMAIN store[k] \ DOMAIN store'[k] :
            store[k][v] > clock =>
              /\ Cardinality(DOMAIN store[k]) = MaxEntries
              /\ \A w \in DOMAIN store[k] : store[k][v] <= store[k][w]
<1>1. ASSUME TicketInv, NEW h \in Handlers, NEW k \in Kinds, NEW i \in Fresh, Mint(h, k, i),
             task[h].flow \in Flows
      PROVE  Fair
  <2>1. PICK t \in Minted(store[k], i, task[h].now) : store' = [store EXCEPT ![k] = t]
    BY <1>1 DEF Mint
  <2>2. /\ DOMAIN store[k] \in SUBSET Ids /\ store[k] \in [DOMAIN store[k] -> Nat]
        /\ Cardinality(DOMAIN store[k]) <= MaxEntries /\ DOMAIN store = Kinds
        /\ task[h].now \in Nat /\ clock \in Nat /\ task[h].now <= clock
    BY <1>1 DEF TicketInv, Shapes, TypeOK, Tasks
  <2>3. i \in Ids /\ i \notin DOMAIN store[k]
    BY <1>1, MintLife
  <2>4. \A v \in DOMAIN store[k] \ DOMAIN t :
          store[k][v] > task[h].now =>
            /\ Cardinality(DOMAIN store[k]) = MaxEntries
            /\ \A w \in DOMAIN store[k] : store[k][v] <= store[k][w]
    BY <2>2, <2>3, MintedStore
  <2>5. store'[k] = t /\ \A l \in Kinds \ {k} : store'[l] = store[l]
    BY <2>1, <2>2
  <2> QED BY <2>2, <2>4, <2>5
<1>2. ASSUME TicketInv, NEW h \in Handlers, Challenge(h) \/ Start(h) PROVE Fair
  BY <1>1, <1>2 DEF Challenge, Start, TicketInv, Ownership, Kinds
<1>3. ASSUME TicketInv, NEW h \in Handlers, Verify(h) \/ Callback(h) PROVE Fair
  <2>1. \A k \in Kinds : DOMAIN store'[k] \subseteq DOMAIN store[k]
    BY <1>3, ConsumedShape DEF Verify, Callback, TicketInv, Kinds
  <2> QED BY <2>1
<1>4. ASSUME Next, ~\E h \in Handlers : Challenge(h) \/ Start(h) \/ Verify(h) \/ Callback(h)
      PROVE  Fair
  <2>1. store' = store \/ \A k \in Kinds : DOMAIN store'[k] = {}
    BY <1>4, CliKeepsServer DEF Next, Serve, Receive, Exchange, Restart, Tick, serverVars
  <2> QED BY <2>1
<1>5. TicketInv /\ [Next]_vars => [Fair]_vars
  BY <1>2, <1>3, <1>4 DEF Next
<1> QED BY <1>5, TicketInvariant, PTL DEF Spec, EvictionIsFair

(* Each step of the server opens one ticket, accepts one, or loses some.    *)
LEMMA StepImplementsTickets ==
  TicketInv /\ [Next]_vars =>
    [Abstract!TicketsNext]_<<UNION {DOMAIN store[k] : k \in Kinds}, accepted>>
<1> DEFINE open == UNION {DOMAIN store[k] : k \in Kinds}
<1> SUFFICES ASSUME TicketInv, [Next]_vars
             PROVE  Abstract!TicketsNext \/ UNCHANGED <<open, accepted>>
  OBVIOUS
<1>1. open = DOMAIN store["admin"] \cup DOMAIN store["github"]
      /\ open' = DOMAIN store'["admin"] \cup DOMAIN store'["github"]
  BY DEF Kinds
<1>2. ASSUME NEW h \in Handlers, Challenge(h) \/ Start(h) PROVE Abstract!TicketsNext
  <2>1. task[h].flow \in Flows
    BY <1>2 DEF Challenge, Start, TicketInv, Ownership
  <2>2. PICK k \in Kinds, i \in Fresh : Mint(h, k, i)
    BY <1>2 DEF Challenge, Start, Kinds
  <2>3. i \in Ids /\ i \notin open /\ i \notin accepted /\ accepted' = accepted
        /\ i \in open' /\ open' \subseteq open \cup {i}
    BY <1>1, <2>1, <2>2, MintLife DEF Kinds
  <2>4. open' \in {S \cup {i} : S \in SUBSET open}
    <3>1. open' = (open' \ {i}) \cup {i} /\ open' \ {i} \in SUBSET open
      BY <2>3
    <3> HIDE DEF open
    <3> QED BY <3>1
  <2>5. Abstract!Issue(i)
    BY <2>3, <2>4 DEF Abstract!Issue
  <2> QED BY <2>3, <2>5 DEF Abstract!TicketsNext
<1>3. ASSUME NEW h \in Handlers, NEW k \in Kinds,
             store' = [store EXCEPT ![k] = Consumed(@, task[h].id)],
             accepted' = accepted \cup (Usable(store[k], task[h].now) \cap {task[h].id}),
             task[h].id \in Ids
      PROVE  Abstract!TicketsNext
  <2> DEFINE i == task[h].id
  <2>1. /\ DOMAIN store'[k] = DOMAIN store[k] \ {i}
        /\ \A l \in Kinds \ {k} : store'[l] = store[l]
    BY <1>3, ConsumedShape DEF TicketInv
  <2>2. CASE i \in Usable(store[k], task[h].now)
    <3>1. i \in DOMAIN store[k] /\ accepted' = accepted \cup {i}
      BY <1>3, <2>2 DEF Usable
    <3>2. \A l \in Kinds \ {k} : i \notin DOMAIN store[l]
      BY <1>3, <3>1 DEF TicketInv, OneLife, Kinds
    <3>3. i \in open /\ open' = open \ {i}
      BY <1>1, <2>1, <3>1, <3>2 DEF Kinds
    <3>4. \E j \in Ids : Abstract!Accept(j)
      BY <1>3, <3>1, <3>3 DEF Abstract!Accept
    <3> QED BY <3>4 DEF Abstract!TicketsNext
  <2>3. CASE i \notin Usable(store[k], task[h].now)
    <3>1. accepted' = accepted
      BY <1>3, <2>3
    <3>2. open' \in SUBSET open
      BY <1>1, <2>1 DEF Kinds
    <3> QED BY <3>1, <3>2 DEF Abstract!TicketsNext, Abstract!Lose
  <2> QED BY <2>2, <2>3
<1>4. ASSUME NEW h \in Handlers, Verify(h) \/ Callback(h) PROVE Abstract!TicketsNext
  BY <1>3, <1>4 DEF Verify, Callback, TicketInv, Ownership, Kinds
<1>5. ASSUME Restart PROVE Abstract!TicketsNext
  <2>1. open' = {} /\ accepted' = accepted
    BY <1>1, <1>5 DEF Restart, Kinds
  <2> QED BY <2>1 DEF Abstract!TicketsNext, Abstract!Lose
<1>6. ASSUME Tick \/ UNCHANGED vars \/ (\E h \in Handlers : Receive(h) \/ Exchange(h))
             \/ (\E f \in Flows : Step(f) \/ Kill(f))
      PROVE  UNCHANGED <<open, accepted>>
  <2>1. UNCHANGED <<store, accepted>>
    BY <1>6, CliKeepsServer DEF Tick, Receive, Exchange, vars, serverVars
  <2> QED BY <2>1
<1> QED BY <1>2, <1>4, <1>5, <1>6 DEF Next, Serve

(* The two stores together are the abstract one-shot tickets: issued once,  *)
(* accepted at most once and only while open, never back.                   *)
THEOREM TicketsRefined == Spec => ImplementsTickets
<1>1. Init => Abstract!TicketsInit
  <2>1. DOMAIN << >> = {}
    OBVIOUS
  <2>2. Init => accepted = {} /\ \A k \in Kinds : DOMAIN store[k] = {}
    BY <2>1 DEF Init
  <2>3. Init => UNION {DOMAIN store[k] : k \in Kinds} = {}
    BY <2>2
  <2> QED BY <2>2, <2>3 DEF Abstract!TicketsInit
<1> QED BY <1>1, StepImplementsTickets, TicketInvariant, PTL
        DEF Spec, ImplementsTickets, Abstract!TicketsSpec

-----------------------------------------------------------------------------
(* auth.toml.                                                               *)

(* While no two writers have been at the file at once: one writer at most,  *)
(* the file belongs to a flow that is done and is whole, the writer's copy  *)
(* is the edit of what the file still holds, and the temporary file is its  *)
(* own once it has created it.                                              *)
SerialFiles ==
  ~overlap =>
    /\ \A f, g \in Flows : Busy(f) /\ Busy(g) => f = g
    /\ path \in Flows => pc[path] = "done"
    /\ Content.whole
    /\ \A f \in Flows : Busy(f) => copy[f] = Edited(f)
    /\ \A f \in Flows : pc[f] \in {"created", "written"} => tmp = f
    /\ \A f \in Flows : pc[f] = "written" => body[f] = copy[f]

(* A step in which no writer moves keeps all of it.                         *)
LEMMA OthersKeepFiles ==
  ASSUME Shapes, SerialFiles, UNCHANGED <<fileVars, cmd>>,
         \A f \in Flows :
           \/ pc'[f] = pc[f] /\ (Busy(f) => token'[f] = token[f])
           \/ pc[f] # "done" /\ pc'[f] \notin Editing
  PROVE  SerialFiles'
<1> SUFFICES ASSUME ~overlap PROVE SerialFiles'
  BY DEF SerialFiles, fileVars
<1>1. \A f \in Flows : Busy(f)' => Busy(f) /\ pc'[f] = pc[f] /\ token'[f] = token[f]
  BY DEF Busy
<1>2. Content' = Content
  BY DEF Content, fileVars
<1>3. \A f \in Flows : Busy(f)' => Edited(f)' = Edited(f)
  BY <1>1, <1>2 DEF Edited
<1>4. path' \in Flows => pc'[path'] = "done"
  BY DEF SerialFiles, fileVars
<1>5. \A f \in Flows : pc'[f] \in {"created", "written"} => Busy(f)' /\ pc[f] = pc'[f]
  BY <1>1 DEF Busy, Editing
<1> QED BY <1>1, <1>2, <1>3, <1>4, <1>5 DEF SerialFiles, fileVars

(* Every step keeps the invariant of the file.                             *)
LEMMA NextSerialFiles == Shapes /\ SerialFiles /\ [Next]_vars => SerialFiles'
<1> SUFFICES ASSUME Shapes, SerialFiles, [Next]_vars PROVE SerialFiles'
  OBVIOUS
<1> USE LoginAssumption
<1>0. /\ pc \in [Flows -> {"start", "read"} \cup Waiting \cup Editing \cup Ended]
      /\ token \in [Flows -> Ids \cup {None}] /\ path \in Flows \cup {"old", None}
      /\ body \in [Flows \cup {"old"} -> Contents] /\ copy \in [Flows -> Contents]
  BY DEF Shapes, TypeOK
<1>1. CASE Restart \/ Tick \/ UNCHANGED vars \/ \E h \in Handlers : Serve(h)
  <2>1. UNCHANGED <<fileVars, cmd, pc, token>>
    BY <1>1 DEF Restart, Tick, vars, Serve, Receive, Challenge, Start, Mint, Verify, Callback, Exchange
  <2> QED BY <2>1, OthersKeepFiles
<1>2. ASSUME NEW f \in Flows, Ask(f) \/ Sign(f) \/ Listen(f) \/ StartLogout(f) \/ GiveUp(f) \/ Kill(f)
      PROVE  SerialFiles'
  <2>1. UNCHANGED <<fileVars, cmd, token>>
    BY <1>2 DEF Ask, Sign, Listen, StartLogout, GiveUp, Kill
  <2>2. /\ \A g \in Flows \ {f} : pc'[g] = pc[g]
        /\ pc[f] # "done" /\ pc'[f] \notin Editing
    BY <1>0, <1>2 DEF Ask, Sign, Listen, StartLogout, GiveUp, Kill, Goto, Editing, Waiting
  <2> QED BY <2>1, <2>2, OthersKeepFiles
<1>3. ASSUME NEW f \in Flows, Arrive(f) PROVE SerialFiles'
  <2>1. UNCHANGED <<fileVars, cmd>>
    BY <1>3 DEF Arrive
  <2>2. pc[f] \in {"listening", "verifying"}
    BY <1>3 DEF Arrive, TokensFor
  <2>3. /\ \A g \in Flows \ {f} : pc'[g] = pc[g] /\ token'[g] = token[g]
        /\ pc'[f] \in {"read", "done"}
    BY <1>0, <1>3 DEF Arrive, Goto
  <2>4. \A g \in Flows : \/ pc'[g] = pc[g] /\ (Busy(g) => token'[g] = token[g])
                         \/ pc[g] # "done" /\ pc'[g] \notin Editing
    BY <2>2, <2>3 DEF Editing
  <2> QED BY <2>1, <2>4, OthersKeepFiles
<1>4. ASSUME NEW f \in Flows, Read(f) PROVE SerialFiles'
  <2>1. UNCHANGED <<path, tmp, body, cmd, token>> /\ pc[f] = "read"
    BY <1>4 DEF Read
  <2>2. \A g \in Flows \ {f} : pc'[g] = pc[g]
    BY <1>0, <1>4 DEF Read, Goto
  <2>3. CASE pc'[f] # "editing"
    <3>1. UNCHANGED <<copy, overlap>> /\ pc'[f] \notin Editing
      BY <1>0, <1>4, <2>3 DEF Read, Goto, Editing
    <3> QED BY <2>1, <2>2, <3>1, OthersKeepFiles DEF fileVars
  <2>4. CASE pc'[f] = "editing"
    <3>1. copy' = [copy EXCEPT ![f] = Edited(f)] /\ overlap' = (overlap \/ \E g \in Flows : Busy(g))
      BY <1>0, <1>4, <2>4 DEF Read, Goto
    <3>2. SUFFICES ASSUME ~overlap' PROVE SerialFiles'
      BY DEF SerialFiles
    <3>3. ~overlap /\ \A g \in Flows : ~Busy(g)
      BY <3>1, <3>2
    <3>4. \A g \in Flows : Busy(g)' => g = f
      BY <2>2, <3>3 DEF Busy
    <3>5. Content' = Content /\ Edited(f)' = Edited(f)
      BY <2>1 DEF Content, Edited
    <3>6. path' \in Flows => pc'[path'] = "done"
      BY <2>1, <2>2, <3>3 DEF SerialFiles
    <3>7. \A g \in Flows : pc'[g] \notin {"created", "written"}
      BY <2>2, <2>4, <3>3 DEF Busy, Editing
    <3>8. copy'[f] = Edited(f)'
      BY <1>0, <3>1, <3>5
    <3> QED BY <3>3, <3>4, <3>5, <3>6, <3>7, <3>8 DEF SerialFiles
  <2> QED BY <2>3, <2>4
<1>5. ASSUME NEW f \in Flows, ClearTmp(f) \/ CreateTmp(f) \/ WriteTmp(f) PROVE SerialFiles'
  <2>1. SUFFICES ASSUME ~overlap' PROVE SerialFiles'
    BY DEF SerialFiles
  <2>2. ~overlap /\ Busy(f) /\ UNCHANGED <<cmd, token, path, copy, overlap>>
    BY <1>5, <2>1 DEF ClearTmp, CreateTmp, WriteTmp, Busy, Editing
  <2>3. \A g \in Flows \ {f} : ~Busy(g) /\ pc'[g] = pc[g]
    BY <1>0, <1>5, <2>2 DEF ClearTmp, CreateTmp, WriteTmp, Goto, SerialFiles
  <2>4. path # f
    BY <2>2 DEF SerialFiles, Busy, Editing
  <2>5. \A x \in Flows \cup {"old"} : x # f => body'[x] = body[x]
    BY <1>0, <1>5 DEF ClearTmp, CreateTmp, WriteTmp
  <2>6. Content' = Content /\ Edited(f)' = Edited(f)
    BY <1>0, <2>2, <2>4, <2>5 DEF Content, Edited
  <2>7. path' \in Flows => pc'[path'] = "done"
    BY <2>2, <2>3, <2>4 DEF SerialFiles
  <2>8. /\ pc'[f] \in {"created", "written"} => tmp' = f
        /\ pc'[f] = "written" => body'[f] = copy'[f]
    BY <1>0, <1>5, <2>2 DEF ClearTmp, CreateTmp, WriteTmp, Goto, SerialFiles
  <2>9. \A g \in Flows : Busy(g)' => g = f
    BY <2>3 DEF Busy
  <2>10. \A g \in Flows : pc'[g] \in {"created", "written"} => g = f
    BY <2>9 DEF Busy, Editing
  <2> QED BY <2>2, <2>6, <2>7, <2>8, <2>9, <2>10 DEF SerialFiles
<1>6. ASSUME NEW f \in Flows, Rename(f) PROVE SerialFiles'
  <2>1. SUFFICES ASSUME ~overlap' PROVE SerialFiles'
    BY DEF SerialFiles
  <2>2. ~overlap /\ Busy(f) /\ pc[f] = "written" /\ UNCHANGED <<cmd, token, body, copy, overlap>>
    BY <1>6, <2>1 DEF Rename, Busy, Editing
  <2>3. tmp = f /\ body[f] = copy[f] /\ copy[f] = Edited(f) /\ Content.whole
    BY <2>2 DEF SerialFiles
  <2>4. path' = f /\ tmp' = None /\ pc' = [pc EXCEPT ![f] = "done"]
    BY <1>6, <2>3 DEF Rename, Goto
  <2>5. \A g \in Flows : ~Busy(g)'
    BY <1>0, <2>2, <2>4 DEF SerialFiles, Busy, Editing
  <2>6. Content'.whole
    <3>1. Content' = Edited(f)
      BY <2>2, <2>3, <2>4 DEF Content
    <3>2. Content \in Contents
      BY EditedShape
    <3> QED BY <2>3, <3>1, <3>2 DEF Edited, Contents
  <2>7. pc'[f] = "done"
    BY <1>0, <2>4
  <2> QED BY <2>4, <2>5, <2>6, <2>7 DEF SerialFiles, Busy, Editing
<1> QED BY <1>1, <1>2, <1>3, <1>4, <1>5, <1>6 DEF Next, Step

(* As long as no two writers have been at auth.toml at once it is never     *)
(* half written, and a writer that reports success has put its own section  *)
(* in and left the other as it was.                                         *)
THEOREM SerialWrites == Spec => SerialWritesLand
<1> DEFINE Lands ==
      ~overlap' =>
        /\ Content'.whole
        /\ \A f \in Flows : pc[f] = "written" /\ pc'[f] = "done" =>
             /\ cmd[f] = "admin" => Content'.admin = token[f] /\ Content'.github = Content.github
             /\ cmd[f] # "admin" => Content'.github = token[f] /\ Content'.admin = Content.admin
<1>1. Init => SerialFiles
  <2>1. Init => Content.whole
    BY LoginAssumption DEF Init, Content, Blank, OldFile
  <2>2. Init => path \notin Flows
    BY LoginAssumption DEF Init
  <2> QED BY <2>1, <2>2 DEF Init, SerialFiles, Busy, Editing
<1>2. TicketInv /\ SerialFiles /\ [Next]_vars => SerialFiles'
  BY NextSerialFiles DEF TicketInv
<1>3. ASSUME TicketInv, SerialFiles, SerialFiles', [Next]_vars PROVE Lands
  <2> SUFFICES ASSUME ~overlap', NEW f \in Flows, pc[f] = "written", pc'[f] = "done"
               PROVE  /\ cmd[f] = "admin" => Content'.admin = token[f] /\ Content'.github = Content.github
                      /\ cmd[f] # "admin" => Content'.github = token[f] /\ Content'.admin = Content.admin
    BY <1>3 DEF SerialFiles
  <2>0. Shapes /\ pc \in [Flows -> {"start", "read"} \cup Waiting \cup Editing \cup Ended]
    BY <1>3 DEF TicketInv, Shapes, TypeOK
  <2>1. Rename(f)
    <3>1. \A g \in Flows : Step(g) \/ Kill(g) => \A x \in Flows \ {g} : pc'[x] = pc[x]
      BY <2>0 DEF Step, Ask, Sign, Listen, StartLogout, Arrive, GiveUp, Read, ClearTmp, CreateTmp,
                  WriteTmp, Rename, Kill, Goto
    <3>2. Step(f) => Rename(f)
      BY <2>0 DEF Step, Ask, Sign, Listen, StartLogout, Arrive, TokensFor, GiveUp, Waiting, Read,
                  ClearTmp, CreateTmp, WriteTmp
    <3>3. ~Kill(f)
      BY <2>0 DEF Kill, Goto
    <3>4. ~(Restart \/ Tick \/ UNCHANGED vars \/ \E h \in Handlers : Serve(h))
      BY DEF Restart, Tick, vars, Serve, Receive, Challenge, Start, Mint, Verify, Callback, Exchange
    <3> QED BY <1>3, <3>1, <3>2, <3>3, <3>4 DEF Next
  <2>2. ~overlap /\ tmp = f /\ body[f] = copy[f] /\ copy[f] = Edited(f)
    BY <1>3, <2>1 DEF Rename, SerialFiles, Busy, Editing
  <2>3. Content' = Edited(f)
    BY <2>1, <2>2, LoginAssumption DEF Rename, Content
  <2>4. Content \in Contents
    BY <2>0, EditedShape
  <2> QED BY <2>3, <2>4 DEF Edited, Contents
<1>4. TicketInv /\ SerialFiles /\ SerialFiles' /\ [Next]_vars => [Lands]_vars
  BY <1>3
<1> QED BY <1>1, <1>2, <1>4, TicketInvariant, PTL DEF Spec, SerialWritesLand

-----------------------------------------------------------------------------
(* The administration.                                                     *)

Sources == [keep : Int, retired : Nat \cup {Nil}]
Tokens == [sub : Users \cup Guests, role : Roles, tier : {"admin", "read_uplift"}, exp : Int, secret : Int]
Operations == {"none", "create", "update", "retire", "ingest"}
Stages == Answers \cup Working \cup {"idle", "sent"}
Jobs == [op : Operations, stage : Stages, slug : Slugs \cup {Nil}, keep : Keeps \cup {Nil}, token : Tokens \cup {Nil}]

WellShaped ==
  /\ time \in Nat /\ secret \in Nat
  /\ held \in [Users \cup Guests -> Tokens \cup {Nil}]
  /\ lastAdmin \in [Users -> Nat \cup {Nil}]
  /\ sources \in [Slugs -> Sources \cup {Nil}]
  /\ job \in [Workers -> Jobs]
  /\ \A h \in Workers : job[h].stage # "idle" => job[h].slug \in Slugs
  /\ server.state = "on" => Boots(server.rows)

(* A token that lets an admin through ends within a token's life of the     *)
(* last instant at which the server had its owner as one.                   *)
Recent(ticket) ==
  ticket # Nil /\ CanAdmin(ticket) =>
    /\ ticket.sub \in Users /\ lastAdmin[ticket.sub] # Nil
    /\ ticket.exp <= lastAdmin[ticket.sub] + AdminTtl

TokensRecent ==
  /\ \A u \in Users : lastAdmin[u] # Nil => lastAdmin[u] <= time
  /\ \A u \in Admins(server) : lastAdmin[u] = time
  /\ \A sub \in Users \cup Guests : Recent(held[sub])
  /\ \A h \in Workers : Recent(job[h].token) /\ (job[h].stage = "sent" => job[h].token # Nil)

AuthorityInv == WellShaped /\ TokensRecent

-----------------------------------------------------------------------------
(* Tokens.                                                                  *)

LEMMA QuietShape == Quiet \in Jobs
BY DEF Quiet, Jobs, Operations, Stages

(* Nobody has a token at first.                                            *)
LEMMA InitAuthority == AdministrationInit => AuthorityInv
<1> SUFFICES ASSUME AdministrationInit PROVE AuthorityInv
  OBVIOUS
<1> USE AdministrationAssumption
<1>1. WellShaped
  <2>2. job \in [Workers -> Jobs] /\ \A h \in Workers : job[h].stage = "idle"
    BY QuietShape DEF AdministrationInit, Quiet
  <2>3. server.state # "on"
    BY DEF AdministrationInit, Open
  <2> QED BY <2>2, <2>3 DEF AdministrationInit, WellShaped
<1>2. TokensRecent
  BY DEF AdministrationInit, TokensRecent, Recent, Admins, Open, Quiet
<1> QED BY <1>1, <1>2 DEF AuthorityInv

(* A store that boots has one row of a user, the one that is found first.   *)
LEMMA FirstFinds ==
  ASSUME NEW rows, Boots(rows), NEW u \in Names(rows)
  PROVE  /\ First(rows, u) \in DOMAIN rows
         /\ rows[First(rows, u)].user = u
         /\ \A i \in DOMAIN rows : rows[i].user = u => i = First(rows, u)
<1>1. PICK i \in DOMAIN rows : rows[i].user = u
  BY DEF Names
<1>2. \A j \in DOMAIN rows : rows[j].user = u => j = i
  BY <1>1 DEF Boots
<1> QED BY <1>1, <1>2 DEF First

(* The instants at which users are admins move with the clock.              *)
LEMMA RememberKeeps ==
  ASSUME AuthorityInv, NEW srv, time' \in Nat, time' >= time,
         server' = srv, Remember(srv, time')
  PROVE  /\ lastAdmin' \in [Users -> Nat \cup {Nil}]
         /\ \A u \in Users : lastAdmin'[u] # Nil => lastAdmin'[u] <= time'
         /\ \A u \in Admins(server)' : lastAdmin'[u] = time'
         /\ \A t \in Tokens \cup {Nil} : Recent(t) => Recent(t)'
<1>1. /\ lastAdmin \in [Users -> Nat \cup {Nil}] /\ time \in Nat
      /\ \A u \in Users : lastAdmin[u] # Nil => lastAdmin[u] <= time
  BY DEF AuthorityInv, WellShaped, TokensRecent
<1>2. lastAdmin' = [u \in Users |-> IF u \in Admins(srv) THEN time' ELSE lastAdmin[u]]
  BY DEF Remember
<1>3. Admins(server)' = Admins(srv) /\ Admins(srv) \subseteq Users
  BY DEF Admins
<1>4. lastAdmin' \in [Users -> Nat \cup {Nil}]
      /\ \A u \in Users : lastAdmin'[u] # Nil => lastAdmin'[u] <= time'
  BY <1>1, <1>2
<1>5. \A u \in Users : lastAdmin[u] # Nil => lastAdmin'[u] # Nil /\ lastAdmin'[u] >= lastAdmin[u]
  BY <1>1, <1>2, AdministrationAssumption
<1>6. ASSUME NEW t \in Tokens \cup {Nil}, Recent(t) PROVE Recent(t)'
  <2>1. ASSUME t # Nil, CanAdmin(t)
        PROVE  t.sub \in Users /\ lastAdmin'[t.sub] # Nil /\ t.exp <= lastAdmin'[t.sub] + AdminTtl
    <3>1. t.sub \in Users /\ lastAdmin[t.sub] # Nil /\ t.exp <= lastAdmin[t.sub] + AdminTtl /\ t.exp \in Int
      BY <1>6, <2>1 DEF Recent, Tokens
    <3>2. lastAdmin[t.sub] \in Nat /\ lastAdmin'[t.sub] \in Nat
      BY <1>1, <1>4, <1>5, <3>1
    <3> QED BY <1>5, <3>1, <3>2, AdministrationAssumption
  <2> QED BY <2>1 DEF Recent, CanAdmin
<1> QED BY <1>2, <1>3, <1>4, <1>6

(* A token put in a hand: the hands hold what they held, or it.             *)
LEMMA HeldKeeps ==
  ASSUME AuthorityInv, NEW sub \in Users \cup Guests, NEW ticket \in Tokens, Recent(ticket),
         held' = [held EXCEPT ![sub] = ticket], UNCHANGED <<time, serving, lastAdmin, registry>>
  PROVE  AuthorityInv'
<1>1. WellShaped'
  BY DEF AuthorityInv, WellShaped, serving, registry
<1>2. \A t : Recent(t) => Recent(t)'
  BY DEF Recent, CanAdmin
<1>3. Admins(server)' = Admins(server)
  BY DEF Admins, serving
<1>4. \A s \in Users \cup Guests : held'[s] = ticket \/ held'[s] = held[s]
  BY DEF AuthorityInv, WellShaped
<1>5. TokensRecent'
  BY <1>2, <1>3, <1>4 DEF AuthorityInv, TokensRecent, registry
<1> QED BY <1>1, <1>5 DEF AuthorityInv

(* A row of the registry has its shape before and after each statement.     *)
LEMMA RegistryShape ==
  ASSUME WellShaped, NEW h \in Workers,
         Screen(h) \/ Insert(h) \/ Patch(h) \/ LookUp(h) \/ Retire(h) \/ ReadBack(h) \/ Fail(h)
  PROVE  sources' \in [Slugs -> Sources \cup {Nil}]
<1> USE AdministrationAssumption
<1>1. /\ sources \in [Slugs -> Sources \cup {Nil}] /\ time \in Nat
      /\ job[h].keep \in Keeps \cup {Nil}
  BY DEF WellShaped, Jobs
<1>2. CASE Screen(h) \/ LookUp(h) \/ ReadBack(h) \/ Fail(h)
  BY <1>1, <1>2 DEF Screen, LookUp, ReadBack, Fail
<1>3. CASE Insert(h)
  <2>1. DefaultKeep \in Int
    OBVIOUS
  <2>2. (IF job[h].keep = Nil THEN DefaultKeep ELSE job[h].keep) \in Int
    BY <1>1, <2>1
  <2>3. [keep |-> IF job[h].keep = Nil THEN DefaultKeep ELSE job[h].keep, retired |-> Nil] \in Sources
    BY <2>2 DEF Sources
  <2> QED BY <1>1, <1>3, <2>3 DEF Insert
<1>4. CASE Patch(h)
  <2>1. job[h].slug \in Slugs /\ job[h].keep # Nil /\ sources[job[h].slug] # Nil
        => [sources[job[h].slug] EXCEPT !.keep = job[h].keep] \in Sources
    BY <1>1 DEF Sources
  <2> QED BY <1>1, <1>4, <2>1 DEF Patch, Statement, WellShaped
<1>5. CASE Retire(h)
  <2>1. job[h].slug \in Slugs /\ sources[job[h].slug] # Nil => RetiredRow(sources[job[h].slug]) \in Sources
    BY <1>1 DEF Sources, RetiredRow
  <2> QED BY <1>1, <1>5, <2>1 DEF Retire, Statement, WellShaped
<1> QED BY <1>2, <1>3, <1>4, <1>5

(* Each step keeps the shapes and the recency of every token.               *)
LEMMA NextAuthority == AuthorityInv /\ [AdministrationNext]_administrationVars => AuthorityInv'
<1> SUFFICES ASSUME AuthorityInv, [AdministrationNext]_administrationVars PROVE AuthorityInv'
  OBVIOUS
<1> USE AdministrationAssumption
<1>0. /\ WellShaped /\ TokensRecent
      /\ held \in [Users \cup Guests -> Tokens \cup {Nil}] /\ job \in [Workers -> Jobs]
      /\ sources \in [Slugs -> Sources \cup {Nil}] /\ time \in Nat /\ secret \in Nat
  BY DEF AuthorityInv, WellShaped
<1>1. ASSUME UNCHANGED <<time, serving, held, lastAdmin>>,
             job' \in [Workers -> Jobs],
             sources' \in [Slugs -> Sources \cup {Nil}],
             \A h \in Workers :
               /\ job'[h].token = job[h].token \/ \E sub \in Users \cup Guests : job'[h].token = held[sub]
               /\ job'[h].stage = "sent" => job'[h].token # Nil
               /\ job'[h].stage # "idle" => job'[h].slug \in Slugs
      PROVE  AuthorityInv'
  <2>1. WellShaped'
    BY <1>0, <1>1 DEF WellShaped, serving
  <2>2. \A t : Recent(t) => Recent(t)'
    BY <1>1 DEF Recent, CanAdmin
  <2>3. Admins(server)' = Admins(server)
    BY <1>1 DEF Admins, serving
  <2>4. TokensRecent'
    BY <1>0, <1>1, <2>2, <2>3 DEF TokensRecent
  <2> QED BY <2>1, <2>4 DEF AuthorityInv
<1>2. ASSUME UNCHANGED <<time, serving, held, lastAdmin, registry>> PROVE AuthorityInv'
  BY <1>0, <1>1, <1>2 DEF registry, TokensRecent, WellShaped
<1>3. ASSUME TimePasses PROVE AuthorityInv'
  <2>1. /\ time' \in Nat /\ time' >= time
        /\ UNCHANGED <<serving, held, registry>> /\ Remember(server, time')
    BY <1>0, <1>3 DEF TimePasses
  <2>2. /\ lastAdmin' \in [Users -> Nat \cup {Nil}]
        /\ \A u \in Users : lastAdmin'[u] # Nil => lastAdmin'[u] <= time'
        /\ \A u \in Admins(server)' : lastAdmin'[u] = time'
        /\ \A t \in Tokens \cup {Nil} : Recent(t) => Recent(t)'
    BY <2>1, RememberKeeps DEF serving
  <2>3. WellShaped'
    BY <1>0, <2>1, <2>2 DEF WellShaped, serving, registry
  <2>4. \A h \in Workers : job[h].token \in Tokens \cup {Nil}
    BY <1>0 DEF Jobs
  <2>5. TokensRecent'
    BY <1>0, <2>1, <2>2, <2>4 DEF TokensRecent, registry
  <2> QED BY <2>3, <2>5 DEF AuthorityInv
<1>4. ASSUME NEW rotated \in BOOLEAN, Deploy(rotated) PROVE AuthorityInv'
  <2>1. /\ time' = time /\ UNCHANGED <<held, sources>> /\ Remember(server', time')
        /\ secret' \in Nat /\ job' = [h \in Workers |-> Quiet]
        /\ server' = Booted(userStore)
    BY <1>0, <1>4 DEF Deploy
  <2>2. /\ lastAdmin' \in [Users -> Nat \cup {Nil}]
        /\ \A u \in Users : lastAdmin'[u] # Nil => lastAdmin'[u] <= time'
        /\ \A u \in Admins(server)' : lastAdmin'[u] = time'
        /\ \A t \in Tokens \cup {Nil} : Recent(t) => Recent(t)'
    BY <1>0, <2>1, RememberKeeps
  <2>3. server'.state = "on" => Boots(server'.rows)
    BY <2>1 DEF Booted, Open
  <2>4. Boots(server'.rows) => Boots(server.rows)'
    BY DEF Boots, Prefixed, Roles, Bad
  <2>5. WellShaped'
    BY <1>0, <2>1, <2>2, <2>3, <2>4, QuietShape DEF WellShaped, Quiet
  <2>6. TokensRecent'
    BY <1>0, <2>1, <2>2 DEF TokensRecent, Quiet, Recent
  <2> QED BY <2>5, <2>6 DEF AuthorityInv
<1>5. ASSUME NEW u \in Users, Login(u) PROVE AuthorityInv'
  <2> DEFINE row == UserRow(u)
             ticket == Token(u, row.role, "admin", AdminTtl)
  <2>1. server.state = "on" /\ u \in Names(server.rows) /\ Boots(server.rows)
    BY <1>0, <1>5 DEF Login, Knows, WellShaped
  <2>2. row.user = u /\ row.role \in Roles /\ \E i \in DOMAIN server.rows : row = server.rows[i]
    BY <2>1, FirstFinds DEF UserRow, Boots
  <2>3. ticket \in Tokens
    BY <1>0, <2>2 DEF Token, Tokens, Roles
  <2>4. Recent(ticket)
    <3>1. row.role = "admin" => u \in Admins(server)
      BY <2>1, <2>2 DEF Admins
    <3>2. row.role = "admin" => lastAdmin[u] = time
      BY <1>0, <3>1 DEF TokensRecent
    <3> QED BY <1>0, <3>2 DEF Recent, CanAdmin, Token
  <2>5. held' = [held EXCEPT ![u] = ticket] /\ UNCHANGED <<time, serving, lastAdmin, registry>>
    BY <1>5 DEF Login
  <2> HIDE DEF ticket
  <2> QED BY <1>0, <2>3, <2>4, <2>5, HeldKeeps
<1>6. ASSUME NEW g \in Guests, Uplift(g) PROVE AuthorityInv'
  <2> DEFINE ticket == Token(g, "writer", "read_uplift", GuestTtl)
  <2>1. ticket \in Tokens /\ Recent(ticket)
    BY <1>0 DEF Token, Tokens, Recent, CanAdmin, Roles
  <2>2. held' = [held EXCEPT ![g] = ticket] /\ UNCHANGED <<time, serving, lastAdmin, registry>>
    BY <1>6 DEF Uplift
  <2> HIDE DEF ticket
  <2> QED BY <2>1, <2>2, HeldKeeps
<1>7. ASSUME NEW h \in Workers, NEW sub \in Users \cup Guests, NEW op \in {"create", "update", "retire", "ingest"},
             NEW slug \in Slugs, NEW keep \in Keeps \cup {Nil}, Send(h, sub, op, slug, keep)
      PROVE  AuthorityInv'
  <2>1. [op |-> op, stage |-> "sent", slug |-> slug, keep |-> keep, token |-> held[sub]] \in Jobs
    BY <1>0 DEF Jobs, Operations, Stages
  <2>2. /\ job' = [job EXCEPT ![h] = [op |-> op, stage |-> "sent", slug |-> slug, keep |-> keep, token |-> held[sub]]]
        /\ UNCHANGED <<time, serving, held, lastAdmin, sources>> /\ held[sub] # Nil
    BY <1>7 DEF Send
  <2> QED BY <1>0, <1>1, <2>1, <2>2 DEF TokensRecent, WellShaped
<1>8. ASSUME NEW h \in Workers, Screen(h) \/ Insert(h) \/ Patch(h) \/ LookUp(h) \/ Retire(h) \/ ReadBack(h) \/ Fail(h)
      PROVE  AuthorityInv'
  <2>1. PICK stage \in Answers \cup Working : job' = [job EXCEPT ![h].stage = stage]
    BY <1>8 DEF Screen, Insert, Patch, LookUp, Retire, ReadBack, Fail, To, FirstStage, Answers, Working
  <2>2. stage \in Stages /\ stage # "sent" /\ stage # "idle"
    BY DEF Answers, Working, Stages
  <2>3. job' \in [Workers -> Jobs]
        /\ \A g \in Workers : /\ job'[g].token = job[g].token /\ job'[g].slug = job[g].slug
                               /\ job'[g].stage = IF g = h THEN stage ELSE job[g].stage
    <3>1. job \in [Workers -> Jobs] /\ job[h] \in Jobs
      BY <1>0
    <3>2. [job[h] EXCEPT !.stage = stage] \in Jobs
      BY <2>2, <3>1 DEF Jobs
    <3>3. job' = [job EXCEPT ![h] = [job[h] EXCEPT !.stage = stage]]
      BY <2>1, <3>1
    <3>4. \A g \in Workers : g # h => job'[g] = job[g]
      BY <3>1, <3>3
    <3>5. job'[h] = [job[h] EXCEPT !.stage = stage]
      BY <3>1, <3>3
    <3>6. job'[h].token = job[h].token /\ job'[h].slug = job[h].slug /\ job'[h].stage = stage
      BY <3>1, <3>5 DEF Jobs
    <3>7. job' \in [Workers -> Jobs]
      BY <3>1, <3>2, <3>3
    <3> QED BY <3>4, <3>6, <3>7
  <2>4. job[h].stage # "idle"
    BY <1>8 DEF Screen, Insert, Patch, LookUp, Retire, ReadBack, Fail, Statement, Working
  <2>5. UNCHANGED <<time, serving, held, lastAdmin>>
    BY <1>8 DEF Screen, Insert, Patch, LookUp, Retire, ReadBack, Fail, Statement
  <2>6. sources' \in [Slugs -> Sources \cup {Nil}]
    BY <1>0, <1>8, RegistryShape
  <2> QED BY <1>0, <1>1, <2>2, <2>3, <2>4, <2>5, <2>6 DEF TokensRecent, WellShaped
<1>9. ASSUME SweepRetired PROVE AuthorityInv'
  <2>1. UNCHANGED <<time, serving, held, lastAdmin, job>> /\ sources' \in [Slugs -> Sources \cup {Nil}]
    BY <1>0, <1>9 DEF SweepRetired
  <2> QED BY <1>0, <1>1, <2>1 DEF TokensRecent, WellShaped
<1>10. ASSUME \/ \E o \in Operators : \/ \E u \in Users, dry, force \in BOOLEAN : Generate(o, u, dry, force)
                                      \/ \E u \in Users : \E role, k, verb : Edit(o, verb, u, role, k)
                                      \/ WriteKey(o) \/ Saving(o)
              \/ \E u \in Users : Paste(u)
              \/ UNCHANGED administrationVars
       PROVE  AuthorityInv'
  <2>1. UNCHANGED <<time, serving, held, lastAdmin, registry>>
    BY <1>10 DEF Generate, Edit, WriteKey, Saving, OpenDraft, WriteDraft, Install, Interrupt, DraftStep, Paste, administrationVars
  <2> QED BY <1>2, <2>1
<1> QED BY <1>3, <1>4, <1>5, <1>6, <1>7, <1>8, <1>9, <1>10 DEF AdministrationNext

(* WellShaped and the recency of tokens together are inductive.             *)
THEOREM AuthorityInvariant == AdministrationSpec => []AuthorityInv
BY InitAuthority, NextAuthority, PTL DEF AdministrationSpec

(* What a handler lets through comes from somebody who was an admin less    *)
(* than a token's life ago.                                                 *)
THEOREM RecentAuthority == AdministrationSpec => AuthorityIsRecent
<1> DEFINE Vouched ==
      \A h \in Workers :
        job[h].stage = "sent" /\ job'[h].stage \in Working =>
          LET sub == job[h].token.sub IN
          sub \in Users /\ lastAdmin[sub] # Nil /\ time - lastAdmin[sub] < AdminTtl
<1>1. ASSUME AuthorityInv, NEW h \in Workers, [AdministrationNext]_administrationVars,
             job[h].stage = "sent", job'[h].stage \in Working
      PROVE  LET sub == job[h].token.sub IN
             sub \in Users /\ lastAdmin[sub] # Nil /\ time - lastAdmin[sub] < AdminTtl
  <2> DEFINE t == job[h].token
  <2>0. WellShaped /\ TokensRecent /\ job \in [Workers -> Jobs]
    BY <1>1 DEF AuthorityInv, WellShaped
  <2>1. Screen(h)
    <3>1. ASSUME NEW g \in Workers,
                 Screen(g) \/ Insert(g) \/ Patch(g) \/ LookUp(g) \/ Retire(g) \/ ReadBack(g) \/ Fail(g)
          PROVE  g = h /\ Screen(h)
      <4>1. g # h => job'[h] = job[h]
        BY <2>0, <3>1 DEF Screen, Insert, Patch, LookUp, Retire, ReadBack, Fail, To
      <4>2. g = h
        BY <1>1, <4>1 DEF Working
      <4> QED BY <1>1, <3>1, <4>2 DEF Insert, Patch, LookUp, Retire, ReadBack, Fail, Statement, Working
    <3>2. ASSUME NEW g \in Workers, NEW sub, NEW op, NEW slug, NEW keep, Send(g, sub, op, slug, keep)
          PROVE  FALSE
      BY <1>1, <2>0, <3>2 DEF Send, Answers, Working
    <3>3. ASSUME UNCHANGED job \/ \E rotated \in BOOLEAN : Deploy(rotated)
          PROVE  FALSE
      <4>1. job'[h] = job[h] \/ job'[h] = Quiet
        BY <3>3 DEF Deploy
      <4>2. "sent" \notin Working /\ Quiet.stage \notin Working
        BY DEF Working, Quiet
      <4> QED BY <1>1, <4>1, <4>2
    <3>4. ASSUME \/ TimePasses \/ SweepRetired
                 \/ \E o \in Operators : \/ \E u \in Users, dry, force \in BOOLEAN : Generate(o, u, dry, force)
                                         \/ \E u \in Users : \E role, k, verb : Edit(o, verb, u, role, k)
                                         \/ WriteKey(o) \/ Saving(o)
                 \/ \E u \in Users : Paste(u) \/ Login(u)
                 \/ \E g \in Guests : Uplift(g)
                 \/ UNCHANGED administrationVars
          PROVE  FALSE
      <4>1. UNCHANGED job
        BY <3>4 DEF TimePasses, SweepRetired, Generate, Edit, WriteKey, Saving, OpenDraft, WriteDraft, Install, Interrupt, DraftStep, Paste, Login, Uplift, registry, administrationVars
      <4> QED BY <3>3, <4>1
    <3> QED BY <1>1, <3>1, <3>2, <3>3, <3>4 DEF AdministrationNext
  <2>2. FirstStage(job[h]) \in Working
    BY <1>1, <2>0, <2>1 DEF Screen, To
  <2>3. time < t.exp /\ CanAdmin(t)
    BY <2>2 DEF FirstStage, Working, Verifies
  <2>4. t # Nil /\ t \in Tokens /\ Recent(t)
    BY <1>1, <2>0 DEF TokensRecent, Jobs
  <2>5. t.sub \in Users /\ lastAdmin[t.sub] # Nil /\ t.exp <= lastAdmin[t.sub] + AdminTtl /\ t.exp \in Int
    BY <2>3, <2>4 DEF Recent, Tokens
  <2>6. lastAdmin[t.sub] \in Nat /\ time \in Nat
    BY <2>0, <2>5 DEF WellShaped
  <2>7. time - lastAdmin[t.sub] < AdminTtl
    <3> DEFINE last == lastAdmin[t.sub]
               exp == t.exp
    <3>1. last \in Nat /\ exp \in Int /\ time \in Nat /\ AdminTtl \in Nat /\ time < exp /\ exp <= last + AdminTtl
      BY <2>3, <2>5, <2>6, AdministrationAssumption
    <3> HIDE DEF last, exp
    <3>2. time - last < AdminTtl
      BY <3>1
    <3> QED BY <3>2 DEF last
  <2> QED BY <2>5, <2>7
<1>2. AuthorityInv /\ [AdministrationNext]_administrationVars => [Vouched]_administrationVars
  BY <1>1
<1> QED BY <1>2, AuthorityInvariant, PTL DEF AdministrationSpec, AuthorityIsRecent

(* The date of a retirement never moves, whoever retires the source again   *)
(* and however the statements of the handlers mix.                          *)
THEOREM Retirements == AdministrationSpec => RetirementStands
<1> DEFINE Stands ==
      \A s \in Slugs :
        sources[s] # Nil /\ sources[s].retired # Nil =>
          \/ sources'[s] # Nil /\ sources'[s].retired = sources[s].retired
          \/ sources'[s] = Nil /\ sources[s].retired + Grace < time
<1>1. ASSUME AuthorityInv, [AdministrationNext]_administrationVars, NEW s \in Slugs, sources[s] # Nil, sources[s].retired # Nil
      PROVE  \/ sources'[s] # Nil /\ sources'[s].retired = sources[s].retired
             \/ sources'[s] = Nil /\ sources[s].retired + Grace < time
  <2>1. /\ sources \in [Slugs -> Sources \cup {Nil}] /\ sources[s] \in Sources /\ Nil \notin Sources
        /\ job \in [Workers -> Jobs] /\ WellShaped
    BY <1>1, AdministrationAssumption DEF AuthorityInv, WellShaped, Sources
  <2>2. CASE UNCHANGED sources
    BY <1>1, <2>2
  <2>3. ASSUME NEW h \in Workers, Insert(h)
        PROVE  sources'[s] = sources[s]
    BY <1>1, <2>1, <2>3 DEF Insert, Statement, WellShaped
  <2>4. ASSUME NEW h \in Workers, Patch(h)
        PROVE  sources'[s] # Nil /\ sources'[s].retired = sources[s].retired
    <3>1. job[h].keep # Nil => job[h].keep \in Int
      BY <2>1, AdministrationAssumption DEF Jobs
    <3>2. job[h].keep # Nil =>
            /\ [sources[s] EXCEPT !.keep = job[h].keep] \in Sources
            /\ [sources[s] EXCEPT !.keep = job[h].keep].retired = sources[s].retired
      BY <2>1, <3>1 DEF Sources
    <3>3. sources' = sources \/ (job[h].keep # Nil /\ sources' = [sources EXCEPT ![job[h].slug].keep = job[h].keep])
      BY <2>4 DEF Patch
    <3>4. sources'[s] = sources[s] \/ (job[h].keep # Nil /\ sources'[s] = [sources[s] EXCEPT !.keep = job[h].keep])
      BY <2>1, <3>3
    <3> QED BY <1>1, <2>1, <3>2, <3>4
  <2>5. ASSUME NEW h \in Workers, Retire(h)
        PROVE  sources'[s] = sources[s]
    BY <1>1, <2>1, <2>5 DEF Retire, RetiredRow
  <2>6. ASSUME SweepRetired
        PROVE  sources'[s] = sources[s] \/ (sources'[s] = Nil /\ sources[s].retired + Grace < time)
    BY <2>6 DEF SweepRetired, Lapsed
  <2>7. ASSUME NEW o \in Operators, Saving(o) PROVE UNCHANGED sources
    <3>1. OpenDraft(o) \/ Install(o) \/ Interrupt(o) => UNCHANGED registry
      BY DEF OpenDraft, Install, Interrupt, DraftStep
    <3>2. \A whole \in BOOLEAN : WriteDraft(o, whole) => UNCHANGED registry
      BY DEF WriteDraft, DraftStep
    <3> QED BY <2>7, <3>1, <3>2 DEF Saving, registry
  <2>8. ASSUME NEW o \in Operators,
               \/ \E u \in Users, dry, force \in BOOLEAN : Generate(o, u, dry, force)
               \/ \E u \in Users : \E role, k, verb : Edit(o, verb, u, role, k)
               \/ WriteKey(o)
        PROVE  UNCHANGED sources
    BY <2>8 DEF Generate, Edit, WriteKey, registry
  <2>9. ASSUME \/ TimePasses
               \/ \E u \in Users : Paste(u) \/ Login(u)
               \/ \E g \in Guests : Uplift(g)
               \/ \E rotated \in BOOLEAN : Deploy(rotated)
        PROVE  UNCHANGED sources
    BY <2>9 DEF TimePasses, Paste, Login, Uplift, Deploy, registry
  <2>10. ASSUME NEW h \in Workers,
                \/ \E sub, op, slug, keep : Send(h, sub, op, slug, keep)
                \/ Screen(h) \/ LookUp(h) \/ ReadBack(h) \/ Fail(h)
         PROVE  UNCHANGED sources
    BY <2>10 DEF Send, Screen, LookUp, ReadBack, Fail
  <2>11. UNCHANGED administrationVars => UNCHANGED sources
    BY DEF administrationVars, registry
  <2> QED BY <1>1, <2>2, <2>3, <2>4, <2>5, <2>6, <2>7, <2>8, <2>9, <2>10, <2>11 DEF AdministrationNext
<1>2. AuthorityInv /\ [AdministrationNext]_administrationVars => [Stands]_administrationVars
  BY <1>1
<1> QED BY <1>2, AuthorityInvariant, PTL DEF AdministrationSpec, RetirementStands

-----------------------------------------------------------------------------
(* The user store.                                                          *)

Rows == [user : Users, role : Roles, key : Int]
Sound(rows) == rows \in Seq(Rows) /\ Boots(rows)

(* One operator at most is at the draft: it is empty, or it is what the     *)
(* operator is going to install.                                            *)
OneDraft ==
  /\ \A o, p \in Operators : edit[o].at # "none" /\ edit[p].at # "none" => o = p
  /\ \A o \in Operators :
       /\ edit[o].at \in {"none", "draft", "written"}
       /\ edit[o].at = "draft" => draft = Hollow
       /\ edit[o].at = "written" => draft = edit[o].rows

(* The file is sound as long as nobody edits it by hand and no draft is     *)
(* emptied under another operator, and so is what any operator is about to  *)
(* write, whatever the others have written since.                           *)
StoreInv ==
  /\ drawn \in Nat /\ printed \in [Users -> Int]
  /\ DOMAIN edit = Operators
  /\ \A o \in Operators :
       /\ DOMAIN edit[o] = DOMAIN AtRest
       /\ edit[o].cmd = "generate" => edit[o].key \in Int
       /\ edit[o].at # "none" => Amending(o)
  /\ ~byHand /\ ~crossed =>
       /\ Sound(RowsOf(userStore)) /\ server.state # "down"
       /\ OneDraft
       /\ \A o \in Operators : Amending(o) => Sound(edit[o].rows)

(* A new row for a user who has none, and a row in the place of a user's    *)
(* own, leave one row to a user.                                            *)
LEMMA AddedSound ==
  ASSUME NEW rows, Sound(rows), NEW u \in Users, u \notin Names(rows), NEW role \in Roles,
         NEW k \in Int, Parses(k)
  PROVE  Sound(Added(rows, u, role, k))
<1> DEFINE new == Added(rows, u, role, k)
           n == Len(rows)
<1>1. Row(u, role, k) \in Rows /\ Row(u, role, k).user = u /\ Row(u, role, k).role = role /\ Row(u, role, k).key = k
  BY DEF Row, Rows
<1>2. new \in Seq(Rows) /\ n \in Nat /\ DOMAIN rows = 1..n /\ DOMAIN new = 1..(n + 1)
      /\ new[n + 1] = Row(u, role, k) /\ \A i \in 1..n : new[i] = rows[i]
  BY <1>1 DEF Added, Sound
<1>3. \A i \in 1..n : rows[i].user # u /\ rows[i].role \in Roles /\ Prefixed(rows[i].key)
  BY <1>2 DEF Names, Sound, Boots
<1>4. Prefixed(k)
  BY AdministrationAssumption DEF Parses, Prefixed, Bad
<1> HIDE DEF new, n
<1>5. \A i \in 1..(n + 1) : i = n + 1 \/ i \in 1..n
  BY <1>2
<1>6. \A i \in DOMAIN new : new[i].role \in Roles /\ Prefixed(new[i].key)
  BY <1>1, <1>2, <1>3, <1>4, <1>5
<1>7. \A i, j \in DOMAIN new : new[i].user = new[j].user => i = j
  <2>1. \A i, j \in 1..n : rows[i].user = rows[j].user => i = j
    BY <1>2 DEF Sound, Boots
  <2> QED BY <1>1, <1>2, <1>3, <1>5, <2>1
<1>8. Sound(new)
  BY <1>2, <1>6, <1>7 DEF Sound, Boots
<1> QED BY <1>8 DEF new

(* An update of a row keeps a store sound.                                 *)
LEMMA UpdatedSound ==
  ASSUME NEW rows, Sound(rows), NEW u \in Users, u \in Names(rows), NEW role \in Roles \cup {Nil},
         NEW k \in Int \cup {Nil}, k = Nil \/ Parses(k)
  PROVE  Sound(Updated(rows, u, role, k))
<1> DEFINE i == First(rows, u)
           row == Row(u, IF role = Nil THEN rows[i].role ELSE role, IF k = Nil THEN rows[i].key ELSE k)
<1>1. i \in DOMAIN rows /\ rows[i].user = u
  BY FirstFinds DEF Sound
<1>2. rows[i] \in Rows /\ Prefixed(rows[i].key)
  BY <1>1 DEF Sound, Boots
<1>3. row \in Rows /\ row.user = u /\ Prefixed(row.key)
  BY <1>2, AdministrationAssumption DEF Row, Rows, Parses, Prefixed, Bad
<1>4. Updated(rows, u, role, k) = [rows EXCEPT ![i] = row]
  BY DEF Updated
<1> HIDE DEF row, i
<1>5. [rows EXCEPT ![i] = row] \in Seq(Rows)
  BY <1>1, <1>3 DEF Sound
<1>6. Boots([rows EXCEPT ![i] = row])
  BY <1>1, <1>2, <1>3 DEF Sound, Boots, Rows
<1> QED BY <1>4, <1>5, <1>6 DEF Sound

(* Without the one row of a user, the others close ranks in their order.    *)
LEMMA RemovedSound ==
  ASSUME NEW rows, Sound(rows), NEW u \in Names(rows)
  PROVE  Sound(Removed(rows, u))
<1> DEFINE kept == {i \in DOMAIN rows : rows[i].user # u}
           upto(i) == {j \in kept : j <= i}
           nth(n) == CHOOSE i \in kept : Cardinality(upto(i)) = n
           m == Cardinality(kept)
<1>1. PICK x \in DOMAIN rows : \A i \in DOMAIN rows : rows[i].user = u <=> i = x
  BY FirstFinds DEF Sound
<1>2. PICK len \in Nat : DOMAIN rows = 1..len /\ x \in 1..len
  BY <1>1 DEF Sound
<1>3. kept = (1..len) \ {x}
  BY <1>1, <1>2
<1>4. IsFiniteSet(1..len) /\ Cardinality(1..len) = len
  BY <1>2, FS_Interval
<1>5. m = len - 1
  BY <1>2, <1>3, <1>4, FS_RemoveElement
<1>6. \A i \in 1..len : upto(i) = (1..i) \ {x}
  BY <1>2, <1>3
<1>7. \A i \in 1..len : Cardinality(upto(i)) = IF x <= i THEN i - 1 ELSE i
  <2> TAKE i \in 1..len
  <2>1. IsFiniteSet(1..i) /\ Cardinality(1..i) = i
    BY <1>2, FS_Interval
  <2>2. Cardinality((1..i) \ {x}) = IF x \in 1..i THEN i - 1 ELSE i
    BY <2>1, FS_RemoveElement
  <2>3. x \in 1..i <=> x <= i
    BY <1>2
  <2> QED BY <1>6, <2>2, <2>3
<1>8. \A n \in 1..m : \E i \in kept : Cardinality(upto(i)) = n
  <2> SUFFICES ASSUME NEW n \in 1..(len - 1) PROVE \E i \in kept : Cardinality(upto(i)) = n
    BY <1>5
  <2> DEFINE i == IF n < x THEN n ELSE n + 1
  <2>1. i \in 1..len /\ i # x /\ (IF x <= i THEN i - 1 ELSE i) = n
    BY <1>2
  <2> HIDE DEF i
  <2>2. i \in kept /\ Cardinality(upto(i)) = n
    <3>1. i \in kept
      BY <1>3, <2>1
    <3> HIDE DEF kept, upto
    <3> QED BY <1>7, <2>1, <3>1
  <2> QED BY <2>2
<1>9. \A n \in 1..m : nth(n) \in kept /\ Cardinality(upto(nth(n))) = n
  <2> HIDE DEF kept, upto, m
  <2> QED BY <1>8
<1>10. Removed(rows, u) = [n \in 1..m |-> rows[nth(n)]]
  BY DEF Removed
<1>11. m \in Nat
  BY <1>2, <1>5
<1> HIDE DEF nth, upto
<1> DEFINE new == [n \in 1..m |-> rows[nth(n)]]
<1>12. \A n \in 1..m : nth(n) \in DOMAIN rows
  BY <1>9
<1> HIDE DEF m, kept
<1>13. new \in Seq(Rows)
  <2>1. \A n \in 1..m : rows[nth(n)] \in Rows
    BY <1>12 DEF Sound
  <2> QED BY <1>11, <2>1
<1>14. Boots(new)
  <2>1. DOMAIN new = 1..m /\ \A n \in 1..m : new[n] = rows[nth(n)]
    OBVIOUS
  <2> HIDE DEF new
  <2>2. ASSUME NEW a \in 1..m, NEW b \in 1..m, new[a].user = new[b].user PROVE a = b
    <3>1. nth(a) = nth(b)
      BY <1>12, <2>1, <2>2 DEF Sound, Boots
    <3> QED BY <1>9, <3>1
  <2> QED BY <1>12, <2>1, <2>2 DEF Sound, Boots
<1> QED BY <1>10, <1>13, <1>14 DEF Sound

(* The empty store is sound.                                               *)
LEMMA EmptySound == Sound(<< >>)
BY DEF Sound, Boots

(* At first the store is sound or was edited by hand.                      *)
LEMMA InitStoreInv == AdministrationInit => StoreInv
<1> SUFFICES ASSUME AdministrationInit PROVE StoreInv
  OBVIOUS
<1>1. ~byHand => Sound(RowsOf(userStore))
  <2>1. CASE userStore = Nil
    BY <2>1, EmptySound DEF RowsOf
  <2>2. CASE userStore # Nil
    <3>1. RowsOf(userStore) = userStore /\ userStore \in Seq([user : Users, role : STRING, key : Int])
      BY <2>2, AdministrationAssumption DEF AdministrationInit, RowsOf
    <3>2. ASSUME Boots(userStore) PROVE userStore \in Seq(Rows)
      <4>1. ASSUME NEW i \in DOMAIN userStore PROVE userStore[i] \in Rows
        <5>1. userStore[i] \in [user : Users, role : STRING, key : Int]
          <6> DEFINE Any == [user : Users, role : STRING, key : Int]
          <6>1. userStore \in Seq(Any)
            BY <3>1
          <6> HIDE DEF Any
          <6>2. userStore[i] \in Any
            BY <6>1
          <6> QED BY <6>2 DEF Any
        <5>2. userStore[i].role \in Roles
          BY <3>2 DEF Boots
        <5>3. userStore[i] = [user |-> userStore[i].user, role |-> userStore[i].role, key |-> userStore[i].key]
              /\ userStore[i].user \in Users /\ userStore[i].key \in Int
          BY <5>1
        <5> QED BY <5>2, <5>3 DEF Rows
      <4>2. userStore \in [1..Len(userStore) -> Rows] /\ Len(userStore) \in Nat
        BY <3>1, <4>1
      <4> QED BY <4>2
    <3> QED BY <3>1, <3>2 DEF AdministrationInit, Sound
  <2> QED BY <2>1, <2>2
<1>2. \A o \in Operators : edit[o].cmd = "none" /\ edit[o].at = "none" /\ edit[o] = AtRest
  BY DEF AdministrationInit, AtRest
<1> QED BY <1>1, <1>2 DEF AdministrationInit, StoreInv, OneDraft, Amending, Bad, Open

(* Every step keeps the invariant of the store.                            *)
LEMMA NextStoreInv == StoreInv /\ [AdministrationNext]_administrationVars => StoreInv'
<1> SUFFICES ASSUME StoreInv, [AdministrationNext]_administrationVars PROVE StoreInv'
  OBVIOUS
<1> USE AdministrationAssumption
<1>0. /\ drawn \in Nat /\ printed \in [Users -> Int] /\ DOMAIN edit = Operators
      /\ \A o \in Operators : edit[o].cmd = "generate" => edit[o].key \in Int
      /\ \A o \in Operators : edit[o].at # "none" => Amending(o)
      /\ \A o \in Operators : DOMAIN edit[o] = DOMAIN AtRest
      /\ ~byHand /\ ~crossed => Sound(RowsOf(userStore)) /\ server.state # "down" /\ OneDraft
      /\ ~byHand /\ ~crossed => \A o \in Operators : Amending(o) => Sound(edit[o].rows)
  BY DEF StoreInv
<1>a. AtRest.cmd = "none" /\ AtRest.at = "none" /\ "at" \in DOMAIN AtRest
  BY DEF AtRest
<1>1. ASSUME NEW o \in Operators, NEW u \in Users, NEW dry \in BOOLEAN, NEW force \in BOOLEAN,
             Generate(o, u, dry, force)
      PROVE  StoreInv'
  <2> DEFINE fresh == [AtRest EXCEPT !.cmd = "generate", !.user = u, !.key = drawn + 1]
  <2>1. UNCHANGED <<userStore, draft, byHand, crossed, server>> /\ drawn' = drawn + 1 /\ drawn' \in Int
        /\ edit[o] = AtRest
    BY <1>0, <1>1 DEF Generate, serving
  <2>2. \/ printed' = [printed EXCEPT ![u] = drawn + 1] /\ edit' = edit
        \/ printed' = printed
           /\ edit' = [edit EXCEPT ![o] = fresh]
    BY <1>1 DEF Generate
  <2>3. /\ fresh.cmd = "generate"
        /\ fresh.key = drawn + 1
        /\ fresh.at = "none"
        /\ DOMAIN fresh = DOMAIN AtRest
    BY DEF AtRest
  <2> HIDE DEF fresh
  <2>4. drawn' \in Nat /\ printed' \in [Users -> Int] /\ DOMAIN edit' = Operators
    BY <1>0, <2>1, <2>2
  <2>5. \A p \in Operators : edit'[p] = edit[p] \/ (p = o /\ edit'[p] = fresh)
    BY <1>0, <2>2
  <2>6. \A p \in Operators :
          /\ edit'[p].at = edit[p].at /\ DOMAIN edit'[p] = DOMAIN AtRest
          /\ edit'[p].cmd = "generate" => edit'[p].key \in Int
          /\ edit'[p].cmd \in {"add", "update", "remove"} => edit'[p] = edit[p]
    BY <1>0, <1>a, <2>1, <2>3, <2>5
  <2>7. OneDraft => OneDraft'
    <3>1. ASSUME OneDraft, NEW p \in Operators, edit[p].at # "none" PROVE edit'[p] = edit[p]
      BY <1>0, <2>3, <2>5, <2>6, <3>1
    <3> QED BY <2>1, <2>6, <3>1 DEF OneDraft
  <2>8. \A p \in Operators : edit'[p].at # "none" => Amending(p)'
    <3> SUFFICES ASSUME NEW p \in Operators, edit'[p].at # "none" PROVE Amending(p)'
      OBVIOUS
    <3> QED BY <1>0, <2>3, <2>5, <2>6 DEF Amending
  <2> QED BY <1>0, <2>1, <2>4, <2>6, <2>7, <2>8 DEF StoreInv, Amending, RowsOf
<1>2. ASSUME NEW o \in Operators, WriteKey(o) PROVE StoreInv'
  <2>1. /\ UNCHANGED <<drawn, userStore, draft, byHand, crossed, server>> /\ edit' = [edit EXCEPT ![o] = AtRest]
        /\ printed' = [printed EXCEPT ![edit[o].user] = edit[o].key] /\ edit[o].key \in Int
    BY <1>0, <1>2 DEF WriteKey, serving
  <2>2. printed' \in [Users -> Int]
    BY <1>0, <2>1
  <2>3. \A p \in Operators : edit'[p] = AtRest \/ edit'[p] = edit[p]
    BY <1>0, <2>1
  <2> QED BY <1>0, <1>a, <2>1, <2>2, <2>3 DEF StoreInv, OneDraft, Amending, RowsOf
<1>3. ASSUME NEW o \in Operators, NEW u \in Users, NEW role \in Roles \cup {Nil},
             NEW k \in {printed[v] : v \in Users} \cup {Odd, Nil}, NEW verb \in {"add", "update", "remove"},
             verb = "add" => role # Nil /\ k # Nil, Edit(o, verb, u, role, k)
      PROVE  StoreInv'
  <2> DEFINE rows == RowsOf(userStore)
             new == CASE verb = "add" -> Added(rows, u, role, k)
                      [] verb = "update" -> Updated(rows, u, role, k)
                      [] OTHER -> Removed(rows, u)
  <2>1. /\ UNCHANGED <<drawn, printed, userStore, draft, byHand, crossed, server>>
        /\ edit' = [edit EXCEPT ![o] = [AtRest EXCEPT !.cmd = verb, !.user = u, !.rows = new]]
        /\ Applies(verb, rows, u, k)
    BY <1>3 DEF Edit, serving
  <2>2. k \in Int \cup {Nil}
    BY <1>0 DEF Odd
  <2>3. ASSUME ~byHand, ~crossed PROVE Sound(new)
    <3>1. Sound(rows)
      BY <1>0, <2>3
    <3>2. CASE verb = "add"
      <4>1. u \notin Names(rows) /\ Parses(k) /\ k \in Int /\ role \in Roles
        BY <1>3, <2>1, <2>2, <3>2 DEF Applies
      <4>2. new = Added(rows, u, role, k)
        BY <3>2
      <4> QED BY <3>1, <4>1, <4>2, AddedSound
    <3>3. CASE verb = "update"
      <4>1. u \in Names(rows) /\ (k = Nil \/ Parses(k))
        BY <2>1, <3>3 DEF Applies
      <4>2. new = Updated(rows, u, role, k)
        BY <3>3
      <4> QED BY <2>2, <3>1, <4>1, <4>2, UpdatedSound
    <3>4. CASE verb = "remove"
      <4>1. u \in Names(rows)
        BY <2>1, <3>4 DEF Applies
      <4>2. new = Removed(rows, u)
        BY <3>4
      <4> QED BY <3>1, <4>1, <4>2, RemovedSound
    <3> QED BY <3>2, <3>3, <3>4
  <2> HIDE DEF new
  <2>4. /\ [AtRest EXCEPT !.cmd = verb, !.user = u, !.rows = new].cmd = verb
        /\ [AtRest EXCEPT !.cmd = verb, !.user = u, !.rows = new].rows = new
        /\ [AtRest EXCEPT !.cmd = verb, !.user = u, !.rows = new].at = "none"
        /\ DOMAIN [AtRest EXCEPT !.cmd = verb, !.user = u, !.rows = new] = DOMAIN AtRest
    BY DEF AtRest
  <2>5. \A p \in Operators :
          edit'[p] = edit[p] \/ edit'[p] = [AtRest EXCEPT !.cmd = verb, !.user = u, !.rows = new]
    BY <1>0, <2>1
  <2> QED BY <1>0, <2>1, <2>3, <2>4, <2>5 DEF StoreInv, OneDraft, Amending, RowsOf
<1>4. ASSUME NEW o \in Operators, Saving(o) PROVE StoreInv'
  <2>0. UNCHANGED <<drawn, printed, byHand, server>> /\ Amending(o)
    BY <1>4 DEF Saving, OpenDraft, WriteDraft, Install, Interrupt, DraftStep, serving
  <2>1. CASE OpenDraft(o)
    <3>1. /\ draft' = Hollow /\ edit' = [edit EXCEPT ![o].at = "draft"] /\ UNCHANGED userStore
          /\ crossed' = (crossed \/ \E p \in Operators \ {o} : edit[p].at # "none")
      BY <2>1 DEF OpenDraft
    <3>2. /\ DOMAIN edit' = Operators /\ edit'[o] = [edit[o] EXCEPT !.at = "draft"]
          /\ \A p \in Operators \ {o} : edit'[p] = edit[p]
      BY <1>0, <3>1
    <3>3. edit'[o].cmd = edit[o].cmd /\ edit'[o].rows = edit[o].rows /\ edit'[o].key = edit[o].key
          /\ edit'[o].at = "draft" /\ DOMAIN edit'[o] = DOMAIN AtRest
      BY <1>0, <1>a, <3>2
    <3> QED BY <1>0, <2>0, <3>1, <3>2, <3>3 DEF StoreInv, OneDraft, Amending, RowsOf
  <2>2. ASSUME NEW whole \in BOOLEAN, WriteDraft(o, whole) PROVE StoreInv'
    <3>1. /\ edit' = [edit EXCEPT ![o] = AfterWrite(o, whole)] /\ UNCHANGED crossed
          /\ edit[o].at \in {"draft", "store", "gone"}
      BY <2>2 DEF WriteDraft, DraftStep
    <3>2. /\ DOMAIN edit' = Operators /\ edit'[o] = AfterWrite(o, whole)
          /\ \A p \in Operators \ {o} : edit'[p] = edit[p]
      BY <1>0, <3>1
    <3>3. CASE byHand \/ crossed
      <4>1. edit'[o] = AtRest
            \/ (edit'[o].cmd = edit[o].cmd /\ edit'[o].key = edit[o].key /\ DOMAIN edit'[o] = DOMAIN edit[o])
        BY <3>2 DEF AfterWrite
      <4> QED BY <1>0, <1>a, <2>0, <3>1, <3>2, <3>3, <4>1 DEF StoreInv, Amending
    <3>4. CASE ~byHand /\ ~crossed
      <4>1. OneDraft /\ edit[o].at = "draft" /\ draft = Hollow
        BY <1>0, <3>1, <3>4 DEF OneDraft
      <4>2. userStore' = userStore /\ (whole => draft' = edit[o].rows)
        BY <2>2, <4>1 DEF WriteDraft, Overlay
      <4>3. \A p \in Operators \ {o} : edit[p].at = "none"
        BY <4>1 DEF OneDraft
      <4>4. CASE whole
        <5>1. edit'[o] = [edit[o] EXCEPT !.at = "written"]
          BY <3>2, <4>4 DEF AfterWrite
        <5>2. edit'[o].cmd = edit[o].cmd /\ edit'[o].rows = edit[o].rows /\ edit'[o].key = edit[o].key
              /\ edit'[o].at = "written" /\ DOMAIN edit'[o] = DOMAIN AtRest
          BY <1>0, <1>a, <5>1
        <5> QED BY <1>0, <2>0, <3>1, <3>2, <3>4, <4>2, <4>3, <4>4, <5>2 DEF StoreInv, OneDraft, Amending, RowsOf
      <4>5. CASE ~whole
        <5>1. edit'[o] = AtRest
          BY <3>2, <4>5 DEF AfterWrite
        <5> QED BY <1>0, <1>a, <2>0, <3>1, <3>2, <3>4, <4>2, <4>3, <5>1 DEF StoreInv, OneDraft, Amending, RowsOf
      <4> QED BY <4>4, <4>5
    <3> QED BY <3>3, <3>4
  <2>3. CASE Interrupt(o)
    <3>1. edit' = [edit EXCEPT ![o] = AtRest] /\ UNCHANGED <<userStore, draft, crossed>>
      BY <2>3 DEF Interrupt
    <3>2. DOMAIN edit' = Operators /\ edit'[o] = AtRest /\ \A p \in Operators \ {o} : edit'[p] = edit[p]
      BY <1>0, <3>1
    <3> QED BY <1>0, <1>a, <2>0, <3>1, <3>2 DEF StoreInv, OneDraft, Amending, RowsOf
  <2>4. CASE Install(o)
    <3>1. edit[o].at = "written" /\ UNCHANGED crossed
      BY <2>4 DEF Install, DraftStep
    <3>2. CASE draft = Nil
      <4>1. edit' = [edit EXCEPT ![o] = AtRest] /\ UNCHANGED <<userStore, draft>>
        BY <2>4, <3>2 DEF Install
      <4>2. DOMAIN edit' = Operators /\ edit'[o] = AtRest /\ \A p \in Operators \ {o} : edit'[p] = edit[p]
        BY <1>0, <4>1
      <4> QED BY <1>0, <1>a, <2>0, <3>1, <4>1, <4>2 DEF StoreInv, OneDraft, Amending, RowsOf
    <3>3. CASE draft # Nil
      <4>1. /\ userStore' = draft /\ draft' = Nil
            /\ edit' = [p \in Operators |-> IF p = o THEN AtRest ELSE [edit[p] EXCEPT !.at = Carried(edit[p].at)]]
        BY <2>4, <3>3 DEF Install
      <4>2. /\ DOMAIN edit' = Operators /\ edit'[o] = AtRest
            /\ \A p \in Operators \ {o} : edit'[p] = [edit[p] EXCEPT !.at = Carried(edit[p].at)]
        BY <4>1
      <4>. \A at : Carried(at) = "none" <=> at = "none"
        BY DEF Carried
      <4>3. \A p \in Operators \ {o} :
              /\ edit'[p].cmd = edit[p].cmd /\ edit'[p].rows = edit[p].rows /\ edit'[p].key = edit[p].key
              /\ edit[p].at = "none" <=> edit'[p].at = "none"
              /\ DOMAIN edit'[p] = DOMAIN AtRest
        <5> TAKE p \in Operators \ {o}
        <5>1. edit'[p] = [edit[p] EXCEPT !.at = Carried(edit[p].at)] /\ DOMAIN edit[p] = DOMAIN AtRest
          BY <1>0, <4>2
        <5>2. edit'[p].at = Carried(edit[p].at) /\ DOMAIN edit'[p] = DOMAIN AtRest
          BY <1>a, <5>1
        <5> QED BY <5>1, <5>2
      <4>4. \A p \in Operators \ {o} : edit'[p].at # "none" => edit[p].at # "none"
        BY <4>3
      <4>5. ~byHand /\ ~crossed => Sound(RowsOf(userStore'))
        <5>1. ~byHand /\ ~crossed => draft = edit[o].rows /\ Sound(edit[o].rows)
          BY <1>0, <2>0, <3>1 DEF OneDraft
        <5> QED BY <4>1, <5>1, EmptySound DEF RowsOf
      <4>6. RowsOf(userStore') = RowsOf(userStore)'
        BY DEF RowsOf
      <4>7. ~byHand /\ ~crossed => \A p \in Operators : edit'[p].at = "none"
        BY <1>0, <1>a, <3>1, <4>2, <4>3 DEF OneDraft
      <4> QED BY <1>0, <1>a, <2>0, <3>1, <4>2, <4>3, <4>4, <4>5, <4>6, <4>7 DEF StoreInv, OneDraft, Amending
    <3> QED BY <3>2, <3>3
  <2> QED BY <1>4, <2>1, <2>2, <2>3, <2>4 DEF Saving
<1>5. ASSUME NEW u \in Users, Paste(u) PROVE StoreInv'
  BY <1>0, <1>5 DEF Paste, StoreInv, Amending
<1>6. ASSUME NEW rotated \in BOOLEAN, Deploy(rotated) PROVE StoreInv'
  <2>1. UNCHANGED <<drawn, printed, userStore, draft, edit, byHand, crossed>> /\ server' = Booted(userStore)
    BY <1>6 DEF Deploy, workstation
  <2>2. ~byHand /\ ~crossed => server'.state # "down"
    BY <1>0, <2>1 DEF Booted, Open, RowsOf, Sound
  <2> QED BY <1>0, <2>1, <2>2 DEF StoreInv, OneDraft, Amending, RowsOf
<1>7. ASSUME UNCHANGED <<workstation, serving>> PROVE StoreInv'
  BY <1>0, <1>7 DEF StoreInv, OneDraft, Amending, workstation, serving, RowsOf
<1>8. ASSUME \/ TimePasses \/ SweepRetired
             \/ \E u \in Users : Login(u)
             \/ \E g \in Guests : Uplift(g)
             \/ \E h \in Workers : \/ \E sub, op, slug, keep : Send(h, sub, op, slug, keep)
                                    \/ Screen(h) \/ Insert(h) \/ Patch(h) \/ LookUp(h) \/ Retire(h)
                                    \/ ReadBack(h) \/ Fail(h)
             \/ UNCHANGED administrationVars
      PROVE  UNCHANGED <<workstation, serving>>
  <2>1. CASE \/ TimePasses \/ SweepRetired \/ UNCHANGED administrationVars
             \/ \E u \in Users : Login(u)
             \/ \E g \in Guests : Uplift(g)
    BY <2>1 DEF TimePasses, SweepRetired, Login, Uplift, administrationVars
  <2>2. ASSUME NEW h \in Workers, NEW sub, NEW op, NEW slug, NEW keep, Send(h, sub, op, slug, keep)
        PROVE  UNCHANGED <<workstation, serving>>
    BY <2>2 DEF Send
  <2>3. ASSUME NEW h \in Workers,
               Screen(h) \/ Insert(h) \/ Patch(h) \/ LookUp(h) \/ Retire(h) \/ ReadBack(h) \/ Fail(h)
        PROVE  UNCHANGED <<workstation, serving>>
    BY <2>3 DEF Screen, Insert, Patch, LookUp, Retire, ReadBack, Fail, Statement
  <2> QED BY <1>8, <2>1, <2>2, <2>3
<1> QED BY <1>1, <1>2, <1>3, <1>4, <1>5, <1>6, <1>7, <1>8 DEF AdministrationNext

(* A file that only mnm users has edited, however the commands overlap, is  *)
(* one that every server deployed with it boots with, as long as no command *)
(* emptied a draft that another had opened and not yet renamed.             *)
THEOREM EditedStores == AdministrationSpec => []EditedStoreBoots
<1>1. StoreInv => EditedStoreBoots
  BY DEF StoreInv, Sound, EditedStoreBoots
<1> QED BY <1>1, InitStoreInv, NextStoreInv, PTL DEF AdministrationSpec
=============================================================================
