--------------------------- MODULE MCTokenLimiter ---------------------------
(***************************************************************************)
(* TokenLimiter on a small instance: minutes of one instant, hours of two  *)
(* minutes and days of two hours.  A behaviour has one of two scopes: many *)
(* requests in one process, or few of them around crashes and snapshots.   *)
(***************************************************************************)
EXTENDS TokenLimiter, TLC

VARIABLE scope

MCLimitPairs == {[hourly |-> 2, daily |-> 3], [hourly |-> 1, daily |-> 2]}
MCSymmetry   == Permutations(Subjects) \cup Permutations(Requests)

Present == {r \in Requests : stage[r] # "idle"}
Seen == {call[r].subject : r \in Present} \cup {s \in Subjects : consumed[s] # Empty[s] \/ lastSeen[s] # 0}

Within ==
  IF scope = "many"
  THEN /\ clock <= 3 /\ crashes = 0 /\ snap = NoSnap
       /\ \A r \in Present : call[r].limits.hourly = 2
       /\ Cardinality({r \in Present : call[r].bypass}) <= 1
       /\ Cardinality({r \in Present : stage[r] = "dropped"}) <= 1
  ELSE Cardinality(Present) <= 2 /\ Cardinality(Seen) <= 1
       /\ \A r \in Present : call[r].limits.hourly = 1 /\ call[r].tokens = 1 /\ ~call[r].bypass

MCInit == Init /\ scope \in {"many", "crashes"}
MCNext == Next /\ UNCHANGED scope /\ Within'
MCSpec == MCInit /\ [][MCNext]_<<vars, scope>>
=============================================================================
