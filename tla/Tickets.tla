------------------------------ MODULE Tickets ------------------------------
(***************************************************************************)
(* What a single-use store owes its callers: an identifier is issued once, *)
(* accepted at most once and only while it is open, and one that was       *)
(* accepted or lost never comes back.                                      *)
(***************************************************************************)
CONSTANT Ids
VARIABLES open, used

TicketsInit == open = {} /\ used = {}

Issue(i) ==
  /\ i \notin open \cup used
  /\ open' \in {S \cup {i} : S \in SUBSET open}   \* older ones may be lost to make room
  /\ UNCHANGED used

Accept(i) ==
  /\ i \in open
  /\ open' = open \ {i}
  /\ used' = used \cup {i}

Lose ==
  /\ open' \in SUBSET open
  /\ UNCHANGED used

TicketsNext ==
  \/ Lose
  \/ \E i \in Ids : Issue(i) \/ Accept(i)

TicketsSpec == TicketsInit /\ [][TicketsNext]_<<open, used>>
=============================================================================
