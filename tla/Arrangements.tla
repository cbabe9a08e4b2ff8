---------------------------- MODULE Arrangements ----------------------------
(***************************************************************************)
(* The selections and stable sorts of the code, given by sets of positions *)
(* and by keys instead of by operators.  That makes them first-order, so    *)
(* that theorems can be stated about them.                                  *)
(***************************************************************************)
EXTENDS Integers, Sequences, FiniteSets

\* The members of a finite set, in the strict total order that the pairs of R are.
Arrange(P, R) ==
  [k \in 1..Cardinality(P) |-> CHOOSE p \in P : Cardinality({q \in P : <<q, p>> \in R}) = k - 1]

\* Numbers in increasing order.
InOrder(S) == Arrange(S, {pair \in S \X S : pair[1] < pair[2]})

\* The items of s at the positions P, in their order (retain, filter).
Picked(s, P) == LET at == InOrder(P) IN [k \in DOMAIN at |-> s[at[k]]]

\* The positions of s, those of larger keys first, and else as they come.
Downward(s, key) ==
  Arrange(DOMAIN s, {pair \in (DOMAIN s) \X (DOMAIN s) :
                       \/ key[pair[1]] > key[pair[2]]
                       \/ key[pair[1]] = key[pair[2]] /\ pair[1] < pair[2]})

\* A stable sort by descending key (sort_by).
Descending(s, key) == LET at == Downward(s, key) IN [k \in DOMAIN s |-> s[at[k]]]

\* The first n items (truncate).
Truncate(s, n) == SubSeq(s, 1, IF n < Len(s) THEN n ELSE Len(s))
=============================================================================
