--------------------------- MODULE MCRateLimiter ---------------------------
EXTENDS RateLimiter

(* Rates: one block that holds both callers' addresses, its limit above one *)
(* tier's and its life short.  Tokens: two nested blocks, and a user.       *)
MCSubjects ==
  LET all == [user |-> None, net |-> <<0>>, prefix |-> 0]
  IN [rate |-> {all}, token |-> {all, [all EXCEPT !.prefix = 1], [all EXCEPT !.user = "u"]}]
MCLimits == [rate |-> {2}, token |-> {0}]
MCLifetimes == [rate |-> {1}, token |-> {2}]
MCMaxChanges == [rate |-> 1, token |-> 2]
MCMaxFailures == [rate |-> 0, token |-> 1]

MCRps == [anonymous |-> 1, read_uplift |-> 2, admin |-> 2]

MCCallers ==
  LET at(x, tier, shape) == [address |-> x, user |-> "u", tier |-> tier, shape |-> shape,
                             extra |-> IF shape = "multi" THEN 1 ELSE 0]
  IN {at(<<0>>, "anonymous", "multi"), at(<<0>>, "rejected", "plain"), at(<<1>>, "admin", "overcap")}

=============================================================================
