----------------------------- MODULE MCCorpus ------------------------------
EXTENDS Corpus

MCNameOf == [m \in Models |-> IF m = "b1" THEN "b" ELSE "a"]

\* A version an earlier run has left.
Old(s, m, status, at) ==
  [src |-> s, model |-> m, space |-> MCNameOf[m], blank |-> FALSE, status |-> status, at |-> at]

\* A corpus on one model whose first source could be rolled back to another
\* revision of it; and one that a migration of the server to a new model has
\* deactivated.
MCCorpora ==
  {<<Old("s", "a2", "inactive", 1), Old("s", "a1", "active", 2), Old("t", "a1", "active", 3)>>,
   <<Old("s", "b1", "inactive", 1)>>}

============================================================================
