----------------------------- MODULE MCReading ------------------------------
EXTENDS Reading, TLC

\* Two sources with versions and one with none; the first has two versions, which
\* differ in their values.
MCSourceOf == "v1" :> 1 @@ "v2" :> 1 @@ "w" :> 2
MCValuesOf == "v1" :> {1, 3, 4} @@ "v2" :> {2, 4} @@ "w" :> {3, 5}
\* A document with holes in the middle and at its end, one without, and one
\* of which nothing is ready.
MCReady == "v1" :> <<TRUE, FALSE, TRUE, TRUE, TRUE, FALSE>> @@ "v2" :> <<TRUE, TRUE, TRUE>> @@ "w" :> <<FALSE>>

\* A corpus that grows from one source, and one that is full.
MCStarts ==
  {[serving |-> <<"v1", "none", "none">>, listed |-> {1, 3}],
   [serving |-> <<"v2", "w", "none">>, listed |-> {1, 2, 3}]}
=============================================================================
