---------------------------- MODULE MCIngestRun ----------------------------
(***************************************************************************)
(* IngestRun on a small instance: two paths, of which one may be absent or *)
(* changed.                                                                *)
(***************************************************************************)
EXTENDS IngestRun, TLC

CONSTANTS p, q, old, new

Both    == p :> old @@ q :> old
Changed == p :> new @@ q :> old
Removed == p :> old @@ q :> NoDoc

MCTrees == {Both, Changed, Removed}

MCHistories == {<<Both, Changed>>}
=============================================================================
