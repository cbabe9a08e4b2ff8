-------------------------- MODULE MCSourceVersions --------------------------
(***************************************************************************)
(* SourceVersions on a small instance: one source with three versions, or  *)
(* two sources, and two or three requests next to the retention daemon.    *)
(***************************************************************************)
EXTENDS SourceVersions, TLC

CONSTANTS src1, src2, v1, v2, v3, w1, w2

\* v1, v2, v3 are versions of src1, w1 and w2 of src2.
MCSourceOf == [v \in Versions |-> IF v \in {w1, w2} THEN src2 ELSE src1]

\* Requests are interchangeable, and so are the versions of one source.
MCSymmetry ==
  Permutations(Sessions) \cup Permutations(Versions \cap {v1, v2, v3})
    \cup Permutations(Versions \cap {w1, w2})
=============================================================================
