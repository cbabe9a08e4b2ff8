--------------------------- MODULE ServingPointer ---------------------------
(***************************************************************************)
(* What the version table promises to a reader of the corpus, whatever the *)
(* operators, the ingest runs and the retention daemon are doing: every    *)
(* source serves at most one version, the switch from one version to the   *)
(* next is a single step with no gap, and a version that was aborted,      *)
(* retired or deleted never serves again.                                  *)
(*                                                                         *)
(* This is the abstract specification that SourceVersions implements; it   *)
(* has no transactions, no locks and no statuses.                          *)
(***************************************************************************)
CONSTANTS
  Sources,    \* the sources of the corpus
  Versions,   \* the identities of all their versions
  SourceOf,   \* the source a version belongs to, in [Versions -> Sources]
  NoVersion   \* "this source serves nothing", not a version

VARIABLES
  serving,    \* per source, the version its readers see
  dead        \* the versions that can never serve again

vars == <<serving, dead>>

Init ==
  /\ serving = [src \in Sources |-> NoVersion]
  /\ dead = {}

\* Readers of v's source go from whatever they saw to v, in one step.
SwitchTo(v) ==
  /\ v \notin dead
  /\ serving' = [serving EXCEPT ![SourceOf[v]] = v]
  /\ UNCHANGED dead

\* Some versions die; a source whose serving version dies serves nothing.
Discard(gone) ==
  /\ dead' = dead \cup gone
  /\ serving' = [src \in Sources |->
                   IF serving[src] \in gone THEN NoVersion ELSE serving[src]]

Next ==
  \/ \E v \in Versions : SwitchTo(v)
  \/ \E gone \in SUBSET Versions : Discard(gone)

Spec == Init /\ [][Next]_vars
=============================================================================
