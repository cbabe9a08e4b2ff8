-------------------------- MODULE MCAdministration --------------------------
(* Three scopes, one behaviour to each: two operators at the store, the    *)
(* life of a token through edits and deployments, two handlers at the      *)
(* registry under one admin.                                               *)
EXTENDS Administration

VARIABLE scope

\* No file, one that lists ann, and one that was edited into listing her twice.
Listed == <<Row("ann", "admin", Odd)>>
MCFirstStores == {Nil, Listed, <<Row("ann", "admin", Odd), Row("ann", "writer", Odd)>>}

\* A command goes straight on to its rename.
Promptly == Amending("x") => edit'["x"] # edit["x"] /\ (edit'["x"] = AtRest => userStore' = edit["x"].rows)

\* One operator has one key and makes ann an admin.
OneAdmin ==
  /\ edit'["y"] = AtRest /\ drawn' <= 1 /\ (drawn' # drawn => edit'["x"].user = "ann")
  /\ byHand' = byHand /\ held'["bob"] = Nil /\ Promptly

Within ==
  CASE scope = "store" -> time' = 0 /\ drawn' <= 1 /\ requests' = 0 /\ held' = held /\ deploys' <= 1
    [] scope = "token" ->
         OneAdmin /\ job'["i"] = Quiet /\ requests' <= 1 /\ edits' <= 2 /\ deploys' <= 2 /\ "bob" \notin Names(edit'["x"].rows)
         /\ (requests' > requests => edit["x"] = AtRest /\ job'["h"].op \in {"create", "ingest"} /\ job'["h"].keep = Nil)
         /\ (edits' > edits => requests = 0)
    [] OTHER ->
         OneAdmin /\ time' <= 2 /\ edits' <= 1 /\ deploys' <= 1 /\ (edits' # edits => edit'["x"].rows = <<Row("ann", "admin", 1)>>)
         /\ held'["guest"] = Nil /\ secret' = 0 /\ (deploys' > 0 => Names(server'.rows) = {"ann"})

MCInit ==
  /\ AdministrationInit /\ scope \in {"store", "token", "registry"}
  /\ scope # "store" => userStore = Nil
MCNext == AdministrationNext /\ Within /\ UNCHANGED scope
MCSpec == MCInit /\ [][MCNext]_<<administrationVars, scope>>
=============================================================================
