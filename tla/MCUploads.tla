----------------------------- MODULE MCUploads -----------------------------
(***************************************************************************)
(* Uploads on short texts: every text of up to four lines of one document  *)
(* for the chunkers, lists of documents for the batches, and one tree with *)
(* many manifests for the plan.                                            *)
(***************************************************************************)
EXTENDS Uploads, TLC

Line(w, head) == [w |-> w, head |-> head]
Lines == {Line(0, 0), Line(2, 0), Line(6, 0), Line(2, 1), Line(2, 2), Line(6, 1)}
Texts == UNION {[1..n -> Lines] : n \in 1..3}
         \cup [1..4 -> {Line(0, 0), Line(2, 0), Line(6, 0), Line(2, 1)}]

Doc(kind, text, dense, bulky) ==
  [kind |-> kind, text |-> text, dense |-> dense, bulky |-> bulky]

\* An entry of the tree that is read, with nothing special about it.
Entry(path, doc) ==
  doc @@ [path |-> path, shape |-> "regular", known |-> TRUE, prior |-> "none",
          ignoredIn |-> {}, globs |-> {}]

Node(parent, file, path) ==
  [parent |-> parent, file |-> file, path |-> path, include |-> {}, exclude |-> {}]

Names == <<"a", "b", "c">>

\* A manifest that names every file of the list.
Listed(list) ==
  [tree     |-> [d \in DOMAIN list |-> Entry(<<Names[d]>>, list[d])],
   manifest |-> <<Node(0, NoPath, NoPath)>> \o
                [d \in DOMAIN list |-> Node(1, <<Names[d]>>, NoPath)],
   opts     |-> [gitignore |-> FALSE, skipList |-> TRUE]]

Run(selection, known, at, both) ==
  selection @@ [known |-> known, source |-> at, coded |-> both]

Two   == <<Line(2, 1), Line(2, 0)>>
Four  == <<Line(2, 1), Line(2, 0), Line(2, 1), Line(2, 0)>>
Six   == Four \o Two
Spill == <<Line(3, 1), Line(3, 1), Line(2, 1), Line(8, 1), Line(1, 1)>>
Long  == <<Line(8, 0)>>

\* Every short text, embedded at the provider.
Single ==
  {Run(Listed(<<Doc(k, t, FALSE, FALSE)>>), FALSE, "byok", FALSE)
     : k \in {"markdown", "code", "plain"}, t \in Texts}

Lists ==
  {<<Doc("code", Six, dense, FALSE)>> : dense \in BOOLEAN}
  \cup {<<Doc("markdown", Four, TRUE, bulky), Doc("code", Two, FALSE, bulky)>>
          : bulky \in BOOLEAN}
  \cup {<<Doc("plain", Two, dense, TRUE), Doc("markdown", Two, FALSE, b),
           Doc("code", Two, dense, FALSE)>> : dense, b \in BOOLEAN}
  \cup {<<Doc("markdown", Spill, FALSE, FALSE)>>,
         <<Doc("plain", Long, TRUE, FALSE), Doc("markdown", Six, TRUE, TRUE)>>}

-----------------------------------------------------------------------------
(* Selections: one tree, with a file of every kind the filter and the      *)
(* walker tell apart.                                                      *)

Page(path) == Entry(path, Doc("markdown", <<Line(2, 1)>>, FALSE, FALSE))

Tree ==
  <<Page(<<".hub", "a">>),
    [Page(<<"docs", "a">>) EXCEPT !.prior = "same", !.globs = {"g"}],
    [Page(<<"docs", "b">>) EXCEPT !.prior = "changed", !.ignoredIn = {<<>>}],
    [Page(<<"docs", "c">>) EXCEPT !.known = FALSE, !.globs = {"g"}],
    [Page(<<"docs", "d">>) EXCEPT !.shape = "binary"],
    [Page(<<"docs", "e">>) EXCEPT !.text = <<Line(0, 0)>>],
    [Page(<<"docs", "f">>) EXCEPT !.text = <<Line(40, 0)>>],
    [Page(<<"docs", "out", "a">>) EXCEPT !.ignoredIn = {<<"docs">>}]>>

Globs == SUBSET {"g"}

Manifests ==
  {<<Node(0, NoPath, NoPath),
     [Node(1, NoPath, dir) EXCEPT !.include = i, !.exclude = e],
     Node(2, file, NoPath)>>
     : dir \in {<<>>, <<"docs">>, <<".hub">>}, i, e \in Globs,
       file \in {<<"docs", "a">>, <<"docs", "out", "a">>}}
  \cup {<<Node(0, file, path), Node(1, child, <<"docs">>)>>
          : file \in {NoPath, <<"docs", "a">>, <<"docs", "x">>, <<"..", "a">>},
            child \in {NoPath, <<"docs", "a">>},
            path \in {NoPath, <<"docs", "out">>, <<"docs">>}}

Selections ==
  [tree : {Tree}, manifest : Manifests, opts : [gitignore : BOOLEAN, skipList : BOOLEAN]]

MCRuns ==
  Single
  \cup {Run(Listed(l), FALSE, s, c) : l \in Lists, s \in {"byok", "server"}, c \in BOOLEAN}
  \cup {Run(s, known, "byok", FALSE) : s \in Selections, known \in BOOLEAN}
=============================================================================
