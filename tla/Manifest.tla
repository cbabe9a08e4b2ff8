------------------------------ MODULE Manifest ------------------------------
(***************************************************************************)
(* Which files an ingest reads: hierarchy.yaml, the checks made of it, the *)
(* leaves it resolves to and the filter behind a `path:` node.             *)
(*                                                                         *)
(* A tree is a sequence of files in the order of their paths, a path a     *)
(* sequence of names below the source root.  A manifest is a sequence of   *)
(* nodes, each after its parent (0 for the root).  Globs are the names of  *)
(* sets of files.  What a leaf inherits (URL, provenance, no_extract) does *)
(* not decide which files are read, and is left out.                       *)
(***************************************************************************)
EXTENDS Arrangements, SequencesExt

CONSTANTS
  Noise,        \* names of the default skip-list, LICENSE-family files included
  Hidden        \* names that start with a dot

ASSUME NamesAssumption == ".git" \in Hidden

NoPath == <<"">>

Named(m, n)  == m[n].file # NoPath
Files(m)     == Picked([n \in DOMAIN m |-> m[n].file], {n \in DOMAIN m : Named(m, n)})
Paths(m)     == {m[n].file : n \in DOMAIN m} \cup {m[n].path : n \in DOMAIN m}
At(tree, p)  == {f \in DOMAIN tree : tree[f].path = p}

\* Manifest::validate: no path leaves the source root, no file is named twice.
Valid(m) == (\A p \in Paths(m) : ~Contains(p, "..")) /\ IsInjective(Files(m))

\* validate_files_exist
Missing(m, tree) == {p \in Range(Files(m)) : At(tree, p) = {}}

-----------------------------------------------------------------------------
(* FileFilter: the first rule that applies decides.                        *)

Below(path, dir) == SubSeq(path, Len(dir) + 1, Len(path))

\* The walk starts at the directory of the node, whatever its name is, and
\* reads no .gitignore above it.
Walks(file, dir, opts) ==
  /\ IsPrefix(dir, file.path)
  /\ file.shape # "directory"
  /\ Range(Below(file.path, dir)) \cap Hidden = {}
  /\ opts.gitignore => \A g \in file.ignoredIn : ~IsPrefix(dir, g)

Allows(file, node, opts) ==
  /\ ~Contains(file.path, ".git")
  /\ opts.skipList => Range(file.path) \cap Noise = {}
  /\ node.exclude \cap file.globs = {}
  /\ IF node.include = {} THEN file.known ELSE node.include \cap file.globs # {}

Reaches(file, node, opts) ==
  node.path # NoPath /\ Walks(file, node.path, opts) /\ Allows(file, node, opts)

-----------------------------------------------------------------------------
(* resolve.                                                                *)

\* The files named by children are left to them; those named elsewhere are not.
Discovered(m, tree, opts, n) ==
  LET explicit == {m[c].file : c \in {c \in DOMAIN m : m[c].parent = n}}
  IN InOrder({f \in DOMAIN tree : Reaches(tree[f], m[n], opts) /\ tree[f].path \notin explicit})

\* The files of the tree have different paths.
Explicit(m, tree, n) == IF Named(m, n) THEN InOrder(At(tree, m[n].file)) ELSE <<>>

Increasing(s) == Descending(s, [k \in DOMAIN s |-> -s[k]])

Leaves(m, tree, opts) ==
  Increasing(FlattenSeq([n \in DOMAIN m |->
    Explicit(m, tree, n) \o Discovered(m, tree, opts, n)]))

\* What the manifest says of a file, however often it says it.
Declared(m, tree, opts) ==
  {f \in DOMAIN tree : \E n \in DOMAIN m :
     m[n].file = tree[f].path \/ Reaches(tree[f], m[n], opts)}
=============================================================================
