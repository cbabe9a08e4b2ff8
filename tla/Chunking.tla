------------------------------ MODULE Chunking ------------------------------
(***************************************************************************)
(* What the chunkers make of one document: markdown by headings, code by   *)
(* items, anything else by lines, and the greedy packing they share with   *)
(* the planners of requests.                                               *)
(*                                                                         *)
(* A text is a sequence of lines with their weight in tokens (0: blank)    *)
(* and head: the level of the heading a line is, or 1 if it opens an item  *)
(* of code.  Byte offsets are line numbers.  The weight of a slice is the  *)
(* sum of its lines' (the tokenizer's own count is close to additive).  A  *)
(* code file is a list of items made of leaves, one leaf per line: split   *)
(* recurses on deeper trees as it does from file to item.                  *)
(***************************************************************************)
EXTENDS Arrangements, SequencesExt

CONSTANTS
  MaxTokens,    \* max_tokens
  Crumb         \* weight of a breadcrumb line

ASSUME ChunkAssumption == MaxTokens \in Nat \ {0} /\ Crumb \in Nat

Target == (MaxTokens * 9) \div 10

Span(lo, hi) == [lo |-> lo, hi |-> hi]
Weights(text) == [i \in DOMAIN text |-> text[i].w]
Tokens(text, r) == SumFunctionOnSet(Weights(text), r.lo..r.hi)
Blank(text, r)  == Tokens(text, r) = 0
Whole(text)     == Span(1, Len(text))

\* Op(v), where v is evaluated once.
With(v, Op(_)) == CHOOSE r \in {Op(x) : x \in {v}} : TRUE

\* Every packer of the code is this loop: a run takes the next unit as long as
\* it fits, and the first that does not opens the next run.
RunEnd(n, Fits(_, _), i) == Max({j \in i..n : \A k \in (i + 1)..j : Fits(i, k)})

\* The runs over n units, where the one that starts at i ends at end[i].
Chain(n, end) ==
  LET runs[i \in 1..(n + 1)] ==
        IF i > n THEN <<>>
        ELSE With(end[i], LAMBDA j : <<Span(i, j)>> \o runs[j + 1])
  IN runs[1]

Pack(n, Fits(_, _)) == Chain(n, [i \in 1..n |-> RunEnd(n, Fits, i)])

\* What runs of pieces cover, from the first of each to its last.
Merged(pieces, runs) ==
  With(runs, LAMBDA rs :
    [k \in DOMAIN rs |-> Span(pieces[rs[k].lo].lo, pieces[rs[k].hi].hi)])

\* The lines of r packed up to a limit; a line above it goes alone.
PackLines(text, r, limit) ==
  With(Pack(r.hi - r.lo + 1, LAMBDA i, j :
         Tokens(text, Span(r.lo + i - 1, r.lo + j - 1)) <= limit),
       LAMBDA runs :
         [k \in DOMAIN runs |-> Span(r.lo + runs[k].lo - 1, r.lo + runs[k].hi - 1)])

\* Mutant, not part of the specification: the next window starts on the line
\* that ended the last one, as windows with an overlap do.
OverlappingWindows(text, r) ==
  LET ws == PackLines(text, r, Target)
  IN [k \in DOMAIN ws |-> IF k = 1 THEN ws[k] ELSE Span(ws[k].lo - 1, ws[k].hi)]

Windows(text, r) == PackLines(text, r, Target)

\* A heading, or an item, starts a section; what precedes the first is one too.
Sections(text) == Pack(Len(text), LAMBDA i, j : text[j].head = 0)
Depth(text, s) == text[s.lo].head

\* coalesce_segments: a run never takes a section shallower than its first.
CoalesceSections(text) ==
  With(Sections(text), LAMBDA s :
    Merged(s, Pack(Len(s), LAMBDA i, j :
      /\ Depth(text, s[j]) >= Depth(text, s[i])
      /\ Tokens(text, Span(s[i].lo, s[j].hi)) <= Target)))

Oversize(text, r) == Tokens(text, r) > MaxTokens

Markdown(text) ==
  With(CoalesceSections(text), LAMBDA s :
    FlattenSeq([k \in DOMAIN s |->
      IF Oversize(text, s[k]) THEN Windows(text, s[k]) ELSE <<s[k]>>]))

\* split_node: small items are packed, an item above the budget is opened.
PackItems(text) ==
  With(Sections(text), LAMBDA items :
    Merged(items, Pack(Len(items), LAMBDA i, j :
      /\ \A k \in i..j : ~Oversize(text, items[k])
      /\ ~Oversize(text, Span(items[i].lo, items[j].hi)))))

SplitNode(text) ==
  With(PackItems(text), LAMBDA packed :
    FlattenSeq([k \in DOMAIN packed |->
      IF Oversize(text, packed[k]) THEN PackLines(text, packed[k], MaxTokens)
      ELSE <<packed[k]>>]))

Written(text, ranges) == Picked(ranges, {k \in DOMAIN ranges : ~Blank(text, ranges[k])})

\* coalesce_code packs across items; blank pieces between two are taken back.
CoalesceCode(text) ==
  With(Written(text, SplitNode(text)), LAMBDA p :
    Merged(p, Pack(Len(p), LAMBDA i, j :
      Tokens(text, Span(p[i].lo, p[j].hi)) <= Target)))

\* A chunk that starts inside an item is headed by the item's first line.
Interior(text, r) == text[r.lo].head = 0 /\ \E i \in 1..(r.lo - 1) : text[i].head > 0

\* A parser that fails or panics leaves the file to the line windows.
Ranges(kind, text) ==
  CASE kind = "markdown" -> Markdown(text)
    [] kind = "code"     -> CoalesceCode(text)
    [] OTHER             -> Windows(text, Whole(text))

Chunks(kind, text) ==
  With(Written(text, Ranges(kind, text)), LAMBDA r :
    [k \in DOMAIN r |->
      [range  |-> r[k],
       tokens |-> Tokens(text, r[k]) +
         (IF kind = "code" /\ Interior(text, r[k]) THEN Crumb ELSE 0)]])
=============================================================================
