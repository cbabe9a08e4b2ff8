------------------------------ MODULE Uploads ------------------------------
(***************************************************************************)
(* The plan and the upload loop of `mnm ingest run`.  The files a manifest *)
(* selects are read, and planned as carried, new or skipped; the new       *)
(* documents are packed into batches; each batch is embedded (context      *)
(* groups packed into requests, halved when the provider finds them too    *)
(* long, answers put back in order), the vectors are attached by position, *)
(* and the batch is sent, halved when the server finds it too large.       *)
(* IngestRun models the run around this loop and takes its plan, and any   *)
(* split of a batch, for granted.                                          *)
(*                                                                         *)
(* A chunk is named <<document, index>>, a vector by the chunk it is of    *)
(* and the group it was made with.  Provider and server are external.      *)
(***************************************************************************)
EXTENDS Chunking, Manifest

CONSTANTS
  Runs,             \* [tree, manifest, opts, known, source, coded]: what is on
                    \* disk, the flags, whether the prior inventory could be
                    \* fetched, where texts are embedded, code vectors wanted
  GroupLimit,       \* context_group_limit()
  Window,           \* the provider's limit for one group
  Dense,            \* tokens it counts more for a chunk of a dense document
  MaxInputs, MaxRequestTokens, MaxRequestChunks,    \* plan_group_batches
  MaxTexts, MaxTextTokens,                          \* plan_subbatches
  MaxDocs, ByteTarget,                              \* pack_upload_batches
  DocBytes, VectorBytes,                            \* est_doc_bytes
  BodyLimit,        \* MAX_INGEST_BODY_BYTES
  Bulk,             \* bytes a bulky document has above its estimate
  MaxFaults         \* bound: requests that fail for a passing reason

ASSUME UploadAssumption ==
  /\ \A r \in Runs :
       /\ r.source \in {"byok", "server"} /\ r.coded \in BOOLEAN
       /\ \A x \in {r.tree, r.manifest} : DOMAIN x = 1..Len(x) /\ Len(x) \in Nat
       /\ \A f \in DOMAIN r.tree :
            /\ r.tree[f].text \in Seq([w : Nat, head : Nat])
            /\ r.tree[f].path # NoPath
            /\ \A g \in DOMAIN r.tree : r.tree[f].path = r.tree[g].path => f = g
  /\ {GroupLimit, Window, Dense, MaxInputs, MaxRequestTokens, MaxRequestChunks,
      MaxTexts, MaxTextTokens, MaxDocs, ByteTarget, DocBytes, VectorBytes,
      BodyLimit, Bulk, MaxFaults} \subseteq Nat

VARIABLES
  run,          \* the arguments, the manifest and the tree of the run
  docs,         \* plan.new_documents, with their chunks and groups
  carried,      \* plan.carried_documents
  skipped,      \* walk_skipped, plan.skipped_empty, oversize_skips
  pc,
  todo,         \* tagged_batches not started
  batch,        \* batch_docs
  calls,        \* embedding requests of the batch still to make
  attempt,
  vectors,      \* general_vectors, then the code vectors
  general,      \* the embeddings attached, by document
  code,         \* the code_embeddings attached
  puts,         \* parts of the batch still to send
  stored,       \* documents the server has stored, with their vectors
  conflicts,    \* documents skipped as too large
  billed,       \* how often the provider has embedded each chunk
  lost,         \* times a connection fell after the work was done
  faults

loop   == <<run, docs, carried, skipped>>
embeds == <<calls, attempt, vectors>>
server == <<stored, conflicts>>
ghosts == <<billed, lost>>
vars == <<loop, pc, todo, batch, embeds, general, code, puts, server, ghosts, faults>>

MaxAttempts == 3
source == run.source
coded  == run.coded

ChunksOf(d) == docs[d].chunks
Ids(d)      == [k \in DOMAIN ChunksOf(d) |-> <<d, k>>]
TokensOf(c) == ChunksOf(c[1])[c[2]].tokens
\* As the provider counts.
RealTokens(c) == TokensOf(c) + (IF docs[c[1]].dense THEN Dense ELSE 0)
Total(s) == SumFunction(s)
Weight(g) == Total([k \in DOMAIN g |-> TokensOf(g[k])])

Slice(s, r) == SubSeq(s, r.lo, r.hi)
Slices(s, runs) == [k \in DOMAIN runs |-> Slice(s, runs[k])]

-----------------------------------------------------------------------------
(* Context groups and requests.                                            *)

Sum(counts, i, j) == SumFunctionOnSet(counts, i..j)

MaxFill(counts, limit) ==
  Pack(Len(counts), LAMBDA i, j :
    Sum(counts, i, j - 1) = 0 \/ Sum(counts, i, j) <= limit)

\* try_partition: n groups, each filled up to its share of what remains.
GroupEnd(counts, limit, left, i) ==
  LET share == (Sum(counts, i, Len(counts)) + left - 1) \div left
  IN RunEnd(Len(counts), LAMBDA a, b :
       \/ Sum(counts, a, b - 1) = 0
       \/ /\ Sum(counts, a, b) <= limit
          /\ left = 1 \/ Sum(counts, a, b - 1) < share, i)

\* Where the groups end.
Partition(counts, limit, n) ==
  LET ends[g \in 0..n] ==
        IF g = 0 THEN 0
        ELSE With(ends[g - 1], LAMBDA at :
               IF at = Len(counts) THEN at ELSE GroupEnd(counts, limit, n - g + 1, at + 1))
  IN ends

BalancedGroups(counts, limit) ==
  IF counts = <<>> THEN <<>>
  ELSE IF Sum(counts, 1, Len(counts)) <= limit THEN <<Span(1, Len(counts))>>
  ELSE LET fill == MaxFill(counts, limit)
           n    == Len(fill)
           ends == Partition(counts, limit, n)
       IN IF ends[n - 1] < Len(counts) /\ ends[n] = Len(counts)
          THEN [g \in 1..n |-> Span(ends[g - 1] + 1, ends[g])]
          ELSE fill

\* The groups of a document are made when its batch is; they follow from its
\* chunks, and the model keeps them with those.
Groups(d, chunks) ==
  Slices([k \in DOMAIN chunks |-> <<d, k>>],
         BalancedGroups([k \in DOMAIN chunks |-> chunks[k].tokens], GroupLimit))

GroupsOf(b) == FlattenSeq([k \in DOMAIN b |-> docs[b[k]].groups])

\* plan_group_batches: a group above a bound goes alone.
Requests(groups) ==
  Slices(groups, Pack(Len(groups), LAMBDA i, j :
    /\ j - i < MaxInputs
    /\ Total([k \in 1..(j - i + 1) |-> Weight(groups[i + k - 1])]) <= MaxRequestTokens
    /\ Len(FlattenSeq(SubSeq(groups, i, j))) <= MaxRequestChunks))

AllIds(b)   == FlattenSeq([k \in DOMAIN b |-> Ids(b[k])])
CodeDocs(b) == Picked(b, {k \in DOMAIN b : docs[b[k]].kind = "code"})
CodeIds(b)  == AllIds(CodeDocs(b))

\* plan_subbatches, on the chunks of the code documents.
CodeRequests(ids) ==
  Slices(ids, Pack(Len(ids), LAMBDA i, j :
    j - i < MaxTexts /\ Weight(SubSeq(ids, i, j)) <= MaxTextTokens))

GeneralCall(groups) == [groups |-> groups, alone |-> FALSE]
AloneCall(group)    == [groups |-> <<group>>, alone |-> TRUE]
FlatCall(ids)       == [groups |-> [k \in DOMAIN ids |-> <<ids[k]>>], alone |-> FALSE]

-----------------------------------------------------------------------------
(* Uploads.                                                                *)

PerChunk(d) == IF docs[d].kind = "code" THEN 2 * VectorBytes ELSE VectorBytes
EstBytes(d) ==
  DocBytes + Total([k \in DOMAIN ChunksOf(d) |-> ChunksOf(d)[k].tokens + PerChunk(d)])
\* What the document really takes in a body.
Bytes(d) == EstBytes(d) + (IF docs[d].bulky THEN Bulk ELSE 0)

\* drop_oversize_documents
Oversized == {d \in DOMAIN docs : EstBytes(d) > BodyLimit}
Kept == InOrder(DOMAIN docs \ Oversized)

UploadBatches(ids) ==
  Slices(ids, Pack(Len(ids), LAMBDA i, j :
    /\ j - i < MaxDocs
    /\ Total([k \in 1..(j - i + 1) |-> EstBytes(ids[i + k - 1])]) <= ByteTarget))

-----------------------------------------------------------------------------
(* The plan.  A leaf of the manifest is a file of the tree.                *)

Found == Leaves(run.manifest, run.tree, run.opts)
File(f) == run.tree[f]

\* The walker reads regular files of text of a moderate size.
Among(files, S) == Picked(files, {k \in DOMAIN files : files[k] \in S})
Regular == {f \in DOMAIN run.tree : File(f).shape = "regular"}
Walked  == With(Found, LAMBDA found : Among(found, Regular))

\* add_walked_document: what the prior version holds unchanged is carried.
Unchanged == {f \in Regular : run.known /\ File(f).prior = "same"}
Empty     == {f \in Regular : Chunks(File(f).kind, File(f).text) = <<>>}
New       == Regular \ (Unchanged \cup Empty)

Planned(d, f) ==
  With(Chunks(File(f).kind, File(f).text), LAMBDA chunks :
    [file |-> f, kind |-> File(f).kind, dense |-> File(f).dense, bulky |-> File(f).bulky,
     chunks |-> chunks, groups |-> Groups(d, chunks)])

Unattached == [d \in DOMAIN docs |-> <<>>]

Documents ==
  With(Among(Walked, New), LAMBDA new : [d \in DOMAIN new |-> Planned(d, new[d])])

Sound == Valid(run.manifest) /\ Missing(run.manifest, run.tree) = {}

\* The manifest is refused, or the planner is fed a path twice: the validator
\* compares the files named, not what `path:` nodes discover.
RefusePlan ==
  /\ ~Sound \/ ~IsInjective(Walked)
  /\ docs = <<>> /\ carried = <<>> /\ skipped = <<>>
  /\ pc = "failed"

MakePlan ==
  /\ Sound /\ IsInjective(Walked)
  /\ docs = Documents
  /\ carried = Among(Walked, Unchanged)
  /\ skipped = With(Found, LAMBDA found : Among(found, DOMAIN run.tree \ Regular))
               \o Among(Walked, Empty \ Unchanged)
  /\ pc = "pack"

\* Up to its plan the run only reads.
Init ==
  /\ run \in Runs
  /\ RefusePlan \/ MakePlan
  /\ todo = <<>> /\ batch = <<>>
  /\ calls = <<>> /\ attempt = 1 /\ vectors = <<>>
  /\ general = <<>> /\ code = <<>>
  /\ puts = <<>> /\ stored = <<>> /\ conflicts = <<>>
  /\ billed = <<>> /\ lost = 0 /\ faults = 0

PackBatches ==
  /\ pc = "pack"
  /\ skipped' = skipped \o
       LET oversize == InOrder(Oversized)
       IN [k \in DOMAIN oversize |-> docs[oversize[k]].file]
  /\ todo' = UploadBatches(Kept)
  /\ general' = Unattached /\ code' = Unattached
  /\ billed' = [d \in DOMAIN docs |-> [k \in DOMAIN ChunksOf(d) |-> 0]]
  /\ pc' = "next"
  /\ UNCHANGED <<run, docs, carried, batch, embeds, puts, server, lost, faults>>

StartBatch ==
  /\ pc = "next" /\ todo # <<>>
  /\ batch' = Head(todo) /\ todo' = Tail(todo)
  /\ calls' = LET r == Requests(GroupsOf(batch')) IN [k \in DOMAIN r |-> GeneralCall(r[k])]
  /\ vectors' = <<>>
  /\ pc' = "embed"
  /\ UNCHANGED <<loop, attempt, general, code, puts, server, ghosts, faults>>

Fail ==
  /\ pc' = "failed"
  /\ UNCHANGED <<loop, todo, batch, embeds, general, code, puts, server>>

-----------------------------------------------------------------------------
(* One embedding request and what may come back.                           *)

Embedding == pc \in {"embed", "code"} /\ calls # <<>>
Call      == Head(calls)
TextsOf(call) == FlattenSeq(call.groups)

Billed(call) ==
  [d \in DOMAIN billed |-> [k \in DOMAIN billed[d] |->
     billed[d][k] + (IF Contains(TextsOf(call), <<d, k>>) THEN 1 ELSE 0)]]

\* A list of the answer, its items in some order, each with its index; in a
\* garbled one every item has the first index.
Items(s, order) ==
  [k \in DOMAIN s |->
     LET i == IF order = "kept" THEN k ELSE Len(s) + 1 - k
     IN [index |-> IF order = "garbled" THEN 1 ELSE i, of |-> s[i]]]

\* sort_by_key, which is stable, and verify_index_permutation.
Sorted(items)   == Descending(items, [k \in DOMAIN items |-> -items[k].index])
Restored(items) == With(Sorted(items), LAMBDA s : [k \in DOMAIN s |-> s[k].of])

\* Mutant, not part of the specification: the count alone is verified.
CountOnly(items) == TRUE

Permutation(items) == With(Sorted(items), LAMBDA s : \A k \in DOMAIN s : s[k].index = k)

\* A request for groups is answered by groups, with orders of their own.
Answer(call, order) ==
  Items([g \in DOMAIN call.groups |->
           Items([k \in DOMAIN call.groups[g] |->
                    [of |-> call.groups[g][k], with |-> call.groups[g]]],
                 order)],
        order)

Answers(call) == {Answer(call, order) : order \in {"kept", "reversed", "garbled"}}

Readable(answer) ==
  /\ Permutation(answer)
  /\ \A g \in DOMAIN answer : Permutation(answer[g].of)

Vectors(answer) ==
  With(Restored(answer), LAMBDA groups :
    FlattenSeq([g \in DOMAIN groups |-> Restored(groups[g])]))

\* The window is a limit of contextualized requests.
Overflows(call) ==
  /\ pc = "embed"
  /\ \E g \in DOMAIN call.groups :
       Total([k \in DOMAIN call.groups[g] |-> RealTokens(call.groups[g][k])]) > Window

\* A failed call is made again after a pause, or ends the run.
Again(retryable) ==
  \/ /\ retryable /\ attempt < MaxAttempts
     /\ attempt' = attempt + 1
     /\ UNCHANGED <<loop, pc, todo, batch, calls, vectors, general, code, puts, server>>
  \/ /\ ~retryable \/ attempt >= MaxAttempts
     /\ Fail

\* The provider has done the work.  An answer that cannot be read ends a run
\* that asked the provider; the proxy makes a 502 of it, which is retried.
Embedded ==
  /\ Embedding /\ ~Overflows(Call)
  /\ billed' = Billed(Call)
  /\ \E answer \in Answers(Call) :
       \/ /\ Readable(answer)
          /\ vectors' = vectors \o Vectors(answer)
          /\ calls' = Tail(calls) /\ attempt' = 1
          /\ UNCHANGED <<loop, pc, todo, batch, general, code, puts, server, lost>>
       \/ /\ ~Readable(answer) /\ source = "byok"
          /\ Fail /\ UNCHANGED lost
       \/ /\ ~Readable(answer) /\ source = "server"
          /\ Again(TRUE) /\ lost' = lost + 1
  /\ UNCHANGED faults

Halves(group) ==
  LET mid == Len(group) \div 2
  IN <<AloneCall(SubSeq(group, 1, mid)), AloneCall(SubSeq(group, mid + 1, Len(group)))>>

\* Mutant, not part of the specification: a group alone is sent again whole.
SmallerToGroups(call) == [g \in DOMAIN call.groups |-> AloneCall(call.groups[g])]

\* What a rejected request is replaced by: its groups one by one, then halves.
Smaller(call) ==
  IF call.alone THEN Halves(call.groups[1])
  ELSE [g \in DOMAIN call.groups |-> AloneCall(call.groups[g])]

Rejected ==
  /\ Embedding /\ source = "byok" /\ Overflows(Call)
  /\ \/ /\ ~Call.alone \/ Len(Call.groups[1]) > 1
        /\ calls' = Smaller(Call) \o Tail(calls)
        /\ attempt' = 1
        /\ UNCHANGED <<loop, pc, todo, batch, vectors, general, code, puts, server>>
     \/ /\ Call.alone /\ Len(Call.groups[1]) = 1
        /\ Fail
  /\ UNCHANGED <<ghosts, faults>>

\* The proxy answers 413 to a group it finds too long itself, and 502 to what
\* the provider has rejected.
RejectedByProxy ==
  /\ Embedding /\ source = "server" /\ Overflows(Call)
  /\ \E status \in {413, 502} : Again(status = 502)
  /\ UNCHANGED <<ghosts, faults>>

\* Mutant, not part of the specification: a timeout is worth a retry.
RetriedAll == {"refused", "dropped", "timeout"}

\* is_retryable: the provider answers 429 or 5xx, the connection falls.
Retryable == {"refused", "dropped"}

\* A dropped or late answer leaves open whether the provider did the work.
Unanswered ==
  /\ Embedding
  /\ faults < MaxFaults /\ faults' = faults + 1
  /\ \E how \in {"refused", "dropped", "timeout"}, worked \in BOOLEAN :
       /\ worked => how # "refused" /\ ~Overflows(Call)
       /\ billed' = IF worked THEN Billed(Call) ELSE billed
       /\ lost' = IF worked /\ how = "dropped" THEN lost + 1 ELSE lost
       /\ Again(how \in Retryable)

-----------------------------------------------------------------------------
\* One vector for each chunk, by position, in the order of the documents.
Distribute(b, vs, old) ==
  [d \in DOMAIN old |->
     IF \E k \in DOMAIN b : b[k] = d
     THEN LET at == CHOOSE k \in DOMAIN b : b[k] = d
              skip == Total([k \in 1..(at - 1) |-> Len(ChunksOf(b[k]))])
          IN SubSeq(vs, skip + 1, skip + Len(ChunksOf(d)))
     ELSE old[d]]

Attach ==
  /\ pc = "embed" /\ calls = <<>>
  /\ general' = Distribute(batch, vectors, general)
  /\ vectors' = <<>>
  /\ LET r == CodeRequests(CodeIds(batch))
     IN IF coded /\ r # <<>>
        THEN /\ calls' = [k \in DOMAIN r |-> FlatCall(r[k])]
             /\ pc' = "code" /\ UNCHANGED puts
        ELSE pc' = "upload" /\ puts' = <<batch>> /\ UNCHANGED calls
  /\ UNCHANGED <<loop, todo, batch, attempt, code, server, ghosts, faults>>

AttachCode ==
  /\ pc = "code" /\ calls = <<>>
  /\ code' = Distribute(CodeDocs(batch), vectors, code)
  /\ vectors' = <<>>
  /\ pc' = "upload" /\ puts' = <<batch>>
  /\ UNCHANGED <<loop, todo, batch, calls, attempt, general, server, ghosts, faults>>

TooLarge(part) == Total([k \in DOMAIN part |-> Bytes(part[k])]) > BodyLimit

Row(d) == [doc |-> d, general |-> general[d], code |-> code[d]]

Put ==
  /\ pc = "upload" /\ puts # <<>> /\ ~TooLarge(Head(puts))
  /\ stored' = stored \o [k \in DOMAIN Head(puts) |-> Row(Head(puts)[k])]
  /\ puts' = Tail(puts)
  /\ UNCHANGED <<loop, pc, todo, batch, embeds, general, code, conflicts, ghosts, faults>>

Halved(part) ==
  <<SubSeq(part, 1, Len(part) \div 2), SubSeq(part, (Len(part) \div 2) + 1, Len(part))>>

\* 413: the part is halved; a document that is too large alone is skipped.
PutTooLarge ==
  /\ pc = "upload" /\ puts # <<>> /\ TooLarge(Head(puts))
  /\ \/ /\ Len(Head(puts)) > 1
        /\ puts' = Halved(Head(puts)) \o Tail(puts)
        /\ UNCHANGED conflicts
     \/ /\ Len(Head(puts)) = 1
        /\ conflicts' = conflicts \o Head(puts)
        /\ puts' = Tail(puts)
  /\ UNCHANGED <<loop, pc, todo, batch, embeds, general, code, stored, ghosts, faults>>

\* Any other answer, or none: the run is aborted.
PutFails ==
  /\ pc = "upload" /\ puts # <<>>
  /\ faults < MaxFaults /\ faults' = faults + 1
  /\ Fail
  /\ UNCHANGED ghosts

NextBatch ==
  /\ pc = "upload" /\ puts = <<>>
  /\ pc' = "next" /\ batch' = <<>>
  /\ UNCHANGED <<loop, todo, embeds, general, code, puts, server, ghosts, faults>>

Finish ==
  /\ pc = "next" /\ todo = <<>>
  /\ pc' = "done"
  /\ UNCHANGED <<loop, todo, batch, embeds, general, code, puts, server, ghosts, faults>>

Next ==
  \/ PackBatches \/ StartBatch \/ Embedded \/ Rejected \/ RejectedByProxy \/ Unanswered
  \/ Attach \/ AttachCode \/ Put \/ PutTooLarge \/ PutFails
  \/ NextBatch \/ Finish

\* The CLI goes on, and every request ends: with an answer or a timeout.
Spec == Init /\ [][Next]_vars /\ WF_vars(Next)

-----------------------------------------------------------------------------
Tile(text, cs) ==
  /\ \A k \in 2..Len(cs) : cs[k - 1].range.hi < cs[k].range.lo
  /\ \A i \in DOMAIN text : text[i].w > 0 =>
       \E k \in DOMAIN cs : cs[k].range.lo <= i /\ i <= cs[k].range.hi
  /\ \A k \in DOMAIN cs :
       \/ Tokens(text, cs[k].range) <= MaxTokens
       \/ cs[k].range.lo = cs[k].range.hi

\* The chunks of a document (markdown.rs, code/, line_window.rs) are disjoint
\* and in order, lose no line that is not blank, and keep to the budget
\* unless they are a single line.
ChunksTile == \A d \in DOMAIN docs : Tile(File(docs[d].file).text, docs[d].chunks)

Own(d, vs) ==
  /\ Len(vs) = Len(ChunksOf(d))
  /\ \A k \in DOMAIN vs :
       /\ vs[k].of = <<d, k>>
       /\ \A c \in Range(vs[k].with) : c[1] = d

\* Whatever the order of the answers and however requests were split, a chunk
\* the server stores carries the vector of its own text, made in a context of
\* its own document, and a code vector exactly if it is code and they are on
\* (embed_batch, attach_embeddings, attach_code_embeddings).
VectorsAligned ==
  \A i \in DOMAIN stored :
    LET d == stored[i].doc
    IN /\ Own(d, stored[i].general)
       /\ IF coded /\ docs[d].kind = "code" THEN Own(d, stored[i].code)
          ELSE stored[i].code = <<>>

Sent == [i \in DOMAIN stored |-> stored[i].doc] \o conflicts
Handled == [i \in DOMAIN Sent |-> docs[Sent[i]].file] \o carried

\* Each file the manifest declares, by name or through the filter, is stored,
\* refused as too large, carried or reported as skipped, and only once,
\* however the plan dropped and the batches split; a run that ends well has
\* missed none (walk, PlanBuilder, drop_oversize_documents,
\* pack_upload_batches, upload_documents_with_split, merge_split_responses).
EveryDocumentOnce ==
  /\ IsInjective(Handled) /\ Range(Handled) \cap Range(skipped) = {}
  /\ pc = "done" =>
       Range(Handled) \cup Range(skipped) = Declared(run.manifest, run.tree, run.opts)

\* What is stored is what was declared, once and with its own vectors.
StoredRight == VectorsAligned /\ EveryDocumentOnce

\* Splitting and retrying never have a chunk embedded again that has already
\* been paid for, except where an answer was lost (is_retryable, issue 164).
NothingBilledTwice ==
  \A d \in DOMAIN billed : \A k \in DOMAIN billed[d] :
    billed[d][k] <= lost + (IF coded /\ docs[d].kind = "code" THEN 2 ELSE 1)

\* Halving a rejected request or a rejected body comes to an end.
UploadEnds == <>(pc \in {"done", "failed"})

=============================================================================
