------------------------------- MODULE Context -------------------------------
(***************************************************************************)
(* From a question to the cited prompt: the steps of a plan search the     *)
(* chunks of a repository, _run_pipeline (api/routes/query.py) merges what *)
(* they find, PromptBuilder.build_from_results and ContextAssembler        *)
(* (generation/) fit it into the token budget, and validate_citations      *)
(* (generation/citation.py) checks the ranges the answer cites.            *)
(***************************************************************************)
EXTENDS Chunker, Retrieval

CONSTANTS
  Sources,      \* the repositories: the nodes of every file, in the order of their paths
  Budgets,      \* the token budgets
  TopK, MaxContext,         \* top_k and _MAX_CONTEXT_RESULTS
  Rules, Examples, Prior, Marker,  \* the tokens of what is not evidence
  MaxRounds,    \* _MAX_REASSEMBLY_ROUNDS
  MaxSteps, MaxHybrid,  \* bound: the searches of a plan, those that may be hybrid
  MaxHits       \* bound: what the index of chunks finds for a query

ASSUME ContextAssumption ==
  /\ \A files \in Sources : files \in Seq({file \in Seq(Node) : IsSource(file)})
  /\ Budgets \subseteq Nat \ {0}
  /\ {Rules, Examples, Prior, Marker} \subseteq Nat
  /\ {TopK, MaxContext, MaxRounds, MaxSteps, MaxHybrid, MaxHits} \subseteq Nat \ {0}

VARIABLES
  src, chunks,     \* the repository and the chunks indexed of it
  found, steps,    \* the results of the plan's searches so far
  lists, fused,    \* of a hybrid search: the backends' rankings, and one of them
  budget, prior,   \* the token budget; are there answers of earlier steps?
  results,         \* what the steps found, merged
  ctx, round,      \* the assembler's budget and the rounds so far
  context,         \* the blocks the assembler made for this round
  prompt, pc

vars == <<src, chunks, found, steps, lists, fused, budget, prior, results, ctx, round, context, prompt, pc>>

-----------------------------------------------------------------------------
(* The searches.                                                           *)

NoFile == 0

Result(file, first, last, text, score) ==
  [file |-> file, start |-> first, end |-> last, text |-> text, score |-> score]

\* A point of the code index: a chunk.  Of the documentation index: a docstring
\* with the lines of its symbol.  A neighbour in the graph: its signature with
\* the lines of its symbol, or a placeholder that has neither file nor lines.
Definitions(f) == {n \in ToSet(src[f]) : IsDefinition(n)}
Code ==
  UNION {{Result(f, c.start, c.end, c.text, 0) : c \in ToSet(chunks[f])} : f \in DOMAIN chunks}
Docs ==
  UNION {{Result(f, n.first, n.last, <<n.body>>, 0) : n \in Definitions(f)} : f \in DOMAIN src}
Neighbours ==
  {Result(NoFile, 0, 0, <<0>>, 0)} \cup
    (UNION {{Result(f, n.first, n.last, <<n.first>>, 0) : n \in Definitions(f)} : f \in DOMAIN src})

\* The rankings of at most n members of S.
Rankings(S, n) ==
  {[i \in DOMAIN s |-> [s[i] EXCEPT !.score = (n + 2 - i) * Scale]] :
     s \in {t \in UNION {[1..k -> S] : k \in 0..n} : IsInjective(t)}}

Bm25Lists(k) == {Bm25Results(hits, exact, k) : hits \in Rankings(Code, MaxHits),
                                               exact \in {{}, {MaxHits}}}
VectorLists(k) == {VectorResults(code, docs, k) : code \in Rankings(Code, 1), docs \in Rankings(Docs, 1)}
GraphLists(k) == {GraphResults(<<near, near>>, k) : near \in Rankings(Neighbours, 1)}

\* search_hybrid asks the three backends, ...
SearchHybrid ==
  /\ pc = "search"
  /\ steps < MaxHybrid
  /\ lists' \in
       {<<bm25, vector, graph>> :
          bm25 \in Bm25Lists(MaxRank), vector \in VectorLists(MaxRank), graph \in GraphLists(MaxRank)}
  /\ pc' = "fuse"
  /\ UNCHANGED <<src, chunks, found, steps, fused, budget, prior, results, ctx, round, context, prompt>>

\* ... fuses their rankings ...
Fuse ==
  /\ pc = "fuse"
  /\ fused' = ReciprocalRankFusion(lists)
  /\ pc' = "rerank"
  /\ UNCHANGED <<src, chunks, found, steps, lists, budget, prior, results, ctx, round, context, prompt>>

\* ... and has the window ordered anew, unless the reranker fails.
Rerank ==
  /\ pc = "rerank"
  /\ \E list \in {Top(fused, TopK), Reranked(fused, [i \in DOMAIN fused |-> i], TopK)} :
       found' = found \o list
  /\ steps' = steps + 1
  /\ lists' = <<>> /\ fused' = <<>>
  /\ pc' = "search"
  /\ UNCHANGED <<src, chunks, budget, prior, results, ctx, round, context, prompt>>

\* A step of another strategy asks one backend.
SearchOne ==
  /\ pc = "search"
  /\ steps < MaxSteps
  /\ \E list \in Bm25Lists(TopK) \cup VectorLists(TopK) \cup GraphLists(TopK) :
        found' = found \o list
  /\ steps' = steps + 1
  /\ UNCHANGED <<src, chunks, lists, fused, budget, prior, results, ctx, round, context, prompt, pc>>

-----------------------------------------------------------------------------
(* ContextAssembler.assemble.                                              *)

\* What fits, the best first; what does not fit is passed over.
Selected(ranking, limit) ==
  LET add(acc, r) == IF acc.tokens + 1 + Len(r.text) > limit THEN acc
                     ELSE [tokens |-> acc.tokens + 1 + Len(r.text), kept |-> Append(acc.kept, r)]
  IN  FoldLeft(add, [tokens |-> 0, kept |-> <<>>], ByScore(ranking)).kept

\* More than half of the smaller of the two is in both, or the first has all of the second.
OverlapsMuch(p, c) ==
  \/ 2 * (p.end + 1 - c.start) > Min({p.end + 1 - p.start, c.end + 1 - c.start})
  \/ c.end <= p.end

\* The last n lines of a text, all of it if it has fewer.
LastLines(text, n) == IF Len(text) <= n THEN text ELSE SubSeq(text, Len(text) + 1 - n, Len(text))

\* p with the lines of c after its own.
Extend(p, c) ==
  IF c.end <= p.end THEN p
  ELSE [p EXCEPT !.text = @ \o LastLines(c.text, c.end - p.end), !.end = c.end]

\* _merge_overlapping, of the results of a file in the order of their lines.
MergeOverlapping(seq) ==
  LET add(merged, c) ==
        IF \/ merged = <<>>
           \/ 0 \in {Last(merged).start, Last(merged).end, c.start, c.end}
           \/ c.start > Last(merged).end
           \/ ~OverlapsMuch(Last(merged), c)
        THEN Append(merged, c)
        ELSE Append(Front(merged), Extend(Last(merged), c))
  IN  FoldLeft(add, <<>>, seq)

ByLines(seq) == Sorted(seq, LAMBDA r, s : r.start < s.start \/ (r.start = s.start /\ r.end > s.end))

\* The file of the placeholders, "", sorts first.
Assembled(ranking, limit) ==
  LET of(file, kept) == MergeOverlapping(ByLines(Where(kept, LAMBDA r : r.file = file)))
      blocks(kept) == of(NoFile, kept) \o FlattenSeq([file \in DOMAIN src |-> of(file, kept)])
  IN  blocks(Selected(ranking, limit))

-----------------------------------------------------------------------------
(* PromptBuilder: the sections of a prompt and their tokens.               *)

\* extract_file_index: a line for each file and for each range; a block without a
\* file has no entry.
IndexTokens(blocks) ==
  LET located == {b \in ToSet(blocks) : b.file # NoFile}
  IN  IF located = {} THEN 0
      ELSE 1 + Cardinality({b.file : b \in located}) + Cardinality({Key(b) : b \in located})

BlockTokens(blocks) == FoldLeft(LAMBDA n, b : n + 1 + Len(b.text), 0, blocks)

\* The context section: its blocks and the marker that it was cut.
ContextTokens(blocks, marker) == BlockTokens(blocks) + (IF marker THEN Marker ELSE 0)

Tokens(p) ==
  Rules + (IF p.examples THEN Examples ELSE 0) + (IF p.prior THEN Prior ELSE 0)
    + IndexTokens(p.blocks) + Max({1, ContextTokens(p.blocks, p.marker)}) + 1

\* A prompt with the first n blocks and the marker.
Cut(p, n) == [p EXCEPT !.blocks = SubSeq(@, 1, n), !.marker = TRUE]

\* Mutant: a prompt of exactly the budget does not fit.
FitsBelow(p, n, limit) == Tokens(Cut(p, n)) < limit

Fits(p, n, limit) == Tokens(Cut(p, n)) <= limit

\* fit_context_blocks: how many of the blocks can stay, by a binary search; -1 when
\* not even the marker alone fits.  Some block goes.
Kept(p, limit) ==
  LET places == 0..Len(p.blocks)
      search[range \in places \X places] ==
        LET low == range[1]
            high == range[2]
            mid == (low + high - 1) \div 2
        IN  IF low = high THEN low - 1
            ELSE IF Fits(p, mid, limit) THEN search[<<mid + 1, high>>] ELSE search[<<low, mid>>]
  IN  search[<<0, Len(p.blocks)>>]

Trimmed(p, limit) ==
  IF p.blocks = <<>> THEN p
  ELSE LET kept == Kept(p, limit)
       IN  IF kept < 0 THEN [p EXCEPT !.blocks = <<>>, !.truncated = TRUE]
           ELSE [Cut(p, kept) EXCEPT !.truncated = TRUE]

-----------------------------------------------------------------------------
NoPrompt == [examples |-> FALSE, prior |-> FALSE, blocks |-> <<>>, marker |-> FALSE,
             truncated |-> FALSE, exhausted |-> FALSE]

Init ==
  /\ src \in Sources
  /\ chunks = [f \in DOMAIN src |-> <<>>]
  /\ found = <<>> /\ steps = 0
  /\ lists = <<>> /\ fused = <<>>
  /\ budget = 0 /\ prior = FALSE
  /\ results = <<>>
  /\ ctx = 0 /\ round = 0
  /\ context = <<>>
  /\ prompt = NoPrompt
  /\ pc = "index"

\* The files of a repository are chunked when it is indexed.
IndexFiles ==
  /\ pc = "index"
  /\ chunks' = [f \in DOMAIN src |-> ChunksOf(src[f])]
  /\ pc' = "search"
  /\ UNCHANGED <<src, found, steps, lists, fused, budget, prior, results, ctx, round, context, prompt>>

\* _run_pipeline: the best result of every range, and the best of these.
Merge ==
  /\ pc = "search"
  /\ steps > 0
  /\ budget' \in Budgets
  /\ prior' \in BOOLEAN
  /\ results' = Top(ByScore(BestOfKeys(found)), MaxContext)
  /\ ctx' = Max({1, (budget' * 6) \div 10})
  /\ round' = 1
  /\ pc' = "assemble"
  /\ found' = <<>>
  /\ UNCHANGED <<src, chunks, steps, lists, fused, context, prompt>>

\* A round of build_from_results: build_prompt starts with every section.
Assemble ==
  /\ pc = "assemble"
  /\ context' = Assembled(results, ctx)
  /\ prompt' = [NoPrompt EXCEPT !.examples = Examples > 0, !.prior = prior, !.blocks = context']
  /\ pc' = "build"
  /\ UNCHANGED <<src, chunks, found, steps, lists, fused, budget, prior, results, ctx, round>>

TooLong == pc = "build" /\ Tokens(prompt) > budget /\ ~prompt.exhausted

DropExamples ==
  /\ TooLong
  /\ prompt.examples
  /\ prompt' = [prompt EXCEPT !.examples = FALSE]
  /\ UNCHANGED <<src, chunks, found, steps, lists, fused, budget, prior, results, ctx, round, context, pc>>

DropPrior ==
  /\ TooLong
  /\ ~prompt.examples /\ prompt.prior
  /\ prompt' = [prompt EXCEPT !.prior = FALSE]
  /\ UNCHANGED <<src, chunks, found, steps, lists, fused, budget, prior, results, ctx, round, context, pc>>

Trim ==
  /\ TooLong
  /\ ~prompt.examples /\ ~prompt.prior
  /\ prompt' = [Trimmed(prompt, budget) EXCEPT !.exhausted = TRUE]
  /\ UNCHANGED <<src, chunks, found, steps, lists, fused, budget, prior, results, ctx, round, context, pc>>

Built == pc = "build" /\ ~TooLong

\* The budget of the next round: what survived, and less than the last.
NextBudget == Min({ctx - 1, Max({1, ContextTokens(prompt.blocks, prompt.marker)})})
AnotherRound == results # <<>> /\ prompt.truncated /\ round < MaxRounds /\ NextBudget >= 1

Reassemble ==
  /\ Built /\ AnotherRound
  /\ ctx' = NextBudget
  /\ round' = round + 1
  /\ pc' = "assemble"
  /\ UNCHANGED <<src, chunks, found, steps, lists, fused, budget, prior, results, context, prompt>>

Emit ==
  /\ Built /\ ~AnotherRound
  /\ pc' = "done"
  /\ UNCHANGED <<src, chunks, found, steps, lists, fused, budget, prior, results, ctx, round, context, prompt>>

Answered == pc = "done" /\ UNCHANGED vars

Next ==
  \/ IndexFiles \/ SearchHybrid \/ Fuse \/ Rerank \/ SearchOne \/ Merge
  \/ Assemble \/ DropExamples \/ DropPrior \/ Trim \/ Reassemble \/ Emit \/ Answered

Spec == Init /\ [][Next]_vars

-----------------------------------------------------------------------------
(* validate_citations, of the ranges an answer can cite.                   *)

\* Mutant: the range need only begin in the block.
ContainedStart(c, b) == b.file = c.file /\ b.start <= c.start /\ c.start <= b.end /\ c.start <= c.end

Contained(c, b) == b.file = c.file /\ b.start <= c.start /\ c.start <= c.end /\ c.end <= b.end

\* A citation is valid when one block has all of it; placeholders cannot be cited.
Valid(c) == \E b \in ToSet(prompt.blocks) : Contained(c, b)

\* The block a valid citation is of, and the snippet: by position in its text.
BlockOf(c) == prompt.blocks[SelectInSeq(prompt.blocks, LAMBDA b : Contained(c, b))]
Snippet(c) ==
  LET b == BlockOf(c)
  IN  SubSeq(b.text, c.start + 1 - b.start, Min({c.end + 1 - b.start, Len(b.text)}))

LinesOf(f) == UNION {1..n.last : n \in ToSet(src[f])}
Citations == UNION {[file : {f}, start : LinesOf(f), end : LinesOf(f)] : f \in DOMAIN src}

\* Do the lines of a result hold, in order, just the lines of its range?
Exact(r) == r.text = Lines(r.start, r.end)

-----------------------------------------------------------------------------
\* The prompt is within the budget, or nothing is left in it that could be left
\* out; and what is cut of the evidence is no more than the budget asks
\* (prompt_builder.py:437-493, 1033-1047).
PromptFits ==
  Built \/ pc = "done" =>
    LET all == [prompt EXCEPT !.blocks = context]
    IN  /\ IsPrefix(prompt.blocks, context)
        /\ \/ Tokens(prompt) <= budget
           \/ ~(prompt.examples \/ prompt.prior \/ prompt.marker \/ prompt.blocks # <<>>)
        /\ prompt.truncated =>
             \A n \in 0..(Len(context) - 1) :
               n > Len(prompt.blocks) \/ ~prompt.marker => Tokens(Cut(all, n)) > budget

\* A valid citation cites lines that were retrieved, all of them; and where the
\* results it rests on hold just their lines, its snippet is the lines it cites,
\* whatever was merged and cut on the way (citation.py:267-300,
\* context_assembler.py:112-173).
CitationsSound ==
  pc = "done" => \A c \in Citations : Valid(c) =>
    LET of == {r \in ToSet(results) : r.file = c.file}
    IN  /\ c.start..c.end \subseteq UNION {r.start..r.end : r \in of}
        /\ (\A r \in of : Exact(r)) => Snippet(c) = Lines(c.start, c.end)

\* No line of the repository is lost in its chunks, which are no larger than the nodes
\* and what _emit adds make them, and no order of the backends in the fusion of what
\* they find (chunker.py:465-472, fusion.py:120-246).
NothingLostInChunks == pc # "index" => \A f \in DOMAIN src : NothingLost(src[f], chunks[f])

FusionIsFair == pc = "rerank" => FusionKeepsOrder(lists, fused)

\* "Token budget is enforced on the final text (with overlap header prepended) so
\* continuation chunks are never silently oversized" (chunker.py:390-392; also 469-471):
\* a chunk that is not one node is within max_tokens, all that is in it counted.
ContinuationsFit ==
  pc # "index" =>
    \A f \in DOMAIN src : \A c \in ToSet(chunks[f]) : TokenCount(c) <= ChunkTokens \/ Alone(src[f], c)

\* What the docs say and the code does not do: the snippet of a valid citation is
\* "the actual source text" of its lines (citation.py:130-133).
SnippetsAreSource ==
  pc = "done" => \A c \in Citations : Valid(c) => Snippet(c) = Lines(c.start, c.end)

\* What the docs say and the code does not do: trimming surfaces "the highest-ranked
\* chunks that fit" (prompt_builder.py:1143-1146).  The best result is in the prompt
\* if it fits there alone and fitted what the assembler was first given.
BestIsKept ==
  pc = "done" /\ results # <<>> =>
    LET best == results[1]
        alone == [prompt EXCEPT !.blocks = <<best>>, !.marker = FALSE]
    IN  Tokens(alone) <= budget /\ BlockTokens(<<best>>) <= (budget * 6) \div 10
          => \E b \in ToSet(prompt.blocks) : b.file = best.file /\ b.start <= best.start /\ best.end <= b.end

=============================================================================
