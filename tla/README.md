# A TLA+ model of RepoRAG

RepoRAG answers questions about source code. It clones and parses repositories
that clients submit, indexes chunks of code and documentation in Qdrant and
BM25, and answers a question by planning sub-queries, retrieving context for
each, and asking an LLM. The Python source is under `src/src/reporag/`; paths
below are relative to it.

This directory holds models of the parts of it with state, concurrency or
failure handling, their TLC configurations and TLAPS proofs. `PROJECT.json`
names, for each definition, the lines it models, and lists the hazards the
properties were written for.

    tlc -workers 2 -config Ingestion_safety.cfg MCIngestion.tla
    tlapm IngestionProofs.tla

`Planner` is a part of `Query`; `CodeGraph` and `ImportCycles` are parts of
`GraphStore`; `Chunker` and `Retrieval` are parts of `Context`; `Selections` holds
the operators on sequences that both use. The other components are modelled one
by one. A definition headed "Mutant" is a plausible
bug of the definition after it: with it in that one's place, the property that
`PROJECT.json` names fails.

## The system

| Part | State it keeps | Operations | What is hard |
|---|---|---|---|
| Ingestion API (`api/routes/repos.py`) | users, repositories, jobs in the database | `ingest_repository`, `run_ingestion`, `_set_status`; listing, lookup | racing requests, a task with no caller, crashes, commits that fail half way |
| Cloner (`ingestion/cloner.py`) | clone directory, `last_clone_path` | `clone_and_discover`, `cleanup` | cleanup on every way out |
| Extractor, chunker, parser (`ingestion/`) | none | syntax tree walks | splitting arithmetic |
| Hybrid index (`embedding/index_builder.py`) | two Qdrant collections, BM25 corpus and pickle, `_ensured_collections` | `delete_file`, upserts, `ensure_collections`, save, load | six calls on three stores, any of which may fail |
| Embedders (`embedding/*_embedder.py`) | LRU cache, lazily loaded model | `embed_batch` | threads sharing the cache |
| Retrieval (`retrieval/`) | clients, models | searches, rank fusion, reranking | orderings, filters |
| Graph stores and code graphs (`graph/`) | nodes and edges, in memory or Neo4j | merge, neighbours, cycles | two stores meant to agree |
| Planner (`agent/planner.py`) | LangGraph state, attempt counter | classify, decompose, validate, fall back | retry and fallback order |
| Router (`agent/router.py`) | lazily built LLM client | `route` | which failures fall back |
| Executor (`agent/executor.py`) | order, results so far | `execute` | order, retry, skip, forwarded context |
| Prompt, context, citations (`generation/`) | none | budgeted assembly, validation | boundaries of the budget |
| Generator (`generation/generator.py`) | shared pool of eight threads, its queue | `generate` | deadlines, late answers, threads that cannot be stopped |
| Query endpoint (`api/routes/query.py`) | pipeline cached on `app.state` | `POST /query` | first-use races, degradation |
| Authentication (`api/routes/auth.py`, `api/middleware/auth.py`) | users, tokens | login, callback, refresh | select-then-insert |
| Health, configuration, database session | settings, engine | reads | none |

A client posts to the ingestion API, which commits rows and schedules a
background task on the event loop; the task works in a thread and reports
through the rows that the client polls. Embedding, indexing and the graph are
separate calls, not yet wired to the task: the source leaves the order of
deletes and upserts to the caller (`delete_file`'s docstring), and the caller of
`persist_graph` is not written yet either. A question goes through the query
endpoint to the planner, whose plan the executor runs against the retrieval
adapter; the results become a prompt, and the generator gives it to the LLM
through the pool that all requests share.

What makes each part correct:

* the rows tell the truth about the work, and every accepted ingest settles;
* the three indexes agree on every file that was completely re-indexed;
* a plan is one the executor can run, whatever the LLM replied, and is what the
  last usable reply said; no failure of retrieval refuses a question;
* steps run after their dependencies and get their context;
* the graph has the calls, methods and imports of the source, import cycles are
  cycles and none is missed, and a store holds the whole graph once persisting
  returns;
* no code is lost in chunks, no order of the backends in their fusion; the
  prompt fits its budget and shows what a valid citation cites;
* a vector is that of its text, whoever shares the cache;
* a result belongs to the attempt it is reported for and comes by its deadline.

## Modules

### `Ingestion`, `IngestLifecycle`, `MCIngestion`, `IngestionProofs`

A request names its rows, its task and its clone. `req` is where
`ingest_repository` is between two awaits: before the SELECT of the system
account, before its INSERT (which waits for another transaction's uncommitted
insert of the same email, `inserting`), before the commit of account,
repository and job in one transaction, before the two refreshes. `task` is
where `run_ingestion` is: a call of `_set_status`, or a stage of
`_parse_repository` in its thread. `repo` and `job` are the committed statuses,
`manifest` and `skipped` the files discovered and skipped, `clonePath` and
`dirs` the cloner's memory and the disk.

A statement may raise (`RequestFails`, the second disjunct of `SetStatus`),
with or without effect when `AmbiguousCommit` is set; the process may die
(`Crash`); an operator may delete rows (`RowVanishes`).

`IngestLifecycle` is what a client may rely on: two rows that appear together
and move together along the documented progression. `ImplementsLifecycle`
states that `Ingestion` implements it; `repo` and `job` map to themselves.

### `HybridIndex`, `MCHybridIndex`, `HybridIndexProofs`

One `HybridIndexBuilder` under a caller that follows `delete_file`'s protocol:
delete the file's points everywhere, then upsert its chunks and docs. `op` is
the running operation, up to its next call of Qdrant or of the file system. Any
such call may raise without effect (`CallRaises`) or after taking effect
(`GiveUp`, `EnsureRaises`), a pickling may raise with the file already emptied, and
the process may restart at any point. Each upsert ensures the collections first. `done`, `suspect` and
`unsaved` are the caller's bookkeeping, which the code does not keep: which
revision a file was last completely indexed for, and which files an
interruption has left in doubt. The caller of the model indexes one file at a
time and does not overlap a save with an operation.

A point is a file, a slot (what makes its identifier) and a revision (its text
and vector). Chunks with slots 1 and 2 belong to revision 1, with 2 and 3 to
revision 2: one disappears, one stays with new content and one appears. Of doc
records, whose identifier is that of a symbol, revision 1 has slots 1 and 2, and
revision 2 slot 2.

`MissingCollectionNoticed`: a recreation that drops a collection and fails to create
it leaves the builder convinced that it is there. No file may then count as
indexed: the delete that opens every re-index has to fail, until the collections
are ensured or recreated by someone, or the builder is a new one.

### `Executor`, `ExecutorProofs`

One call of `execute`, on any plan. `ticket` is the iteration of the loop that
put a step into the sort's deque, so that the deque is the steps of in-degree
zero by ticket and then by their place in the plan. A `StepResult` keeps what
its properties tell apart: whether the step was skipped, whether its context
summary is non-empty, and which summaries were forwarded into its query.
`RouterMayRaise` stands for the one unguarded call of `route`: building its LLM
client.

Step ids are assumed unique, which the planner's `validate_steps` guarantees;
that dependencies point backward, which it guarantees too, is not assumed.

### `Generator`, `GeneratorProofs`

Several calls of `generate` share the pool. A call is a request and an attempt;
`future` is the state of its future or how it came out, `queue` the pool's work
queue. A deadline may pass at any moment of a wait; the worker may take or end
the call between that and `future.cancel`. A blank answer is an error raised by
the request's thread, after the future completed.

The deadline is not a clock: any order of deadlines and answers is possible,
which covers every value of `timeout_seconds`.

### `Planner`, `Query`, `MCQuery`, `QueryProofs`

`Planner` is the LangGraph machine of `QueryDecomposer`: `node` is the node a
request's graph is at, `attempt`, `error`, `steps` and `source` are fields of
its state, and one action is one node. A question is what the rules find in it
(a score per query type, the endpoints of a "from A to B" chain), a reply what
the parser reads of it. `clients` holds the `_resolved_llm` of the classifier and
of the decomposer, which the requests share: `_ensure_loaded` builds each once,
to a client or to nothing, or raises outside every `try` (`LoadRaises`).
`heard`, the replies to a question so far, is a history variable that
`PlanIsLastReply` refers to. It is forgotten by `EndPlan`, as the graph's state
is when `decompose` returns.

`Query` is `POST /query` around it. `stage` is where a request is from the
repository lookup to the response; `pipeline`, `router` and `graph` are what the
requests share: `app.state.pipeline`, the router's LLM client, and the graph
retriever that a worker thread builds without a lock (`BuildGraph`) and stores
(`StoreGraph`) whatever another thread has stored meanwhile. A step is routed
(`Route`), then its backends are asked one at a time; `_safely` makes a failed
search an empty one. `RouteRaises` is the router's client failing to be built:
`execute` raises, `_run_pipeline` catches, and the prompt is built without any
result. `ExecuteEnds` is the merge of the steps' results: each chunk is kept once and the
`_MAX_CONTEXT_RESULTS` best stay, by scores that different backends give, so that a
step may lose all that it found to others. What remains true of every failure is
`FailuresLoseNoEvidence`: a prompt is without any result only if no step found one.
The deployed BM25 backend is an empty index, and the in-memory fallback
graph is empty too: nothing in the service fills either. Each failure has the
status code that the handler gives it.

The executor's order is abstracted to "the step's dependencies have a result",
which `Executor` establishes for every plan of `PlansExecutable`. Every strategy
and every outcome of a search is possible.

### `CodeGraph`, `ImportCycles`, `KnowledgeGraph`, `GraphStore`, `MCGraphStore`, `GraphStoreProofs`

`CodeGraph` is pure: a repository is given by the nodes of its sources that
matter (definitions, imports, calls, assignments, parameters), and operators
named after the functions of `graph/` compute the symbols and their qualified
names, the module index with its suffix matches and relative imports, the
resolution of a call (of the module, through imports and stars, through `self`,
a receiver's type or a class), `find_method` with its visited set, both builders
of the import graph, and the symbol table. `ImportCycles` is `_detect_cycles`: an
iterative depth-first search with `path`, `frames` and colours, one step per
import looked at.

`GraphStore` composes them in the order a caller has to: `phase` goes from
`parsed` through `registered`, `called` and `searching` to `built`; then the
factory connects, retries, or falls back to memory (`Connect`, `ConnectFails`),
and `persist_graph` sends its rows in batches, each a transaction, nodes before
edges. `WriteFails` ends a call with what it has written left behind; the caller
may call again, clear, or persist once more. An edge whose nodes `MATCH` does
not find is dropped. In memory a pair of nodes has one edge, and an import's
ends become nodes whatever they name.

`KnowledgeGraph` is what persisting promises of either store: never anything but
parts of the graph, never an edge without its nodes, all of it once a call has
returned. `PersistsTheGraph` states that `GraphStore` implements it; `done` maps
to the phase `persisted`, the other variables to themselves.

### `EmbedCache`, `MCEmbedCache`, `EmbedCacheProofs`

`embed_batch` of both embedders under threads that share one `OrderedDict`
without a lock. A step is one operation of that dictionary (`get`,
`move_to_end`, an insertion, a length check, `popitem`) or one forward pass; the
interpreter lock makes each atomic, and nothing more. `ClearCache` may come in
anywhere. A vector is its text, so that a mix-up would show. A `KeyError` of
`move_to_end` or `popitem` ends a thread in `failed`. A `cache_maxsize` of 0 limits
nothing, as in the code; the documentation says that it disables the cache
(`EmbedCache_v_zero`).

### `Selections`, `Chunker`, `Retrieval`, `Context`, `MCContext`, `ContextProofs`

`Selections` picks the elements of a sequence at some places, or those that pass a
test, in their order; `CodeGraph`, `Chunker`, `Retrieval` and `Context` use it.

`Chunker` is the Python chunker over a source given by its nodes and their
lines: windows of statements that are flushed when the next one would overflow,
headers repeated above the parts of a split definition, the tokens that `_emit` adds
to a window after its budget was spent (`added`: the separator, `Continued`, and
the joining newlines, `Newline` each), the chunks of a class's
methods beside its own, runs of module-level code. `IsSource` is what it relies on in a syntax tree: a
node comes after the one it is a statement of and is within its lines, and
siblings are in the order of their lines. They may share a line (`a = 1; b = 2`).
tree-sitter gives this for every input, as a node spans its children.

`Retrieval` is the merge of
code and documentation hits, the ranking of each backend, reciprocal rank fusion
and reranking. Fusion scores are exact integers, in units of one over the product
of the ranks' denominators.

`Context` takes a repository from its files to a checked answer. `IndexFiles`
chunks it; each step of a plan is one search, or a hybrid one that is fused
(`Fuse`) and reranked or not (`Rerank`); `Merge` keeps the best of each range;
`Assemble` is `ContextAssembler.assemble` (selection by rank, merging by lines,
files in order); `DropExamples`, `DropPrior` and `Trim` are `build_prompt`'s ways
of saving tokens, the last with `fit_context_blocks`' binary search; `Reassemble`
is the next round of `build_from_results` with a smaller budget. The text of a
result is the sequence of line numbers it shows, so that "the snippet is the
cited source" can be said. A line is a token, as is a block's header; `Rules`,
`Examples`, `Prior` and `Marker` are the tokens of what is not evidence. The
separator of a continuation counts in its chunk's size, not in the prompt, where a
result is its lines: `PromptFits` does not depend on how large a result is. Which
ranges an answer cites is left open: the properties speak of all of them.

## Runs

| Run | Shows | Distinct states |
|---|---|---|
| `Ingestion_safety` | invariants and `StatusMovesForward`, no ambiguous commits | 35,821 |
| `Ingestion_live` | answers, settling, refinement, ambiguous commits | 19,940 |
| `HybridIndex_reindex` | agreement of the three indexes, lost collections noticed | 1,577,340 |
| `Executor_plans` | order, cycles, context, skips, termination | 343,232 |
| `Generator_pool` | results, workers, cancelled calls, deadlines | 47,052 |
| `Query_pipeline` | two questions from lookup to response: plans, replies, evidence, status codes, termination | 301,492 |
| `GraphStore_build` | calls, methods, imports and cycles of 531 repositories; two stores against one abstract graph | 20,176 |
| `EmbedCache_threads` | three threads on one cache: right vectors, its bound, when it can fail | 971,201 |
| `Context_answer` | chunks, fusion, prompt budget and citations for every ranking | 918,159 |

`Query_pipeline` and `Context_answer` take two to three minutes each, the others
well under one. Type invariants are proved, not run, for the modules that have a
proof module with a `TypeCorrect`.

Bounds and why they are enough:

* Ingestion: two requests are what the race for the system account takes, and
  rows of different requests do not otherwise meet. Two faults let the handler
  fail after the failure that called it; one crash can hit any step. Two files,
  one of which cannot be parsed and one of which resolves from the working
  directory, give every kind of skipped set. Requests are symmetric in the
  safety run only: its one temporal property is an action property.
* `Ingestion_live` allows an ambiguous commit and a failing `rmtree` so that
  refinement and settling cover them. Rows do not vanish there, so that
  `SomeoneIsAccepted` is about the race alone.
* HybridIndex: two files of one repository separate "this file" from "its
  repository"; two revisions give each kind of chunk change.
* Executor: three steps and one unknown id admit every shape a hazard needs: a
  diamond's half, chains, cycles of length one, two and three, forward
  references. All 4096 graphs are initial states.
* Generator: two requests on one worker give contention, starvation and a queue
  with a cancelled entry; one retry is the code's default.

* Query: two requests are what the races for clients, pipeline and graph
  retriever take. One retry gives a first and a last attempt. A reply fails, is
  good (with a missing id and a dependency on it), or has a forward reference;
  the question is one the rules make a plan for. The deployment has a key and
  graph retrieval, or neither, so that every client is built, absent or fails.
* GraphStore: all 512 import graphs of three files, self-imports included, with
  relative and absolute imports, reach every shape of nested and shared cycles
  that three files have. 18 hierarchies of two classes and a third below both
  have mutual, repeated and dotted bases, methods found in one, both or neither,
  a function defined twice, and calls through `self`, a variable, a star import
  and a class. In one more a class replaces another of its name. Batches of two rows split a repository into several transactions,
  and any of them may fail any number of times. Two attempts to connect, queries
  to two hops.
* EmbedCache: one cached text, both, or no limit; batches with a repeat and with
  a blank; passes of one text interleave most. Threads are interchangeable and
  there is no liveness, so that symmetry is sound.
* Context: a function that must be split, and a module of two statements and a
  class that must be split, with chunks of four lines: repeated headers, a class
  window and its method's chunk, a module-level run with a blank line in it. A
  repository of its own has a function in two windows of three statements, which
  the separator (three tokens) and the newlines (one each) make larger than a chunk
  may be. Two searches, one of them possibly hybrid, of every ranking of up to three hits of
  the chunks and one each of the other indexes. Budgets of 3 (too small for the
  rules and a marker), 13 (evidence is cut, several rounds) and 30 (everything
  fits, or the last block goes).

`CHECK_DEADLOCK FALSE` is set where the program really stops: requests and
tasks end, a plan is executed once. `HybridIndex`, `GraphStore` and `EmbedCache`
never stop (a graph may be persisted again, a cache cleared); `Context` has an
explicit final stutter.

### Configurations that find a disagreement

Each checks one statement of the repository's own documentation against what
the code does, and TLC finds a counterexample; `PROJECT.json` quotes both under
`findings`. The first three are listed runs, the others are kept to be run by
hand.

| Configuration | Statement that fails |
|---|---|
| `Ingestion_v_paths` | every discovered file is parsed; relative paths are opened from the server's working directory |
| `GraphStore_v_calls` | qualified names lead back to their definitions; call edges name their ends without the module and are dropped or attached to another definition |
| `Context_v_best` | re-assembly surfaces the highest-ranked chunks that fit; the best is left out for what came first in file order |
| `Ingestion_v_raises` | `run_ingestion` never raises; its handler's own `_set_status` is unguarded |
| `Ingestion_v_ambiguous` | statuses move along the documented progression; after a stored commit that raised, `ready` becomes `failed` |
| `HybridIndex_v_shared` | `delete_file` removes one file's points; BM25's predicate ignores the repository |
| `HybridIndex_v_torn` | a saved corpus survives a restart; saving truncates the only copy first |
| `HybridIndex_v_recreate` | deleting is the safe first step; a failed recreation leaves a collection remembered that is gone |
| `Generator_v_raises` | a missing API key becomes a result; the client is built outside the try |
| `GraphStore_v_mro` | methods are looked up in the order of the bases (MRO); the last base is searched first |
| `EmbedCache_v_zero` | a `cache_maxsize` of 0 disables the cache; it removes its bound |
| `Context_v_chunks` | continuation chunks are within `max_tokens`; the separator is added after the budget was taken |
| `GraphStore_v_modules` | both graphs agree on what a module name means; for `from . import x` they look in different packages |
| `Context_v_snippets` | a snippet is the cited source text; a block's text is not always the lines of its range |

Two more findings are visible in the models' actions: `decompose` is documented
not to raise and does when its client cannot be built (`LoadRaises`), and the
executor never to abort and does when the router's cannot (`RouteRaises`).

## Fairness

* `Ingestion`: weak fairness of each request's and each task's steps. The event
  loop resumes a coroutine whose await completed, and the thread pool runs what
  is submitted; git and the parser are assumed to end. Nothing is assumed of
  new requests, crashes or deletions. `AcceptedSettles` excepts a process death
  and a handler that raised, as the code has no recovery for either.
* `Executor`: weak fairness of `Next`; it is straight-line code whose engine
  calls return or raise.
* `Generator`: weak fairness of each request's steps: its thread runs, and its
  deadline passes if nothing else happens. Workers and the LLM get none, so
  `GenerateReturns` covers a provider that hangs for ever.
* `Query`: weak fairness of each request's steps: the event loop and the worker
  threads run, and every call out returns or raises (the generator's by its
  deadline). `QueriesAnswered` then holds however calls fail, because retries and
  the steps of a plan are bounded.
* `HybridIndex`, `GraphStore` and `EmbedCache` have no liveness property: their
  progress is their caller's. `Context` is straight-line code whose rounds are
  bounded by a counter.

## Proofs

The proofs hold for every value of the constants allowed by the named
assumptions.

* **Ingestion.** `RepoJobInStep`, `ReadyHasFiles`, `UnsettledHasWorker` and
  `CloneDirsOwned` are not inductive: what a step does to a row depends on where
  its task is. `StageMatchesStatus` ties the status to the stage, and carries
  them. `StatusMovesForward` follows from it when commits are not ambiguous
  (`ForwardCorrect` assumes that; `Ingestion_v_ambiguous` shows it is needed).
  `Refinement` maps the commit to `Accept`, each `_set_status` to the move it
  makes or, if the row is gone or keeps its status, to a stutter.
* **HybridIndex.** `SettledCorrect` assumes `NoSharedPaths`, that no path occurs
  in two repositories (`HybridIndex_v_shared` shows that it is needed). The
  invariant adds what each stage of an operation has already established of its
  file (`OpProgress`), what the saved corpus holds for files that were not
  changed since (`SavedFilesAgree`), and that a recreation puts every file in
  doubt. For `MissingCollectionNoticed` (`MissingNoticedCorrect`): past its
  delete from a collection, an operation knows that Qdrant has it or that the builder
  does not remember it (`DeletesWorked`), so one that completes has met both.
* **Executor.** The sort's part: the in-degree of a step is the number of its
  known dependencies not yet in order, and a step in order has all of its
  dependencies before it. A knot never gets its first member into the queue;
  conversely the steps left over when the queue is empty are a knot. The run's
  part: the completed steps are a prefix of the order. Deque order (`ticket`)
  plays no part in correctness.
* **Generator.** A waiting request's future has been submitted, futures of
  attempts to come have not, and an attempt that was given up is cancelled,
  running or has ended: no pending call is unwanted.
* **Query.** `NodeInv` says at each node of the planner's graph how many replies
  were heard, that all but possibly the last were bad, and that the attempt
  counter is their number; validation either ends with a good one or goes on
  while the counter allows. It yields `PlanIsLastReply` and, with lemmas on
  parsed and rule-made plans, `PlansExecutable`. `FlowInv` follows the request
  through the stages, and `RouterInv` says that nothing has been retrieved by
  anyone as long as a router that is to have a client has none: a router can
  then fail only a plan that has not started, hence `FailuresLoseNoEvidence`. For any
  number of requests, questions, replies and retries.
* **EmbedCache.** `PlaceInv`: each place of a batch has its vector, is still to be
  scanned, or its text is among the misses or in the pass being stored. Every
  operation of another thread leaves it alone, as a thread's own results never
  depend on the cache again. `Bounded` counts the threads about to evict, one for
  each text above the limit. `RoomInv`: a cache with room for every text is never
  found too long, since its keys are distinct, so nothing is evicted and what a
  thread found is still there when it touches it.
* **The search for cycles.** `SearchSafe`: the path is a sequence of distinct gray
  files, each importing the next; the frames are what is left of their imports.
  An import back to a gray file therefore closes a cycle that starts where that
  file is on the path (`ChainsCorrect`). That no cycle is missed (`CyclesCorrect`)
  needs an invariant about the past, `SearchInv`: the files that were left can be
  ranked by when they were, and one that is in no chain imports only files of a
  lower rank; an import of the path is finished, still to look at or next on the
  path, unless its file is in a chain. When the search is over a file that leads
  back to itself then cannot be below itself, so it leads to a chain and a chain
  to it.
* **GraphStore.** `GraphInv` says that what was built is that of the repository:
  ids of the table are distinct, every edge row has both its ends in it. With it
  `StoreInv` says per phase what the store holds: nothing while the graph is
  built, afterwards a well-formed part of the graph that the chosen backend was
  given, while persisting every batch before the next one, and once the call has
  returned all of it, because the batches of nodes precede those of edges and
  cover the graph. `Persists` maps every action to a step of `KnowledgeGraph` or a
  stutter, whatever fails and however often the call is repeated.
  `FallbackCorrect` compares the two stores' graphs: they have the same edges
  between symbols, up to the one edge per pair that the in-memory graph keeps, so
  balls around a symbol grow alike. `BuildersCorrect` follows each import
  statement through both builders.
* **find_method.** Its search is a loop over a stack and a set of keys. That such a
  function exists needs no argument that the loop ends (`TailRecursion`: go back
  from the places where it stops); that it ends is an induction on the classes not
  seen yet and, within, on the stack. `Searched` is the loop's invariant: what is
  seen has no such method, and its bases are seen or on the stack. The last base
  is popped first and what it leads to is walked through before the part of the stack
  below it (`WalksAbove`), so that what is found is of the last base that leads to
  the method at all (`MethodsAlike`). Keys name
  classes because every class that a name stands for is the last of its qualified
  name in its file (`NamesIndexed`, from what a qualified name ends in), and
  `Ancestors` is closed under bases since it cannot grow more often than there are
  definitions (`AncestorsFacts`). A class that a later one of its name has replaced
  is no name's and no base's: `MethodsInherited` does not speak of it, and
  no call asks for its methods (`AsksCorrect`: the class around a call is looked up
  by its qualified name, and that of a receiver by the name of the class it is
  noted, given or made to be). `IsRepo` says what this rests on: a definition
  follows the one that it is in.

`SomeoneIsAccepted` rests on `RaceInv`: a request that met the unique index lost
to another that has committed, as long as nothing else went wrong.
`OnlyOwnFileChanges` is proved from `NoSharedPaths`, `MissingCollectionNoticed`
without it.

The provers have no rule for induction over data, and the library's theorems take
operators as parameters. What a recursive function or a fold computes is proved
from the least element of a set of numbers instead (`Least`, `Upward`), the
existence of a recursive function on 0..n by the set of the n that have one. This
is how `InOrder`, `FlattenSeq`, the batches and the rings are reasoned about, and
every `FoldLeft` of `Context`: a fold is the last value of a function on the
prefixes that takes one step each (`FoldsUp`), and an invariant of the step is
one of the fold.

* **Context, the index.** The windows of the chunker's accumulator are a fold;
  `Windowing` says of each of its steps that the windows so far hold the nodes so
  far, and that a window over the limit is one node (`Packed`), before the separator
  and the newlines are added to it. `Walking` does the
  same for the walk along the top of a file: what was passed is in a chunk or in
  the pending run. A definition's chunks have its statements by `Windowing`, a
  class's methods have chunks of their own, and a node further down is reached
  through the definition above it (`Reached`), along the nodes' own numbers: a
  node follows what it is a statement of. This is where `IsSource` is needed.
* **Context, the searches.** `SearchInv` says what the indexes, lists and results
  hold. A sort is the order of places that its comparison makes (`Orders`,
  `Place`, `At`). The fused score of a key is a sum along the lists (`Sums`,
  `Gain`) in which a result that is never ranked below another gets at least as
  much from each; when the sums are equal, so is every contribution, hence every
  rank, which no two keys of one list share. That makes `FusionCorrect`.
* **Context, the prompt.** `BuildInv` adds what each place of the budget loop has
  established. The tokens of a prompt grow with the number of its blocks, the
  index of files included, so the numbers of blocks that fit end somewhere
  (`Separates`), and the halving ends there (`Searches`, `Ends`): `Kept` is the
  most that fit. `AsAsked` keeps this until the prompt is emitted, and says that
  examples and earlier answers went first.
* **Context, citations.** Every block of the context is grounded in results of its
  file: its lines are covered by theirs and, where each shows just its lines, it
  shows just its own (`Grounded`, `Cover`). `_merge_overlapping` keeps this in all
  of its branches, those that the indexes' nesting ranges never reach included,
  and so do selection, order and the cut. A valid citation is within a block.
  `CitationsCorrect` follows, with the arithmetic of the snippet.

Every invariant and action property that a passing run checks is proved, and the
refinements. Only model-checked: liveness (`AcceptedSettles`, `RequestsAnswered`,
`ExecuteReturns`, `GenerateReturns`, `QueriesAnswered`), which is beyond the proof
system, as is `ENABLED`. The `violation` configurations have nothing to prove.

## Not modelled

* Authentication: tokens are functions of a cryptographic library; the
  select-then-insert of a first login is the shape that `Ingestion` models for
  the owner account, but for its two unique columns. It has a hazard without a
  property.
* The parser, health checks, configuration, application wiring, the database
  session, the synthesizer and evaluation stubs: wrappers, reads or placeholders.
  The frontend, migrations and scripts have no behaviour of interest here.
* Listing and lookup routes, statistics, `get_callers` and `get_dependencies` of
  the stores: reads. The BM25 matrix that is rebuilt on the first search after a
  change: the deployed adapter's index is empty.
* JavaScript, type annotations as receivers' types, plain-text fallbacks of the
  chunker; normalisation of scores and metadata filters of searches; the
  citation format's regular expression, citation density and the report.
* Wording, logging, payload fields and vectors. The neural models, tree-sitter,
  git, Qdrant, Neo4j, the database and the LLM are external: what they may answer
  is modelled where it matters.

Things met on the way that a reader of the code should know:

* The ranges of chunks and definitions nest or are disjoint, so that what the
  indexes hold never takes `_merge_overlapping` to its branch that appends lines;
  and a class window and a method's chunk may share one key (file and lines) with different
  texts, of which `_run_pipeline` keeps one.
* A final re-assembled round may report `truncated=False` although evidence was
  dropped in an earlier one (`generation/prompt_builder.py:811`, `1184`).
* A class's graph node, whose range covers a method's chunk but whose text is a
  signature, hides the method's code when the two are merged
  (`generation/context_assembler.py:144-162`).
* `_run_pipeline` compares scores of backends with different scales
  (`api/routes/query.py:451-454`) and cuts to 40 by them, so that a step's results may
  all be lost to those of another, and does not pass the repository on: all
  repositories are searched.
* The citation parser (`generation/citation.py:87-91`) finds blocks with a regular
  expression that lets a `.` match newlines. A `## ` line inside a chunk would be taken
  for a header, a block whose lines are unknown (`## path (lines ?-?)`) takes the next
  one with it, and a body ends at its first newline and fence. Texts are line numbers
  in the model, so that this is not in it: blocks are the prompt's. What the program
  loses by it is valid citations, or lines of their snippets.
* `resolve_relative` takes the package of an `__init__` file for its parent.
* A relative `IMPORTS` edge is dropped by Neo4j, where it finds no node, and makes
  a placeholder node in memory.
* A call that timed out in the queue reports a latency though it never started
  (`generation/generator.py:135-136`).

## What is left

1. That `Executor`'s order is all that `Query` relies on, as a refinement.
2. `Accounts`: first logins that race on email and username; refresh.
3. The BM25 matrix under a thread that adds while another searches, when a
   service uses one index for both.
4. The citation format, and the graph stores' remaining queries.
