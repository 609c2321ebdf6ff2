------------------------------- MODULE Query -------------------------------
(***************************************************************************)
(* POST /query (api/routes/query.py): each request looks up its repository *)
(* and the cached pipeline, then a worker thread plans the question        *)
(* (Planner), retrieves for each step of the plan, builds the prompt and   *)
(* generates.  What the requests share: the pipeline, its LLM clients, and *)
(* the lazily built graph retriever.                                       *)
(*                                                                         *)
(* The steps run in any order their dependencies allow, which is what      *)
(* Executor establishes for the plans of PlansExecutable.  Results are     *)
(* abstracted to the steps that found some, and then to whether the prompt *)
(* has any.                                                                *)
(***************************************************************************)
EXTENDS Planner

VARIABLES
  stage,     \* where the handler of a request is
  status,    \* the status code of its response, 0 before
  pipeline,  \* is app.state.pipeline set
  router,    \* the router's LLM client
  graph,     \* the adapter's graph retriever
  building,  \* the retriever a thread has built and not stored yet
  current,   \* the step a request is at, 0 for none
  pending,   \* the backends its engine call has still to ask
  done,      \* the steps with a StepResult
  hits,      \* the steps for which a backend answered something (history)
  results    \* has the prompt "some" results to be built from, or "none"

plan == <<steps, source>>
graphRest == <<settings, node, question, kind, attempt, error, heard>>
pipelineVars == <<done, hits, results>>
requestVars == <<stage, status, current, pending, pipelineVars>>
shared == <<pipeline, router, graph>>
vars == <<plannerVars, requestVars, shared, building>>

StepsOf(r) == DOMAIN steps[r]

BackendsOf == [bm25   |-> <<"bm25">>,  vector |-> <<"vector">>, graph |-> <<"graph">>,
               hybrid |-> <<"bm25", "vector", "graph">>]

\* _safely: an exception is an empty list.
Safely(outcome) == outcome = "hits"

ErrorStatus == [rate_limit |-> 429, timeout |-> 504, auth |-> 502,
                invalid_response |-> 502, api_error |-> 502]

-----------------------------------------------------------------------------
Init ==
  /\ PlannerInit
  /\ stage    = [r \in Requests |-> "lookup"]
  /\ status   = [r \in Requests |-> 0]
  /\ pipeline = FALSE
  /\ router   = "unbuilt"
  /\ graph    = "unbuilt"
  /\ building = [r \in Requests |-> "none"]
  /\ current  = [r \in Requests |-> 0]
  /\ pending  = [r \in Requests |-> <<>>]
  /\ done     = [r \in Requests |-> {}]
  /\ hits     = [r \in Requests |-> {}]
  /\ results  = [r \in Requests |-> "none"]

\* The handler responds or raises; what _run_pipeline held is gone.
Answer(r, code) ==
  /\ status'  = [status EXCEPT ![r] = code]
  /\ stage'   = [stage EXCEPT ![r] = "answered"]
  /\ steps'   = [steps EXCEPT ![r] = <<>>]
  /\ source'  = [source EXCEPT ![r] = "none"]
  /\ done'    = [done EXCEPT ![r] = {}]
  /\ hits'    = [hits EXCEPT ![r] = {}]
  /\ results' = [results EXCEPT ![r] = "none"]

Proceed(r, next) ==
  /\ stage' = [stage EXCEPT ![r] = next]
  /\ UNCHANGED <<status, plan, pipelineVars>>

\* An exception of the pipeline: a ValueError is the caller's fault, any other
\* the service's.
Raises(r) == \E code \in {422, 502} : Answer(r, code)

\* The repository lookup may raise; a repo_id that is found has no further
\* effect.
LookUp(r) ==
  /\ stage[r] = "lookup"
  /\ \/ \E code \in {404, 500} : Answer(r, code)
     \/ Proceed(r, "pipeline")
  /\ UNCHANGED <<graphRest, clients, current, pending, shared, building>>

\* get_pipeline runs on the event loop without an await: it is atomic.
GetPipeline(r) ==
  /\ stage[r] = "pipeline"
  /\ \/ /\ pipeline' = TRUE
        /\ StartPlan(r)
        /\ stage' = [stage EXCEPT ![r] = "plan"]
        /\ UNCHANGED <<status, pipelineVars>>
     \/ /\ ~pipeline
        /\ Answer(r, 503)
        /\ UNCHANGED <<graphRest, clients, pipeline>>
  /\ UNCHANGED <<current, pending, router, graph, building>>

Plan(r) ==
  /\ stage[r] = "plan"
  /\ PlanStep(r)
  /\ UNCHANGED <<requestVars, shared, building>>

\* Mutant: a decomposer that raises is waited for in vain.
PlanEndsWell(r) ==
  /\ stage[r] = "plan" /\ node[r] = "planned"
  /\ EndPlan(r)
  /\ Proceed(r, "execute")
  /\ UNCHANGED <<current, pending, shared, building>>

PlanEnds(r) ==
  /\ stage[r] = "plan"
  /\ EndPlan(r)
  /\ \/ node[r] = "planned" /\ Proceed(r, "execute")
     \/ node[r] = "unplanned" /\ Raises(r)
  /\ UNCHANGED <<current, pending, shared, building>>

-----------------------------------------------------------------------------
\* The step's dependencies all have a result, as Executor's sort sees to.
Ready(r, i) ==
  /\ stage[r] = "execute" /\ current[r] = 0 /\ i \in StepsOf(r) \ done[r]
  /\ \A j \in StepsOf(r) : steps[r][j].id \in steps[r][i].deps => j \in done[r]

\* Mutant: the router does not remember its client.
RouteForgets(r, i) ==
  /\ Ready(r, i)
  /\ current' = [current EXCEPT ![r] = i]
  /\ \E s \in DOMAIN BackendsOf : pending' = [pending EXCEPT ![r] = BackendsOf[s]]
  /\ UNCHANGED <<plannerVars, stage, status, done, hits, results, shared, building>>

\* The router's _ensure_loaded succeeds or has nothing to do, and route answers.
Route(r, i) ==
  /\ Ready(r, i)
  /\ router' = IF settings.routerLLM /\ router = "unbuilt"
               THEN IF settings.key THEN "ready" ELSE "absent" ELSE router
  /\ current' = [current EXCEPT ![r] = i]
  /\ \E s \in DOMAIN BackendsOf : pending' = [pending EXCEPT ![r] = BackendsOf[s]]
  /\ UNCHANGED <<plannerVars, stage, status, done, hits, results, pipeline, graph, building>>

\* Mutant: the router's exception reaches the handler.
RouteFails(r, i) ==
  /\ Ready(r, i) /\ settings.routerLLM /\ settings.key /\ router = "unbuilt"
  /\ Raises(r)
  /\ UNCHANGED <<graphRest, clients, current, pending, shared, building>>

\* The router's client cannot be built: the exception leaves execute, and
\* _run_pipeline goes on with no step result at all.
RouteRaises(r, i) ==
  /\ Ready(r, i) /\ settings.routerLLM /\ settings.key /\ router = "unbuilt"
  /\ stage' = [stage EXCEPT ![r] = "prompt"]
  /\ results' = [results EXCEPT ![r] = "none"]
  /\ UNCHANGED <<plannerVars, status, current, pending, done, hits, shared, building>>

Asks(r, b) == stage[r] = "execute" /\ pending[r] # <<>> /\ Head(pending[r]) = b

\* A search of one backend is over; the last one's makes the StepResult.
Returns(r, outcome) ==
  /\ pending' = [pending EXCEPT ![r] = Tail(@)]
  /\ hits' = [hits EXCEPT ![r] = IF Safely(outcome) THEN @ \cup {current[r]} ELSE @]
  /\ IF Len(pending[r]) = 1
     THEN /\ done' = [done EXCEPT ![r] = @ \cup {current[r]}]
          /\ current' = [current EXCEPT ![r] = 0]
     ELSE UNCHANGED <<done, current>>
  /\ UNCHANGED <<plannerVars, stage, status, results, shared, building>>

\* The adapter's BM25Search is built without an index: it starts empty.
SearchBm25(r) == Asks(r, "bm25") /\ Returns(r, "nothing")

SearchVector(r) ==
  Asks(r, "vector") /\ \E outcome \in {"fails", "nothing", "hits"} : Returns(r, outcome)

\* Traversal is off, or the text holds no symbol.
SkipGraph(r) == Asks(r, "graph") /\ Returns(r, "nothing")

\* graph is read as None: this thread builds a retriever on Neo4j, or on an
\* in-memory graph if Neo4j cannot be reached now ...
BuildGraph(r) ==
  /\ settings.graph /\ Asks(r, "graph")
  /\ graph = "unbuilt" /\ building[r] = "none"
  /\ \E g \in {"neo4j", "memory"} : building' = [building EXCEPT ![r] = g]
  /\ UNCHANGED <<plannerVars, requestVars, shared>>

\* ... and stores it, whatever another thread has stored meanwhile.
StoreGraph(r) ==
  /\ building[r] # "none"
  /\ graph' = building[r]
  /\ building' = [building EXCEPT ![r] = "none"]
  /\ UNCHANGED <<plannerVars, requestVars, pipeline, router>>

\* The in-memory graph is empty: nothing in the service persists into it.
SearchGraph(r) ==
  /\ settings.graph /\ Asks(r, "graph")
  /\ graph # "unbuilt" /\ building[r] = "none"
  /\ \E outcome \in IF graph = "neo4j" THEN {"fails", "nothing", "hits"} ELSE {"nothing"} :
       Returns(r, outcome)

\* Each chunk is kept once, at its best score, and the _MAX_CONTEXT_RESULTS
\* best go into the prompt.  Scores of different backends are compared, so any
\* one step may lose all that it found, but not all of them together.
ExecuteEnds(r) ==
  /\ stage[r] = "execute" /\ done[r] = StepsOf(r)
  /\ stage' = [stage EXCEPT ![r] = "prompt"]
  /\ results' = [results EXCEPT ![r] = IF hits[r] = {} THEN "none" ELSE "some"]
  /\ UNCHANGED <<plannerVars, status, current, pending, done, hits, shared, building>>

\* build_from_results may refuse: its token budget is too small.
BuildPrompt(r) ==
  /\ stage[r] = "prompt"
  /\ Proceed(r, "generate") \/ Answer(r, 422)
  /\ UNCHANGED <<graphRest, clients, current, pending, shared, building>>

\* generate_with_citations: an answer, a failure result, or an exception.
Generate(r) ==
  /\ stage[r] = "generate"
  /\ \/ Answer(r, 200)
     \/ \E k \in DOMAIN ErrorStatus : Answer(r, ErrorStatus[k])
     \/ Raises(r)
  /\ UNCHANGED <<graphRest, clients, current, pending, shared, building>>

Execute(r) ==
  \/ \E i \in StepsOf(r) : Route(r, i) \/ RouteRaises(r, i)
  \/ SearchBm25(r) \/ SearchVector(r) \/ SkipGraph(r)
  \/ BuildGraph(r) \/ StoreGraph(r) \/ SearchGraph(r)
  \/ ExecuteEnds(r)

Handle(r) ==
  \/ LookUp(r) \/ GetPipeline(r) \/ Plan(r) \/ PlanEnds(r)
  \/ Execute(r) \/ BuildPrompt(r) \/ Generate(r)

Next == \E r \in Requests : Handle(r)

Spec == Init /\ [][Next]_vars

\* The event loop and the worker threads keep running, and every call out
\* returns or raises.
FairSpec == Spec /\ \A r \in Requests : WF_vars(Handle(r))

-----------------------------------------------------------------------------
TypeOK ==
  /\ PlannerTypeOK
  /\ stage \in [Requests -> {"lookup", "pipeline", "plan", "execute", "prompt", "generate",
                             "answered"}]
  /\ status \in [Requests -> {0, 200, 404, 422, 429, 500, 502, 503, 504}]
  /\ pipeline \in BOOLEAN
  /\ router \in {"unbuilt", "ready", "absent"}
  /\ graph \in {"unbuilt", "neo4j", "memory"}
  /\ building \in [Requests -> {"none", "neo4j", "memory"}]
  /\ current \in [Requests -> Nat]
  /\ pending \in [Requests -> Seq({"bm25", "vector", "graph"})]
  /\ \A f \in {done, hits} : f \in [Requests -> SUBSET Nat]
  /\ results \in [Requests -> {"none", "some"}]

\* An exception of the router leaves execute with every step result dropped
\* (query.py:438, executor.py:374), yet the evidence is not lost by it,
\* whichever request gets to build the router's client: the plan is given up
\* before its first step or not at all, and the prompt is built without any
\* result only if no step found one.
FailuresLoseNoEvidence ==
  \A r \in Requests : stage[r] \in {"prompt", "generate"} =>
    /\ done[r] \in {{}, StepsOf(r)}
    /\ results[r] = "none" <=> hits[r] = {}

\* "Retrieval degrades, generation does not" (query.py:26): no failure between
\* the plan and the prompt decides the response, and a response of 429, 504 or
\* 200 comes from the generator.
RetrievalNeverRefuses ==
  [][\A r \in Requests :
       /\ stage[r] = "execute" => status'[r] = 0
       /\ status'[r] \in {200, 429, 504} /\ status[r] = 0 =>
            stage[r] = "generate" /\ source[r] # "none"]_vars

\* Every request is answered, however its LLM calls and backends fail.
QueriesAnswered == \A r \in Requests : <>(status[r] # 0)
============================================================================
