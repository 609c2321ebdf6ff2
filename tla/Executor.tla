------------------------------ MODULE Executor ------------------------------
(***************************************************************************)
(* SubQueryExecutor (agent/executor.py) on one plan: Kahn's sort of the    *)
(* steps, then each step routed, searched for with one retry, and its      *)
(* findings forwarded to the steps that depend on it.                      *)
(*                                                                         *)
(* A step is its place in the plan's list; its dependencies may name any   *)
(* step, or an id that no step of the plan has.  An action is one          *)
(* iteration of the sort's loop, or of the run up to the next call out.    *)
(***************************************************************************)
EXTENDS Naturals, Sequences, FiniteSets

CONSTANTS
  NumSteps,      \* length of the plan
  Absent,        \* ids a depends_on may name that are no step's
  Strategies,    \* what a router may answer
  RouterMayRaise \* does building the router's LLM client raise

Steps == 1..NumSteps

ASSUME ExecutorAssumption ==
  /\ NumSteps \in Nat
  /\ Absent \cap Steps = {}
  /\ RouterMayRaise \in BOOLEAN

VARIABLES
  dependsOn, \* the plan: depends_on of each step
  inDegree,  \* _topological_sort's in_degree
  ticket,    \* the iteration of the sort's loop that queued a step
  order,     \* the steps sorted so far
  phase,     \* where execute is
  strategy,  \* what the router chose for the running step
  failures,  \* failed engine calls, per step
  completed  \* the StepResults so far

sortVars == <<inDegree, ticket, order>>
vars == <<dependsOn, sortVars, phase, strategy, failures, completed>>

-----------------------------------------------------------------------------
SortedSet == {order[i] : i \in 1..Len(order)}

\* Mutant: unknown ids count.
KnownOrNot(s) == dependsOn[s]

\* Dependencies on ids that no step has are ignored by the sort.
Known(s) == dependsOn[s] \cap Steps

Dependents(s) == {t \in Steps : s \in dependsOn[t]}

\* Mutant: a step with one unsorted dependency is queued.
QueuedEarly == {s \in Steps : inDegree[s] <= 1} \ SortedSet

\* The deque: first come first served, the steps that one iteration queues in
\* the order of the plan.
Queued == {s \in Steps : inDegree[s] = 0} \ SortedSet
Before(s, t) == ticket[s] < ticket[t] \/ (ticket[s] = ticket[t] /\ s < t)
IsHead(s) == s \in Queued /\ \A t \in Queued \ {s} : Before(s, t)

Init ==
  /\ dependsOn \in [Steps -> SUBSET (Steps \cup Absent)]
  /\ inDegree  = [s \in Steps |-> Cardinality(Known(s))]
  /\ ticket    = [s \in Steps |-> 0]
  /\ order     = <<>>
  /\ phase     = "sorting"
  /\ strategy  = "none"
  /\ failures  = [s \in Steps |-> 0]
  /\ completed = [s \in {} |-> {}]

\* One iteration of the while loop of _topological_sort.
PopQueue(s) ==
  /\ phase = "sorting"
  /\ IsHead(s)
  /\ order' = Append(order, s)
  /\ inDegree' = [t \in Steps |-> IF t \in Dependents(s) THEN inDegree[t] - 1
                                                         ELSE inDegree[t]]
  /\ ticket' = [t \in Steps |-> IF t \in Dependents(s) /\ inDegree[t] = 1
                                THEN Len(order) + 1 ELSE ticket[t]]
  /\ UNCHANGED <<dependsOn, phase, strategy, failures, completed>>

\* Mutant: the loop runs until every step is in order.
SortEndsWhenFull ==
  /\ phase = "sorting"
  /\ Len(order) = NumSteps
  /\ phase' = IF NumSteps = 0 THEN "done" ELSE "routing"
  /\ UNCHANGED <<dependsOn, sortVars, strategy, failures, completed>>

\* The queue is empty: every step is in order, or a cycle is reported.
SortEnds ==
  /\ phase = "sorting"
  /\ Queued = {}
  /\ phase' = IF Len(order) # NumSteps THEN "cycle"
              ELSE IF NumSteps = 0 THEN "done" ELSE "routing"
  /\ UNCHANGED <<dependsOn, sortVars, strategy, failures, completed>>

-----------------------------------------------------------------------------
\* The step that _execute_step runs.
Done == Cardinality(DOMAIN completed)
Now  == order[Done + 1]

\* Mutant: every summary so far is forwarded.
ForwardedAll(s) == {d \in DOMAIN completed : completed[d].summary}

\* The dependencies whose context summary goes into the augmented query.
Forwarded(s) ==
  {d \in dependsOn[s] : d \in DOMAIN completed /\ completed[d].summary}

\* The router picks a strategy.  It is called outside any try.
Route ==
  /\ phase = "routing"
  /\ strategy' \in Strategies
  /\ phase' = "calling"
  /\ UNCHANGED <<dependsOn, sortVars, failures, completed>>

RouteRaises ==
  /\ RouterMayRaise
  /\ phase = "routing"
  /\ phase' = "aborted"
  /\ UNCHANGED <<dependsOn, sortVars, strategy, failures, completed>>

\* completed[step_id] = step_result, and on to the next step.
Complete(result) ==
  /\ completed' = [s \in DOMAIN completed \cup {Now} |->
                     IF s = Now THEN result ELSE completed[s]]
  /\ phase' = IF Done + 1 = NumSteps THEN "done" ELSE "routing"
  /\ UNCHANGED <<dependsOn, sortVars, strategy>>

\* The engine answers; whether the summary is empty depends on the results.
EngineAnswers ==
  /\ phase = "calling"
  /\ \E summary \in BOOLEAN :
       Complete([skipped |-> FALSE, summary |-> summary,
                 strategy |-> strategy, forwarded |-> Forwarded(Now)])
  /\ UNCHANGED failures

\* Mutant: a step is skipped on its first failure.
EngineRaisesOnce ==
  /\ phase = "calling"
  /\ failures' = [failures EXCEPT ![Now] = @ + 1]
  /\ Complete([skipped |-> TRUE, summary |-> FALSE,
               strategy |-> strategy, forwarded |-> Forwarded(Now)])

\* It raises: once more with the same query, then the step is skipped.
EngineRaises ==
  /\ phase = "calling"
  /\ failures' = [failures EXCEPT ![Now] = @ + 1]
  /\ IF failures[Now] = 0
     THEN UNCHANGED <<dependsOn, sortVars, phase, strategy, completed>>
     ELSE Complete([skipped |-> TRUE, summary |-> FALSE,
                    strategy |-> strategy, forwarded |-> Forwarded(Now)])

-----------------------------------------------------------------------------
Returned == phase \in {"done", "cycle", "aborted"}

Next ==
  \/ \E s \in Steps : PopQueue(s)
  \/ SortEnds \/ Route \/ RouteRaises \/ EngineAnswers \/ EngineRaises

Spec == Init /\ [][Next]_vars

\* execute is one thread of straight-line code: it always takes its next step.
FairSpec == Spec /\ WF_vars(Next)

-----------------------------------------------------------------------------
(* Properties.                                                             *)

Results == [skipped : BOOLEAN, summary : BOOLEAN, strategy : Strategies,
            forwarded : SUBSET (Steps \cup Absent)]

\* Every variable holds a value the code can give it.
TypeOK ==
  /\ dependsOn \in [Steps -> SUBSET (Steps \cup Absent)]
  /\ inDegree \in [Steps -> Nat]
  /\ ticket \in [Steps -> Nat]
  /\ order \in Seq(Steps)
  /\ phase \in {"sorting", "routing", "calling", "done", "cycle", "aborted"}
  /\ strategy \in Strategies \cup {"none"}
  /\ failures \in [Steps -> Nat]
  /\ DOMAIN completed \subseteq Steps
  /\ \A s \in DOMAIN completed : completed[s] \in Results

\* A step runs after every step it depends on, whatever the order of the plan
\* and however a step failed: by the time it has a result, they have theirs.
DependenciesFirst ==
  \A s \in DOMAIN completed : Known(s) \subseteq DOMAIN completed

\* Steps that wait for each other: none of them can be sorted first.
Knot(S) == S # {} /\ \A s \in S : dependsOn[s] \cap S # {}

\* CyclicDependencyError is raised for a plan with a cycle and for no other:
\* neither a dependency on an absent id, nor one on a later step, is a cycle.
CycleIffKnot ==
  /\ phase = "cycle" => \E S \in SUBSET Steps : Knot(S)
  /\ phase \in {"routing", "calling", "done", "aborted"} =>
       \A S \in SUBSET Steps : ~Knot(S)

\* Every step of a plan that ran through has a result, and its query carried
\* the summaries its dependencies ended with: of all those that found
\* something and of nothing else.
ContextForwarded ==
  /\ phase = "done" => DOMAIN completed = Steps
  /\ \A s \in DOMAIN completed :
       completed[s].forwarded =
         {d \in Known(s) : d \in DOMAIN completed /\ completed[d].summary}

\* A step is skipped after its second failed call and never on the first: a
\* step that got its answer on the retry counts as a success.
SkippedAfterRetry ==
  \A s \in DOMAIN completed :
    /\ completed[s].skipped => failures[s] = 2 /\ ~completed[s].summary
    /\ ~completed[s].skipped => failures[s] < 2

\* execute comes to an end for every plan, cyclic or not.
ExecuteReturns == <>Returned

\* The plan never fully aborts: the failure of one step leaves the results of
\* the others standing.
NeverAborts == phase # "aborted"
=============================================================================
