------------------------------ MODULE Planner ------------------------------
(***************************************************************************)
(* QueryDecomposer and QueryClassifier (agent/planner.py): the LangGraph   *)
(* machine classify -> passthrough | decompose -> validate -> done | retry *)
(* | rule_fallback that turns each question into a plan.  The requests run *)
(* in threads and share the two lazily built LLM clients.                  *)
(*                                                                         *)
(* A question is what the rules read in it: a score per query type and the *)
(* number of endpoints of its "from A to B" chain.  A step id "step-i" is  *)
(* the number i, a missing id is 0.  A plan is a sequence of steps, a step *)
(* its id and the ids it depends on.                                       *)
(***************************************************************************)
EXTENDS Naturals, Sequences, FiniteSets

CONSTANTS
  Requests,
  Questions,   \* the questions that may be asked
  Replies,     \* what the LLM may answer to a decomposition prompt
  Settings,    \* what the deployment may be configured to
  MaxRetries,  \* max_retries
  Threshold    \* the confidence threshold <<num, den>>

QueryTypes == {"multi-hop", "exploratory", "simple-lookup"}

ASSUME PlannerAssumption ==
  /\ MaxRetries \in Nat
  /\ Settings \subseteq [llm : BOOLEAN, routerLLM : BOOLEAN, key : BOOLEAN, graph : BOOLEAN]
  /\ Threshold \in Nat \X (Nat \ {0})
  /\ \A q \in Questions : q.scores \in [QueryTypes -> Nat] /\ q.endpoints \in Nat
  /\ \A m \in Replies :
       /\ m.kind \in {"raises", "unusable", "steps"}
       /\ m.kind = "steps" =>
            m.steps \in Seq([id : Nat, text : BOOLEAN, listed : BOOLEAN, deps : SUBSET Nat])

VARIABLES
  settings,  \* use_llm of planner and router, an API key, enable_graph_retrieval
  node,      \* where the graph is for a request
  question,  \* its question
  kind,      \* classification.query_type
  attempt,   \* the state's attempt counter
  error,     \* the state's error field
  steps,     \* the state's steps
  source,    \* the state's source
  heard,     \* the LLM's replies so far (history)
  clients    \* _resolved_llm of the classifier and of the decomposer

graphState == <<node, question, kind, attempt, error, steps, source, heard>>
plannerVars == <<settings, graphState, clients>>

-----------------------------------------------------------------------------
(* The rule-based classifier.                                              *)
Total(q) == q.scores["multi-hop"] + q.scores["exploratory"] + q.scores["simple-lookup"]
Top(q) == CHOOSE n \in {q.scores[t] : t \in QueryTypes} : \A t \in QueryTypes : q.scores[t] <= n

\* Ties go to the type that retrieves most.
RuleWinner(q) ==
  LET tied == {t \in QueryTypes : q.scores[t] = Top(q)}
  IN  IF "multi-hop" \in tied THEN "multi-hop"
      ELSE IF "exploratory" \in tied THEN "exploratory" ELSE "simple-lookup"

\* The rules' confidence top / total against the threshold; below it, multi-hop.
RuleClassify(q) ==
  IF Top(q) * Threshold[2] >= Threshold[1] * Total(q) THEN RuleWinner(q) ELSE "multi-hop"

(* The rule-based plan: locate each endpoint and trace between them, or the *)
(* fixed chain of three.                                                    *)
RuleDecompose(q) ==
  IF q.endpoints \in 2..4
  THEN [i \in 1..(q.endpoints + 1) |->
          [id |-> i, deps |-> IF i <= q.endpoints THEN {} ELSE 1..q.endpoints]]
  ELSE [i \in 1..3 |-> [id |-> i, deps |-> 1..(i - 1)]]

(* The LLM's plan: parsing stops at the first unusable step, and an id that *)
(* is missing is made from the place of the step.                           *)
Usable(m) ==
  /\ m.kind = "steps"
  /\ m.steps # <<>>
  /\ \A i \in DOMAIN m.steps : m.steps[i].text /\ m.steps[i].listed

ParsedSteps(m) ==
  [i \in 1..Len(m.steps) |-> [id   |-> IF m.steps[i].id = 0 THEN i ELSE m.steps[i].id,
                              deps |-> m.steps[i].deps]]

Earlier(plan, i) == {plan[j].id : j \in 1..(i - 1)}

\* Mutant of validate_steps: a step may depend on a later one.
ValidInAnyOrder(plan) ==
  /\ Len(plan) \in 2..5
  /\ \A i \in DOMAIN plan : /\ plan[i].id \notin Earlier(plan, i)
                            /\ plan[i].deps \subseteq Earlier(plan, Len(plan) + 1)

ValidSteps(plan) ==
  /\ Len(plan) \in 2..5
  /\ \A i \in DOMAIN plan : /\ plan[i].id \notin Earlier(plan, i)
                            /\ plan[i].deps \subseteq Earlier(plan, i)

-----------------------------------------------------------------------------
PlannerInit ==
  /\ settings \in Settings
  /\ node     = [r \in Requests |-> "idle"]
  /\ question \in [Requests -> Questions]
  /\ kind     = [r \in Requests |-> "none"]
  /\ attempt  = [r \in Requests |-> 0]
  /\ error    = [r \in Requests |-> "none"]
  /\ steps    = [r \in Requests |-> <<>>]
  /\ source   = [r \in Requests |-> "none"]
  /\ heard    = [r \in Requests |-> <<>>]
  /\ clients  = [c \in {"classify", "decompose"} |-> "unbuilt"]

\* Does _ensure_loaded have nothing left to do for the client of node n.
Loaded(n) == ~settings.llm \/ clients[n] # "unbuilt"

\* decompose is called with the question.
StartPlan(r) ==
  /\ node[r] = "idle"
  /\ node' = [node EXCEPT ![r] = "classify"]
  /\ UNCHANGED <<settings, question, kind, attempt, error, steps, source, heard, clients>>

\* _ensure_loaded: no key, no client, once and for all; or the client is built.
LoadClient(r, n) ==
  /\ node[r] = n /\ ~Loaded(n)
  /\ clients' = [clients EXCEPT ![n] = IF settings.key THEN "ready" ELSE "absent"]
  /\ UNCHANGED <<settings, graphState>>

\* ... or building it raises, outside every try: the plan is never made.
LoadRaises(r, n) ==
  /\ node[r] = n /\ ~Loaded(n) /\ settings.key
  /\ node' = [node EXCEPT ![r] = "unplanned"]
  /\ UNCHANGED <<settings, question, kind, attempt, error, steps, source, heard, clients>>

\* The LLM's type if it is sure, multi-hop if not, and the rules' if it fails.
Classify(r) ==
  /\ node[r] = "classify" /\ Loaded("classify")
  /\ \E t \in IF settings.llm /\ clients["classify"] = "ready"
              THEN QueryTypes \cup {RuleClassify(question[r])}
              ELSE {RuleClassify(question[r])} :
       /\ kind' = [kind EXCEPT ![r] = t]
       /\ node' = [node EXCEPT ![r] = IF t = "multi-hop" THEN "decompose" ELSE "passthrough"]
  /\ UNCHANGED <<settings, question, attempt, error, steps, source, heard, clients>>

Passthrough(r) ==
  /\ node[r] = "passthrough"
  /\ steps'  = [steps EXCEPT ![r] = << [id |-> 1, deps |-> {}] >>]
  /\ source' = [source EXCEPT ![r] = "passthrough"]
  /\ error'  = [error EXCEPT ![r] = "none"]
  /\ node'   = [node EXCEPT ![r] = "planned"]
  /\ UNCHANGED <<settings, question, kind, attempt, heard, clients>>

\* The decompose node without an LLM to call.
DecomposeWithout(r) ==
  /\ node[r] = "decompose" /\ Loaded("decompose")
  /\ ~settings.llm \/ clients["decompose"] = "absent"
  /\ error' = [error EXCEPT ![r] = IF settings.llm THEN "llm_unavailable" ELSE "llm_disabled"]
  /\ steps' = [steps EXCEPT ![r] = <<>>]
  /\ source' = [source EXCEPT ![r] = "llm"]
  /\ attempt' = [attempt EXCEPT ![r] = @ + 1]
  /\ node'  = [node EXCEPT ![r] = "validate"]
  /\ UNCHANGED <<settings, question, kind, heard, clients>>

\* Mutant: an error of the attempt before stays in the state.
DecomposeStale(r) ==
  /\ node[r] = "decompose" /\ settings.llm /\ clients["decompose"] = "ready"
  /\ \E m \in Replies :
       /\ heard' = [heard EXCEPT ![r] = Append(@, m)]
       /\ error' = [error EXCEPT ![r] = IF Usable(m) THEN @
                                        ELSE IF m.kind = "raises" THEN "call_failed"
                                        ELSE "unparsable"]
       /\ steps' = [steps EXCEPT ![r] = IF Usable(m) THEN ParsedSteps(m) ELSE <<>>]
  /\ source' = [source EXCEPT ![r] = "llm"]
  /\ attempt' = [attempt EXCEPT ![r] = @ + 1]
  /\ node' = [node EXCEPT ![r] = "validate"]
  /\ UNCHANGED <<settings, question, kind, clients>>

\* The decompose node: one call of the LLM, and the parsing of its reply.
Decompose(r) ==
  /\ node[r] = "decompose" /\ settings.llm /\ clients["decompose"] = "ready"
  /\ \E m \in Replies :
       /\ heard' = [heard EXCEPT ![r] = Append(@, m)]
       /\ error' = [error EXCEPT ![r] = IF Usable(m) THEN "none"
                                        ELSE IF m.kind = "raises" THEN "call_failed"
                                        ELSE "unparsable"]
       /\ steps' = [steps EXCEPT ![r] = IF Usable(m) THEN ParsedSteps(m) ELSE <<>>]
  /\ source' = [source EXCEPT ![r] = "llm"]
  /\ attempt' = [attempt EXCEPT ![r] = @ + 1]
  /\ node' = [node EXCEPT ![r] = "validate"]
  /\ UNCHANGED <<settings, question, kind, clients>>

\* The error after the validate node: an earlier one, or that of validate_steps.
Verdict(r) ==
  IF error[r] # "none" THEN error[r]
  ELSE IF ValidSteps(steps[r]) THEN "none" ELSE "invalid"

\* _route_after_validate.
AfterValidate(r) ==
  IF Verdict(r) = "none" THEN "planned"
  ELSE IF Verdict(r) \in {"llm_disabled", "llm_unavailable"} THEN "rule_fallback"
  ELSE IF attempt[r] <= MaxRetries THEN "decompose" ELSE "rule_fallback"

Validate(r) ==
  /\ node[r] = "validate"
  /\ error' = [error EXCEPT ![r] = Verdict(r)]
  /\ node'  = [node EXCEPT ![r] = AfterValidate(r)]
  /\ UNCHANGED <<settings, question, kind, attempt, steps, source, heard, clients>>

RuleFallback(r) ==
  /\ node[r] = "rule_fallback"
  /\ steps'  = [steps EXCEPT ![r] = RuleDecompose(question[r])]
  /\ source' = [source EXCEPT ![r] = "rules"]
  /\ error'  = [error EXCEPT ![r] = "none"]
  /\ node'   = [node EXCEPT ![r] = "planned"]
  /\ UNCHANGED <<settings, question, kind, attempt, heard, clients>>

\* decompose has returned or raised: the state of its graph is gone, but for
\* the plan, which the caller keeps.
EndPlan(r) ==
  /\ node[r] \in {"planned", "unplanned"}
  /\ node'    = [node EXCEPT ![r] = "idle"]
  /\ kind'    = [kind EXCEPT ![r] = "none"]
  /\ attempt' = [attempt EXCEPT ![r] = 0]
  /\ error'   = [error EXCEPT ![r] = "none"]
  /\ heard'   = [heard EXCEPT ![r] = <<>>]
  /\ UNCHANGED <<settings, question, clients>>

PlanStep(r) ==
  \/ \E n \in {"classify", "decompose"} : LoadClient(r, n) \/ LoadRaises(r, n)
  \/ Classify(r) \/ Passthrough(r) \/ DecomposeWithout(r) \/ Decompose(r)
  \/ Validate(r) \/ RuleFallback(r)

-----------------------------------------------------------------------------
Step == [id : Nat, deps : SUBSET Nat]

PlannerTypeOK ==
  /\ settings \in Settings
  /\ node \in [Requests -> {"idle", "classify", "passthrough", "decompose", "validate",
                            "rule_fallback", "planned", "unplanned"}]
  /\ question \in [Requests -> Questions]
  /\ kind \in [Requests -> QueryTypes \cup {"none"}]
  /\ attempt \in [Requests -> 0..(MaxRetries + 1)]
  /\ error \in [Requests -> {"none", "llm_disabled", "llm_unavailable", "call_failed",
                             "unparsable", "invalid"}]
  /\ steps \in [Requests -> Seq(Step)]
  /\ source \in [Requests -> {"none", "llm", "rules", "passthrough"}]
  /\ heard \in [Requests -> Seq(Replies)]
  /\ clients \in [{"classify", "decompose"} -> {"unbuilt", "ready", "absent"}]

\* The executor may take every plan as it is: from one to five steps with ids
\* of their own that depend only on earlier steps, so that its sort finds no
\* cycle and every dependency forwards a summary (planner.py:1294, 1361).
PlansExecutable ==
  \A r \in Requests : node[r] = "planned" =>
    /\ Len(steps[r]) \in 1..5
    /\ \A i \in DOMAIN steps[r] : /\ steps[r][i].id \notin Earlier(steps[r], i)
                                  /\ steps[r][i].deps \subseteq Earlier(steps[r], i)

Good(m) == Usable(m) /\ ValidSteps(ParsedSteps(m))

\* What is made of a question follows from the replies to it: the LLM's plan is
\* its last reply and the first good one; the rules stand in after exactly
\* max_retries + 1 bad ones, or when there is no LLM to ask; and a question is
\* left without a plan only while no reply was bad enough to fall back on, for
\* want of a client (planner.py:1488-1572).
PlanIsLastReply ==
  \A r \in Requests :
    LET n == Len(heard[r])
        AllBad(k) == \A i \in 1..k : ~Good(heard[r][i])
    IN  /\ node[r] = "planned" /\ source[r] = "llm" =>
             /\ n \in 1..(MaxRetries + 1)
             /\ AllBad(n - 1) /\ Good(heard[r][n])
             /\ steps[r] = ParsedSteps(heard[r][n])
        /\ node[r] = "planned" /\ source[r] = "rules" =>
             /\ AllBad(n)
             /\ n = MaxRetries + 1 \/ (n = 0 /\ (~settings.llm \/ clients["decompose"] = "absent"))
        /\ source[r] = "passthrough" \/ node[r] = "unplanned" => heard[r] = <<>>
============================================================================
