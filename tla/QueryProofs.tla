----------------------------- MODULE QueryProofs -----------------------------
(***************************************************************************)
(* The safety properties of Planner and Query for any number of requests,  *)
(* any questions and replies, and any bound on retries.  NodeInv follows   *)
(* one question through the planner's graph and counts its replies;        *)
(* FlowInv follows its request, and RouterInv ties what was retrieved to   *)
(* the router's client.                                                    *)
(***************************************************************************)
EXTENDS Query, SequenceTheorems, TLAPS

AllBad(r, k) == \A i \in 1..k : ~Good(heard[r][i])

NoLLM == ~settings.llm \/ clients["decompose"] = "absent"

Executable(p) ==
  /\ Len(p) \in 1..5
  /\ \A i \in DOMAIN p : /\ p[i].id \notin Earlier(p, i)
                         /\ p[i].deps \subseteq Earlier(p, i)

\* What the validate node finds: no reply asked for, or one after bad ones.
ToValidate(r, n) ==
  /\ source[r] = "llm"
  /\ \/ n = 0 /\ attempt[r] = 1 /\ error[r] \in {"llm_disabled", "llm_unavailable"} /\ NoLLM
     \/ /\ n \in 1..(MaxRetries + 1) /\ attempt[r] = n /\ AllBad(r, n - 1)
        /\ error[r] \in {"none", "call_failed", "unparsable"}
        /\ error[r] = "none" <=> Usable(heard[r][n])
        /\ error[r] = "none" => steps[r] = ParsedSteps(heard[r][n])

ToFallBack(r, n) == AllBad(r, n) /\ (n = MaxRetries + 1 \/ (n = 0 /\ NoLLM))

Planned(r, n) ==
  /\ Executable(steps[r])
  /\ \/ /\ source[r] = "llm" /\ n \in 1..(MaxRetries + 1)
        /\ AllBad(r, n - 1) /\ Good(heard[r][n]) /\ steps[r] = ParsedSteps(heard[r][n])
     \/ source[r] = "rules" /\ ToFallBack(r, n)
     \/ source[r] = "passthrough" /\ heard[r] = <<>>

NodeInv(r) ==
  LET n == Len(heard[r])
  IN  /\ node[r] \in {"idle", "classify", "passthrough", "unplanned"} =>
           heard[r] = <<>> /\ attempt[r] = 0
      /\ node[r] = "decompose" => AllBad(r, n) /\ attempt[r] = n /\ n <= MaxRetries
      /\ node[r] = "validate" => ToValidate(r, n)
      /\ node[r] = "rule_fallback" => ToFallBack(r, n)
      /\ node[r] = "planned" => Planned(r, n)
      /\ source[r] = "passthrough" => heard[r] = <<>>
      /\ heard[r] # <<>> => settings.llm /\ clients["decompose"] = "ready"

Kept(r) ==
  /\ done[r] \in {{}, StepsOf(r)}
  /\ results[r] = "none" <=> hits[r] = {}

FlowInv(r) ==
  /\ stage[r] # "plan" => node[r] = "idle"
  /\ stage[r] # "answered" => status[r] = 0
  /\ stage[r] \in {"execute", "prompt", "generate"} => source[r] # "none"
  /\ stage[r] \in {"prompt", "generate"} => Kept(r)

\* Nothing is retrieved before the router has its client, if it is to have one.
RouterInv ==
  settings.routerLLM /\ settings.key /\ router = "unbuilt" =>
    \A r \in Requests : pending[r] = <<>> /\ done[r] = {} /\ hits[r] = {}

IInv == TypeOK /\ RouterInv /\ \A r \in Requests : NodeInv(r) /\ FlowInv(r)

-----------------------------------------------------------------------------
(* Plans *)

\* The steps of a parsed reply.
LEMMA ParsedType ==
  ASSUME NEW m \in Replies, Usable(m)
  PROVE  ParsedSteps(m) \in Seq(Step)
<1> DEFINE R == [id : Nat, text : BOOLEAN, listed : BOOLEAN, deps : SUBSET Nat]
<1>1. m.steps \in Seq(R)
  BY PlannerAssumption DEF Usable
<1>2. /\ Len(m.steps) \in Nat
      /\ \A i \in 1..Len(m.steps) : m.steps[i].id \in Nat /\ m.steps[i].deps \in SUBSET Nat
  <2>1. \A e \in R : e.id \in Nat /\ e.deps \in SUBSET Nat
    OBVIOUS
  <2> HIDE DEF R
  <2>2. Len(m.steps) \in Nat /\ \A i \in 1..Len(m.steps) : m.steps[i] \in R
    BY <1>1, ElementOfSeq, LenProperties
  <2>3. QED
    BY <2>1, <2>2
<1>3. \A i \in 1..Len(m.steps) :
         [id |-> IF m.steps[i].id = 0 THEN i ELSE m.steps[i].id, deps |-> m.steps[i].deps] \in Step
  BY <1>2 DEF Step
<1>4. QED
  BY <1>2, <1>3 DEF ParsedSteps

\* The rules' plan can be executed, whatever the question.
LEMMA RulePlan ==
  ASSUME NEW q \in Questions
  PROVE  RuleDecompose(q) \in Seq(Step) /\ Executable(RuleDecompose(q))
<1>1. CASE q.endpoints \in 2..4
  <2> DEFINE n == q.endpoints + 1
             p == [i \in 1..n |-> [id |-> i, deps |-> IF i <= q.endpoints THEN {} ELSE 1..q.endpoints]]
  <2>1. RuleDecompose(q) = p /\ n \in 3..5 /\ q.endpoints = n - 1
    BY <1>1 DEF RuleDecompose
  <2> HIDE DEF n
  <2>2. /\ \A i \in 1..n : p[i] \in Step /\ p[i].id = i /\ p[i].deps \subseteq 1..(i - 1)
        /\ p \in Seq(Step) /\ Len(p) = n
    BY <2>1 DEF Step
  <2> HIDE DEF p
  <2>3. ASSUME NEW i \in 1..n PROVE Earlier(p, i) = 1..(i - 1)
    BY <2>1, <2>2, <2>3 DEF Earlier
  <2>4. DOMAIN p = 1..n
    BY <2>1, <2>2
  <2>5. QED
    BY <2>1, <2>2, <2>3, <2>4 DEF Executable
<1>2. CASE q.endpoints \notin 2..4
  <2> DEFINE p == [i \in 1..3 |-> [id |-> i, deps |-> 1..(i - 1)]]
  <2>1. RuleDecompose(q) = p
    BY <1>2 DEF RuleDecompose
  <2>2. /\ \A i \in 1..3 : p[i] \in Step /\ p[i].id = i /\ p[i].deps \subseteq 1..(i - 1)
        /\ p \in Seq(Step) /\ Len(p) = 3
    BY DEF Step
  <2> HIDE DEF p
  <2>3. ASSUME NEW i \in 1..3 PROVE Earlier(p, i) = 1..(i - 1)
    BY <2>2, <2>3 DEF Earlier
  <2>4. DOMAIN p = 1..3
    BY <2>2
  <2>5. QED
    BY <2>1, <2>2, <2>3, <2>4 DEF Executable
<1>3. QED
  BY <1>1, <1>2

LEMMA SinglePlan ==
  LET p == << [id |-> 1, deps |-> {}] >>
  IN  p \in Seq(Step) /\ Executable(p)
  BY DEF Step, Executable, Earlier

LEMMA SettingsTypes ==
  ASSUME PlannerTypeOK
  PROVE  /\ settings.llm \in BOOLEAN /\ settings.routerLLM \in BOOLEAN
         /\ settings.key \in BOOLEAN /\ settings.graph \in BOOLEAN
         /\ MaxRetries \in Nat
  BY PlannerAssumption DEF PlannerTypeOK

-----------------------------------------------------------------------------
(* The planner's graph *)

\* The state of one question.
SameQuestion(r) ==
  /\ node'[r] = node[r] /\ attempt'[r] = attempt[r] /\ error'[r] = error[r]
  /\ steps'[r] = steps[r] /\ source'[r] = source[r] /\ heard'[r] = heard[r]

\* A client that is built stays as it is.
ClientsKept ==
  /\ settings' = settings
  /\ clients["decompose"] # "unbuilt" => clients'["decompose"] = clients["decompose"]

LEMMA NodeKept ==
  ASSUME NEW r \in Requests, NodeInv(r), SameQuestion(r), ClientsKept
  PROVE  NodeInv(r)'
<1>1. Len(heard[r])' = Len(heard[r]) /\ \A k : AllBad(r, k)' <=> AllBad(r, k)
  BY DEF SameQuestion, AllBad, Good
<1>2. NoLLM => NoLLM'
  BY DEF NoLLM, ClientsKept
<1>3. heard[r] # <<>> => settings'.llm /\ clients'["decompose"] = "ready"
  BY DEF NodeInv, ClientsKept
<1> DEFINE n == Len(heard[r])
<1>4. node[r] = "validate" => ToValidate(r, n)'
  BY <1>1, <1>2 DEF NodeInv, SameQuestion, ToValidate, Usable
<1>5. node[r] = "rule_fallback" => ToFallBack(r, n)'
  BY <1>1, <1>2 DEF NodeInv, ToFallBack
<1>6. node[r] = "planned" => Planned(r, n)'
  BY <1>1, <1>2 DEF NodeInv, SameQuestion, Planned, ToFallBack, Good, Executable, Earlier
<1>7. QED
  BY <1>1, <1>3, <1>4, <1>5, <1>6 DEF NodeInv, SameQuestion

\* A request that is not in the planner has no replies to account for.
LEMMA NodeIdle ==
  ASSUME NEW r \in Requests, node'[r] = "idle", heard'[r] = <<>>, attempt'[r] = 0
  PROVE  NodeInv(r)'
  BY DEF NodeInv

LEMMA LoadClientNode ==
  ASSUME PlannerTypeOK, NEW r \in Requests, NodeInv(r), NEW n \in {"classify", "decompose"},
         LoadClient(r, n)
  PROVE  ClientsKept /\ \A u \in Requests : SameQuestion(u)
  BY DEF PlannerTypeOK, LoadClient, Loaded, graphState, ClientsKept, SameQuestion

LEMMA LoadRaisesNode ==
  ASSUME PlannerTypeOK, NEW r \in Requests, NodeInv(r), NEW n \in {"classify", "decompose"},
         LoadRaises(r, n)
  PROVE  NodeInv(r)'
<1>1. node'[r] = "unplanned" /\ heard' = heard /\ attempt' = attempt
  BY DEF PlannerTypeOK, LoadRaises
<1>2. heard[r] = <<>> /\ attempt[r] = 0
  <2>1. CASE n = "classify"
    BY <2>1 DEF LoadRaises, NodeInv
  <2>2. CASE n = "decompose"
    <3>1. clients["decompose"] # "ready" /\ node[r] = "decompose"
      BY <2>2 DEF LoadRaises, Loaded
    <3>2. heard[r] = <<>>
      BY <3>1 DEF NodeInv
    <3>3. QED
      BY <3>1, <3>2 DEF NodeInv
  <2>3. QED
    BY <2>1, <2>2
<1>3. QED
  BY <1>1, <1>2 DEF NodeInv

LEMMA ClassifyNode ==
  ASSUME PlannerTypeOK, NEW r \in Requests, NodeInv(r), Classify(r)
  PROVE  NodeInv(r)'
<1>1. /\ node[r] = "classify" /\ node'[r] \in {"decompose", "passthrough"}
      /\ heard' = heard /\ attempt' = attempt
  BY DEF PlannerTypeOK, Classify
<1>2. heard[r] = <<>> /\ attempt[r] = 0
  BY <1>1 DEF NodeInv
<1>3. AllBad(r, Len(heard[r]))' /\ Len(heard[r])' = 0 /\ 0 <= MaxRetries
  BY <1>1, <1>2, SettingsTypes DEF AllBad
<1>4. QED
  BY <1>1, <1>2, <1>3 DEF NodeInv

LEMMA PassthroughNode ==
  ASSUME PlannerTypeOK, NEW r \in Requests, NodeInv(r), Passthrough(r)
  PROVE  NodeInv(r)'
<1>1. /\ node[r] = "passthrough" /\ node'[r] = "planned" /\ source'[r] = "passthrough"
      /\ steps'[r] = << [id |-> 1, deps |-> {}] >> /\ heard' = heard
  BY DEF PlannerTypeOK, Passthrough
<1>2. heard'[r] = <<>>
  BY <1>1 DEF NodeInv
<1>3. Executable(steps[r])'
  BY <1>1, SinglePlan DEF Executable, Earlier
<1>4. Planned(r, Len(heard[r]))'
  BY <1>1, <1>2, <1>3 DEF Planned
<1>5. QED
  BY <1>1, <1>2, <1>4 DEF NodeInv

LEMMA DecomposeWithoutNode ==
  ASSUME PlannerTypeOK, NEW r \in Requests, NodeInv(r), DecomposeWithout(r)
  PROVE  NodeInv(r)' /\ attempt'[r] = 1
<1>1. /\ node[r] = "decompose" /\ node'[r] = "validate" /\ NoLLM /\ NoLLM'
      /\ error'[r] \in {"llm_disabled", "llm_unavailable"} /\ source'[r] = "llm"
      /\ attempt'[r] = attempt[r] + 1 /\ heard' = heard
  BY DEF PlannerTypeOK, DecomposeWithout, NoLLM
<1>2. heard[r] = <<>>
  BY <1>1, SettingsTypes DEF NodeInv, NoLLM
<1>3. attempt[r] = 0
  BY <1>1, <1>2 DEF NodeInv
<1>4. ToValidate(r, Len(heard[r]))'
  BY <1>1, <1>2, <1>3 DEF ToValidate
<1>5. QED
  BY <1>1, <1>2, <1>3, <1>4 DEF NodeInv

LEMMA DecomposeNode ==
  ASSUME PlannerTypeOK, NEW r \in Requests, NodeInv(r), Decompose(r)
  PROVE  /\ NodeInv(r)' /\ heard'[r] \in Seq(Replies) /\ steps'[r] \in Seq(Step)
         /\ attempt'[r] \in 1..(MaxRetries + 1)
<1> DEFINE n == Len(heard[r])
<1>1. PICK m \in Replies :
        /\ heard'[r] = Append(heard[r], m)
        /\ error'[r] = IF Usable(m) THEN "none"
                       ELSE IF m.kind = "raises" THEN "call_failed" ELSE "unparsable"
        /\ steps'[r] = IF Usable(m) THEN ParsedSteps(m) ELSE <<>>
  BY DEF PlannerTypeOK, Decompose
<1>2. /\ node[r] = "decompose" /\ node'[r] = "validate" /\ source'[r] = "llm"
      /\ attempt'[r] = attempt[r] + 1 /\ settings.llm /\ clients["decompose"] = "ready"
      /\ settings' = settings /\ clients' = clients
  BY DEF PlannerTypeOK, Decompose
<1>3. AllBad(r, n) /\ attempt[r] = n /\ n <= MaxRetries
  BY <1>2 DEF NodeInv
<1>4. heard[r] \in Seq(Replies) /\ n \in Nat /\ MaxRetries \in Nat
  BY SettingsTypes DEF PlannerTypeOK
<1>5. /\ heard'[r] \in Seq(Replies) /\ Len(heard'[r]) = n + 1 /\ heard'[r][n + 1] = m
      /\ \A i \in 1..n : heard'[r][i] = heard[r][i]
  BY <1>1, <1>4, AppendProperties
<1> HIDE DEF n
<1>6. \A i \in 1..n : ~Good(heard'[r][i])
  BY <1>3, <1>5 DEF AllBad
<1>7. ToValidate(r, Len(heard[r]))'
  <2>1. n + 1 \in 1..(MaxRetries + 1) /\ attempt'[r] = n + 1 /\ (n + 1) - 1 = n
    BY <1>2, <1>3, <1>4
  <2>2. /\ error'[r] \in {"none", "call_failed", "unparsable"}
        /\ error'[r] = "none" <=> Usable(m)
        /\ error'[r] = "none" => steps'[r] = ParsedSteps(m)
    BY <1>1
  <2>3. QED
    BY <1>2, <1>5, <1>6, <2>1, <2>2 DEF ToValidate, AllBad
<1>8. steps'[r] \in Seq(Step)
  BY <1>1, ParsedType, EmptySeq
<1>9. NodeInv(r)'
  BY <1>2, <1>7 DEF NodeInv
<1>10. QED
  BY <1>2, <1>3, <1>4, <1>5, <1>8, <1>9

\* What _route_after_validate makes of the reply.
LEMMA ValidateNode ==
  ASSUME PlannerTypeOK, NEW r \in Requests, NodeInv(r), Validate(r)
  PROVE  NodeInv(r)'
<1> DEFINE n == Len(heard[r])
<1>1. /\ node[r] = "validate" /\ node'[r] = AfterValidate(r) /\ heard' = heard
      /\ source' = source /\ steps' = steps /\ attempt' = attempt
      /\ settings' = settings /\ clients' = clients
  BY DEF PlannerTypeOK, Validate
<1>2. ToValidate(r, n) /\ n \in Nat /\ MaxRetries \in Nat
  BY <1>1, SettingsTypes DEF NodeInv, PlannerTypeOK
<1>3. /\ heard'[r] # <<>> => settings'.llm /\ clients'["decompose"] = "ready"
      /\ source'[r] # "passthrough"
  BY <1>1, <1>2 DEF NodeInv, ToValidate
<1>4. CASE n = 0 /\ error[r] \in {"llm_disabled", "llm_unavailable"} /\ NoLLM
  <2>1. node'[r] = "rule_fallback"
    BY <1>1, <1>4 DEF AfterValidate, Verdict
  <2>2. ToFallBack(r, Len(heard[r]))'
    BY <1>1, <1>4 DEF ToFallBack, AllBad, NoLLM
  <2>3. QED
    BY <2>1, <2>2, <1>3 DEF NodeInv
<1>5. CASE /\ n \in 1..(MaxRetries + 1) /\ attempt[r] = n /\ AllBad(r, n - 1)
           /\ error[r] \in {"none", "call_failed", "unparsable"}
           /\ error[r] = "none" <=> Usable(heard[r][n])
           /\ error[r] = "none" => steps[r] = ParsedSteps(heard[r][n])
  <2>1. CASE error[r] = "none" /\ ValidSteps(steps[r])
    <3>1. node'[r] = "planned"
      BY <1>1, <2>1 DEF AfterValidate, Verdict
    <3>2. Good(heard[r][n]) /\ Executable(steps[r])
      BY <1>5, <2>1 DEF Good, ValidSteps, Executable
    <3>3. Planned(r, n)
      BY <1>2, <1>5, <2>1, <3>2 DEF Planned, ToValidate
    <3>4. Planned(r, Len(heard[r]))'
      BY <1>1, <3>3 DEF Planned, Executable, Earlier, AllBad, ToFallBack, NoLLM
    <3>5. QED
      BY <3>1, <3>4, <1>3 DEF NodeInv
  <2>2. CASE ~(error[r] = "none" /\ ValidSteps(steps[r]))
    <3>1. ~Good(heard[r][n])
      BY <1>5, <2>2 DEF Good
    <3>2. AllBad(r, n)
      BY <1>2, <1>5, <3>1 DEF AllBad
    <3>3. AllBad(r, Len(heard[r]))'
      BY <1>1, <3>2 DEF AllBad
    <3>4. CASE n <= MaxRetries
      <4>1. node'[r] = "decompose"
        BY <1>1, <1>5, <2>2, <3>4 DEF AfterValidate, Verdict
      <4>2. QED
        BY <4>1, <3>3, <3>4, <1>1, <1>3, <1>5 DEF NodeInv
    <3>5. CASE n = MaxRetries + 1
      <4>1. node'[r] = "rule_fallback"
        BY <1>1, <1>2, <1>5, <2>2, <3>5 DEF AfterValidate, Verdict
      <4>2. ToFallBack(r, Len(heard[r]))'
        BY <1>1, <3>3, <3>5 DEF ToFallBack
      <4>3. QED
        BY <4>1, <4>2, <1>3 DEF NodeInv
    <3>6. QED
      BY <1>2, <1>5, <3>4, <3>5
  <2>3. QED
    BY <2>1, <2>2
<1>6. QED
  BY <1>2, <1>4, <1>5 DEF ToValidate

LEMMA RuleFallbackNode ==
  ASSUME PlannerTypeOK, NEW r \in Requests, NodeInv(r), RuleFallback(r)
  PROVE  NodeInv(r)'
<1>1. /\ node[r] = "rule_fallback" /\ node'[r] = "planned" /\ source'[r] = "rules"
      /\ steps'[r] = RuleDecompose(question[r]) /\ heard' = heard
      /\ settings' = settings /\ clients' = clients /\ question[r] \in Questions
  BY DEF PlannerTypeOK, RuleFallback
<1>2. Executable(steps[r])'
  BY <1>1, RulePlan DEF Executable, Earlier
<1>3. ToFallBack(r, Len(heard[r]))'
  BY <1>1 DEF NodeInv, ToFallBack, AllBad, NoLLM
<1>4. Planned(r, Len(heard[r]))'
  BY <1>1, <1>2, <1>3 DEF Planned
<1>5. QED
  BY <1>1, <1>4 DEF NodeInv

\* A step of the planner for one request, as the others see it.
LEMMA PlanStepOthers ==
  ASSUME PlannerTypeOK, NEW r \in Requests, PlanStep(r), NEW u \in Requests, u # r
  PROVE  ClientsKept /\ SameQuestion(u)
<1> USE DEF PlannerTypeOK, ClientsKept, SameQuestion
<1>1. CASE \E n \in {"classify", "decompose"} : LoadClient(r, n) \/ LoadRaises(r, n)
  BY <1>1 DEF LoadClient, LoadRaises, Loaded, graphState
<1>2. CASE Classify(r) \/ Passthrough(r) \/ DecomposeWithout(r)
  BY <1>2 DEF Classify, Passthrough, DecomposeWithout
<1>3. CASE Decompose(r)
  BY <1>3 DEF Decompose
<1>4. CASE Validate(r) \/ RuleFallback(r)
  BY <1>4 DEF Validate, RuleFallback
<1>5. QED
  BY <1>1, <1>2, <1>3, <1>4 DEF PlanStep

LEMMA PlanStepNode ==
  ASSUME PlannerTypeOK, NEW r \in Requests, NodeInv(r), PlanStep(r)
  PROVE  NodeInv(r)'
<1>1. ASSUME NEW n \in {"classify", "decompose"}, LoadClient(r, n) PROVE NodeInv(r)'
  BY <1>1, LoadClientNode, NodeKept
<1>2. ASSUME NEW n \in {"classify", "decompose"}, LoadRaises(r, n) PROVE NodeInv(r)'
  BY <1>2, LoadRaisesNode
<1>3. QED
  BY <1>1, <1>2, ClassifyNode, PassthroughNode, DecomposeWithoutNode, DecomposeNode,
     ValidateNode, RuleFallbackNode DEF PlanStep

LEMMA PlanStepTypes ==
  ASSUME PlannerTypeOK, NEW r \in Requests, NodeInv(r), PlanStep(r)
  PROVE  PlannerTypeOK'
<1>1. ASSUME NEW n \in {"classify", "decompose"}, LoadClient(r, n) \/ LoadRaises(r, n)
      PROVE  PlannerTypeOK'
  BY <1>1 DEF PlannerTypeOK, LoadClient, LoadRaises, graphState
<1>2. CASE Classify(r)
  <2>1. PICK t \in QueryTypes \cup {RuleClassify(question[r])} :
          /\ kind' = [kind EXCEPT ![r] = t]
          /\ node' = [node EXCEPT ![r] = IF t = "multi-hop" THEN "decompose" ELSE "passthrough"]
    BY <1>2 DEF Classify
  <2>2. RuleClassify(question[r]) \in QueryTypes
    BY DEF RuleClassify, RuleWinner, QueryTypes
  <2>3. QED
    BY <1>2, <2>1, <2>2 DEF PlannerTypeOK, Classify
<1>3. CASE Passthrough(r)
  <2>1. << [id |-> 1, deps |-> {}] >> \in Seq(Step)
    BY SinglePlan
  <2>2. QED
    BY <1>3, <2>1 DEF PlannerTypeOK, Passthrough
<1>4. CASE DecomposeWithout(r)
  <2>1. <<>> \in Seq(Step) /\ attempt'[r] = 1 /\ 1 \in 0..(MaxRetries + 1)
    BY <1>4, DecomposeWithoutNode, EmptySeq, SettingsTypes
  <2>2. attempt' = [attempt EXCEPT ![r] = 1]
    BY <1>4, <2>1 DEF PlannerTypeOK, DecomposeWithout
  <2>3. QED
    BY <1>4, <2>1, <2>2 DEF PlannerTypeOK, DecomposeWithout
<1>5. CASE Decompose(r)
  <2>1. /\ heard'[r] \in Seq(Replies) /\ steps'[r] \in Seq(Step)
        /\ attempt'[r] \in 0..(MaxRetries + 1)
    BY <1>5, DecomposeNode
  <2>2. PICK m \in Replies :
          /\ heard' = [heard EXCEPT ![r] = Append(@, m)]
          /\ error' = [error EXCEPT ![r] = IF Usable(m) THEN "none"
                                           ELSE IF m.kind = "raises" THEN "call_failed"
                                           ELSE "unparsable"]
          /\ steps' = [steps EXCEPT ![r] = IF Usable(m) THEN ParsedSteps(m) ELSE <<>>]
    BY <1>5 DEF Decompose
  <2>3. /\ heard' = [heard EXCEPT ![r] = heard'[r]] /\ steps' = [steps EXCEPT ![r] = steps'[r]]
        /\ attempt' = [attempt EXCEPT ![r] = attempt'[r]]
    BY <1>5, <2>2 DEF PlannerTypeOK, Decompose
  <2>4. error' \in [Requests -> {"none", "llm_disabled", "llm_unavailable", "call_failed",
                                 "unparsable", "invalid"}]
    BY <2>2 DEF PlannerTypeOK
  <2>5. QED
    BY <1>5, <2>1, <2>3, <2>4 DEF PlannerTypeOK, Decompose
<1>6. CASE Validate(r)
  BY <1>6 DEF PlannerTypeOK, Validate, AfterValidate, Verdict
<1>7. CASE RuleFallback(r)
  <2>1. RuleDecompose(question[r]) \in Seq(Step)
    BY RulePlan DEF PlannerTypeOK
  <2>2. QED
    BY <1>7, <2>1 DEF PlannerTypeOK, RuleFallback
<1>8. QED
  BY <1>1, <1>2, <1>3, <1>4, <1>5, <1>6, <1>7 DEF PlanStep

-----------------------------------------------------------------------------
(* Types *)

LEMMA InitTypes == Init => TypeOK
<1> SUFFICES ASSUME Init PROVE TypeOK
  OBVIOUS
<1>1. /\ <<>> \in Seq(Step) /\ <<>> \in Seq(Replies) /\ <<>> \in Seq({"bm25", "vector", "graph"})
      /\ 0 \in 0..(MaxRetries + 1)
  BY PlannerAssumption, EmptySeq
<1>2. PlannerTypeOK
  BY <1>1 DEF Init, PlannerInit, PlannerTypeOK
<1>3. QED
  BY <1>1, <1>2 DEF Init, TypeOK

\* The sets of steps a request keeps.
SetTypes == done \in [Requests -> SUBSET Nat] /\ hits \in [Requests -> SUBSET Nat]
            /\ results \in [Requests -> {"none", "some"}]

\* The type of the handler's variables.
HandlerTypes ==
  /\ stage \in [Requests -> {"lookup", "pipeline", "plan", "execute", "prompt", "generate",
                             "answered"}]
  /\ status \in [Requests -> {0, 200, 404, 422, 429, 500, 502, 503, 504}]
  /\ pipeline \in BOOLEAN
  /\ router \in {"unbuilt", "ready", "absent"}
  /\ graph \in {"unbuilt", "neo4j", "memory"}
  /\ building \in [Requests -> {"none", "neo4j", "memory"}]
  /\ current \in [Requests -> Nat]
  /\ pending \in [Requests -> Seq({"bm25", "vector", "graph"})]
  /\ SetTypes

LEMMA TypeParts == TypeOK <=> PlannerTypeOK /\ HandlerTypes
  BY DEF TypeOK, HandlerTypes, SetTypes

LEMMA TypePartsNext == PlannerTypeOK' /\ HandlerTypes' => TypeOK'
  BY DEF TypeOK, HandlerTypes, SetTypes

\* Answering clears what the request held, and keeps the planner's state typed.
LEMMA AnswerTypes ==
  ASSUME TypeOK, NEW r \in Requests, NEW code \in {200, 404, 422, 429, 500, 502, 503, 504},
         Answer(r, code)
  PROVE  /\ steps' \in [Requests -> Seq(Step)]
         /\ source' \in [Requests -> {"none", "llm", "rules", "passthrough"}]
         /\ stage' \in [Requests -> {"lookup", "pipeline", "plan", "execute", "prompt",
                                     "generate", "answered"}]
         /\ status' \in [Requests -> {0, 200, 404, 422, 429, 500, 502, 503, 504}]
         /\ SetTypes'
<1>1. <<>> \in Seq(Step)
  BY EmptySeq
<1>2. QED
  BY <1>1, TypeParts DEF Answer, PlannerTypeOK, HandlerTypes, SetTypes

\* The codes of every Answer.
LEMMA AnswerCodes ==
  /\ \A r : Raises(r) => \E code \in {422, 502} : Answer(r, code)
  /\ \A k \in DOMAIN ErrorStatus : ErrorStatus[k] \in {429, 502, 504}
  BY DEF Raises, ErrorStatus

-----------------------------------------------------------------------------
(* The steps of a request *)

\* The ways in which a step answers a request; only the generator succeeds or
\* reports a limit or a timeout.
Answers(r) ==
  \E code \in {200, 404, 422, 429, 500, 502, 503, 504} :
    /\ Answer(r, code)
    /\ code \in {200, 429, 504} => stage[r] = "generate"
    /\ UNCHANGED <<settings, question, clients, current, pending, pipeline, router, graph, building>>

Refuses(r) ==
  /\ stage[r] \in {"lookup", "pipeline", "prompt", "generate"}
  /\ Answers(r) /\ UNCHANGED graphRest

GivesUp(r) == stage[r] = "plan" /\ Answers(r) /\ EndPlan(r)

MovesOn(r) ==
  /\ \/ stage[r] = "lookup" /\ Proceed(r, "pipeline")
     \/ stage[r] = "prompt" /\ Proceed(r, "generate")
  /\ UNCHANGED <<graphRest, clients, current, pending, shared, building>>

Starts(r) ==
  /\ stage[r] = "pipeline" /\ pipeline' = TRUE /\ StartPlan(r)
  /\ stage' = [stage EXCEPT ![r] = "plan"]
  /\ UNCHANGED <<status, pipelineVars, current, pending, router, graph, building>>

PlanMade(r) ==
  /\ stage[r] = "plan" /\ node[r] = "planned" /\ EndPlan(r) /\ Proceed(r, "execute")
  /\ UNCHANGED <<current, pending, shared, building>>

Routes(r) == \E i \in StepsOf(r) : Route(r, i)

Abandons(r) == \E i \in StepsOf(r) : RouteRaises(r, i)

Searches(r) ==
  \E b \in {"bm25", "vector", "graph"}, o \in {"fails", "nothing", "hits"} :
    Asks(r, b) /\ Returns(r, o)

Builds(r) == BuildGraph(r) \/ StoreGraph(r)

\* A step of a request is one of these.
LEMMA HandleCases ==
  ASSUME NEW r \in Requests, Handle(r)
  PROVE  \/ Refuses(r) \/ GivesUp(r) \/ MovesOn(r) \/ Starts(r) \/ Plan(r) \/ PlanMade(r)
         \/ Routes(r) \/ Abandons(r) \/ Searches(r) \/ Builds(r) \/ ExecuteEnds(r)
<1>1. CASE LookUp(r)
  BY <1>1 DEF LookUp, Refuses, Answers, MovesOn, graphRest, shared
<1>2. CASE GetPipeline(r)
  BY <1>2 DEF GetPipeline, Refuses, Answers, Starts, graphRest, shared
<1>3. CASE PlanEnds(r)
  BY <1>3 DEF PlanEnds, Raises, EndPlan, GivesUp, PlanMade, Answers, shared
<1>4. CASE BuildPrompt(r)
  BY <1>4 DEF BuildPrompt, Refuses, Answers, MovesOn, graphRest, shared
<1>5. CASE Generate(r)
  <2>1. \E code \in {200, 422, 429, 502, 504} : Answer(r, code)
    BY <1>5, AnswerCodes DEF Generate
  <2>2. QED
    BY <1>5, <2>1 DEF Generate, Refuses, Answers, graphRest, shared
<1>6. CASE Execute(r)
  BY <1>6 DEF Execute, SearchBm25, SearchVector, SkipGraph, SearchGraph, Searches, Builds,
     Routes, Abandons
<1>7. QED
  BY <1>1, <1>2, <1>3, <1>4, <1>5, <1>6 DEF Handle

SameRequest(u) ==
  /\ SameQuestion(u)
  /\ stage'[u] = stage[u] /\ status'[u] = status[u] /\ pending'[u] = pending[u]
  /\ done'[u] = done[u] /\ hits'[u] = hits[u] /\ results'[u] = results[u]

LEMMA OthersKept ==
  ASSUME TypeOK, NEW r \in Requests, Handle(r), NEW u \in Requests, u # r
  PROVE  SameRequest(u)
<1> USE TypeParts DEF PlannerTypeOK, HandlerTypes, SetTypes, SameRequest, SameQuestion
<1>1. CASE Refuses(r)
  BY <1>1 DEF Refuses, Answers, Answer, graphRest
<1>2. CASE GivesUp(r)
  BY <1>2 DEF GivesUp, Answers, Answer, EndPlan
<1>3. CASE MovesOn(r)
  BY <1>3 DEF MovesOn, Proceed, graphRest, plan, pipelineVars
<1>4. CASE Starts(r)
  BY <1>4 DEF Starts, StartPlan, pipelineVars
<1>5. CASE Plan(r)
  <2>1. SameQuestion(u)
    BY <1>5, PlanStepOthers DEF Plan
  <2>2. QED
    BY <1>5, <2>1 DEF Plan, requestVars, pipelineVars
<1>6. CASE PlanMade(r)
  BY <1>6 DEF PlanMade, EndPlan, Proceed, plan, pipelineVars
<1>7. CASE Routes(r)
  BY <1>7 DEF Routes, Route, plannerVars, graphState
<1>8. CASE Abandons(r)
  BY <1>8 DEF Abandons, RouteRaises, plannerVars, graphState
<1>9. CASE Searches(r)
  BY <1>9 DEF Searches, Returns, plannerVars, graphState
<1>10. CASE Builds(r)
  BY <1>10 DEF Builds, BuildGraph, StoreGraph, plannerVars, graphState, requestVars, pipelineVars
<1>11. CASE ExecuteEnds(r)
  BY <1>11 DEF ExecuteEnds, plannerVars, graphState
<1>12. QED
  BY <1>1, <1>2, <1>3, <1>4, <1>5, <1>6, <1>7, <1>8, <1>9, <1>10, <1>11, HandleCases

\* No step changes the settings, or a client once it is built.
LEMMA ClientsForward ==
  ASSUME TypeOK, NEW r \in Requests, Handle(r)
  PROVE  ClientsKept
<1> USE DEF ClientsKept
<1>1. CASE Plan(r)
  <2>1. settings' = settings
    BY <1>1 DEF Plan, PlanStep, LoadClient, LoadRaises, Classify, Passthrough, DecomposeWithout,
       Decompose, Validate, RuleFallback
  <2>2. clients' = clients \/ \E n \in {"classify", "decompose"} : LoadClient(r, n)
    BY <1>1 DEF Plan, PlanStep, LoadRaises, Classify, Passthrough, DecomposeWithout,
       Decompose, Validate, RuleFallback
  <2>3. ASSUME NEW n \in {"classify", "decompose"}, LoadClient(r, n), clients["decompose"] # "unbuilt"
        PROVE  clients'["decompose"] = clients["decompose"]
    BY <2>3, TypeParts DEF PlannerTypeOK, LoadClient, Loaded
  <2>4. QED
    BY <2>1, <2>2, <2>3
<1>2. CASE Refuses(r) \/ GivesUp(r) \/ PlanMade(r)
  BY <1>2 DEF Refuses, GivesUp, PlanMade, Answers, EndPlan
<1>3. CASE MovesOn(r) \/ Starts(r)
  BY <1>3 DEF MovesOn, graphRest, Starts, StartPlan
<1>4. CASE Routes(r) \/ Abandons(r)
  BY <1>4 DEF Routes, Abandons, Route, RouteRaises, plannerVars
<1>5. CASE Searches(r) \/ Builds(r) \/ ExecuteEnds(r)
  BY <1>5 DEF Searches, Returns, Builds, BuildGraph, StoreGraph, ExecuteEnds, plannerVars
<1>6. QED
  BY <1>1, <1>2, <1>3, <1>4, <1>5, HandleCases

LEMMA FlowKept ==
  ASSUME NEW u \in Requests, FlowInv(u), SameRequest(u)
  PROVE  FlowInv(u)'
  BY DEF FlowInv, Kept, SameRequest, SameQuestion, StepsOf

\* The types are kept.
LEMMA HandleTypes ==
  ASSUME TypeOK, NEW r \in Requests, NodeInv(r), Handle(r)
  PROVE  TypeOK'
<1> USE TypeParts, TypePartsNext
<1>1. CASE Refuses(r)
  <2>1. PICK code \in {200, 404, 422, 429, 500, 502, 503, 504} :
          /\ Answer(r, code)
          /\ UNCHANGED <<settings, question, clients, current, pending, pipeline, router, graph,
                        building>>
    BY <1>1 DEF Refuses, Answers
  <2>2. PlannerTypeOK'
    <3>1. /\ steps' \in [Requests -> Seq(Step)]
          /\ source' \in [Requests -> {"none", "llm", "rules", "passthrough"}]
      BY <2>1, AnswerTypes
    <3>2. UNCHANGED <<settings, node, question, kind, attempt, error, heard, clients>>
      BY <1>1, <2>1 DEF Refuses, graphRest
    <3>3. QED
      BY <3>1, <3>2 DEF PlannerTypeOK
  <2>3. HandlerTypes'
    BY <2>1, AnswerTypes DEF HandlerTypes
  <2>4. QED
    BY <2>2, <2>3
<1>2. CASE GivesUp(r)
  <2>1. <<>> \in Seq(Replies) /\ 0 \in 0..(MaxRetries + 1)
    BY PlannerAssumption, EmptySeq
  <2>2. PICK code \in {200, 404, 422, 429, 500, 502, 503, 504} :
          /\ Answer(r, code)
          /\ UNCHANGED <<settings, question, clients, current, pending, pipeline, router, graph,
                        building>>
    BY <1>2 DEF GivesUp, Answers
  <2>3. EndPlan(r)
    BY <1>2 DEF GivesUp
  <2>4. /\ steps' \in [Requests -> Seq(Step)]
        /\ source' \in [Requests -> {"none", "llm", "rules", "passthrough"}]
    BY <2>2, AnswerTypes
  <2>5. PlannerTypeOK'
    <3>1. PlannerTypeOK
      OBVIOUS
    <3>2. UNCHANGED <<settings, question, clients>>
      BY <2>2
    <3>3. /\ node' \in [Requests -> {"idle", "classify", "passthrough", "decompose", "validate",
                                     "rule_fallback", "planned", "unplanned"}]
          /\ kind' \in [Requests -> QueryTypes \cup {"none"}]
          /\ error' \in [Requests -> {"none", "llm_disabled", "llm_unavailable", "call_failed",
                                      "unparsable", "invalid"}]
      <4>1. /\ node' = [node EXCEPT ![r] = "idle"]
            /\ kind' = [kind EXCEPT ![r] = "none"]
            /\ error' = [error EXCEPT ![r] = "none"]
        BY <2>3 DEF EndPlan
      <4>2. QED
        BY <3>1, <4>1 DEF PlannerTypeOK
    <3>4. /\ attempt' \in [Requests -> 0..(MaxRetries + 1)]
          /\ heard' \in [Requests -> Seq(Replies)]
      <4>1. attempt' = [attempt EXCEPT ![r] = 0] /\ heard' = [heard EXCEPT ![r] = <<>>]
        BY <2>3 DEF EndPlan
      <4>2. attempt \in [Requests -> 0..(MaxRetries + 1)] /\ heard \in [Requests -> Seq(Replies)]
        BY <3>1 DEF PlannerTypeOK
      <4>3. QED
        BY <2>1, <4>1, <4>2
    <3>5. /\ settings' \in Settings /\ question' \in [Requests -> Questions]
          /\ clients' \in [{"classify", "decompose"} -> {"unbuilt", "ready", "absent"}]
      BY <3>1, <3>2 DEF PlannerTypeOK
    <3>6. QED
      BY <2>4, <3>3, <3>4, <3>5 DEF PlannerTypeOK
  <2>6. HandlerTypes'
    BY <2>2, AnswerTypes DEF HandlerTypes
  <2>7. QED
    BY <2>5, <2>6
<1>3. CASE MovesOn(r)
  <2>1. PlannerTypeOK'
    BY <1>3 DEF MovesOn, Proceed, graphRest, plan, PlannerTypeOK
  <2>2. HandlerTypes'
    <3>1. /\ UNCHANGED <<status, done, hits, results, current, pending, pipeline, router, graph,
                        building>>
          /\ \E s \in {"pipeline", "generate"} : stage' = [stage EXCEPT ![r] = s]
      BY <1>3 DEF MovesOn, Proceed, pipelineVars, shared
    <3>2. QED
      BY <3>1 DEF HandlerTypes, SetTypes
  <2>3. QED
    BY <2>1, <2>2
<1>4. CASE Starts(r)
  BY <1>4 DEF Starts, StartPlan, pipelineVars, PlannerTypeOK, HandlerTypes, SetTypes
<1>5. CASE Plan(r)
  <2>1. PlannerTypeOK'
    BY <1>5, PlanStepTypes DEF Plan
  <2>2. HandlerTypes'
    BY <1>5 DEF Plan, requestVars, shared, pipelineVars, HandlerTypes, SetTypes
  <2>3. QED
    BY <2>1, <2>2
<1>6. CASE PlanMade(r)
  <2>1. <<>> \in Seq(Replies) /\ 0 \in 0..(MaxRetries + 1)
    BY PlannerAssumption, EmptySeq
  <2>2. PlannerTypeOK'
    BY <1>6, <2>1 DEF PlanMade, EndPlan, Proceed, plan, PlannerTypeOK
  <2>3. HandlerTypes'
    BY <1>6 DEF PlanMade, Proceed, pipelineVars, shared, HandlerTypes, SetTypes
  <2>4. QED
    BY <2>2, <2>3
<1>7. CASE Routes(r)
  <2>1. PlannerTypeOK'
    BY <1>7 DEF Routes, Route, plannerVars, graphState, PlannerTypeOK
  <2>2. PICK i \in StepsOf(r) : Route(r, i)
    BY <1>7 DEF Routes
  <2>3. steps[r] \in Seq(Step) /\ i \in Nat
    BY <2>2 DEF StepsOf, PlannerTypeOK
  <2>4. \A s \in DOMAIN BackendsOf : BackendsOf[s] \in Seq({"bm25", "vector", "graph"})
    <3>1. \A s \in DOMAIN BackendsOf : BackendsOf[s] \in
            {<<"bm25">>, <<"vector">>, <<"graph">>, <<"bm25", "vector", "graph">>}
      BY DEF BackendsOf
    <3>2. {<<"bm25">>, <<"vector">>, <<"graph">>, <<"bm25", "vector", "graph">>}
            \subseteq Seq({"bm25", "vector", "graph"})
      OBVIOUS
    <3>3. QED
      BY <3>1, <3>2
  <2>5. pending' \in [Requests -> Seq({"bm25", "vector", "graph"})]
    BY <2>2, <2>4 DEF Route, HandlerTypes
  <2>6. HandlerTypes'
    BY <2>2, <2>3, <2>5 DEF Route, HandlerTypes, SetTypes
  <2>7. QED
    BY <2>1, <2>6
<1>8. CASE Abandons(r)
  BY <1>8 DEF Abandons, RouteRaises, plannerVars, graphState, shared, PlannerTypeOK, HandlerTypes,
     SetTypes
<1>9. CASE Searches(r)
  <2>1. PICK b \in {"bm25", "vector", "graph"}, o \in {"fails", "nothing", "hits"} :
          Asks(r, b) /\ Returns(r, o)
    BY <1>9 DEF Searches
  <2>2. PlannerTypeOK'
    BY <2>1 DEF Returns, plannerVars, graphState, PlannerTypeOK
  <2>3. Tail(pending[r]) \in Seq({"bm25", "vector", "graph"})
    BY <2>1, HeadTailProperties DEF Asks, HandlerTypes
  <2>4. pending' \in [Requests -> Seq({"bm25", "vector", "graph"})]
    BY <2>1, <2>3 DEF Returns, HandlerTypes
  <2>5. SetTypes' /\ current' \in [Requests -> Nat]
    <3> DEFINE T == [Requests -> SUBSET Nat]
    <3>0. done \in T /\ hits \in T /\ results \in [Requests -> {"none", "some"}]
      BY DEF HandlerTypes, SetTypes
    <3>1. current[r] \in Nat /\ done[r] \cup {current[r]} \in SUBSET Nat
          /\ hits[r] \cup {current[r]} \in SUBSET Nat
      BY DEF HandlerTypes, SetTypes
    <3>2. SetTypes'
      <4>1. done' = done \/ done' = [done EXCEPT ![r] = @ \cup {current[r]}]
        BY <2>1 DEF Returns
      <4>2. hits' = [hits EXCEPT ![r] = @ \cup {current[r]}] \/ hits' = [hits EXCEPT ![r] = @]
        BY <2>1 DEF Returns
      <4>3. results' = results
        BY <2>1 DEF Returns
      <4>4. QED
        <5>1. done' \in T
          BY <3>0, <3>1, <4>1
        <5>2. hits' \in T
          BY <3>0, <3>1, <4>2
        <5>3. QED
          BY <3>0, <4>3, <5>1, <5>2 DEF SetTypes
    <3>3. current' \in [Requests -> Nat]
      BY <2>1, <3>1 DEF Returns, HandlerTypes
    <3>4. QED
      BY <3>2, <3>3
  <2>6. HandlerTypes'
    BY <2>1, <2>4, <2>5 DEF Returns, shared, HandlerTypes
  <2>7. QED
    BY <2>2, <2>6
<1>10. CASE Builds(r)
  <2>1. PlannerTypeOK'
    BY <1>10 DEF Builds, BuildGraph, StoreGraph, plannerVars, graphState, PlannerTypeOK
  <2>2. CASE BuildGraph(r)
    BY <2>1, <2>2 DEF BuildGraph, requestVars, pipelineVars, shared, HandlerTypes, SetTypes
  <2>3. CASE StoreGraph(r)
    <3>1. building[r] \in {"neo4j", "memory"}
      BY <2>3 DEF StoreGraph, HandlerTypes
    <3>2. QED
      BY <2>1, <2>3, <3>1 DEF StoreGraph, requestVars, pipelineVars, HandlerTypes, SetTypes
  <2>4. QED
    BY <1>10, <2>2, <2>3 DEF Builds
<1>11. CASE ExecuteEnds(r)
  BY <1>11 DEF ExecuteEnds, plannerVars, graphState, shared, PlannerTypeOK, HandlerTypes, SetTypes
<1>12. QED
  BY <1>1, <1>2, <1>3, <1>4, <1>5, <1>6, <1>7, <1>8, <1>9, <1>10, <1>11, HandleCases

\* What the planner owes a question holds when its own request takes a step.
LEMMA HandleNode ==
  ASSUME TypeOK, NEW r \in Requests, NodeInv(r), FlowInv(r), Handle(r)
  PROVE  NodeInv(r)'
<1> USE TypeParts
<1>1. CASE Refuses(r)
  <2>1. node[r] = "idle" /\ node' = node /\ heard' = heard /\ attempt' = attempt
    BY <1>1 DEF Refuses, graphRest, FlowInv
  <2>2. QED
    BY <2>1, NodeIdle DEF NodeInv
<1>2. CASE GivesUp(r) \/ PlanMade(r)
  BY <1>2, NodeIdle DEF GivesUp, PlanMade, EndPlan, PlannerTypeOK
<1>3. CASE Starts(r)
  <2>1. node[r] = "idle" /\ node'[r] = "classify" /\ heard' = heard /\ attempt' = attempt
    BY <1>3 DEF Starts, StartPlan, PlannerTypeOK
  <2>2. QED
    BY <2>1 DEF NodeInv
<1>4. CASE Plan(r)
  BY <1>4, PlanStepNode DEF Plan
<1>5. CASE MovesOn(r) \/ Routes(r) \/ Abandons(r) \/ Searches(r) \/ Builds(r) \/ ExecuteEnds(r)
  <2>1. SameQuestion(r)
    <3>1. CASE MovesOn(r)
      BY <3>1 DEF MovesOn, Proceed, graphRest, plan, SameQuestion
    <3>2. CASE Routes(r) \/ Abandons(r) \/ Searches(r) \/ Builds(r) \/ ExecuteEnds(r)
      BY <3>2 DEF Routes, Abandons, Searches, Builds, Route, RouteRaises, Returns, BuildGraph,
         StoreGraph, ExecuteEnds, plannerVars, graphState, SameQuestion
    <3>3. QED
      BY <1>5, <3>1, <3>2
  <2>2. QED
    BY <2>1, NodeKept, ClientsForward
<1>6. QED
  BY <1>1, <1>2, <1>3, <1>4, <1>5, HandleCases

\* What its handler owes a request holds when it takes a step.
LEMMA HandleFlow ==
  ASSUME TypeOK, NEW r \in Requests, RouterInv, NodeInv(r), FlowInv(r), Handle(r)
  PROVE  FlowInv(r)'
<1> USE TypeParts
<1>1. CASE Refuses(r)
  <2>1. node' = node /\ node[r] = "idle"
    BY <1>1 DEF Refuses, graphRest, FlowInv
  <2>2. stage'[r] = "answered"
    BY <1>1 DEF Refuses, Answers, Answer, HandlerTypes
  <2>3. QED
    BY <2>1, <2>2 DEF FlowInv
<1>2. CASE GivesUp(r)
  <2>1. node'[r] = "idle" /\ stage'[r] = "answered"
    BY <1>2 DEF GivesUp, EndPlan, Answers, Answer, PlannerTypeOK, HandlerTypes
  <2>2. QED
    BY <2>1 DEF FlowInv
<1>3. CASE MovesOn(r)
  <2>1. CASE stage[r] = "lookup"
    <3>1. stage'[r] = "pipeline" /\ status' = status /\ node' = node
      BY <1>3, <2>1 DEF MovesOn, Proceed, graphRest, HandlerTypes
    <3>2. QED
      BY <2>1, <3>1 DEF FlowInv
  <2>2. CASE stage[r] = "prompt"
    <3>1. /\ stage'[r] = "generate" /\ status' = status /\ node' = node
          /\ UNCHANGED <<steps, source, results, hits, done>>
      BY <1>3, <2>2 DEF MovesOn, Proceed, graphRest, plan, pipelineVars, HandlerTypes
    <3>2. QED
      BY <2>2, <3>1 DEF FlowInv, Kept, StepsOf
  <2>3. QED
    BY <1>3, <2>1, <2>2 DEF MovesOn
<1>4. CASE Starts(r)
  <2>1. stage[r] = "pipeline" /\ stage'[r] = "plan" /\ status' = status
    BY <1>4 DEF Starts, HandlerTypes
  <2>2. QED
    BY <2>1 DEF FlowInv
<1>5. CASE Plan(r)
  <2>1. stage[r] = "plan" /\ stage' = stage /\ status' = status
    BY <1>5 DEF Plan, requestVars
  <2>2. QED
    BY <2>1 DEF FlowInv
<1>6. CASE PlanMade(r)
  <2>1. /\ node'[r] = "idle" /\ stage[r] = "plan" /\ stage'[r] = "execute" /\ status' = status
        /\ source' = source
    BY <1>6 DEF PlanMade, EndPlan, Proceed, plan, PlannerTypeOK, HandlerTypes
  <2>2. source[r] # "none"
    BY <1>6 DEF PlanMade, NodeInv, Planned
  <2>3. QED
    BY <2>1, <2>2 DEF FlowInv
<1>7. CASE Routes(r)
  <2>1. stage[r] = "execute" /\ UNCHANGED <<stage, status, node, source>>
    BY <1>7 DEF Routes, Route, Ready, plannerVars, graphState
  <2>2. QED
    BY <2>1 DEF FlowInv
<1>8. CASE Abandons(r)
  <2>1. PICK i \in StepsOf(r) : RouteRaises(r, i)
    BY <1>8 DEF Abandons
  <2>2. /\ stage[r] = "execute" /\ stage'[r] = "prompt" /\ results'[r] = "none"
        /\ UNCHANGED <<status, node, source, done, hits>>
    BY <2>1 DEF RouteRaises, Ready, plannerVars, graphState, HandlerTypes, SetTypes
  <2>3. done[r] = {} /\ hits[r] = {}
    BY <2>1 DEF RouteRaises, RouterInv
  <2>4. QED
    BY <2>2, <2>3 DEF FlowInv, Kept
<1>9. CASE Searches(r)
  <2>1. stage[r] = "execute" /\ UNCHANGED <<stage, status, node, source>>
    BY <1>9 DEF Searches, Asks, Returns, plannerVars, graphState
  <2>2. QED
    BY <2>1 DEF FlowInv
<1>10. CASE Builds(r)
  <2>1. UNCHANGED <<node, steps, source, stage, status, done, hits, results>>
    BY <1>10 DEF Builds, BuildGraph, StoreGraph, plannerVars, graphState, requestVars, pipelineVars
  <2>2. QED
    BY <2>1 DEF FlowInv, Kept, StepsOf
<1>11. CASE ExecuteEnds(r)
  <2>1. /\ stage[r] = "execute" /\ stage'[r] = "prompt"
        /\ results'[r] = IF hits[r] = {} THEN "none" ELSE "some"
        /\ done[r] = StepsOf(r) /\ UNCHANGED <<status, node, steps, source, done, hits>>
    BY <1>11 DEF ExecuteEnds, plannerVars, graphState, HandlerTypes, SetTypes
  <2>2. QED
    BY <2>1 DEF FlowInv, Kept, StepsOf
<1>12. QED
  BY <1>1, <1>2, <1>3, <1>4, <1>5, <1>6, <1>7, <1>8, <1>9, <1>10, <1>11, HandleCases

\* Nothing is retrieved by a step that leaves the router without its client.
LEMMA HandleRouter ==
  ASSUME TypeOK, NEW r \in Requests, RouterInv, Handle(r)
  PROVE  RouterInv'
<1> USE TypeParts
<1>1. SUFFICES ASSUME settings'.routerLLM, settings'.key, router' = "unbuilt", NEW u \in Requests
               PROVE  pending'[u] = <<>> /\ done'[u] = {} /\ hits'[u] = {}
  BY DEF RouterInv
<1>2. settings' = settings
  BY ClientsForward DEF ClientsKept
<1>3. ~Routes(r)
  BY <1>1, <1>2 DEF Routes, Route
<1>4. router = "unbuilt"
  <2>1. CASE Refuses(r) \/ GivesUp(r)
    BY <1>1, <2>1 DEF Refuses, GivesUp, Answers
  <2>2. CASE MovesOn(r) \/ Starts(r) \/ PlanMade(r) \/ Plan(r)
    BY <1>1, <2>2 DEF MovesOn, Starts, PlanMade, Plan, shared
  <2>3. CASE Abandons(r) \/ Searches(r) \/ Builds(r) \/ ExecuteEnds(r)
    BY <1>1, <2>3 DEF Abandons, RouteRaises, Searches, Returns, Builds, BuildGraph, StoreGraph,
       ExecuteEnds, shared
  <2>4. QED
    BY <1>3, <2>1, <2>2, <2>3, HandleCases
<1>5. \A v \in Requests : pending[v] = <<>> /\ done[v] = {} /\ hits[v] = {}
  BY <1>1, <1>2, <1>4 DEF RouterInv
<1>6. ~Searches(r)
  BY <1>5 DEF Searches, Asks
<1>7. CASE Refuses(r) \/ GivesUp(r)
  <2>1. /\ pending' = pending
        /\ done' = [done EXCEPT ![r] = {}] /\ hits' = [hits EXCEPT ![r] = {}]
    BY <1>7 DEF Refuses, GivesUp, Answers, Answer
  <2>2. QED
    BY <1>5, <2>1 DEF HandlerTypes, SetTypes
<1>8. CASE MovesOn(r) \/ Starts(r) \/ PlanMade(r)
  BY <1>5, <1>8 DEF MovesOn, Starts, PlanMade, Proceed, pipelineVars
<1>9. CASE Plan(r) \/ Builds(r)
  BY <1>5, <1>9 DEF Plan, Builds, BuildGraph, StoreGraph, requestVars, pipelineVars
<1>10. CASE Abandons(r) \/ ExecuteEnds(r)
  BY <1>5, <1>10 DEF Abandons, RouteRaises, ExecuteEnds
<1>11. QED
  BY <1>3, <1>6, <1>7, <1>8, <1>9, <1>10, HandleCases

-----------------------------------------------------------------------------
(* The invariant *)

LEMMA InvInit == Init => IInv
<1> SUFFICES ASSUME Init PROVE IInv
  OBVIOUS
<1>1. TypeOK
  BY InitTypes
<1>2. RouterInv
  BY DEF Init, RouterInv
<1>3. ASSUME NEW r \in Requests PROVE NodeInv(r)
  BY DEF Init, PlannerInit, NodeInv
<1>4. ASSUME NEW r \in Requests PROVE FlowInv(r)
  BY DEF Init, PlannerInit, FlowInv
<1>5. QED
  BY <1>1, <1>2, <1>3, <1>4 DEF IInv

LEMMA InvNext == IInv /\ [Next]_vars => IInv'
<1> SUFFICES ASSUME IInv, [Next]_vars PROVE IInv'
  OBVIOUS
<1>1. CASE UNCHANGED vars
  <2>1. TypeOK'
    BY <1>1 DEF IInv, vars, plannerVars, graphState, requestVars, pipelineVars, shared, TypeOK,
       PlannerTypeOK
  <2>2. RouterInv'
    BY <1>1 DEF IInv, vars, plannerVars, requestVars, pipelineVars, shared, RouterInv
  <2>3. ASSUME NEW u \in Requests PROVE SameRequest(u) /\ ClientsKept
    BY <1>1 DEF vars, plannerVars, graphState, requestVars, pipelineVars, SameRequest, SameQuestion,
       ClientsKept
  <2>4. ASSUME NEW u \in Requests PROVE NodeInv(u)' /\ FlowInv(u)'
    <3>1. NodeInv(u) /\ FlowInv(u) /\ SameRequest(u) /\ ClientsKept
      BY <2>3 DEF IInv
    <3>2. QED
      BY <3>1, NodeKept, FlowKept DEF SameRequest
  <2>5. QED
    BY <2>1, <2>2, <2>4 DEF IInv
<1>2. ASSUME NEW r \in Requests, Handle(r) PROVE IInv'
  <2>1. TypeOK /\ RouterInv /\ NodeInv(r) /\ FlowInv(r)
    BY DEF IInv
  <2>2. TypeOK' /\ RouterInv' /\ NodeInv(r)' /\ FlowInv(r)'
    BY <1>2, <2>1, HandleTypes, HandleRouter, HandleNode, HandleFlow
  <2>3. ASSUME NEW u \in Requests, u # r PROVE NodeInv(u)' /\ FlowInv(u)'
    <3>1. NodeInv(u) /\ FlowInv(u)
      BY DEF IInv
    <3>2. SameRequest(u) /\ ClientsKept
      BY <1>2, <2>1, <2>3, OthersKept, ClientsForward
    <3>3. QED
      BY <3>1, <3>2, NodeKept, FlowKept DEF SameRequest
  <2>4. QED
    BY <2>2, <2>3 DEF IInv
<1>3. QED
  BY <1>1, <1>2 DEF Next

LEMMA Invariance == Spec => []IInv
  BY InvInit, InvNext, PTL DEF Spec

-----------------------------------------------------------------------------
(* The theorems *)

\* Every value of every variable is of its type: the planner's attempt counter
\* stays within max_retries + 1, and a response has one of the eight codes.
THEOREM TypeCorrect == Spec => []TypeOK
<1>1. IInv => TypeOK
  BY DEF IInv
<1>2. QED
  BY <1>1, Invariance, PTL

\* Whatever the LLM replies, a plan that leaves the planner can be executed.
THEOREM PlansCorrect == Spec => []PlansExecutable
<1>1. IInv => PlansExecutable
  BY DEF IInv, NodeInv, Planned, Executable, PlansExecutable
<1>2. QED
  BY <1>1, Invariance, PTL

\* The plan is the first good reply, or the rules' after exactly
\* max_retries + 1 bad ones, for any number of retries.
THEOREM RepliesCorrect == Spec => []PlanIsLastReply
<1>1. ASSUME IInv PROVE PlanIsLastReply
  <2>1. ASSUME NEW r \in Requests
        PROVE  LET n == Len(heard[r])
                   Bad(k) == \A i \in 1..k : ~Good(heard[r][i])
               IN  /\ node[r] = "planned" /\ source[r] = "llm" =>
                        /\ n \in 1..(MaxRetries + 1)
                        /\ Bad(n - 1) /\ Good(heard[r][n])
                        /\ steps[r] = ParsedSteps(heard[r][n])
                   /\ node[r] = "planned" /\ source[r] = "rules" =>
                        /\ Bad(n)
                        /\ n = MaxRetries + 1 \/ (n = 0 /\ (~settings.llm \/ clients["decompose"] = "absent"))
                   /\ source[r] = "passthrough" \/ node[r] = "unplanned" => heard[r] = <<>>
    <3>1. node[r] = "planned" => Planned(r, Len(heard[r]))
      BY <1>1 DEF IInv, NodeInv
    <3>2. source[r] = "passthrough" \/ node[r] = "unplanned" => heard[r] = <<>>
      BY <1>1 DEF IInv, NodeInv
    <3>3. QED
      BY <3>1, <3>2 DEF Planned, ToFallBack, NoLLM, AllBad
  <2>2. QED
    BY <2>1 DEF PlanIsLastReply
<1>2. QED
  BY <1>1, Invariance, PTL

\* A router whose client cannot be built never costs the prompt its evidence,
\* in any number of concurrent requests: it can only fail before the first
\* step of a plan.
THEOREM EvidenceCorrect == Spec => []FailuresLoseNoEvidence
<1>1. IInv => FailuresLoseNoEvidence
  BY DEF IInv, FlowInv, Kept, FailuresLoseNoEvidence
<1>2. QED
  BY <1>1, Invariance, PTL

\* No failure of retrieval refuses a request, and only the generator answers
\* one with 200, 429 or 504.
THEOREM RetrievalCorrect == Spec => RetrievalNeverRefuses
<1> DEFINE A == \A r \in Requests :
                  /\ stage[r] = "execute" => status'[r] = 0
                  /\ status'[r] \in {200, 429, 504} /\ status[r] = 0 =>
                       stage[r] = "generate" /\ source[r] # "none"
<1>1. ASSUME IInv, [Next]_vars PROVE [A]_vars
  <2>1. SUFFICES ASSUME NEW r \in Requests, Handle(r), NEW u \in Requests
                 PROVE  /\ stage[u] = "execute" => status'[u] = 0
                        /\ status'[u] \in {200, 429, 504} /\ status[u] = 0 =>
                             stage[u] = "generate" /\ source[u] # "none"
    BY <1>1 DEF Next
  <2>2. TypeOK /\ FlowInv(u)
    BY <1>1 DEF IInv
  <2>3. CASE status'[u] = status[u]
    BY <2>2, <2>3 DEF FlowInv
  <2>4. CASE status'[u] # status[u]
    <3>1. u = r
      BY <2>1, <2>2, <2>4, OthersKept DEF SameRequest
    <3>2. Refuses(r) \/ GivesUp(r)
      BY <2>1, <2>4, <3>1, HandleCases DEF MovesOn, Starts, Plan, PlanMade, Proceed, Routes, Route,
         Abandons, RouteRaises, Searches, Returns, Builds, BuildGraph, StoreGraph, ExecuteEnds,
         requestVars
    <3>3. PICK code \in {200, 404, 422, 429, 500, 502, 503, 504} :
            Answer(r, code) /\ (code \in {200, 429, 504} => stage[r] = "generate")
      BY <3>2 DEF Refuses, GivesUp, Answers
    <3>4. status'[r] = code
      BY <2>2, <3>3, TypeParts DEF Answer, HandlerTypes
    <3>5. stage[r] # "execute"
      BY <3>2 DEF Refuses, GivesUp
    <3>6. QED
      BY <2>2, <3>1, <3>3, <3>4, <3>5 DEF FlowInv, Kept
  <2>5. QED
    BY <2>3, <2>4
<1>2. QED
  BY <1>1, Invariance, PTL DEF Spec, RetrievalNeverRefuses
=============================================================================
