--------------------------- MODULE ExecutorProofs ---------------------------
(***************************************************************************)
(* The safety properties of Executor for plans of any length and any       *)
(* dependencies.  The sort keeps one fact that everything rests on: an     *)
(* in-degree counts the known dependencies that are not sorted yet         *)
(* (SortInv); so a step enters the order after its dependencies, no step   *)
(* of a knot ever does, and what is left when the queue runs dry is a      *)
(* knot.  The run then completes the order's steps one by one (RunInv).    *)
(***************************************************************************)
EXTENDS Executor, FiniteSetTheorems, TLAPS

SortTypes ==
  /\ dependsOn \in [Steps -> SUBSET (Steps \cup Absent)]
  /\ inDegree \in [Steps -> Nat]
  /\ ticket \in [Steps -> Nat]
  /\ order \in Seq(Steps)

SortInv ==
  /\ SortTypes
  /\ IsFiniteSet(SortedSet) /\ Cardinality(SortedSet) = Len(order)
  /\ \A i, j \in 1..Len(order) : order[i] = order[j] => i = j
  /\ \A s \in Steps : inDegree[s] = Cardinality(Known(s) \ SortedSet)
  /\ \A i \in 1..Len(order) : \A d \in Known(order[i]) : \E j \in 1..(i - 1) : order[j] = d
  /\ \A S \in SUBSET Steps : Knot(S) => S \cap SortedSet = {}

Sorted == phase \in {"routing", "calling", "done", "aborted"}

RunInv ==
  /\ phase \in {"sorting", "routing", "calling", "done", "cycle", "aborted"}
  /\ strategy \in Strategies \cup {"none"}
  /\ phase = "calling" => strategy \in Strategies
  /\ failures \in [Steps -> Nat]
  /\ \A s \in Steps \ DOMAIN completed : failures[s] \in {0, 1}
  /\ DOMAIN completed \subseteq Steps
  /\ \A s \in DOMAIN completed : completed[s] \in Results
  /\ SkippedAfterRetry
  /\ phase = "cycle" => Queued = {} /\ Len(order) # NumSteps
  /\ Sorted => Len(order) = NumSteps
  /\ ~Sorted => DOMAIN completed = {}
  /\ DOMAIN completed = {order[i] : i \in 1..Done}
  /\ IsFiniteSet(DOMAIN completed) /\ Done \in Nat
  /\ Done <= Len(order)
  /\ phase \in {"routing", "calling"} => Done < NumSteps
  /\ phase = "done" => Done = NumSteps
  /\ \A s \in DOMAIN completed :
       completed[s].forwarded =
         {d \in Known(s) : d \in DOMAIN completed /\ completed[d].summary}

LEMMA StepsFinite == IsFiniteSet(Steps) /\ Cardinality(Steps) = NumSteps
<1>1. NumSteps \in Nat
  BY ExecutorAssumption
<1>2. IsFiniteSet(1..NumSteps) /\ Cardinality(1..NumSteps) = IF 1 > NumSteps THEN 0 ELSE NumSteps - 1 + 1
  BY <1>1, FS_Interval
<1>3. QED
  BY <1>1, <1>2 DEF Steps

\* What is still unsorted of a step's dependencies is a finite set.
LEMMA UnsortedFinite ==
  ASSUME SortTypes, NEW s \in Steps
  PROVE  IsFiniteSet(Known(s) \ SortedSet)
  BY StepsFinite, FS_Subset, Known(s) \ SortedSet \in SUBSET Steps DEF Known

-----------------------------------------------------------------------------
(* The sort.                                                               *)

LEMMA SortInit == Init => SortInv
<1> SUFFICES ASSUME Init PROVE SortInv
  OBVIOUS
<1>1. SortedSet = {} /\ Len(order) = 0
  BY DEF Init, SortedSet
<1>2. \A s \in Steps : IsFiniteSet(Known(s)) /\ Cardinality(Known(s)) \in Nat
  BY StepsFinite, FS_Subset, FS_CardinalityType, \A s \in Steps : Known(s) \in SUBSET Steps DEF Known
<1>3. SortTypes
  BY <1>2 DEF Init, SortTypes
<1>4. \A s \in Steps : inDegree[s] = Cardinality(Known(s) \ SortedSet)
  <2>1. \A s \in Steps : Known(s) \ SortedSet = Known(s)
    BY <1>1
  <2>2. QED
    BY <2>1 DEF Init
<1>5. QED
  BY <1>1, <1>3, <1>4, FS_EmptySet DEF SortInv

\* An iteration puts a new step at the end of the order, after all of its
\* known dependencies.
LEMMA PopAppends ==
  ASSUME SortInv, NEW s \in Steps, PopQueue(s)
  PROVE  /\ s \notin SortedSet
         /\ Known(s) \subseteq SortedSet
         /\ order' \in Seq(Steps)
         /\ Len(order') = Len(order) + 1
         /\ \A i \in 1..Len(order) : order'[i] = order[i]
         /\ order'[Len(order) + 1] = s
         /\ SortedSet' = SortedSet \cup {s}
<1>1. s \notin SortedSet /\ inDegree[s] = 0 /\ order' = Append(order, s) /\ order \in Seq(Steps)
  BY DEF SortInv, SortTypes, PopQueue, IsHead, Queued
<1>2. Cardinality(Known(s) \ SortedSet) = 0 /\ IsFiniteSet(Known(s) \ SortedSet)
  BY <1>1, UnsortedFinite DEF SortInv
<1>3. Known(s) \ SortedSet = {}
  BY <1>2, FS_EmptySet
<1>4. /\ order' \in Seq(Steps)
      /\ Len(order') = Len(order) + 1
      /\ \A i \in 1..Len(order) : order'[i] = order[i]
      /\ order'[Len(order) + 1] = s
  BY <1>1
<1>5. SortedSet' = SortedSet \cup {s}
  <2>1. Len(order) \in Nat
    BY <1>1
  <2>2. 1..Len(order') = 1..Len(order) \cup {Len(order) + 1}
    BY <1>4, <2>1
  <2>3. QED
    BY <1>4, <2>1, <2>2 DEF SortedSet
<1>6. QED
  BY <1>1, <1>3, <1>4, <1>5

\* A dependent loses exactly one unsorted dependency, nobody else loses any.
LEMMA PopCounts ==
  ASSUME SortInv, NEW s \in Steps, PopQueue(s)
  PROVE  /\ inDegree' \in [Steps -> Nat]
         /\ \A t \in Steps : inDegree'[t] = Cardinality(Known(t)' \ SortedSet')
<1>1. ASSUME NEW t \in Steps
      PROVE  /\ inDegree'[t] \in Nat
             /\ inDegree'[t] = Cardinality(Known(t)' \ SortedSet')
  <2>1. Known(t)' \ SortedSet' = (Known(t) \ SortedSet) \ {s}
    BY PopAppends DEF PopQueue, Known
  <2>2. s \in Known(t) \ SortedSet <=> t \in Dependents(s)
    BY PopAppends DEF Known, Dependents
  <2>3. /\ IsFiniteSet(Known(t) \ SortedSet)
        /\ Cardinality(Known(t) \ SortedSet) \in Nat
    BY UnsortedFinite, FS_CardinalityType DEF SortInv
  <2>4. Cardinality((Known(t) \ SortedSet) \ {s}) =
          IF s \in Known(t) \ SortedSet THEN Cardinality(Known(t) \ SortedSet) - 1
                                        ELSE Cardinality(Known(t) \ SortedSet)
    BY <2>3, FS_RemoveElement
  <2>5. Cardinality((Known(t) \ SortedSet) \ {s}) \in Nat
    BY <2>3, FS_RemoveElement, FS_CardinalityType
  <2>6. inDegree'[t] = IF t \in Dependents(s) THEN inDegree[t] - 1 ELSE inDegree[t]
    BY DEF PopQueue
  <2>7. inDegree[t] = Cardinality(Known(t) \ SortedSet)
    BY DEF SortInv
  <2>8. QED
    BY <2>1, <2>2, <2>4, <2>5, <2>6, <2>7
<1>2. DOMAIN inDegree' = Steps /\ inDegree' = [t \in Steps |-> inDegree'[t]]
  BY DEF PopQueue
<1>3. QED
  BY <1>1, <1>2

LEMMA PopStep ==
  ASSUME SortInv, NEW s \in Steps, PopQueue(s)
  PROVE  SortInv'
<1> DEFINE n == Len(order)
<1>1. n \in Nat /\ dependsOn' = dependsOn
  BY DEF SortInv, SortTypes, PopQueue
<1>2. SortTypes'
  <2>1. ticket' \in [Steps -> Nat]
    BY <1>1 DEF SortInv, SortTypes, PopQueue
  <2>2. QED
    BY <1>1, <2>1, PopAppends, PopCounts DEF SortInv, SortTypes
<1>3. IsFiniteSet(SortedSet') /\ Cardinality(SortedSet') = Len(order')
  <2>1. IsFiniteSet(SortedSet) /\ Cardinality(SortedSet) = Len(order)
    BY DEF SortInv
  <2>2. /\ IsFiniteSet(SortedSet \cup {s})
        /\ Cardinality(SortedSet \cup {s}) =
             IF s \in SortedSet THEN Cardinality(SortedSet) ELSE Cardinality(SortedSet) + 1
    BY <2>1, FS_AddElement
  <2>3. QED
    BY <2>1, <2>2, PopAppends
<1>4. \A i, j \in 1..Len(order') : order'[i] = order'[j] => i = j
  <2>1. \A i \in 1..n : order'[i] # s
    BY PopAppends DEF SortedSet
  <2>2. \A i \in 1..Len(order') : i \in 1..n \/ i = n + 1
    BY <1>1, PopAppends
  <2>3. QED
    BY <1>1, <2>1, <2>2, PopAppends DEF SortInv
<1>5. \A i \in 1..Len(order') : \A d \in Known(order[i])' : \E j \in 1..(i - 1) : order'[j] = d
  <2> SUFFICES ASSUME NEW i \in 1..Len(order'), NEW d \in Known(order[i])'
               PROVE  \E j \in 1..(i - 1) : order'[j] = d
    OBVIOUS
  <2>1. CASE i \in 1..n
    <3>1. d \in Known(order[i])
      BY <1>1, <2>1, PopAppends DEF Known
    <3>2. PICK j \in 1..(i - 1) : order[j] = d
      BY <2>1, <3>1 DEF SortInv
    <3>3. j \in 1..n
      BY <1>1, <2>1
    <3>4. QED
      BY <3>2, <3>3, PopAppends
  <2>2. CASE i = n + 1
    <3>1. d \in SortedSet
      BY <1>1, <2>2, PopAppends DEF Known
    <3>2. PICK j \in 1..n : order[j] = d
      BY <3>1 DEF SortedSet
    <3>3. QED
      BY <1>1, <2>2, <3>2, PopAppends
  <2>3. QED
    BY <1>1, <2>1, <2>2, PopAppends
<1>6. \A S \in SUBSET Steps : Knot(S)' => S \cap SortedSet' = {}
  <2> SUFFICES ASSUME NEW S \in SUBSET Steps, Knot(S)' PROVE S \cap SortedSet' = {}
    OBVIOUS
  <2>1. Knot(S)
    BY <1>1 DEF Knot
  <2>2. S \cap SortedSet = {}
    BY <2>1 DEF SortInv
  <2>3. s \notin S
    BY <2>1, <2>2, PopAppends DEF Knot, Known
  <2>4. QED
    BY <2>2, <2>3, PopAppends
<1>7. QED
  BY <1>2, <1>3, <1>4, <1>5, <1>6, PopCounts DEF SortInv

\* Only PopQueue touches what SortInv is about.
LEMMA SortFrame == SortInv /\ UNCHANGED <<dependsOn, sortVars>> => SortInv'
<1> SUFFICES ASSUME SortInv, UNCHANGED <<dependsOn, sortVars>> PROVE SortInv'
  OBVIOUS
<1>1. dependsOn' = dependsOn /\ inDegree' = inDegree /\ ticket' = ticket /\ order' = order
  BY DEF sortVars
<1>2. SortedSet' = SortedSet
  BY <1>1 DEF SortedSet
<1>3. SortTypes'
  BY <1>1 DEF SortInv, SortTypes
<1>4. IsFiniteSet(SortedSet') /\ Cardinality(SortedSet') = Len(order')
  BY <1>1, <1>2 DEF SortInv
<1>5. \A i, j \in 1..Len(order') : order'[i] = order'[j] => i = j
  BY <1>1 DEF SortInv
<1>6. \A s \in Steps : inDegree'[s] = Cardinality(Known(s)' \ SortedSet')
  BY <1>1, <1>2 DEF SortInv, Known
<1>7. \A i \in 1..Len(order') : \A d \in Known(order[i])' : \E j \in 1..(i - 1) : order'[j] = d
  BY <1>1 DEF SortInv, Known
<1>8. \A S \in SUBSET Steps : Knot(S)' => S \cap SortedSet' = {}
  BY <1>1, <1>2 DEF SortInv, Knot
<1>9. QED
  BY <1>3, <1>4, <1>5, <1>6, <1>7, <1>8 DEF SortInv

LEMMA SortStep == SortInv /\ [Next]_vars => SortInv'
<1> SUFFICES ASSUME SortInv, [Next]_vars PROVE SortInv'
  OBVIOUS
<1>1. ASSUME NEW s \in Steps, PopQueue(s) PROVE SortInv'
  BY <1>1, PopStep
<1>2. CASE SortEnds \/ Route \/ RouteRaises \/ EngineAnswers \/ EngineRaises \/ UNCHANGED vars
  BY <1>2, SortFrame
     DEF SortEnds, Route, RouteRaises, EngineAnswers, EngineRaises, Complete, vars, sortVars
<1>3. QED
  BY <1>1, <1>2 DEF Next

-----------------------------------------------------------------------------
(* The run.                                                                *)

LEMMA RunInit == Init => RunInv
<1> SUFFICES ASSUME Init PROVE RunInv
  OBVIOUS
<1>1. DOMAIN completed = {} /\ Done = 0 /\ IsFiniteSet(DOMAIN completed)
  BY FS_EmptySet DEF Init, Done
<1>2. Len(order) = 0 /\ phase = "sorting" /\ strategy = "none"
  BY DEF Init
<1>3. failures \in [Steps -> Nat] /\ \A s \in Steps : failures[s] = 0
  BY DEF Init
<1>4. DOMAIN completed = {order[i] : i \in 1..Done}
  BY <1>1
<1>5. SkippedAfterRetry
  BY <1>1 DEF SkippedAfterRetry
<1>6. QED
  BY <1>1, <1>2, <1>3, <1>4, <1>5 DEF RunInv, Sorted

\* What completed steps depend on is completed: the completed steps are the
\* first ones of the order.
LEMMA DepsCompleted == SortInv /\ RunInv => DependenciesFirst
<1> SUFFICES ASSUME SortInv, RunInv,
                    NEW s \in DOMAIN completed, NEW d \in Known(s)
             PROVE  d \in DOMAIN completed
  BY DEF DependenciesFirst
<1>1. Done \in Nat /\ Done <= Len(order) /\ Len(order) \in Nat
  BY DEF RunInv, SortInv, SortTypes
<1>2. PICK i \in 1..Done : order[i] = s
  BY DEF RunInv
<1>3. i \in 1..Len(order) /\ d \in Known(order[i])
  BY <1>1, <1>2
<1>4. PICK j \in 1..(i - 1) : order[j] = d
  BY <1>3 DEF SortInv
<1>5. j \in 1..Done
  BY <1>1, <1>2
<1>6. QED
  BY <1>4, <1>5 DEF RunInv

\* The step that runs is new, and what it depends on is completed.
LEMMA NowIsNext ==
  ASSUME SortInv, RunInv, phase \in {"routing", "calling"}
  PROVE  /\ Now \in Steps \ DOMAIN completed
         /\ Known(Now) \subseteq DOMAIN completed
         /\ Done + 1 \in 1..Len(order)
<1>1. /\ Done \in Nat /\ Len(order) \in Nat
      /\ Len(order) = NumSteps /\ Done < NumSteps
      /\ DOMAIN completed = {order[i] : i \in 1..Done}
  BY DEF RunInv, Sorted, SortInv, SortTypes
<1>2. Done + 1 \in 1..Len(order)
  BY <1>1
<1>3. Now \in Steps
  BY <1>2 DEF Now, SortInv, SortTypes
<1>4. Now \notin DOMAIN completed
  <2>1. \A i \in 1..Done : i \in 1..Len(order) /\ i # Done + 1
    BY <1>1
  <2>2. \A i \in 1..Done : order[i] # order[Done + 1]
    BY <1>2, <2>1 DEF SortInv
  <2>3. QED
    BY <1>1, <2>2 DEF Now
<1>5. Known(Now) \subseteq DOMAIN completed
  <2> SUFFICES ASSUME NEW d \in Known(order[Done + 1]) PROVE d \in DOMAIN completed
    BY DEF Now
  <2>1. PICK j \in 1..((Done + 1) - 1) : order[j] = d
    BY <1>2 DEF SortInv
  <2>2. j \in 1..Done
    BY <1>1
  <2>3. QED
    BY <1>1, <2>1, <2>2
<1>6. QED
  BY <1>2, <1>3, <1>4, <1>5

LEMMA CompleteStep ==
  ASSUME SortInv, RunInv, phase = "calling", NEW result \in Results,
         result.forwarded = Forwarded(Now),
         failures' \in [Steps -> Nat],
         \A s \in Steps \ {Now} : failures'[s] = failures[s],
         result.skipped => failures'[Now] = 2 /\ ~result.summary,
         ~result.skipped => failures'[Now] < 2,
         Complete(result)
  PROVE  RunInv'
<1>1. /\ Now \in Steps \ DOMAIN completed
      /\ Known(Now) \subseteq DOMAIN completed
      /\ Done + 1 \in 1..Len(order)
  BY NowIsNext
<1>2. /\ order' = order /\ dependsOn' = dependsOn /\ inDegree' = inDegree
      /\ strategy' = strategy
  BY DEF Complete, sortVars
<1>3. /\ DOMAIN completed' = DOMAIN completed \cup {Now}
      /\ completed'[Now] = result
      /\ \A s \in DOMAIN completed : completed'[s] = completed[s]
  BY <1>1 DEF Complete
<1>4. /\ Done \in Nat /\ Len(order) \in Nat /\ Len(order) = NumSteps
      /\ DOMAIN completed \subseteq Steps
      /\ DOMAIN completed = {order[i] : i \in 1..Done}
      /\ IsFiniteSet(DOMAIN completed) /\ Done < NumSteps
  BY DEF RunInv, Sorted, SortInv, SortTypes
<1>5. IsFiniteSet(DOMAIN completed') /\ Done' = Done + 1
  <2>1. /\ IsFiniteSet(DOMAIN completed \cup {Now})
        /\ Cardinality(DOMAIN completed \cup {Now}) = Done + 1
    BY <1>1, <1>4, FS_AddElement DEF Done
  <2>2. QED
    BY <1>3, <2>1 DEF Done
<1>6. DOMAIN completed' = {order'[i] : i \in 1..Done'}
  <2>1. 1..(Done + 1) = 1..Done \cup {Done + 1}
    BY <1>4
  <2>2. QED
    BY <1>2, <1>3, <1>4, <1>5, <2>1 DEF Now
<1>7. phase' = IF Done + 1 = NumSteps THEN "done" ELSE "routing"
  BY DEF Complete
<1>8. SkippedAfterRetry'
  <2> SUFFICES ASSUME NEW s \in DOMAIN completed'
               PROVE  /\ completed'[s].skipped => failures'[s] = 2 /\ ~completed'[s].summary
                      /\ ~completed'[s].skipped => failures'[s] < 2
    BY DEF SkippedAfterRetry
  <2>1. CASE s = Now
    BY <1>3, <2>1
  <2>2. CASE s # Now
    BY <1>3, <1>4, <2>2 DEF RunInv, SkippedAfterRetry
  <2>3. QED
    BY <2>1, <2>2
<1>9. ASSUME NEW s \in DOMAIN completed'
      PROVE  completed'[s].forwarded =
               {d \in Known(s)' : d \in DOMAIN completed' /\ completed'[d].summary}
  <2>1. Known(s)' = Known(s) /\ Known(s) \subseteq DOMAIN completed
    BY <1>1, <1>2, <1>3, DepsCompleted DEF Known, DependenciesFirst
  <2>2. CASE s = Now
    <3>1. Forwarded(Now) = {d \in Known(Now) : d \in DOMAIN completed /\ completed[d].summary}
      BY <1>4 DEF Forwarded, Known
    <3>2. QED
      BY <1>3, <2>1, <2>2, <3>1
  <2>3. CASE s # Now
    BY <1>3, <2>1, <2>3 DEF RunInv
  <2>4. QED
    BY <2>2, <2>3
<1>10. \A s \in Steps \ DOMAIN completed' : failures'[s] \in {0, 1}
  BY <1>1, <1>3 DEF RunInv
<1>11. \A s \in DOMAIN completed' : completed'[s] \in Results
  BY <1>3 DEF RunInv
<1>12. Done' <= Len(order') /\ Len(order') = NumSteps
  BY <1>2, <1>4, <1>5
<1>13. /\ phase' \in {"done", "routing"}
       /\ phase' = "routing" => Done' < NumSteps
       /\ phase' = "done" => Done' = NumSteps
  BY <1>4, <1>5, <1>7
<1>14. /\ strategy' \in Strategies \cup {"none"}
       /\ DOMAIN completed' \subseteq Steps /\ Done' \in Nat
  BY <1>1, <1>2, <1>3, <1>4, <1>5 DEF RunInv
<1>15. QED
  BY <1>5, <1>6, <1>8, <1>9, <1>10, <1>11, <1>12, <1>13, <1>14 DEF RunInv, Sorted

\* The actions that leave the results alone.
LEMMA RunFrame ==
  ASSUME SortInv, RunInv, UNCHANGED <<dependsOn, completed>>
  PROVE  /\ Done' = Done /\ DOMAIN completed' = DOMAIN completed
         /\ \A s \in DOMAIN completed : completed'[s] = completed[s]
         /\ \A s \in DOMAIN completed :
              completed'[s].forwarded =
                {d \in Known(s)' : d \in DOMAIN completed' /\ completed'[d].summary}
<1>1. completed' = completed /\ dependsOn' = dependsOn
  OBVIOUS
<1>2. \A s \in DOMAIN completed : Known(s)' = Known(s)
  BY <1>1 DEF Known
<1>3. QED
  BY <1>1, <1>2 DEF RunInv, Done

LEMMA OrderFrame ==
  ASSUME SortInv, RunInv, UNCHANGED <<dependsOn, order, failures, completed>>
  PROVE  SkippedAfterRetry' /\ DOMAIN completed' = {order'[i] : i \in 1..Done'}
<1>1. SkippedAfterRetry /\ DOMAIN completed = {order[i] : i \in 1..Done}
  BY DEF RunInv
<1>2. order' = order /\ failures' = failures /\ completed' = completed /\ Done' = Done
  BY RunFrame
<1>3. SkippedAfterRetry'
  BY <1>1, <1>2 DEF SkippedAfterRetry
<1>4. QED
  BY <1>1, <1>2, <1>3

LEMMA RunStep == SortInv /\ RunInv /\ [Next]_vars => RunInv'
<1> SUFFICES ASSUME SortInv, RunInv, [Next]_vars PROVE RunInv'
  OBVIOUS
<1>1. ASSUME NEW s \in Steps, PopQueue(s) PROVE RunInv'
  <2>1. UNCHANGED <<dependsOn, phase, strategy, failures, completed>> /\ phase = "sorting"
    BY <1>1 DEF PopQueue
  <2>2. DOMAIN completed = {} /\ Done = 0 /\ Done' = 0
    BY <2>1, FS_EmptySet DEF RunInv, Sorted, Done
  <2>3. Len(order') \in Nat
    BY <1>1, PopAppends
  <2>4. DOMAIN completed' = {order'[i] : i \in 1..Done'}
    BY <2>1, <2>2
  <2>5. SkippedAfterRetry'
    BY <2>1, <2>2 DEF SkippedAfterRetry
  <2>6. QED
    BY <2>1, <2>2, <2>3, <2>4, <2>5 DEF RunInv, Sorted
<1>2. CASE SortEnds
  <2>1. /\ UNCHANGED <<dependsOn, inDegree, order, strategy, failures, completed>>
        /\ phase = "sorting" /\ Queued = {}
        /\ phase' = IF Len(order) # NumSteps THEN "cycle"
                    ELSE IF NumSteps = 0 THEN "done" ELSE "routing"
    BY <1>2 DEF SortEnds, sortVars
  <2>2. DOMAIN completed = {} /\ Done = 0
    BY <2>1, FS_EmptySet DEF RunInv, Sorted, Done
  <2>3. Queued' = {}
    BY <2>1 DEF Queued, SortedSet
  <2>4. SkippedAfterRetry'
    BY <2>1, <2>2 DEF SkippedAfterRetry
  <2>5. DOMAIN completed' = {order'[i] : i \in 1..Done'}
    BY <2>1, <2>2, RunFrame
  <2>6. QED
    BY <2>1, <2>2, <2>3, <2>4, <2>5, RunFrame, ExecutorAssumption DEF RunInv, Sorted
<1>3. CASE Route
  <2>1. /\ UNCHANGED <<dependsOn, inDegree, order, failures, completed>>
        /\ phase = "routing" /\ phase' = "calling" /\ strategy' \in Strategies
    BY <1>3 DEF Route, sortVars
  <2>2. SkippedAfterRetry' /\ DOMAIN completed' = {order'[i] : i \in 1..Done'}
    BY <2>1, OrderFrame
  <2>3. QED
    BY <2>1, <2>2, RunFrame DEF RunInv, Sorted
<1>4. CASE RouteRaises
  <2>1. /\ UNCHANGED <<dependsOn, inDegree, order, strategy, failures, completed>>
        /\ phase = "routing" /\ phase' = "aborted"
    BY <1>4 DEF RouteRaises, sortVars
  <2>2. SkippedAfterRetry' /\ DOMAIN completed' = {order'[i] : i \in 1..Done'}
    BY <2>1, OrderFrame
  <2>3. QED
    BY <2>1, <2>2, RunFrame DEF RunInv, Sorted
<1>5. CASE EngineAnswers
  <2>1. phase = "calling" /\ failures' = failures /\ strategy \in Strategies
    BY <1>5 DEF EngineAnswers, RunInv
  <2>2. PICK summary \in BOOLEAN :
          Complete([skipped |-> FALSE, summary |-> summary,
                    strategy |-> strategy, forwarded |-> Forwarded(Now)])
    BY <1>5 DEF EngineAnswers
  <2> DEFINE result == [skipped |-> FALSE, summary |-> summary,
                        strategy |-> strategy, forwarded |-> Forwarded(Now)]
  <2>3. Now \in Steps \ DOMAIN completed
    BY <2>1, NowIsNext
  <2>4. Forwarded(Now) \in SUBSET (Steps \cup Absent)
    BY <2>3 DEF Forwarded, SortInv, SortTypes
  <2>5. result \in Results
    BY <2>1, <2>4 DEF Results
  <2>6. failures' \in [Steps -> Nat] /\ failures'[Now] \in {0, 1}
    BY <2>1, <2>3 DEF RunInv
  <2>7. QED
    <3>1. Complete(result) /\ result.skipped = FALSE /\ result.forwarded = Forwarded(Now)
      BY <2>2
    <3> HIDE DEF result
    <3>2. QED
      BY <3>1, <2>1, <2>5, <2>6, CompleteStep
<1>6. CASE EngineRaises
  <2>1. /\ phase = "calling" /\ strategy \in Strategies
        /\ failures' = [failures EXCEPT ![Now] = @ + 1]
    BY <1>6 DEF EngineRaises, RunInv
  <2>2. Now \in Steps \ DOMAIN completed
    BY <2>1, NowIsNext
  <2>3. /\ failures' \in [Steps -> Nat] /\ failures[Now] \in {0, 1}
        /\ failures'[Now] = failures[Now] + 1
        /\ \A s \in Steps \ {Now} : failures'[s] = failures[s]
    BY <2>1, <2>2 DEF RunInv
  <2>4. CASE failures[Now] = 0
    <3>1. UNCHANGED <<dependsOn, inDegree, order, phase, strategy, completed>>
      BY <1>6, <2>4 DEF EngineRaises, sortVars
    <3>2. SkippedAfterRetry'
      BY <2>2, <2>3, <3>1 DEF RunInv, SkippedAfterRetry
    <3>3. \A s \in Steps \ DOMAIN completed' : failures'[s] \in {0, 1}
      BY <2>3, <2>4, <3>1 DEF RunInv
    <3>4. DOMAIN completed' = {order'[i] : i \in 1..Done'}
      BY <3>1, RunFrame DEF RunInv
    <3>5. QED
      BY <2>1, <2>3, <3>1, <3>2, <3>3, <3>4, RunFrame DEF RunInv, Sorted
  <2>5. CASE failures[Now] # 0
    <3> DEFINE result == [skipped |-> TRUE, summary |-> FALSE,
                          strategy |-> strategy, forwarded |-> Forwarded(Now)]
    <3>1. Complete(result)
      BY <1>6, <2>5 DEF EngineRaises
    <3>2. Forwarded(Now) \in SUBSET (Steps \cup Absent)
      BY <2>2 DEF Forwarded, SortInv, SortTypes
    <3>3. result \in Results /\ result.skipped /\ ~result.summary
          /\ result.forwarded = Forwarded(Now)
      BY <2>1, <3>2 DEF Results
    <3>4. failures'[Now] = 2
      BY <2>3, <2>5
    <3> HIDE DEF result
    <3>5. QED
      BY <2>1, <2>3, <3>1, <3>3, <3>4, CompleteStep
  <2>6. QED
    BY <2>4, <2>5
<1>7. CASE UNCHANGED vars
  <2>1. UNCHANGED <<dependsOn, inDegree, order, phase, strategy, failures, completed>>
    BY <1>7 DEF vars, sortVars
  <2>2. SkippedAfterRetry' /\ DOMAIN completed' = {order'[i] : i \in 1..Done'}
    BY <2>1, OrderFrame
  <2>3. Queued' = Queued
    BY <2>1 DEF Queued, SortedSet
  <2>4. QED
    BY <2>1, <2>2, <2>3, RunFrame DEF RunInv, Sorted
<1>8. QED
  BY <1>1, <1>2, <1>3, <1>4, <1>5, <1>6, <1>7 DEF Next

-----------------------------------------------------------------------------
(* What follows.                                                           *)

IInv == SortInv /\ RunInv

THEOREM Invariance == Spec => []IInv
<1>1. Init => IInv
  BY SortInit, RunInit DEF IInv
<1>2. IInv /\ [Next]_vars => IInv'
  BY SortStep, RunStep DEF IInv
<1>3. QED
  BY <1>1, <1>2, PTL DEF Spec

\* The type invariant of Executor holds for plans of any length.
THEOREM TypeCorrect == Spec => []TypeOK
<1>1. IInv => TypeOK
  BY DEF IInv, SortInv, SortTypes, RunInv, TypeOK
<1>2. QED
  BY <1>1, Invariance, PTL

\* No step of any plan has a result before a step it depends on.
THEOREM DependenciesCorrect == Spec => []DependenciesFirst
<1>1. IInv => DependenciesFirst
  BY DepsCompleted DEF IInv
<1>2. QED
  BY <1>1, Invariance, PTL

\* CyclicDependencyError is raised for exactly the plans with a cycle: what
\* Kahn's loop leaves over is a knot, and a knot is never sorted.
THEOREM CycleCorrect == Spec => []CycleIffKnot
<1>1. IInv => CycleIffKnot
  <2> SUFFICES ASSUME SortInv, RunInv PROVE CycleIffKnot
    BY DEF IInv
  <2> DEFINE Rest == Steps \ SortedSet
  <2>1. SortedSet \subseteq Steps /\ IsFiniteSet(SortedSet)
    <3>1. IsFiniteSet(SortedSet) /\ order \in Seq(Steps)
      BY DEF SortInv, SortTypes
    <3>2. \A i \in 1..Len(order) : order[i] \in Steps
      BY <3>1
    <3>3. QED
      BY <3>1, <3>2 DEF SortedSet
  <2>2. ASSUME phase = "cycle" PROVE Knot(Rest)
    <3>1. Queued = {} /\ Cardinality(SortedSet) # NumSteps
      BY <2>2 DEF RunInv, SortInv
    <3>2. Rest # {}
      BY <2>1, <3>1, StepsFinite
    <3>3. ASSUME NEW s \in Rest PROVE dependsOn[s] \cap Rest # {}
      <4>1. Cardinality(Known(s) \ SortedSet) # 0
        BY <3>1, <3>3 DEF Queued, SortInv
      <4>2. Known(s) \ SortedSet # {}
        BY <4>1, FS_EmptySet
      <4>3. QED
        BY <4>2 DEF Known
    <3>4. QED
      BY <3>2, <3>3 DEF Knot
  <2>3. ASSUME Sorted, NEW S \in SUBSET Steps PROVE ~Knot(S)
    <3>1. Cardinality(SortedSet) = NumSteps
      BY <2>3 DEF RunInv, SortInv
    <3>2. SortedSet = Steps
      BY <2>1, <3>1, StepsFinite, FS_Subset
    <3>3. QED
      BY <3>2 DEF SortInv, Knot
  <2>4. QED
    <3>1. Rest \in SUBSET Steps
      OBVIOUS
    <3> HIDE DEF Rest
    <3>2. QED
      BY <2>2, <2>3, <3>1 DEF CycleIffKnot, Sorted
<1>2. QED
  BY <1>1, Invariance, PTL

\* A plan that ran through has all its results, and every query carried what
\* its dependencies had found.
THEOREM ContextCorrect == Spec => []ContextForwarded
<1>1. IInv => ContextForwarded
  <2> SUFFICES ASSUME SortInv, RunInv, phase = "done" PROVE DOMAIN completed = Steps
    BY DEF IInv, ContextForwarded, RunInv
  <2>1. Cardinality(DOMAIN completed) = NumSteps /\ DOMAIN completed \in SUBSET Steps
    BY DEF RunInv, Done
  <2>2. QED
    BY <2>1, StepsFinite, FS_Subset
<1>2. QED
  BY <1>1, Invariance, PTL

\* A step is skipped after its second failed call and never before.
THEOREM SkippedCorrect == Spec => []SkippedAfterRetry
<1>1. IInv => SkippedAfterRetry
  BY DEF IInv, RunInv
<1>2. QED
  BY <1>1, Invariance, PTL
=============================================================================
