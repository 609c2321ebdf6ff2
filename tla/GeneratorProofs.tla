-------------------------- MODULE GeneratorProofs --------------------------
(***************************************************************************)
(* The safety properties of Generator for any number of requests, workers  *)
(* and retries.  AttemptInv ties each future to the attempt its request    *)
(* is at: an attempt to come has none, a queued one belongs to the current *)
(* attempt, and a worker that outlives its attempt does so by a deadline.  *)
(***************************************************************************)
EXTENDS Generator, TLAPS

AttemptInv(r) ==
  /\ \A a \in 0..MaxRetries :
       /\ \/ a > attempt[r]
          \/ a = attempt[r] /\ gen[r] \in {"new", "ready", "raised"}
          => future[<<r, a>>] = "none" /\ <<r, a>> \notin timedOut
       /\ future[<<r, a>>] = "pending" =>
            gen[r] \in {"waiting", "expired"} /\ attempt[r] = a
       /\ future[<<r, a>>] = "running" =>
            <<r, a>> \in timedOut \/ (gen[r] = "waiting" /\ attempt[r] = a)
  /\ gen[r] = "expired" => Call(r) \in timedOut
  /\ gen[r] = "waiting" => Call(r) \notin timedOut
  /\ gen[r] = "answered" => future[Call(r)] = "text" /\ Call(r) \notin timedOut
  /\ gen[r] = "failed" =>
       /\ attempt[r] = MaxRetries
       /\ \/ Call(r) \in timedOut /\ lastError[r] = "timeout"
          \/ /\ Call(r) \notin timedOut
             /\ \/ future[Call(r)] = "blank" /\ lastError[r] = "invalid_response"
                \/ future[Call(r)] \in ClientErrors /\ lastError[r] = future[Call(r)]

IInv == TypeOK /\ \A r \in Requests : AttemptInv(r)

\* A request's calls are its own.
LEMMA CallTypes ==
  ASSUME TypeOK, NEW r \in Requests
  PROVE  Call(r) \in Calls /\ attempt[r] \in 0..MaxRetries
  BY DEF TypeOK, Call, Calls

\* The kinds of error and the states of a future are different things.
LEMMA ErrorKinds ==
  /\ ClientErrors \cap ({"none", "cancelled", "text", "blank"} \cup Unsettled) = {}
  /\ MaxRetries \in Nat
  BY GeneratorAssumption DEF ErrorKind, Unsettled

LEMMA InvInit == Init => IInv
<1> SUFFICES ASSUME Init PROVE IInv
  OBVIOUS
<1>1. TypeOK
  BY ErrorKinds DEF Init, TypeOK
<1>2. ASSUME NEW r \in Requests PROVE AttemptInv(r)
  BY <1>2 DEF Init, AttemptInv, Calls
<1>3. QED
  BY <1>1, <1>2 DEF IInv

LEMMA TypeStep == TypeOK /\ [Next]_vars => TypeOK'
<1> SUFFICES ASSUME TypeOK, [Next]_vars PROVE TypeOK'
  OBVIOUS
<1> USE ErrorKinds, CallTypes DEF GoGen, SetFuture
<1>1. ASSUME NEW r \in Requests, BuildClient(r) PROVE TypeOK'
  BY <1>1 DEF TypeOK, BuildClient
<1>2. ASSUME NEW r \in Requests, Submit(r) PROVE TypeOK'
  <2>1. gen' \in [Requests -> {"new", "ready", "waiting", "expired", "raised"} \cup Returned]
    BY <1>2 DEF TypeOK, Submit
  <2>2. future' \in [Calls -> {"none", "cancelled"} \cup Unsettled \cup Outcomes]
    BY <1>2 DEF TypeOK, Submit, Unsettled
  <2>3. queue' \in Seq(Calls)
    BY <1>2 DEF TypeOK, Submit
  <2>4. QED
    BY <1>2, <2>1, <2>2, <2>3 DEF TypeOK, Submit
<1>3. ASSUME NEW r \in Requests, NEW kind \in ErrorKind, AttemptFails(r, kind)
      PROVE  /\ gen' \in [Requests -> {"new", "ready", "waiting", "expired", "raised"} \cup Returned]
             /\ attempt' \in [Requests -> 0..MaxRetries]
             /\ lastError' \in [Requests -> ErrorKind \cup {"none"}]
  <2>1. /\ gen \in [Requests -> {"new", "ready", "waiting", "expired", "raised"} \cup Returned]
        /\ attempt \in [Requests -> 0..MaxRetries]
        /\ lastError \in [Requests -> ErrorKind \cup {"none"}]
    BY DEF TypeOK
  <2>2. lastError' = [lastError EXCEPT ![r] = kind]
    BY <1>3 DEF AttemptFails
  <2>3. CASE attempt[r] < MaxRetries
    <3>1. attempt' = [attempt EXCEPT ![r] = @ + 1] /\ gen' = [gen EXCEPT ![r] = "ready"]
      BY <1>3, <2>3 DEF AttemptFails
    <3>2. attempt[r] + 1 \in 0..MaxRetries
      BY <2>1, <2>3
    <3>3. QED
      BY <2>1, <2>2, <3>1, <3>2
  <2>4. CASE ~(attempt[r] < MaxRetries)
    <3>1. attempt' = attempt /\ gen' = [gen EXCEPT ![r] = "failed"] /\ "failed" \in Returned
      BY <1>3, <2>4 DEF AttemptFails, Returned
    <3>2. QED
      BY <2>1, <2>2, <3>1
  <2>5. QED
    BY <2>3, <2>4
<1>4. ASSUME NEW r \in Requests, Receive(r) PROVE TypeOK'
  <2>1. CASE GoGen(r, "answered") /\ UNCHANGED <<attempt, lastError>>
    BY <1>4, <2>1 DEF TypeOK, Receive, Returned
  <2>2. CASE \E kind \in ErrorKind : AttemptFails(r, kind)
    BY <1>3, <1>4, <2>2 DEF TypeOK, Receive
  <2>3. "invalid_response" \in ErrorKind /\ ClientErrors \subseteq ErrorKind
    BY GeneratorAssumption DEF ErrorKind
  <2>4. QED
    BY <1>4, <2>1, <2>2, <2>3 DEF Receive
<1>5. ASSUME NEW r \in Requests, Expire(r) PROVE TypeOK'
  BY <1>5 DEF TypeOK, Expire
<1>6. ASSUME NEW r \in Requests, CancelCall(r) PROVE TypeOK'
  <2>1. AttemptFails(r, "timeout") /\ "timeout" \in ErrorKind
    BY <1>6 DEF CancelCall, ErrorKind
  <2>2. future' \in [Calls -> {"none", "cancelled"} \cup Unsettled \cup Outcomes]
    BY <1>6 DEF CancelCall, TypeOK
  <2>3. QED
    BY <1>3, <1>6, <2>1, <2>2 DEF TypeOK, CancelCall
<1>7. ASSUME WorkerTakes PROVE TypeOK'
  <2>1. Head(queue) \in Calls /\ Tail(queue) \in Seq(Calls)
    BY <1>7 DEF TypeOK, WorkerTakes
  <2>2. QED
    BY <1>7, <2>1 DEF TypeOK, WorkerTakes, Unsettled
<1>8. ASSUME NEW c \in Calls, CallEnds(c) PROVE TypeOK'
  BY <1>8 DEF TypeOK, CallEnds
<1>9. CASE UNCHANGED vars
  BY <1>9 DEF TypeOK, vars
<1>10. QED
  BY <1>1, <1>2, <1>4, <1>5, <1>6, <1>7, <1>8, <1>9 DEF Next, RequestStep

\* The failed attempt's error, and what is left of its future, become the
\* result or make room for the next attempt.
LEMMA FailStep ==
  ASSUME TypeOK, NEW r \in Requests, AttemptInv(r), NEW kind,
         gen[r] \in {"waiting", "expired"},
         AttemptFails(r, kind), UNCHANGED timedOut,
         \A a \in 0..MaxRetries : a # attempt[r] => future'[<<r, a>>] = future[<<r, a>>],
         future'[Call(r)] # "pending",
         future'[Call(r)] = "running" => Call(r) \in timedOut,
         \/ Call(r) \in timedOut /\ kind = "timeout"
         \/ /\ Call(r) \notin timedOut
            /\ \/ future'[Call(r)] = "blank" /\ kind = "invalid_response"
               \/ future'[Call(r)] \in ClientErrors /\ kind = future'[Call(r)]
  PROVE  AttemptInv(r)'
<1> USE ErrorKinds, CallTypes
<1>1. lastError'[r] = kind /\ MaxRetries \in Nat /\ attempt[r] \in 0..MaxRetries
  BY DEF AttemptFails, TypeOK
<1>2. CASE attempt[r] < MaxRetries
  <2>1. gen'[r] = "ready" /\ attempt'[r] = attempt[r] + 1
    BY <1>2 DEF AttemptFails, GoGen, TypeOK
  <2>2. QED
    BY <1>1, <1>2, <2>1 DEF AttemptInv, Call
<1>3. CASE ~(attempt[r] < MaxRetries)
  <2>1. gen'[r] = "failed" /\ attempt'[r] = attempt[r] /\ attempt[r] = MaxRetries
    BY <1>1, <1>3 DEF AttemptFails, GoGen, TypeOK
  <2>2. QED
    BY <1>1, <2>1 DEF AttemptInv, Call
<1>4. QED
  BY <1>2, <1>3

\* Another request's step, or one of the pool on another request's call.
LEMMA OthersFrame ==
  ASSUME NEW q \in Requests, AttemptInv(q),
         gen'[q] = gen[q], attempt'[q] = attempt[q], lastError'[q] = lastError[q],
         \A a \in 0..MaxRetries :
           /\ future'[<<q, a>>] = future[<<q, a>>]
           /\ <<q, a>> \in timedOut' <=> <<q, a>> \in timedOut,
         attempt[q] \in 0..MaxRetries
  PROVE  AttemptInv(q)'
  BY DEF AttemptInv, Call

LEMMA AttemptStep ==
  ASSUME IInv, [Next]_vars, NEW q \in Requests
  PROVE  AttemptInv(q)'
<1> USE ErrorKinds, CallTypes DEF GoGen, SetFuture
<1>1. TypeOK /\ AttemptInv(q)
  BY DEF IInv
<1>2. ASSUME NEW r \in Requests, BuildClient(r) PROVE AttemptInv(q)'
  BY <1>1, <1>2 DEF BuildClient, AttemptInv, Call, TypeOK
<1>3. ASSUME NEW r \in Requests, Submit(r) PROVE AttemptInv(q)'
  <2>1. CASE q = r
    <3>1. /\ gen'[r] = "waiting" /\ attempt' = attempt /\ timedOut' = timedOut
          /\ future'[Call(r)] = "pending" /\ gen[r] = "ready"
          /\ \A a \in 0..MaxRetries : a # attempt[r] => future'[<<r, a>>] = future[<<r, a>>]
      BY <1>1, <1>3 DEF Submit, TypeOK, Call, Calls
    <3>2. QED
      BY <1>1, <2>1, <3>1 DEF AttemptInv, Call
  <2>2. CASE q # r
    BY <1>1, <1>3, <2>2, OthersFrame DEF Submit, TypeOK, Call, Calls
  <2>3. QED
    BY <2>1, <2>2
<1>4. ASSUME NEW r \in Requests, Receive(r) PROVE AttemptInv(q)'
  <2>1. CASE q = r
    <3>1. CASE GoGen(r, "answered") /\ future[Call(r)] = "text" /\ UNCHANGED <<attempt, lastError>>
      BY <1>1, <1>4, <2>1, <3>1 DEF Receive, AttemptInv, TypeOK, Call
    <3>2. CASE future[Call(r)] = "blank" /\ AttemptFails(r, "invalid_response")
      BY <1>1, <1>4, <2>1, <3>2, FailStep DEF Receive, AttemptInv
    <3>3. CASE future[Call(r)] \in ClientErrors /\ AttemptFails(r, future[Call(r)])
      <4>1. future[Call(r)] \notin {"pending", "running"}
        BY <3>3 DEF Unsettled
      <4>2. QED
        BY <1>1, <1>4, <2>1, <3>3, <4>1, FailStep DEF Receive, AttemptInv
    <3>4. QED
      BY <1>4, <3>1, <3>2, <3>3 DEF Receive
  <2>2. CASE q # r
    BY <1>1, <1>4, <2>2, OthersFrame DEF Receive, AttemptFails, TypeOK
  <2>3. QED
    BY <2>1, <2>2
<1>5. ASSUME NEW r \in Requests, Expire(r) PROVE AttemptInv(q)'
  <2>1. CASE q = r
    BY <1>1, <1>5, <2>1 DEF Expire, AttemptInv, TypeOK, Call
  <2>2. CASE q # r
    BY <1>1, <1>5, <2>2, OthersFrame DEF Expire, TypeOK, Call
  <2>3. QED
    BY <2>1, <2>2
<1>6. ASSUME NEW r \in Requests, CancelCall(r) PROVE AttemptInv(q)'
  <2>1. CASE q = r
    <3>1. /\ gen[r] = "expired" /\ timedOut' = timedOut /\ AttemptFails(r, "timeout")
          /\ Call(r) \in timedOut
      BY <1>1, <1>6, <2>1 DEF CancelCall, AttemptInv
    <3>2. /\ \A a \in 0..MaxRetries : a # attempt[r] => future'[<<r, a>>] = future[<<r, a>>]
          /\ future'[Call(r)] # "pending"
      BY <1>1, <1>6 DEF CancelCall, TypeOK, Call, Calls
    <3>3. QED
      BY <1>1, <2>1, <3>1, <3>2, FailStep
  <2>2. CASE q # r
    BY <1>1, <1>6, <2>2, OthersFrame DEF CancelCall, AttemptFails, TypeOK, Call, Calls
  <2>3. QED
    BY <2>1, <2>2
<1>7. ASSUME WorkerTakes PROVE AttemptInv(q)'
  <2>1. Head(queue) \in Calls
    BY <1>1, <1>7 DEF TypeOK, WorkerTakes
  <2>2. /\ UNCHANGED <<gen, attempt, lastError, timedOut>>
        /\ \A c \in Calls : \/ future'[c] = future[c]
                            \/ future[c] = "pending" /\ future'[c] = "running"
    BY <1>1, <1>7, <2>1 DEF WorkerTakes, TypeOK
  <2>3. ASSUME NEW a \in 0..MaxRetries
        PROVE  \/ future'[<<q, a>>] = future[<<q, a>>]
               \/ future[<<q, a>>] = "pending" /\ future'[<<q, a>>] = "running"
    BY <2>2 DEF Calls
  <2>4. QED
    BY <1>1, <2>2, <2>3 DEF AttemptInv, Call
<1>8. ASSUME NEW c \in Calls, CallEnds(c) PROVE AttemptInv(q)'
  <2>1. /\ UNCHANGED <<gen, attempt, lastError, timedOut>>
        /\ \A d \in Calls : \/ future'[d] = future[d]
                            \/ future[d] = "running" /\ future'[d] \in Outcomes
    BY <1>1, <1>8 DEF CallEnds, TypeOK
  <2>2. ASSUME NEW a \in 0..MaxRetries
        PROVE  \/ future'[<<q, a>>] = future[<<q, a>>]
               \/ future[<<q, a>>] = "running" /\ future'[<<q, a>>] \in Outcomes
    BY <2>1 DEF Calls
  <2>3. Outcomes \cap ({"none", "pending", "running"}) = {}
    BY DEF Outcomes, Unsettled
  <2>4. QED
    BY <1>1, <2>1, <2>2, <2>3 DEF AttemptInv, Call, Unsettled
<1>9. CASE UNCHANGED vars
  BY <1>1, <1>9, OthersFrame DEF vars
<1>10. QED
  BY <1>2, <1>3, <1>4, <1>5, <1>6, <1>7, <1>8, <1>9 DEF Next, RequestStep

-----------------------------------------------------------------------------
THEOREM Invariance == Spec => []IInv
<1>1. IInv /\ [Next]_vars => IInv'
  BY TypeStep, AttemptStep DEF IInv
<1>2. QED
  BY <1>1, InvInit, PTL DEF Spec

\* The type invariant of Generator, for any pool and any number of retries.
THEOREM TypeCorrect == Spec => []TypeOK
<1>1. IInv => TypeOK
  BY DEF IInv
<1>2. QED
  BY <1>1, Invariance, PTL

\* A late answer is never delivered, and error_kind is the last attempt's.
THEOREM ResultCorrect == Spec => []ResultIsLastAttempts
<1>1. IInv => ResultIsLastAttempts
  <2> SUFFICES ASSUME IInv, NEW r \in Requests, gen[r] = "failed"
               PROVE  lastError[r] =
                        IF Call(r) \in timedOut THEN "timeout"
                        ELSE IF future[Call(r)] = "blank" THEN "invalid_response"
                        ELSE future[Call(r)]
    BY DEF IInv, AttemptInv, ResultIsLastAttempts
  <2>1. \/ Call(r) \in timedOut /\ lastError[r] = "timeout"
        \/ /\ Call(r) \notin timedOut
           /\ \/ future[Call(r)] = "blank" /\ lastError[r] = "invalid_response"
              \/ future[Call(r)] \in ClientErrors /\ lastError[r] = future[Call(r)]
    BY DEF IInv, AttemptInv
  <2>2. "blank" \notin ClientErrors
    BY ErrorKinds
  <2>3. CASE Call(r) \in timedOut
    BY <2>1, <2>3
  <2>4. CASE Call(r) \notin timedOut /\ future[Call(r)] = "blank"
    BY <2>1, <2>2, <2>4
  <2>5. CASE Call(r) \notin timedOut /\ future[Call(r)] # "blank"
    BY <2>1, <2>5
  <2>6. QED
    BY <2>3, <2>4, <2>5
<1>2. QED
  BY <1>1, Invariance, PTL

\* A worker whose call nobody awaits was lost to a deadline.
THEOREM WorkersCorrect == Spec => []WorkersAccounted
<1>1. IInv => WorkersAccounted
  <2> SUFFICES ASSUME IInv, NEW c \in Calls, future[c] = "running"
               PROVE  c \in timedOut \/ (gen[c[1]] = "waiting" /\ Call(c[1]) = c)
    BY DEF WorkersAccounted, Running
  <2>1. PICK r \in Requests, a \in 0..MaxRetries : c = <<r, a>>
    BY DEF Calls
  <2>2. c \in timedOut \/ (gen[r] = "waiting" /\ attempt[r] = a)
    BY <2>1 DEF IInv, AttemptInv
  <2>3. QED
    BY <2>1, <2>2 DEF Call
<1>2. QED
  BY <1>1, Invariance, PTL

\* A call that was given up in the queue never reaches the LLM.
THEOREM WantedCorrect == Spec => OnlyWantedInvoked
<1>1. IInv /\ [Next]_vars =>
        [\A c \in invoked' \ invoked :
           gen[c[1]] \in {"waiting", "expired"} /\ Call(c[1]) = c]_vars
  <2> SUFFICES ASSUME IInv, Next, NEW c \in invoked' \ invoked
               PROVE  gen[c[1]] \in {"waiting", "expired"} /\ Call(c[1]) = c
    OBVIOUS
  <2>1. WorkerTakes
    BY DEF Next, RequestStep, BuildClient, Submit, Receive, Expire, CancelCall, CallEnds
  <2>2. c = Head(queue) /\ future[c] = "pending" /\ c \in Calls
    BY <2>1 DEF WorkerTakes, IInv, TypeOK
  <2>3. PICK r \in Requests, a \in 0..MaxRetries : c = <<r, a>>
    BY <2>2 DEF Calls
  <2>4. gen[r] \in {"waiting", "expired"} /\ attempt[r] = a
    BY <2>2, <2>3 DEF IInv, AttemptInv
  <2>5. QED
    BY <2>3, <2>4 DEF Call
<1>2. QED
  BY <1>1, Invariance, PTL DEF Spec, OnlyWantedInvoked
=============================================================================
