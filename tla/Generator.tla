----------------------------- MODULE Generator -----------------------------
(***************************************************************************)
(* AnswerGenerator.generate (generation/generator.py), called by several   *)
(* request threads at once: every attempt is a call submitted to the one   *)
(* _TIMEOUT_EXECUTOR, awaited up to a deadline, and retried.               *)
(*                                                                         *)
(* A call is <<request, attempt>>.  The pool's worker threads are not told *)
(* apart: a worker is a call that runs.  The LLM may answer at any time,   *)
(* or never; the deadline of a wait may pass at any time before that.      *)
(***************************************************************************)
EXTENDS Naturals, Sequences, FiniteSets

CONSTANTS
  Requests,      \* calls of generate
  Workers,       \* max_workers of _TIMEOUT_EXECUTOR
  MaxRetries,    \* max_retries of the generators
  ClientErrors,  \* kinds that the LLM client's own exceptions classify as
  ClientMayFail  \* may the construction of the LLM client raise

ErrorKind == {"timeout", "rate_limit", "auth", "invalid_response", "api_error"}

ASSUME GeneratorAssumption ==
  /\ Workers \in Nat \ {0}
  /\ MaxRetries \in Nat
  /\ ClientErrors \subseteq ErrorKind
  /\ ClientMayFail \in BOOLEAN

VARIABLES
  gen,      \* where each call of generate is
  attempt,  \* its attempt
  lastError, \* error_kind of its last failed attempt, or "none"
  future,   \* the future of each call: its state, or how it came out
  queue,    \* the pool's work queue
  invoked,  \* calls for which a worker invoked the LLM
  timedOut  \* calls whose deadline passed

vars == <<gen, attempt, lastError, future, queue, invoked, timedOut>>

-----------------------------------------------------------------------------
Calls     == Requests \X (0..MaxRetries)
Call(r)   == <<r, attempt[r]>>
Unsettled == {"pending", "running"}
Outcomes  == {"text", "blank"} \cup ClientErrors
Running   == {c \in Calls : future[c] = "running"}

GoGen(r, to)     == gen' = [gen EXCEPT ![r] = to]
SetFuture(c, to) == future' = [future EXCEPT ![c] = to]

Init ==
  /\ gen       = [r \in Requests |-> "new"]
  /\ attempt   = [r \in Requests |-> 0]
  /\ lastError = [r \in Requests |-> "none"]
  /\ future    = [c \in Calls |-> "none"]
  /\ queue     = <<>>
  /\ invoked   = {}
  /\ timedOut  = {}

-----------------------------------------------------------------------------
(* The request's thread: generate and _invoke_with_timeout.                *)

\* _build_llm_client, before and outside the try of the attempts.
BuildClient(r) ==
  /\ gen[r] = "new"
  /\ GoGen(r, "ready") \/ (ClientMayFail /\ GoGen(r, "raised"))
  /\ UNCHANGED <<attempt, lastError, future, queue, invoked, timedOut>>

Submit(r) ==
  /\ gen[r] = "ready"
  /\ GoGen(r, "waiting")
  /\ SetFuture(Call(r), "pending")
  /\ queue' = Append(queue, Call(r))
  /\ UNCHANGED <<attempt, lastError, invoked, timedOut>>

\* Mutant: the first error is kept.
AttemptFailsFirst(r, kind) ==
  /\ lastError' = [lastError EXCEPT ![r] = IF @ = "none" THEN kind ELSE @]
  /\ IF attempt[r] < MaxRetries
     THEN GoGen(r, "ready") /\ attempt' = [attempt EXCEPT ![r] = @ + 1]
     ELSE GoGen(r, "failed") /\ UNCHANGED attempt

\* The except clause of the loop: the next attempt, or the failure result.
AttemptFails(r, kind) ==
  /\ lastError' = [lastError EXCEPT ![r] = kind]
  /\ IF attempt[r] < MaxRetries
     THEN GoGen(r, "ready") /\ attempt' = [attempt EXCEPT ![r] = @ + 1]
     ELSE GoGen(r, "failed") /\ UNCHANGED attempt

\* Mutant: a call that still runs counts as a failed attempt.
ReceiveEarly(r) ==
  /\ gen[r] = "waiting"
  /\ future[Call(r)] \in Unsettled
  /\ AttemptFails(r, "api_error")
  /\ UNCHANGED <<future, queue, invoked, timedOut>>

\* future.result returns or raises what the worker left in the future; a
\* blank text is an error of its own.
Receive(r) ==
  /\ gen[r] = "waiting"
  /\ \/ /\ future[Call(r)] = "text"
        /\ GoGen(r, "answered")
        /\ UNCHANGED <<attempt, lastError>>
     \/ /\ future[Call(r)] = "blank"
        /\ AttemptFails(r, "invalid_response")
     \/ /\ future[Call(r)] \in ClientErrors
        /\ AttemptFails(r, future[Call(r)])
  /\ UNCHANGED <<future, queue, invoked, timedOut>>

\* Mutant: the deadline counts from when a worker takes the call.
ExpireRunning(r) ==
  /\ gen[r] = "waiting"
  /\ future[Call(r)] = "running"
  /\ GoGen(r, "expired")
  /\ timedOut' = timedOut \cup {Call(r)}
  /\ UNCHANGED <<attempt, lastError, future, queue, invoked>>

\* future.result gives up; the worker may take or end the call before cancel.
Expire(r) ==
  /\ gen[r] = "waiting"
  /\ future[Call(r)] \in Unsettled
  /\ GoGen(r, "expired")
  /\ timedOut' = timedOut \cup {Call(r)}
  /\ UNCHANGED <<attempt, lastError, future, queue, invoked>>

\* Mutant: the queued call is not cancelled.
LeaveCall(r) ==
  /\ gen[r] = "expired"
  /\ AttemptFails(r, "timeout")
  /\ UNCHANGED <<future, queue, invoked, timedOut>>

\* future.cancel only stops a call that no worker took; it stays in the queue.
CancelCall(r) ==
  /\ gen[r] = "expired"
  /\ IF future[Call(r)] = "pending" THEN SetFuture(Call(r), "cancelled")
                                    ELSE UNCHANGED future
  /\ AttemptFails(r, "timeout")
  /\ UNCHANGED <<queue, invoked, timedOut>>

-----------------------------------------------------------------------------
(* The pool's threads.                                                     *)

\* An idle worker takes the head of the queue, and drops it if cancelled.
WorkerTakes ==
  /\ queue # <<>>
  /\ Cardinality(Running) < Workers
  /\ queue' = Tail(queue)
  /\ IF future[Head(queue)] = "pending"
     THEN /\ SetFuture(Head(queue), "running")
          /\ invoked' = invoked \cup {Head(queue)}
     ELSE UNCHANGED <<future, invoked>>
  /\ UNCHANGED <<gen, attempt, lastError, timedOut>>

\* The LLM answers or raises, and the worker is idle again.
CallEnds(c) ==
  /\ future[c] = "running"
  /\ \E outcome \in Outcomes : SetFuture(c, outcome)
  /\ UNCHANGED <<gen, attempt, lastError, queue, invoked, timedOut>>

-----------------------------------------------------------------------------
RequestStep(r) ==
  BuildClient(r) \/ Submit(r) \/ Receive(r) \/ Expire(r) \/ CancelCall(r)

Next ==
  \/ \E r \in Requests : RequestStep(r)
  \/ WorkerTakes
  \/ \E c \in Calls : CallEnds(c)

Spec == Init /\ [][Next]_vars

\* A request's thread runs on, and its deadline passes if nothing else happens.
\* Nothing is assumed of the LLM, nor of the workers that wait for it.
FairSpec == Spec /\ \A r \in Requests : WF_vars(RequestStep(r))

-----------------------------------------------------------------------------
(* Properties.                                                             *)

Returned == {"answered", "failed"}

\* Every variable holds a value the code can give it.
TypeOK ==
  /\ gen \in [Requests -> {"new", "ready", "waiting", "expired", "raised"} \cup Returned]
  /\ attempt \in [Requests -> 0..MaxRetries]
  /\ lastError \in [Requests -> ErrorKind \cup {"none"}]
  /\ future \in [Calls -> {"none", "cancelled"} \cup Unsettled \cup Outcomes]
  /\ queue \in Seq(Calls)
  /\ invoked \subseteq Calls /\ timedOut \subseteq Calls

\* A result is that of the last attempt.  An answer that came in after its
\* deadline is not delivered, not even while a later attempt is under way,
\* and error_kind tells why the last attempt failed.
ResultIsLastAttempts ==
  \A r \in Requests :
    /\ gen[r] = "answered" => future[Call(r)] = "text" /\ Call(r) \notin timedOut
    /\ gen[r] = "failed" =>
         /\ attempt[r] = MaxRetries
         /\ lastError[r] =
              IF Call(r) \in timedOut THEN "timeout"
              ELSE IF future[Call(r)] = "blank" THEN "invalid_response"
              ELSE future[Call(r)]

\* An abandoned worker is the price of a passed deadline and of nothing else:
\* whatever holds a worker is awaited by its request, or its wait timed out.
WorkersAccounted ==
  \A c \in Running : c \in timedOut \/ (gen[c[1]] = "waiting" /\ Call(c[1]) = c)

\* The LLM is never called, nor billed, for an attempt that was given up while
\* it was queued, however late a worker gets to it.
OnlyWantedInvoked ==
  [][\A c \in invoked' \ invoked :
       gen[c[1]] \in {"waiting", "expired"} /\ Call(c[1]) = c]_vars

\* generate gives up by its deadlines: it returns, even if every worker hangs
\* in the LLM for ever and the call was never started.
GenerateReturns ==
  \A r \in Requests : gen[r] # "new" ~> gen[r] \in Returned \cup {"raised"}

\* generate never raises for a failure of the call, a missing API key among
\* them; such failures are results.
NeverRaises == \A r \in Requests : gen[r] # "raised"
=============================================================================
