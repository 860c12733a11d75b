---------------------------- MODULE ResilientCall ----------------------------
(***************************************************************************)
(* A function under the whole stack of packages/common/resilience, in the  *)
(* order of the package's quick start:                                     *)
(*                                                                         *)
(*   circuit_breaker ( retry_with_policy ( timeout ( async with bulkhead)))*)
(*                                                                         *)
(* The breaker is the module CircuitBreaker, whose downstream may fail     *)
(* here at any time.  One breaker call makes up to max_attempts attempts;  *)
(* each attempt is cut off by wait_for, which cancels it wherever it is    *)
(* suspended: waiting for a permit of the bulkhead or inside the body.     *)
(*                                                                         *)
(* One event loop: a step runs from one await to the next.  The bulkhead's *)
(* _lock is never held over an await, so it is never waited for; _semaphore *)
(* is never acquired.  A permit released while callers wait is handed to   *)
(* one of them; until that one resumes it is counted as free here, and a   *)
(* waiter that is cancelled in between gives it back (asyncio.Semaphore).  *)
(***************************************************************************)
EXTENDS Naturals, FiniteSets

CONSTANTS
  Calls, failure_threshold, half_open_max_calls, CancelProbes,
  MaxFailures,               (* bound: no call is admitted that could make
                                the breaker count more failures            *)
  max_attempts,              (* RetryPolicy                                *)
  max_concurrent, max_queue  (* SemaphoreBulkhead                          *)

ASSUME ResilienceAssumption ==
  /\ IsFiniteSet(Calls)
  /\ failure_threshold \in Nat \ {0} /\ half_open_max_calls \in Nat \ {0}
  /\ CancelProbes \in BOOLEAN /\ MaxFailures \in Nat
  /\ max_attempts \in Nat \ {0}
  /\ max_concurrent \in Nat \ {0} /\ max_queue \in Nat

VARIABLES
  _state, failure_count, half_open_calls, elapsed, running,
  healthy,           (* as in CircuitBreaker; healthy stays FALSE here     *)
  stage,             (* where the current attempt of each call is          *)
  attempt,           (* its number                                         *)
  _queue_semaphore,  (* permits left                                       *)
  _active

Breaker == INSTANCE CircuitBreaker

breaker  == <<_state, failure_count, half_open_calls, elapsed, running, healthy>>
bulkhead == <<_queue_semaphore, _active>>
vars     == <<breaker, bulkhead, stage, attempt>>

Permits == max_concurrent + max_queue

TypeOK ==
  /\ Breaker!TypeOK
  /\ stage \in [Calls -> {"idle", "queued", "body", "backoff"}]
  /\ attempt \in [Calls -> 0..max_attempts]
  /\ _queue_semaphore \in 0..Permits
  /\ _active \in 0..Permits

Init ==
  /\ Breaker!Init /\ ~healthy
  /\ stage = [c \in Calls |-> "idle"]
  /\ attempt = [c \in Calls |-> 0]
  /\ _queue_semaphore = Permits
  /\ _active = 0

In(s) == {c \in Calls : stage[c] = s}

Ends(c) ==
  /\ stage' = [stage EXCEPT ![c] = "idle"]
  /\ attempt' = [attempt EXCEPT ![c] = 0]

-----------------------------------------------------------------------------
(* Plausible bugs: each stands in for one definition below, to show that   *)
(* the properties notice it.                                               *)

\* Both semaphores' permits are released, as before "FIX v0.1 (P0)".
aexitTwice(c) ==
  IF stage[c] = "body"
  THEN /\ _queue_semaphore' = _queue_semaphore + 2
       /\ _active' = IF _active = 0 THEN 0 ELSE _active - 1
  ELSE UNCHANGED bulkhead

\* __aexit__ releases whatever __aenter__ got to.
aexitAlways(c) ==
  /\ _queue_semaphore' = IF stage[c] \in {"queued", "body"}
                         THEN _queue_semaphore + 1 ELSE _queue_semaphore
  /\ _active' = IF stage[c] = "body" THEN _active - 1 ELSE _active

\* range(max_attempts) starts over after each failure.
BackoffAgain(c) ==
  /\ stage' = [stage EXCEPT ![c] = "backoff"]
  /\ attempt' = [attempt EXCEPT ![c] = 0]
  /\ UNCHANGED breaker

\* The timeout is put outside the circuit breaker and cancels its call.
TimesOutOutside(c) ==
  /\ stage[c] \in {"queued", "body"}
  /\ IF stage[c] = "body"
     THEN _queue_semaphore' = _queue_semaphore + 1 /\ _active' = _active - 1
     ELSE UNCHANGED bulkhead
  /\ Ends(c)
  /\ running' = [running EXCEPT ![c] = "none"]
  /\ UNCHANGED <<_state, failure_count, half_open_calls, elapsed, healthy>>

-----------------------------------------------------------------------------
(* SemaphoreBulkhead.__aenter__ and __aexit__.                             *)

\* A free permit is taken without suspending, unless others wait already.
aenter(c) ==
  \/ /\ _queue_semaphore > 0 /\ In("queued") = {}
     /\ stage' = [stage EXCEPT ![c] = "body"]
     /\ _queue_semaphore' = _queue_semaphore - 1
     /\ _active' = _active + 1
  \/ /\ _queue_semaphore = 0 \/ In("queued") # {}
     /\ stage' = [stage EXCEPT ![c] = "queued"]
     /\ UNCHANGED bulkhead

\* Runs however the body is left, and only if it was entered.
aexit(c) ==
  IF stage[c] = "body"
  THEN /\ _queue_semaphore' = _queue_semaphore + 1
       /\ _active' = IF _active = 0 THEN 0 ELSE _active - 1
  ELSE UNCHANGED bulkhead

-----------------------------------------------------------------------------
(* retry_with_policy: what follows an exception of an attempt.             *)

Backoff(c) ==
  /\ stage' = [stage EXCEPT ![c] = "backoff"]
  /\ UNCHANGED <<attempt, breaker>>

GiveUp(c) == Ends(c) /\ Breaker!Fail(c)

Raises(c, retryable) ==
  /\ aexit(c)
  /\ \/ retryable /\ attempt[c] < max_attempts /\ Backoff(c)
     \/ ~(retryable /\ attempt[c] < max_attempts) /\ GiveUp(c)

-----------------------------------------------------------------------------
(* A call rejected by the breaker changes nothing; one that is admitted    *)
(* goes on to its first attempt.                                           *)
Enter(c) ==
  /\ stage[c] = "idle"
  /\ failure_count + Cardinality(Calls \ In("idle")) < MaxFailures
  /\ Breaker!AdmitClosed(c) \/ Breaker!AdmitProbe(c)
  /\ attempt' = [attempt EXCEPT ![c] = 1]
  /\ aenter(c)

Acquire(c) ==
  /\ stage[c] = "queued" /\ _queue_semaphore > 0
  /\ stage' = [stage EXCEPT ![c] = "body"]
  /\ _queue_semaphore' = _queue_semaphore - 1
  /\ _active' = _active + 1
  /\ UNCHANGED <<breaker, attempt>>

Returns(c) ==
  /\ stage[c] = "body"
  /\ aexit(c)
  /\ Ends(c)
  /\ Breaker!Succeed(c)

BodyRaises(c) ==
  /\ stage[c] = "body"
  /\ \E retryable \in BOOLEAN : Raises(c, retryable)

(* The wait for a permit ends in BulkheadFullError, which no policy        *)
(* retries: the breaker counts it as a failure of the downstream.          *)
BulkheadFull(c) == stage[c] = "queued" /\ Raises(c, FALSE)

(* wait_for cancels the attempt; HSAAITimeoutError is a TimeoutError,      *)
(* which every policy retries.                                             *)
TimesOut(c) == stage[c] \in {"queued", "body"} /\ Raises(c, TRUE)

(* asyncio.sleep(delay) is over: the next attempt does not ask the breaker.*)
Wake(c) ==
  /\ stage[c] = "backoff"
  /\ attempt' = [attempt EXCEPT ![c] = @ + 1]
  /\ aenter(c)
  /\ UNCHANGED breaker

(* The caller is cancelled from outside, wherever the call is suspended.   *)
Cancel(c) ==
  /\ stage[c] # "idle"
  /\ aexit(c)
  /\ Ends(c)
  /\ Breaker!Cancel(c)

Next ==
  \/ \E c \in Calls : \/ Enter(c) \/ Acquire(c) \/ Returns(c)
                      \/ BodyRaises(c) \/ BulkheadFull(c) \/ TimesOut(c)
                      \/ Wake(c) \/ Cancel(c)
  \/ Breaker!Elapse /\ UNCHANGED <<bulkhead, stage, attempt>>
  \/ Breaker!reset /\ UNCHANGED <<bulkhead, stage, attempt>>

(* Timers fire.  Nothing is assumed of the body, which may hang, or of     *)
(* permits being released.                                                 *)
Fairness == \A c \in Calls : WF_vars(TimesOut(c)) /\ WF_vars(Wake(c))

Spec == Init /\ [][Next]_vars /\ Fairness

-----------------------------------------------------------------------------
(* No permit is lost and none invented: each is free or with exactly one   *)
(* attempt inside the body, and _active counts those attempts.  Whichever  *)
(* way an attempt ends (return, error, timeout, cancellation, while queued *)
(* or inside), __aexit__ gives back what __aenter__ took, once.  How many  *)
(* permits there should be is another question: AtMostMaxConcurrent.       *)
PermitsConserved ==
  /\ _queue_semaphore + Cardinality(In("body")) = Permits
  /\ _active = Cardinality(In("body"))

(* "Limits how many concurrent calls can be active", "Excess calls either  *)
(* wait": at most max_concurrent attempts are inside the body, and up to   *)
(* max_queue wait.  The code's one semaphore admits them all, since        *)
(* _semaphore is never acquired (SemaphoreBulkhead).                       *)
AtMostMaxConcurrent == Cardinality(In("body")) <= max_concurrent

(* The cancellations the stack makes itself never cost the breaker a probe *)
(* slot: timeout() and the bulkhead turn them into exceptions before they  *)
(* reach CircuitBreaker.call.  Callers cancelled from outside while they   *)
(* probe are the exception (CancelProbes).                                 *)
SlotsBacked == Breaker!SlotsBacked

(* Every call comes to an end, even if the downstream never answers and    *)
(* no permit is ever free.                                                 *)
EveryCallEnds == \A c \in Calls : stage[c] # "idle" ~> stage[c] = "idle"

=============================================================================
