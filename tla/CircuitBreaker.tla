---------------------------- MODULE CircuitBreaker ----------------------------
(***************************************************************************)
(* One CircuitBreaker object shared by the coroutines of a process         *)
(* (packages/common/resilience/circuit_breaker.py).  The bodies guarded by *)
(* the breaker's asyncio.Lock contain no await, so on one event loop each  *)
(* of them is a single step; the awaited function runs between the entry   *)
(* step and the step that records its outcome, and any number of calls     *)
(* may be suspended there.                                                 *)
(*                                                                         *)
(* The clock is kept as the one bit the code reads from it: whether more   *)
(* than recovery_timeout has passed since the last recorded failure.  A    *)
(* rejected call changes nothing and is a stuttering step.  success_count  *)
(* feeds a statistics page only and is left out.                           *)
(***************************************************************************)
EXTENDS Naturals, FiniteSets

CONSTANTS
  Calls,               (* the coroutines that use the breaker              *)
  failure_threshold,   (* recorded failures that trip the breaker          *)
  half_open_max_calls, (* probe slots of the half-open state               *)
  CancelProbes,        (* may a caller be cancelled while awaiting a probe *)
  MaxFailures          (* bound: failures recorded since the last close    *)

ASSUME BreakerAssumption ==
  /\ IsFiniteSet(Calls)
  /\ failure_threshold \in Nat \ {0}
  /\ half_open_max_calls \in Nat \ {0}
  /\ CancelProbes \in BOOLEAN
  /\ MaxFailures \in Nat

VARIABLES
  _state,           (* stored state: "CLOSED" or "OPEN", never "HALF_OPEN" *)
  failure_count,
  half_open_calls,  (* probe slots taken                                   *)
  elapsed,          (* time.time() - last_failure_time > recovery_timeout  *)
  running,          (* what each coroutine awaits: nothing, or a function
                       admitted as an ordinary call or as a probe          *)
  healthy           (* environment: the downstream no longer fails         *)

breaker == <<_state, failure_count, half_open_calls, elapsed>>
vars == <<breaker, running, healthy>>

TypeOK ==
  /\ _state \in {"CLOSED", "OPEN"}
  /\ failure_count \in Nat
  /\ half_open_calls \in Nat
  /\ elapsed \in BOOLEAN
  /\ running \in [Calls -> {"none", "ordinary", "probe"}]
  /\ healthy \in BOOLEAN

\* The property `state`: HALF_OPEN exists only as a reading of OPEN.
state ==
  IF _state = "OPEN" /\ elapsed THEN "HALF_OPEN" ELSE _state

Probes == {c \in Calls : running[c] = "probe"}

Init ==
  /\ _state = "CLOSED"
  /\ failure_count = 0
  /\ half_open_calls = 0
  /\ elapsed = TRUE          \* _last_failure_time starts at 0.0
  /\ running = [c \in Calls |-> "none"]
  /\ healthy \in BOOLEAN

-----------------------------------------------------------------------------
(* Plausible bugs: each stands in for one action below, to show that the   *)
(* properties notice it.                                                   *)

\* _on_success forgets failure_count.
SucceedKeepsFailures(c) ==
  /\ running[c] # "none"
  /\ running' = [running EXCEPT ![c] = "none"]
  /\ IF state = "HALF_OPEN"
     THEN _state' = "CLOSED" /\ half_open_calls' = 0
     ELSE UNCHANGED <<_state, half_open_calls>>
  /\ UNCHANGED <<failure_count, elapsed, healthy>>

\* _on_success forgets half_open_calls.
SucceedKeepsSlots(c) ==
  /\ running[c] # "none"
  /\ running' = [running EXCEPT ![c] = "none"]
  /\ IF state = "HALF_OPEN"
     THEN _state' = "CLOSED" /\ failure_count' = 0
     ELSE UNCHANGED <<_state, failure_count>>
  /\ UNCHANGED <<half_open_calls, elapsed, healthy>>

\* _on_failure forgets half_open_calls.
FailKeepsSlots(c) ==
  /\ running[c] # "none" /\ ~healthy /\ failure_count < MaxFailures
  /\ running' = [running EXCEPT ![c] = "none"]
  /\ failure_count' = failure_count + 1
  /\ elapsed' = FALSE
  /\ _state' = IF failure_count' >= failure_threshold THEN "OPEN" ELSE _state
  /\ UNCHANGED <<half_open_calls, healthy>>

\* call() stores the derived state when it admits a probe.
AdmitProbeStores(c) ==
  /\ running[c] = "none"
  /\ state = "HALF_OPEN"
  /\ half_open_calls < half_open_max_calls
  /\ half_open_calls' = half_open_calls + 1
  /\ running' = [running EXCEPT ![c] = "probe"]
  /\ _state' = state
  /\ UNCHANGED <<failure_count, elapsed, healthy>>

-----------------------------------------------------------------------------
(* call(): the section under the lock, up to the await of the function.    *)

AdmitClosed(c) ==
  /\ running[c] = "none"
  /\ state = "CLOSED"
  /\ running' = [running EXCEPT ![c] = "ordinary"]
  /\ UNCHANGED <<breaker, healthy>>

AdmitProbe(c) ==
  /\ running[c] = "none"
  /\ state = "HALF_OPEN"
  /\ half_open_calls < half_open_max_calls
  /\ half_open_calls' = half_open_calls + 1
  /\ running' = [running EXCEPT ![c] = "probe"]
  /\ UNCHANGED <<_state, failure_count, elapsed, healthy>>

(* _on_success: whichever call returns while the breaker reads HALF_OPEN   *)
(* closes it; a success in CLOSED does not clear failure_count.            *)
Succeed(c) ==
  /\ running[c] # "none"
  /\ running' = [running EXCEPT ![c] = "none"]
  /\ \/ /\ state = "HALF_OPEN"
        /\ _state' = "CLOSED"
        /\ failure_count' = 0
        /\ half_open_calls' = 0
     \/ /\ state # "HALF_OPEN"
        /\ UNCHANGED <<_state, failure_count, half_open_calls>>
  /\ UNCHANGED <<elapsed, healthy>>

(* _on_failure: restarts the recovery clock and frees every probe slot,    *)
(* whichever call failed and whichever state it was admitted in.           *)
Fail(c) ==
  /\ running[c] # "none"
  /\ ~healthy
  /\ failure_count < MaxFailures
  /\ running' = [running EXCEPT ![c] = "none"]
  /\ failure_count' = failure_count + 1
  /\ elapsed' = FALSE
  /\ half_open_calls' = 0
  /\ _state' = IF failure_count' >= failure_threshold THEN "OPEN" ELSE _state
  /\ UNCHANGED healthy

(* asyncio.CancelledError is not an Exception: neither handler runs.       *)
Cancel(c) ==
  /\ running[c] = "ordinary" \/ (CancelProbes /\ running[c] = "probe")
  /\ running' = [running EXCEPT ![c] = "none"]
  /\ UNCHANGED <<breaker, healthy>>

reset ==
  /\ _state' = "CLOSED"
  /\ failure_count' = 0
  /\ half_open_calls' = 0
  /\ UNCHANGED <<elapsed, running, healthy>>

-----------------------------------------------------------------------------
(* The environment: time passes, the downstream recovers for good.         *)

Elapse ==
  /\ ~elapsed
  /\ elapsed' = TRUE
  /\ UNCHANGED <<_state, failure_count, half_open_calls, running, healthy>>

Recover ==
  /\ ~healthy
  /\ healthy' = TRUE
  /\ UNCHANGED <<breaker, running>>

Next ==
  \/ \E c \in Calls : \/ AdmitClosed(c)
                      \/ AdmitProbe(c)
                      \/ Succeed(c)
                      \/ Fail(c)
                      \/ Cancel(c)
  \/ reset
  \/ Elapse
  \/ Recover

(* Time passes, an awaited call returns, and callers keep calling; nothing *)
(* is assumed of failures, of cancellation, of reset or of recovery.       *)
Fairness ==
  /\ WF_vars(Elapse)
  /\ \A c \in Calls : /\ WF_vars(AdmitProbe(c))
                      /\ WF_vars(Succeed(c))

Spec == Init /\ [][Next]_vars /\ Fairness

-----------------------------------------------------------------------------
(* The breaker is tripped exactly when the failures recorded since it last *)
(* closed reach the threshold: no interleaving of late results leaves it   *)
(* open under the threshold or closed at it (_on_success, _on_failure).    *)
OpenIffThreshold == _state = "OPEN" <=> failure_count >= failure_threshold

(* Probe slots are bounded, and a slot is taken only while the breaker     *)
(* reads HALF_OPEN: whatever ends the half-open period has cleared them.   *)
SlotsOnlyHalfOpen ==
  /\ half_open_calls <= half_open_max_calls
  /\ half_open_calls > 0 => state = "HALF_OPEN"

(* Every probe slot is backed by a probe that is still awaited, so that a  *)
(* half-open breaker is never shut with nobody left to report a result.    *)
(* It needs callers that are not cancelled while they await a probe.       *)
SlotsBacked == half_open_calls <= Cardinality(Probes)

(* "auto-recover after a cooldown": once the downstream stays healthy and  *)
(* callers keep calling, the breaker is closed again, and then for good.   *)
AutoRecover == healthy ~> [](_state = "CLOSED")

(* HALF_OPEN "allows 1 probe request": never more probes in flight than    *)
(* the half-open state has slots.                                          *)
SingleProbe == Cardinality(Probes) <= half_open_max_calls

=============================================================================
