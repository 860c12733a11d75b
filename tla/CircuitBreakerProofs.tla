------------------------- MODULE CircuitBreakerProofs -------------------------
(***************************************************************************)
(* Safety of the circuit breaker, for any finite set of coroutines and any *)
(* positive threshold and slot count.                                      *)
(***************************************************************************)
EXTENDS CircuitBreaker, FiniteSetTheorems, TLAPS

(* What every step keeps; SlotsBacked is not part of it because it depends *)
(* on CancelProbes and is proved relative to it.                           *)
BreakerInv == TypeOK /\ OpenIffThreshold /\ SlotsOnlyHalfOpen

-----------------------------------------------------------------------------
(* The initial state and every step of the breaker keep BreakerInv.        *)

(* A new breaker is closed, with no failures and no slots taken.           *)
LEMMA InitBreakerInv == Init => BreakerInv
  BY BreakerAssumption
  DEF BreakerAssumption, Init, BreakerInv, TypeOK, OpenIffThreshold,
      SlotsOnlyHalfOpen

(* Each step keeps the threshold, the state and the slots together.        *)
LEMMA NextBreakerInv == BreakerInv /\ [Next]_vars => BreakerInv'
<1> SUFFICES ASSUME BreakerInv, [Next]_vars
             PROVE  BreakerInv'
  OBVIOUS
<1> USE BreakerAssumption
    DEF BreakerAssumption, BreakerInv, TypeOK, OpenIffThreshold,
        SlotsOnlyHalfOpen, state, breaker
<1>1. ASSUME NEW c \in Calls, AdmitClosed(c) PROVE BreakerInv'
  BY <1>1 DEF AdmitClosed
<1>2. ASSUME NEW c \in Calls, AdmitProbe(c) PROVE BreakerInv'
  BY <1>2 DEF AdmitProbe
<1>3. ASSUME NEW c \in Calls, Succeed(c) PROVE BreakerInv'
  <2>1. CASE state = "HALF_OPEN" BY <1>3, <2>1 DEF Succeed
  <2>2. CASE state # "HALF_OPEN" BY <1>3, <2>2 DEF Succeed
  <2>3. QED BY <2>1, <2>2
<1>4. ASSUME NEW c \in Calls, Fail(c) PROVE BreakerInv'
  <2>1. /\ failure_count' = failure_count + 1
        /\ _state' = IF failure_count' >= failure_threshold THEN "OPEN" ELSE _state
        /\ half_open_calls' = 0
    BY <1>4 DEF Fail
  <2>2. TypeOK'
    <3>1. healthy' \in BOOLEAN /\ elapsed' \in BOOLEAN BY <1>4, Zenon DEF Fail
    <3>2. running' \in [Calls -> {"none", "ordinary", "probe"}] BY <1>4 DEF Fail
    <3>3. QED BY <2>1, <3>1, <3>2
  <2>3. OpenIffThreshold' BY <2>1
  <2>4. SlotsOnlyHalfOpen' BY <2>1
  <2>5. QED BY <2>2, <2>3, <2>4
<1>5. ASSUME NEW c \in Calls, Cancel(c) PROVE BreakerInv'
  BY <1>5 DEF Cancel
<1>6. CASE reset BY <1>6 DEF reset
<1>7. CASE Elapse BY <1>7 DEF Elapse
<1>8. CASE Recover BY <1>8 DEF Recover
<1>9. CASE UNCHANGED vars BY <1>9 DEF vars
<1>10. QED
  BY <1>1, <1>2, <1>3, <1>4, <1>5, <1>6, <1>7, <1>8, <1>9 DEF Next

(* BreakerInv holds in every reachable state.                              *)
LEMMA AlwaysBreakerInv == Spec => []BreakerInv
  BY InitBreakerInv, NextBreakerInv, PTL DEF Spec

(* The breaker's fields and the calls in flight keep their types (call,    *)
(* _on_success, _on_failure, reset).                                       *)
THEOREM BreakerTyped == Spec => []TypeOK
<1>1. BreakerInv => TypeOK BY DEF BreakerInv
<1>2. QED BY <1>1, AlwaysBreakerInv, PTL

(* The breaker is tripped exactly while the failures recorded since it     *)
(* last closed reach the threshold (_on_success, _on_failure, reset).      *)
THEOREM TrippedAtThreshold == Spec => []OpenIffThreshold
<1>1. BreakerInv => OpenIffThreshold BY DEF BreakerInv
<1>2. QED BY <1>1, AlwaysBreakerInv, PTL

(* Probe slots stay within half_open_max_calls and are held only while the *)
(* breaker reads HALF_OPEN (call, _on_success, _on_failure).               *)
THEOREM SlotsAreProbesOnly == Spec => []SlotsOnlyHalfOpen
<1>1. BreakerInv => SlotsOnlyHalfOpen BY DEF BreakerInv
<1>2. QED BY <1>1, AlwaysBreakerInv, PTL

-----------------------------------------------------------------------------
(* Starting or ending one call moves the number of probes by at most one.  *)

(* One more call awaits a probe.                                           *)
LEMMA ProbeAdded ==
  ASSUME NEW c \in Calls, TypeOK, running[c] = "none",
         running' = [running EXCEPT ![c] = "probe"]
  PROVE  Cardinality(Probes') = Cardinality(Probes) + 1
<1>1. Probes' = Probes \cup {c} BY DEF Probes, TypeOK
<1>2. IsFiniteSet(Probes)
  BY BreakerAssumption, FS_Subset DEF Probes, BreakerAssumption
<1>3. c \notin Probes BY DEF Probes
<1>4. QED BY <1>1, <1>2, <1>3, FS_AddElement

(* The probes in flight are finitely many.                                 *)
LEMMA ProbesCounted == Cardinality(Probes) \in Nat
  BY BreakerAssumption, FS_Subset, FS_CardinalityType
  DEF Probes, BreakerAssumption

(* A step that takes a slot starts a probe, and one that ends a probe      *)
(* clears the slots.                                                       *)
LEMMA NextSlotsBacked ==
  ASSUME ~CancelProbes, BreakerInv, BreakerInv', SlotsBacked, [Next]_vars
  PROVE  SlotsBacked'
<1> USE DEF BreakerInv, TypeOK, SlotsBacked
<1>0. half_open_calls' = 0 => SlotsBacked'
  BY ProbesCounted, BreakerAssumption, FS_Subset, FS_CardinalityType
  DEF Probes, BreakerAssumption
<1>1. ASSUME NEW c \in Calls, AdmitClosed(c) PROVE SlotsBacked'
  <2>1. Probes' = Probes BY <1>1 DEF AdmitClosed, Probes
  <2>2. QED BY <1>1, <2>1 DEF AdmitClosed, breaker
<1>2. ASSUME NEW c \in Calls, AdmitProbe(c) PROVE SlotsBacked'
  <2>1. Cardinality(Probes') = Cardinality(Probes) + 1
    BY <1>2, ProbeAdded DEF AdmitProbe
  <2>2. QED BY <1>2, <2>1, ProbesCounted DEF AdmitProbe
<1>3. ASSUME NEW c \in Calls, Succeed(c) PROVE SlotsBacked'
  \* Outside HALF_OPEN no slot is held, so the caller held none.
  <2>1. half_open_calls' = 0
    BY <1>3, BreakerAssumption DEF Succeed, SlotsOnlyHalfOpen, BreakerAssumption
  <2>2. QED BY <1>0, <2>1
<1>4. ASSUME NEW c \in Calls, Fail(c) PROVE SlotsBacked'
  BY <1>0, <1>4 DEF Fail
<1>5. ASSUME NEW c \in Calls, Cancel(c) PROVE SlotsBacked'
  <2>1. Probes' = Probes BY <1>5 DEF Cancel, Probes
  <2>2. QED BY <1>5, <2>1 DEF Cancel, breaker
<1>6. CASE reset BY <1>0, <1>6 DEF reset
<1>7. CASE Elapse BY <1>7 DEF Elapse, Probes
<1>8. CASE Recover BY <1>8 DEF Recover, Probes, breaker
<1>9. CASE UNCHANGED vars BY <1>9 DEF vars, Probes, breaker
<1>10. QED
  BY <1>1, <1>2, <1>3, <1>4, <1>5, <1>6, <1>7, <1>8, <1>9 DEF Next

(* When no caller is cancelled while it awaits a probe, every slot of the  *)
(* half-open state belongs to a probe whose result is still to come.       *)
THEOREM SlotsAreBacked == ~CancelProbes => (Spec => []SlotsBacked)
<1> SUFFICES ASSUME ~CancelProbes PROVE Spec => []SlotsBacked
  OBVIOUS
<1>1. Init => SlotsBacked
  BY ProbesCounted DEF Init, SlotsBacked
<1>2. BreakerInv /\ BreakerInv' /\ SlotsBacked /\ [Next]_vars => SlotsBacked'
  BY NextSlotsBacked
<1>3. QED BY <1>1, <1>2, InitBreakerInv, NextBreakerInv, PTL DEF Spec
=============================================================================
