------------------------- MODULE ResilientCallProofs -------------------------
(***************************************************************************)
(* Safety of a function under the whole resilience stack, for any finite   *)
(* set of calls, any thresholds, any number of attempts and any bulkhead.  *)
(* The stack moves the breaker only by the breaker's own steps, so what is *)
(* proved of the breaker in CircuitBreakerProofs carries over.             *)
(***************************************************************************)
EXTENDS ResilientCall, FiniteSetTheorems, TLAPS

BreakerFacts == INSTANCE CircuitBreakerProofs

-----------------------------------------------------------------------------
(* A call is somewhere in the stack exactly while the breaker awaits it,   *)
(* and backs off only when the policy has an attempt left.                 *)
Underway ==
  \A c \in Calls : /\ stage[c] = "idle" <=> running[c] = "none"
                   /\ stage[c] = "backoff" => attempt[c] < max_attempts

ResilientInv ==
  BreakerFacts!BreakerInv /\ TypeOK /\ PermitsConserved /\ Underway

-----------------------------------------------------------------------------
(* The stack and its breaker.                                              *)

(* Every step of the stack is a step of the breaker or leaves it alone.    *)
LEMMA StepsOfTheBreaker == [Next]_vars => [Breaker!Next]_(Breaker!vars)
<1> SUFFICES ASSUME [Next]_vars PROVE [Breaker!Next]_(Breaker!vars)
  OBVIOUS
<1> USE DEF breaker, Breaker!vars, Breaker!breaker
<1>1. ASSUME NEW c \in Calls, Enter(c) PROVE Breaker!Next
  BY <1>1 DEF Enter, Breaker!Next
<1>2. ASSUME NEW c \in Calls, Acquire(c) PROVE UNCHANGED Breaker!vars
  BY <1>2 DEF Acquire
<1>3. ASSUME NEW c \in Calls, Returns(c) PROVE Breaker!Next
  BY <1>3 DEF Returns, Breaker!Next
<1>4. ASSUME NEW c \in Calls, NEW r \in BOOLEAN, Raises(c, r)
      PROVE  [Breaker!Next]_(Breaker!vars)
  BY <1>4 DEF Raises, Backoff, GiveUp, Breaker!Next
<1>5. ASSUME NEW c \in Calls, Wake(c) PROVE UNCHANGED Breaker!vars
  BY <1>5 DEF Wake
<1>6. ASSUME NEW c \in Calls, Cancel(c) PROVE Breaker!Next
  BY <1>6 DEF Cancel, Breaker!Next
<1>7. CASE Breaker!Elapse BY <1>7 DEF Breaker!Next
<1>8. CASE Breaker!reset BY <1>8 DEF Breaker!Next
<1>9. CASE UNCHANGED vars BY <1>9 DEF vars
<1>10. QED
  BY <1>1, <1>2, <1>3, <1>4, <1>5, <1>6, <1>7, <1>8, <1>9
  DEF Next, BodyRaises, BulkheadFull, TimesOut

(* Both instances of the breaker's module say the same.                    *)
LEMMA SameBreaker ==
  /\ Breaker!Init <=> BreakerFacts!Init
  /\ [Breaker!Next]_(Breaker!vars) <=> [BreakerFacts!Next]_(BreakerFacts!vars)
  /\ Breaker!SlotsBacked <=> BreakerFacts!SlotsBacked
  /\ BreakerFacts!BreakerInv => Breaker!TypeOK
<1>1. \A c \in Calls : /\ Breaker!AdmitClosed(c) <=> BreakerFacts!AdmitClosed(c)
                       /\ Breaker!AdmitProbe(c) <=> BreakerFacts!AdmitProbe(c)
                       /\ Breaker!Succeed(c) <=> BreakerFacts!Succeed(c)
                       /\ Breaker!Fail(c) <=> BreakerFacts!Fail(c)
                       /\ Breaker!Cancel(c) <=> BreakerFacts!Cancel(c)
  BY Zenon
  DEF Breaker!AdmitClosed, Breaker!AdmitProbe, Breaker!Succeed, Breaker!Fail,
      Breaker!Cancel, Breaker!state, Breaker!breaker,
      BreakerFacts!AdmitClosed, BreakerFacts!AdmitProbe, BreakerFacts!Succeed,
      BreakerFacts!Fail, BreakerFacts!Cancel, BreakerFacts!state,
      BreakerFacts!breaker
<1>2. /\ Breaker!reset <=> BreakerFacts!reset
      /\ Breaker!Elapse <=> BreakerFacts!Elapse
      /\ Breaker!Recover <=> BreakerFacts!Recover
      /\ Breaker!vars = BreakerFacts!vars
      /\ (Breaker!vars)' = (BreakerFacts!vars)'
  BY Zenon
  DEF Breaker!reset, Breaker!Elapse, Breaker!Recover, Breaker!vars,
      Breaker!breaker, BreakerFacts!reset, BreakerFacts!Elapse,
      BreakerFacts!Recover, BreakerFacts!vars, BreakerFacts!breaker
<1>3. Breaker!Next <=> BreakerFacts!Next
  BY <1>1, <1>2, Zenon DEF Breaker!Next, BreakerFacts!Next
<1>4. /\ Breaker!Init <=> BreakerFacts!Init
      /\ Breaker!SlotsBacked <=> BreakerFacts!SlotsBacked
      /\ BreakerFacts!BreakerInv => Breaker!TypeOK
  BY Zenon
  DEF Breaker!Init, BreakerFacts!Init, Breaker!SlotsBacked,
      BreakerFacts!SlotsBacked, Breaker!Probes, BreakerFacts!Probes,
      BreakerFacts!BreakerInv, BreakerFacts!TypeOK, Breaker!TypeOK,
      Breaker!Cardinality, BreakerFacts!Cardinality
<1>5. QED BY <1>2, <1>3, <1>4, Zenon

(* So the breaker's invariant is kept by every step of the stack.          *)
LEMMA BreakerKept ==
  /\ Init => BreakerFacts!BreakerInv
  /\ BreakerFacts!BreakerInv /\ [Next]_vars => BreakerFacts!BreakerInv'
<1>1. BreakerFacts!BreakerAssumption
  BY ResilienceAssumption DEF ResilienceAssumption, BreakerFacts!BreakerAssumption,
   IsFiniteSet, BreakerFacts!IsFiniteSet
<1>2. Init => BreakerFacts!Init BY SameBreaker DEF Init
<1>3. [Next]_vars => [BreakerFacts!Next]_(BreakerFacts!vars)
  BY StepsOfTheBreaker, SameBreaker, Zenon
<1>4. QED BY <1>1, <1>2, <1>3, BreakerFacts!InitBreakerInv,
             BreakerFacts!NextBreakerInv, Zenon

-----------------------------------------------------------------------------
(* What the callers' stages amount to, and how one move changes the number *)
(* of callers in the body.                                                 *)

Stages == {"idle", "queued", "body", "backoff"}

(* The callers in the body are finitely many.                              *)
LEMMA BodyCounted == IsFiniteSet(In("body")) /\ Cardinality(In("body")) \in Nat
  BY ResilienceAssumption, FS_Subset, FS_CardinalityType
  DEF In, ResilienceAssumption

(* A caller enters the body.                                               *)
LEMMA EntersBody ==
  ASSUME stage \in [Calls -> Stages], NEW c \in Calls, stage[c] # "body",
         stage' = [stage EXCEPT ![c] = "body"]
  PROVE  Cardinality(In("body")') = Cardinality(In("body")) + 1
<1>1. In("body")' = In("body") \cup {c} BY DEF In
<1>2. c \notin In("body") BY DEF In
<1>3. QED BY <1>1, <1>2, BodyCounted, FS_AddElement, Zenon

(* A caller leaves the body.                                               *)
LEMMA LeavesBody ==
  ASSUME stage \in [Calls -> Stages], NEW c \in Calls, stage[c] = "body",
         NEW s \in Stages \ {"body"}, stage' = [stage EXCEPT ![c] = s]
  PROVE  Cardinality(In("body")') = Cardinality(In("body")) - 1
<1>1. In("body")' = In("body") \ {c} BY DEF In
<1>2. c \in In("body") BY DEF In
<1>3. QED BY <1>1, <1>2, BodyCounted, FS_RemoveElement, Zenon

(* A caller moves between other stages.                                    *)
LEMMA StaysOut ==
  ASSUME stage \in [Calls -> Stages], NEW c \in Calls, stage[c] # "body",
         NEW s \in Stages \ {"body"}, stage' = [stage EXCEPT ![c] = s]
  PROVE  Cardinality(In("body")') = Cardinality(In("body"))
<1>1. In("body")' = In("body") BY DEF In
<1>2. QED BY <1>1

-----------------------------------------------------------------------------
(* __aenter__ and __aexit__ keep the account of the permits, and with it   *)
(* both counters in their range, whichever stage the caller goes on to.    *)

Accounted ==
  PermitsConserved /\ _queue_semaphore \in 0..Permits /\ _active \in 0..Permits

(* __aenter__ takes a permit exactly when it lets the caller in.           *)
LEMMA EnterAccounted ==
  ASSUME ResilientInv, NEW c \in Calls, stage[c] # "body", aenter(c)
  PROVE  Accounted'
<1> USE DEF ResilientInv, TypeOK, Stages, Accounted
<1>1. CASE stage' = [stage EXCEPT ![c] = "body"] /\ _queue_semaphore > 0
           /\ _queue_semaphore' = _queue_semaphore - 1 /\ _active' = _active + 1
  <2>1. Cardinality(In("body")') = Cardinality(In("body")) + 1
    BY <1>1, EntersBody
  <2>2. QED BY <1>1, <2>1, BodyCounted, ResilienceAssumption
            DEF PermitsConserved, Permits, ResilienceAssumption
<1>2. CASE stage' = [stage EXCEPT ![c] = "queued"] /\ UNCHANGED bulkhead
  <2>1. Cardinality(In("body")') = Cardinality(In("body"))
    BY <1>2, StaysOut
  <2>2. QED BY <1>2, <2>1 DEF PermitsConserved, bulkhead, Permits
<1>3. QED BY <1>1, <1>2 DEF aenter

(* Each way out of an attempt returns the permit of a caller that was in   *)
(* the body, and none of one that was still queued.                        *)
LEMMA ExitAccounted ==
  ASSUME ResilientInv, NEW c \in Calls, aexit(c),
         NEW s \in {"idle", "backoff"}, stage' = [stage EXCEPT ![c] = s]
  PROVE  Accounted'
<1> USE DEF ResilientInv, TypeOK, Stages, Accounted
<1>1. CASE stage[c] = "body"
  <2>1. Cardinality(In("body")') = Cardinality(In("body")) - 1
    BY <1>1, LeavesBody
  <2>2. Cardinality(In("body")) # 0
    <3>1. c \in In("body") BY <1>1 DEF In
    <3>2. QED BY <3>1, BodyCounted, FS_EmptySet, Zenon
  <2>3. /\ _queue_semaphore' = _queue_semaphore + 1
        /\ _active' = _active - 1
    BY <1>1, <2>2 DEF aexit, PermitsConserved
  <2>4. QED BY <2>1, <2>2, <2>3, BodyCounted, ResilienceAssumption
            DEF PermitsConserved, Permits, ResilienceAssumption
<1>2. CASE stage[c] # "body"
  <2>1. Cardinality(In("body")') = Cardinality(In("body"))
    BY <1>2, StaysOut
  <2>2. QED BY <1>2, <2>1 DEF PermitsConserved, bulkhead, Permits, aexit
<1>3. QED BY <1>1, <1>2

(* A step that touches neither the bulkhead nor a caller keeps the         *)
(* account.                                                                *)
LEMMA BulkheadAlone ==
  ASSUME ResilientInv, UNCHANGED <<bulkhead, stage>>
  PROVE  Accounted'
  BY DEF ResilientInv, TypeOK, Accounted, PermitsConserved, Permits, In, bulkhead

-----------------------------------------------------------------------------
(* One call moves to stage s with attempt number n, and the breaker sees   *)
(* it as r.                                                                *)

OwnKept ==
  /\ stage \in [Calls -> Stages]
  /\ attempt \in [Calls -> 0..max_attempts]
  /\ Underway

(* A move to any stage keeps the callers typed and a call under way        *)
(* exactly while the breaker awaits it.                                    *)
LEMMA CallMoves ==
  ASSUME ResilientInv, NEW c \in Calls, NEW s \in Stages,
         NEW n \in 0..max_attempts, NEW r \in {"none", "ordinary", "probe"},
         stage' = [stage EXCEPT ![c] = s],
         attempt' = [attempt EXCEPT ![c] = n],
         running' = [running EXCEPT ![c] = r],
         s = "idle" <=> r = "none",
         s = "backoff" => n < max_attempts
  PROVE  OwnKept'
<1> USE DEF ResilientInv, TypeOK, Stages
<1>1. running \in [Calls -> {"none", "ordinary", "probe"}] BY DEF Breaker!TypeOK
<1>2. stage' \in [Calls -> Stages] /\ attempt' \in [Calls -> 0..max_attempts]
  OBVIOUS
<1>3. Underway' BY <1>1 DEF Underway
<1>4. QED BY <1>2, <1>3 DEF OwnKept

(* aenter and the ways an attempt ends, as such moves.                     *)
LEMMA EntryKept ==
  ASSUME ResilientInv, NEW c \in Calls, stage[c] # "body", aenter(c),
         NEW n \in 0..max_attempts, attempt' = [attempt EXCEPT ![c] = n],
         NEW r \in {"ordinary", "probe"}, running' = [running EXCEPT ![c] = r]
  PROVE  OwnKept' /\ Accounted'
<1>1. PICK s \in {"queued", "body"} : stage' = [stage EXCEPT ![c] = s]
  BY DEF aenter
<1>2. OwnKept' BY <1>1, CallMoves DEF Stages
<1>3. QED BY <1>2, EnterAccounted

(* A call that ends leaves the breaker and the bulkhead together.          *)
LEMMA EndKept ==
  ASSUME ResilientInv, NEW c \in Calls, aexit(c), Ends(c),
         running' = [running EXCEPT ![c] = "none"]
  PROVE  OwnKept' /\ Accounted'
<1>1. 0 \in 0..max_attempts
  BY ResilienceAssumption DEF ResilienceAssumption
<1>2. OwnKept' BY <1>1, CallMoves DEF Ends, Stages
<1>3. QED BY <1>2, ExitAccounted DEF Ends

(* An attempt that raises backs off or ends the call.                      *)
LEMMA RaiseKept ==
  ASSUME ResilientInv, NEW c \in Calls, stage[c] # "idle",
         NEW retryable \in BOOLEAN, Raises(c, retryable)
  PROVE  OwnKept' /\ Accounted'
<1>1. CASE attempt[c] < max_attempts /\ Backoff(c)
  <2>1. /\ running \in [Calls -> {"none", "ordinary", "probe"}]
        /\ attempt \in [Calls -> 0..max_attempts]
    BY DEF ResilientInv, TypeOK, Breaker!TypeOK
  <2>2. /\ running' = [running EXCEPT ![c] = running[c]]
        /\ attempt' = [attempt EXCEPT ![c] = attempt[c]]
    BY <1>1, <2>1 DEF Backoff, breaker
  <2>3. running[c] # "none" BY DEF ResilientInv, Underway
  <2>4. OwnKept' BY <1>1, <2>1, <2>2, <2>3, CallMoves DEF Backoff, Stages
  <2>5. QED BY <1>1, <2>4, ExitAccounted DEF Raises, Backoff
<1>2. CASE GiveUp(c)
  BY <1>2, EndKept DEF Raises, GiveUp, Breaker!Fail
<1>3. QED BY <1>1, <1>2 DEF Raises

-----------------------------------------------------------------------------
(* The initial state and every step of the stack keep the invariant.       *)

(* Nobody calls yet and every permit is free.                              *)
LEMMA InitResilientInv == Init => ResilientInv
<1> SUFFICES ASSUME Init PROVE ResilientInv
  OBVIOUS
<1>1. BreakerFacts!BreakerInv /\ Breaker!TypeOK
  BY BreakerKept, SameBreaker
<1>2. In("body") = {} /\ Cardinality(In("body")) = 0
  BY FS_EmptySet DEF Init, In
<1>3. TypeOK /\ PermitsConserved
  BY <1>1, <1>2, ResilienceAssumption
  DEF Init, TypeOK, PermitsConserved, Permits, ResilienceAssumption
<1>4. Underway BY DEF Init, Breaker!Init, Underway
<1>5. QED BY <1>1, <1>3, <1>4 DEF ResilientInv

(* Each step keeps the part of the invariant that is not of the breaker.   *)
LEMMA OwnStep ==
  ASSUME ResilientInv, [Next]_vars
  PROVE  OwnKept' /\ Accounted'
<1>1. ASSUME NEW c \in Calls, Enter(c) PROVE OwnKept' /\ Accounted'
  <2>1. PICK r \in {"ordinary", "probe"} : running' = [running EXCEPT ![c] = r]
    BY <1>1 DEF Enter, Breaker!AdmitClosed, Breaker!AdmitProbe
  <2>2. 1 \in 0..max_attempts
    BY ResilienceAssumption DEF ResilienceAssumption
  <2>3. QED BY <1>1, <2>1, <2>2, EntryKept DEF Enter
<1>2. ASSUME NEW c \in Calls, Acquire(c) PROVE OwnKept' /\ Accounted'
  \* The second half of an entry: the permit has become free.
  <2>1. /\ running \in [Calls -> {"none", "ordinary", "probe"}]
        /\ attempt \in [Calls -> 0..max_attempts]
    BY DEF ResilientInv, TypeOK, Breaker!TypeOK
  <2>2. /\ running' = [running EXCEPT ![c] = running[c]]
        /\ attempt' = [attempt EXCEPT ![c] = attempt[c]]
    BY <1>2, <2>1 DEF Acquire, breaker
  <2>3. running[c] # "none" BY <1>2 DEF Acquire, ResilientInv, Underway
  <2>4. OwnKept' BY <1>2, <2>1, <2>2, <2>3, CallMoves DEF Acquire, Stages
  <2>5. Cardinality(In("body")') = Cardinality(In("body")) + 1
    BY <1>2, EntersBody DEF Acquire, ResilientInv, TypeOK, Stages
  <2>6. Accounted'
    BY <1>2, <2>5, BodyCounted, ResilienceAssumption
    DEF Acquire, ResilientInv, TypeOK, Accounted, PermitsConserved, Permits,
        ResilienceAssumption
  <2>7. QED BY <2>4, <2>6
<1>3. ASSUME NEW c \in Calls, Returns(c) PROVE OwnKept' /\ Accounted'
  BY <1>3, EndKept DEF Returns, Breaker!Succeed
<1>4. ASSUME NEW c \in Calls, BodyRaises(c) \/ BulkheadFull(c) \/ TimesOut(c)
      PROVE  OwnKept' /\ Accounted'
  BY <1>4, RaiseKept DEF BodyRaises, BulkheadFull, TimesOut
<1>5. ASSUME NEW c \in Calls, Wake(c) PROVE OwnKept' /\ Accounted'
  <2>1. /\ running \in [Calls -> {"none", "ordinary", "probe"}]
        /\ attempt \in [Calls -> 0..max_attempts]
    BY DEF ResilientInv, TypeOK, Breaker!TypeOK
  <2>2. running' = [running EXCEPT ![c] = running[c]]
    BY <1>5, <2>1 DEF Wake, breaker
  <2>3. running[c] \in {"ordinary", "probe"} /\ attempt[c] + 1 \in 0..max_attempts
    BY <1>5, <2>1, ResilienceAssumption
    DEF Wake, ResilientInv, Underway, ResilienceAssumption
  <2>4. QED BY <1>5, <2>2, <2>3, EntryKept DEF Wake
<1>6. ASSUME NEW c \in Calls, Cancel(c) PROVE OwnKept' /\ Accounted'
  BY <1>6, EndKept DEF Cancel, Breaker!Cancel
<1>7. CASE UNCHANGED <<bulkhead, stage, attempt, running>>
  <2>1. Accounted' BY <1>7, BulkheadAlone
  <2>2. OwnKept'
    BY <1>7 DEF ResilientInv, TypeOK, OwnKept, Underway, Stages
  <2>3. QED BY <2>1, <2>2
<1>8. CASE UNCHANGED vars BY <1>7, <1>8 DEF vars, breaker
<1>9. QED
  BY <1>1, <1>2, <1>3, <1>4, <1>5, <1>6, <1>7, <1>8
  DEF Next, Breaker!Elapse, Breaker!reset

(* The breaker keeps its own part, by the lemmas about it.                 *)
LEMMA NextResilientInv == ResilientInv /\ [Next]_vars => ResilientInv'
<1> SUFFICES ASSUME ResilientInv, [Next]_vars PROVE ResilientInv'
  OBVIOUS
<1>1. BreakerFacts!BreakerInv' BY BreakerKept DEF ResilientInv
<1>2. Breaker!TypeOK'
  BY <1>1, Zenon
  DEF BreakerFacts!BreakerInv, BreakerFacts!TypeOK, Breaker!TypeOK
<1>3. QED
  BY <1>1, <1>2, OwnStep
  DEF ResilientInv, TypeOK, OwnKept, Accounted, Stages

-----------------------------------------------------------------------------
(* Every reachable state of the stack is well typed: permits and attempts  *)
(* stay within their limits (retry_with_policy, SemaphoreBulkhead).        *)
THEOREM StackTyped == Spec => []TypeOK
<1>1. ResilientInv => TypeOK BY DEF ResilientInv
<1>2. QED BY InitResilientInv, NextResilientInv, <1>1, PTL DEF Spec

(* No permit of the bulkhead is lost or given back twice, whichever way    *)
(* the attempts end: every permit is free or held by one attempt in the    *)
(* body, and _active counts those (SemaphoreBulkhead.__aexit__).           *)
THEOREM PermitsAreConserved == Spec => []PermitsConserved
<1>1. ResilientInv => PermitsConserved BY DEF ResilientInv
<1>2. QED BY InitResilientInv, NextResilientInv, <1>1, PTL DEF Spec

(* The stack implements the safety of the circuit breaker alone: retries,  *)
(* timeouts and the bulkhead move the breaker by its own steps only.       *)
THEOREM StackDrivesTheBreaker ==
  Spec => Breaker!Init /\ [][Breaker!Next]_(Breaker!vars)
<1>1. Init => Breaker!Init BY DEF Init
<1>2. QED BY <1>1, StepsOfTheBreaker, PTL DEF Spec

(* When no caller is cancelled from outside while it probes, every probe   *)
(* slot of the breaker is backed by a call still under way: neither the    *)
(* timeouts nor a full bulkhead cost the breaker a slot.                   *)
THEOREM StackSlotsBacked == ~CancelProbes => (Spec => []SlotsBacked)
<1> SUFFICES ASSUME ~CancelProbes PROVE Spec => []SlotsBacked
  OBVIOUS
<1>1. BreakerFacts!BreakerAssumption
  BY ResilienceAssumption
  DEF ResilienceAssumption, BreakerFacts!BreakerAssumption,
      IsFiniteSet, BreakerFacts!IsFiniteSet
<1>2. Init => SlotsBacked
  <2>1. Init => BreakerFacts!Init BY SameBreaker DEF Init
  <2>2. BreakerFacts!Init => BreakerFacts!SlotsBacked
    BY <1>1, BreakerFacts!ProbesCounted
    DEF BreakerFacts!Init, BreakerFacts!SlotsBacked
  <2>3. QED BY <2>1, <2>2, SameBreaker DEF SlotsBacked
<1>3. ResilientInv /\ ResilientInv' /\ SlotsBacked /\ [Next]_vars => SlotsBacked'
  <2>1. SlotsBacked <=> BreakerFacts!SlotsBacked
    BY SameBreaker DEF SlotsBacked
  <2>2. SlotsBacked' <=> BreakerFacts!SlotsBacked'
    BY Zenon
    DEF SlotsBacked, Breaker!SlotsBacked, BreakerFacts!SlotsBacked,
        Breaker!Probes, BreakerFacts!Probes,
        Breaker!Cardinality, BreakerFacts!Cardinality
  <2>3. [Next]_vars => [BreakerFacts!Next]_(BreakerFacts!vars)
    BY StepsOfTheBreaker, SameBreaker, Zenon
  <2>4. QED
    BY <1>1, <2>1, <2>2, <2>3, BreakerFacts!NextSlotsBacked, Zenon
    DEF ResilientInv
<1>4. QED BY <1>2, <1>3, InitResilientInv, NextResilientInv, PTL DEF Spec
=============================================================================
