------------------------ MODULE WorkflowEngineProofs ------------------------
(***************************************************************************)
(* Safety of the workflow engine, for any sets of runs, people, coroutines *)
(* and workflow definitions.                                               *)
(***************************************************************************)
EXTENDS WorkflowEngine, FiniteSetTheorems, SequenceTheorems, TLAPS

Rows == [status : Statuses, requester : Users \cup {nobody},
         steps : {<<>>} \cup Definitions, next_step : Nat,
         results : Seq(Results), completed : Nat, failed : Nat]

Items == [run : Runs, status : Statuses, completed : Nat, failed : Nat]

(* The first n steps of a row are behind it: somebody other than the       *)
(* requester has approved each approval step among them.                   *)
Passed(w, n) ==
  \A k \in 1 .. n : w.steps[k] = "approval" =>
    w.results[k].by \notin {nobody, w.requester}

Ordered(s) == \A i, j \in DOMAIN s : i < j => s[i] < s[j]

(* What a row is when a coroutine leaves the loop with it, and between two *)
(* steps of the engine.  While it waits, the last step of the prefix is an *)
(* approval that nobody has given yet; while it runs, the step at          *)
(* next_step is a task and has been invoked.                               *)
Left(w, s) ==
  /\ w.next_step = Len(w.results) /\ w.next_step <= Len(w.steps)
  /\ Ordered(s) /\ \A i \in DOMAIN s : s[i] < w.next_step
  /\ IF w.status = "waiting_approval"
     THEN w.next_step > 0 /\ Passed(w, w.next_step - 1)
     ELSE Passed(w, w.next_step)

Driven(w, s) ==
  /\ w.next_step = Len(w.results) /\ w.next_step < Len(w.steps)
  /\ w.steps[w.next_step + 1] # "approval"
  /\ Ordered(s) /\ \A i \in DOMAIN s : s[i] <= w.next_step
  /\ Passed(w, w.next_step)

Consistent(w, s) == IF w.status = "running" THEN Driven(w, s) ELSE Left(w, s)

(* The counters of a row are those of its results.                         *)
Marks(s, status) == {i \in DOMAIN s : s[i].status = status}

Tally(w) ==
  /\ w.completed = Cardinality(Marks(w.results, "completed"))
  /\ w.failed = Cardinality(Marks(w.results, "error"))
  /\ Marks(w.results, "waiting_approval") =
       IF w.status = "waiting_approval" THEN {Len(w.results)} ELSE {}
  /\ w.status = "completed" => w.completed = Len(w.steps)
  /\ w.status = "failed" => w.failed > 0

(* A coroutine without a run is idle, and a free run id is untouched.      *)
Shape ==
  /\ \A c \in Clients : co[c].run = nobody => co[c] = Idle
  /\ \A r \in Runs : row[r].status = "absent" => row[r].next_step = 0

EngineInv ==
  /\ TypeOK
  /\ OneDriver
  /\ Shape
  /\ HistoryFresh
  /\ \A r \in Runs : Consistent(row[r], invoked[r]) /\ Tally(row[r])

-----------------------------------------------------------------------------
(* What appending and replacing a result do to the count of a status.      *)

(* The results of a status are finitely many.                              *)
LEMMA MarksCounted ==
  ASSUME NEW s \in Seq(Results), NEW status
  PROVE  /\ IsFiniteSet(Marks(s, status))
         /\ Cardinality(Marks(s, status)) \in Nat
         /\ Marks(s, status) \subseteq 1 .. Len(s)
<1>1. Marks(s, status) \subseteq 1 .. Len(s) /\ Len(s) \in Nat BY DEF Marks
<1>2. 1 \in Int /\ Len(s) \in Int BY <1>1
<1>3. IsFiniteSet(Marks(s, status)) BY <1>1, <1>2, FS_Interval, FS_Subset, Zenon
<1>4. QED BY <1>1, <1>3, FS_CardinalityType, Zenon

(* A new result is one more of its own status.                             *)
LEMMA MarkAppended ==
  ASSUME NEW s \in Seq(Results), NEW e \in Results, NEW status
  PROVE  /\ e.status # status => Marks(Append(s, e), status) = Marks(s, status)
         /\ e.status = status =>
              /\ Marks(Append(s, e), status) = Marks(s, status) \cup {Len(s) + 1}
              /\ Cardinality(Marks(Append(s, e), status))
                   = Cardinality(Marks(s, status)) + 1
<1>1. /\ DOMAIN Append(s, e) = 1 .. Len(s) + 1 /\ DOMAIN s = 1 .. Len(s)
      /\ \A i \in 1 .. Len(s) : Append(s, e)[i] = s[i]
      /\ Append(s, e)[Len(s) + 1] = e /\ Len(s) \in Nat
  OBVIOUS
<1>2. e.status # status => Marks(Append(s, e), status) = Marks(s, status)
  BY <1>1 DEF Marks
<1>3. e.status = status =>
        Marks(Append(s, e), status) = Marks(s, status) \cup {Len(s) + 1}
  BY <1>1 DEF Marks
<1>4. Len(s) + 1 \notin Marks(s, status) BY <1>1 DEF Marks
<1>5. Cardinality(Marks(s, status) \cup {Len(s) + 1})
        = Cardinality(Marks(s, status)) + 1
  BY <1>4, MarksCounted, FS_AddElement, Zenon
<1>6. QED BY <1>2, <1>3, <1>5

(* A replaced result moves from its old status to the new one.             *)
LEMMA MarkReplaced ==
  ASSUME NEW s \in Seq(Results), NEW i \in 1 .. Len(s), NEW e \in Results,
         s[i].status # e.status
  PROVE  /\ \A status : status \notin {s[i].status, e.status} =>
              Marks(Replace(s, i, e), status) = Marks(s, status)
         /\ Marks(Replace(s, i, e), s[i].status) = Marks(s, s[i].status) \ {i}
         /\ Cardinality(Marks(Replace(s, i, e), e.status))
              = Cardinality(Marks(s, e.status)) + 1
<1>1. /\ DOMAIN Replace(s, i, e) = DOMAIN s /\ i \in DOMAIN s
      /\ \A j \in DOMAIN s : Replace(s, i, e)[j] = IF j = i THEN e ELSE s[j]
  BY DEF Replace
<1>2. /\ \A status : status \notin {s[i].status, e.status} =>
           Marks(Replace(s, i, e), status) = Marks(s, status)
      /\ Marks(Replace(s, i, e), s[i].status) = Marks(s, s[i].status) \ {i}
      /\ Marks(Replace(s, i, e), e.status) = Marks(s, e.status) \cup {i}
      /\ i \notin Marks(s, e.status)
  BY <1>1 DEF Marks
<1>3. Cardinality(Marks(s, e.status) \cup {i}) = Cardinality(Marks(s, e.status)) + 1
  BY <1>2, MarksCounted, FS_AddElement, Zenon
<1>4. QED BY <1>2, <1>3

(* A row without results counts none.                                      *)
LEMMA NothingMarked ==
  ASSUME NEW status
  PROVE  Marks(<<>>, status) = {} /\ Cardinality(Marks(<<>>, status)) = 0
<1>1. Marks(<<>>, status) = {} BY DEF Marks
<1>2. QED BY <1>1, FS_EmptySet, Zenon

(* Without failures and open approvals, every step was completed.          *)
LEMMA AllCompleted ==
  ASSUME NEW s \in Seq(Results), Marks(s, "waiting_approval") = {},
         Cardinality(Marks(s, "error")) = 0
  PROVE  Cardinality(Marks(s, "completed")) = Len(s)
<1>1. Marks(s, "error") = {}
  <2>1. IsFiniteSet(Marks(s, "error")) BY MarksCounted, Zenon
  <2>2. QED BY <2>1, FS_EmptySet, Zenon
<1>2. ASSUME NEW i \in DOMAIN s
      PROVE  s[i].status \in {"completed", "error", "waiting_approval"}
  <2>1. s[i] \in Results OBVIOUS
  <2>2. QED BY <2>1 DEF Results
<1>3. Marks(s, "completed") = 1 .. Len(s) BY <1>1, <1>2 DEF Marks
<1>4. 1 \in Int /\ Len(s) \in Int /\ Len(s) \in Nat OBVIOUS
<1>5. Cardinality(1 .. Len(s)) = IF 1 > Len(s) THEN 0 ELSE Len(s) - 1 + 1
  BY <1>4, FS_Interval, Zenon
<1>6. QED BY <1>3, <1>4, <1>5

-----------------------------------------------------------------------------
(* The loop.                                                               *)

(* The steps of a row are a sequence of kinds.                             *)
LEMMA StepsAreKinds ==
  ASSUME NEW w \in Rows
  PROVE  w.steps \in Seq(Kinds) /\ Len(w.steps) \in Nat
<1>1. w.steps \in {<<>>} \cup Definitions
  BY Zenon DEF Rows
<1>2. <<>> \in Seq(Kinds)
  OBVIOUS
<1>3. w.steps \in Seq(Kinds)
  BY <1>1, <1>2, EngineAssumption, Zenon DEF EngineAssumption
<1>4. QED BY <1>3

(* A recorded row keeps the type of the history.                           *)
LEMMA HistoryTyped ==
  ASSUME NEW r \in Runs, NEW w \in Rows, history \in Seq(Items), HistoryRecord(r, w)
  PROVE  history' \in Seq(Items)
<1> DEFINE item == [run |-> r, status |-> w.status,
                    completed |-> w.completed, failed |-> w.failed]
           known == {i \in DOMAIN history : history[i].run = r}
<1>1. item \in Items BY DEF Items, Rows
<1>2. CASE known = {}
  BY <1>1, <1>2 DEF HistoryRecord
<1>3. CASE known # {}
  <2>1. history' = [i \in 1 .. Len(history) |-> IF i \in known THEN item ELSE history[i]]
    BY <1>3 DEF HistoryRecord
  <2>2. \A i \in 1 .. Len(history) : history'[i] \in Items
    BY <1>1, <2>1
  <2>3. Len(history) \in Nat OBVIOUS
  <2>4. QED BY <2>1, <2>2, <2>3
<1>4. QED BY <1>2, <1>3

(* The item of a row that is recorded shows it, the others stay.           *)
LEMMA HistoryKeptFresh ==
  ASSUME TypeOK, HistoryFresh, NEW r \in Runs, NEW w \in Rows,
         HistoryRecord(r, w), row' = [row EXCEPT ![r] = w]
  PROVE  HistoryFresh'
<1> DEFINE item == [run |-> r, status |-> w.status,
                    completed |-> w.completed, failed |-> w.failed]
           known == {i \in DOMAIN history : history[i].run = r}
           Shown(q) == \E i \in DOMAIN history' :
             history'[i] = [run |-> q, status |-> row'[q].status,
                            completed |-> row'[q].completed, failed |-> row'[q].failed]
<1>1. /\ row'[r] = w /\ \A q \in Runs \ {r} : row'[q] = row[q]
      /\ history \in Seq(Items) /\ item.run = r
  BY DEF TypeOK, Items
<1>2. /\ \A i \in DOMAIN history :
           i \in DOMAIN history' /\ (history[i].run # r => history'[i] = history[i])
      /\ \E i \in DOMAIN history' : history'[i] = item
      /\ \A i, j \in DOMAIN history' : history'[i].run = history'[j].run => i = j
  <2>1. CASE known = {}
    <3>1. history' = Append(history, item) BY <2>1 DEF HistoryRecord
    <3> HIDE DEF item
    <3>2. /\ DOMAIN history' = 1 .. Len(history) + 1 /\ DOMAIN history = 1 .. Len(history)
          /\ \A i \in 1 .. Len(history) : history'[i] = history[i]
          /\ history'[Len(history) + 1] = item /\ Len(history) \in Nat
      BY <1>1, <3>1
    <3>3. \A i \in 1 .. Len(history) : history'[i].run # r
      BY <2>1, <3>2
    <3>4. QED BY <1>1, <3>2, <3>3 DEF HistoryFresh
  <2>2. CASE known # {}
    <3>1. /\ DOMAIN history' = DOMAIN history
          /\ \A i \in DOMAIN history :
               history'[i] = IF i \in known THEN item ELSE history[i]
      BY <2>2, Zenon DEF HistoryRecord
    <3> HIDE DEF item
    <3>2. \A i \in DOMAIN history : history'[i].run = history[i].run
      BY <1>1, <3>1
    <3>3. QED BY <2>2, <3>1, <3>2 DEF HistoryFresh
  <2>3. QED BY <2>1, <2>2
<1>3. Shown(r) BY <1>1, <1>2
<1>4. ASSUME NEW q \in Runs \ {r}, row'[q].status \notin {"absent", "running"}
      PROVE  Shown(q)
  <2> HIDE DEF item
  <2>1. PICK i \in DOMAIN history :
          history[i] = [run |-> q, status |-> row[q].status,
                        completed |-> row[q].completed, failed |-> row[q].failed]
    BY <1>1, <1>4 DEF HistoryFresh
  <2>2. history[i].run # r BY <2>1
  <2>3. QED BY <1>1, <1>2, <2>1, <2>2
<1>5. QED BY <1>2, <1>3, <1>4 DEF HistoryFresh

(* The end of the loop: whatever verdict the row comes with, no coroutine  *)
(* is left behind.                                                         *)
LEMMA LeaveKeeps ==
  ASSUME EngineInv, NEW c \in Clients, NEW r \in Runs, NEW w \in Rows,
         Drivers(r) \subseteq {c}, co[c] = Idle \/ co[c].run = r,
         w.status \in {"running", "waiting_approval", "failed"},
         Left(w, invoked[r]), Tally(w),
         w.status = "running" => w.next_step = Len(w.steps),
         Leave(c, r, w)
  PROVE  EngineInv'
<1> DEFINE final == IF w.status # "running" THEN w
                    ELSE [w EXCEPT !.status =
                           IF w.failed > 0 THEN "failed" ELSE "completed"]
<1>1. /\ row' = [row EXCEPT ![r] = final]
      /\ co' = [co EXCEPT ![c] = Idle]
      /\ HistoryRecord(r, final)
      /\ invoked' = invoked
  BY DEF Leave
<1>2. final \in Rows /\ final.status \in {"waiting_approval", "failed", "completed"}
  BY DEF Rows, Statuses
<1>3. Consistent(final, invoked[r])
  <2>1. /\ final.next_step = w.next_step /\ final.results = w.results
        /\ final.steps = w.steps /\ final.requester = w.requester
        /\ final.status = "waiting_approval" <=> w.status = "waiting_approval"
    BY DEF Rows
  <2>2. QED BY <1>2, <2>1 DEF Consistent, Left, Passed
<1>4. Tally(final)
  <2>1. /\ final.results = w.results /\ final.steps = w.steps
        /\ final.completed = w.completed /\ final.failed = w.failed
        /\ final.status = IF w.status # "running" THEN w.status
                          ELSE IF w.failed > 0 THEN "failed" ELSE "completed"
    BY DEF Rows
  <2>2. w.results \in Seq(Results) /\ w.failed \in Nat BY DEF Rows
  <2> HIDE DEF final
  <2>3. ASSUME w.status = "running", ~(w.failed > 0)
        PROVE  w.completed = Len(w.steps)
    <3>1. Cardinality(Marks(w.results, "error")) = 0 BY <2>2, <2>3 DEF Tally
    <3>2. QED BY <2>2, <2>3, <3>1, AllCompleted DEF Tally, Left
  <2>4. QED BY <2>1, <2>3 DEF Tally
<1> HIDE DEF final
<1>5. TypeOK'
  <2>1. row' \in [Runs -> Rows]
    BY <1>1, <1>2 DEF EngineInv, TypeOK, Rows
  <2>2. history' \in Seq(Items)
    BY <1>1, <1>2, HistoryTyped DEF EngineInv, TypeOK, Items
  <2>3. co' \in [Clients -> [run : Runs \cup {nobody}, index : Nat]]
    BY <1>1 DEF EngineInv, TypeOK, Idle
  <2>4. QED BY <1>1, <2>1, <2>2, <2>3 DEF EngineInv, TypeOK, Rows, Items
<1>6. OneDriver'
  <2>1. \A q \in Runs \ {r} : Drivers(q)' = Drivers(q) /\ row'[q] = row[q]
    BY <1>1, EngineAssumption DEF EngineInv, TypeOK, Drivers, Idle, EngineAssumption
  <2>2. Drivers(r)' = {}
    BY <1>1, EngineAssumption DEF EngineInv, TypeOK, Drivers, Idle, EngineAssumption
  <2>3. row'[r].status # "running"
    BY <1>1, <1>2 DEF EngineInv, TypeOK
  <2>4. \A q \in Runs \ {r} : \A d \in Drivers(q) : co'[d] = co[d]
    BY <1>1, EngineAssumption DEF EngineInv, TypeOK, Drivers, Idle, EngineAssumption
  <2>5. QED BY <2>1, <2>2, <2>3, <2>4 DEF EngineInv, OneDriver
<1>7. \A q \in Runs : Consistent(row'[q], invoked'[q]) /\ Tally(row'[q])
  <2>1. row'[r] = final /\ \A q \in Runs \ {r} : row'[q] = row[q]
    BY <1>1 DEF EngineInv, TypeOK
  <2>2. QED BY <1>1, <1>3, <1>4, <2>1 DEF EngineInv
<1>8. Shape'
  BY <1>1, <1>2 DEF EngineInv, TypeOK, Shape
<1>9. HistoryFresh' BY <1>1, <1>2, HistoryKeptFresh DEF EngineInv
<1>10. QED
  BY <1>5, <1>6, <1>7, <1>8, <1>9 DEF EngineInv, Consistent, Tally

(* The loop, entered with the row at the step it stopped before.           *)
LEMMA LoopKeeps ==
  ASSUME EngineInv, NEW c \in Clients, NEW r \in Runs, NEW w \in Rows,
         Drivers(r) \subseteq {c}, co[c] = Idle \/ co[c].run = r,
         w.status = "running", Left(w, invoked[r]), Tally(w),
         Loop(c, r, w, w.next_step)
  PROVE  EngineInv'
<1> DEFINE n == w.next_step
<1>0. /\ n \in Nat /\ n = Len(w.results) /\ n <= Len(w.steps)
      /\ w.results \in Seq(Results)
      /\ Len(w.steps) \in Nat
  BY StepsAreKinds DEF Left, Rows
<1>1. CASE n = Len(w.steps) /\ Leave(c, r, w)
  BY <1>1, LeaveKeeps
<1>2. ASSUME n < Len(w.steps), w.steps[n + 1] = "approval",
             NEW v, Leave(c, r, v),
             v = [w EXCEPT
               !.results = Append(@, [status |-> "waiting_approval", by |-> nobody]),
               !.next_step = n + 1,
               !.status = "waiting_approval"]
      PROVE  EngineInv'
  <2>1. /\ v.next_step = n + 1 /\ v.status = "waiting_approval"
        /\ v.steps = w.steps /\ v.requester = w.requester
        /\ v.results = Append(w.results, [status |-> "waiting_approval", by |-> nobody])
    BY <1>2 DEF Rows
  <2>2. [status |-> "waiting_approval", by |-> nobody] \in Results
    BY DEF Results
  <2>3. v \in Rows
    <3>1. v = [status |-> "waiting_approval", requester |-> w.requester,
               steps |-> w.steps, next_step |-> n + 1, results |-> v.results,
               completed |-> w.completed, failed |-> w.failed]
      BY <1>2 DEF Rows
    <3>2. v.results \in Seq(Results)
      BY <1>0, <2>1, <2>2
    <3>3. n + 1 \in Nat /\ "waiting_approval" \in Statuses
      BY <1>0 DEF Statuses
    <3>4. /\ w.requester \in Users \cup {nobody} /\ w.steps \in {<<>>} \cup Definitions
          /\ w.completed \in Nat /\ w.failed \in Nat
      BY Zenon DEF Rows
    <3> HIDE DEF n
    <3>5. QED BY <3>1, <3>2, <3>3, <3>4 DEF Rows
  <2>4. Passed(v, n)
    BY <1>0, <2>1, <2>2 DEF Left, Passed
  <2>5. Left(v, invoked[r])
    <3>1. v.next_step = Len(v.results) /\ v.next_step <= Len(v.steps)
      BY <1>0, <1>2, <2>1, <2>2
    <3>2. Ordered(invoked[r]) /\ \A i \in DOMAIN invoked[r] : invoked[r][i] < n + 1
      <4>1. invoked[r] \in Seq(Nat) BY DEF EngineInv, TypeOK
      <4>2. QED BY <1>0, <4>1 DEF Left
    <3>3. v.next_step > 0 /\ v.next_step - 1 = n
      BY <1>0, <2>1
    <3>4. QED BY <2>1, <2>4, <3>1, <3>2, <3>3 DEF Left
  <2>6. Tally(v)
    <3> DEFINE e == [status |-> "waiting_approval", by |-> nobody]
    <3>1. /\ e \in Results /\ e.status = "waiting_approval"
          /\ v.results = Append(w.results, e)
          /\ v.completed = w.completed /\ v.failed = w.failed
      BY <1>2, <2>1, <2>2 DEF Rows
    <3> HIDE DEF e
    <3>2. /\ Marks(v.results, "completed") = Marks(w.results, "completed")
          /\ Marks(v.results, "error") = Marks(w.results, "error")
          /\ Marks(v.results, "waiting_approval")
               = Marks(w.results, "waiting_approval") \cup {Len(w.results) + 1}
      BY <1>0, <3>1, MarkAppended
    <3>3. Len(v.results) = Len(w.results) + 1 BY <1>0, <3>1
    <3>4. QED BY <2>1, <3>1, <3>2, <3>3 DEF Tally
  <2>7. QED BY <1>2, <2>1, <2>3, <2>5, <2>6, LeaveKeeps
<1>3. ASSUME n < Len(w.steps), w.steps[n + 1] # "approval",
             row' = [row EXCEPT ![r] = w],
             co' = [co EXCEPT ![c] = [run |-> r, index |-> n]],
             invoked' = [invoked EXCEPT ![r] = Append(@, n)],
             UNCHANGED history
      PROVE  EngineInv'
  <2>1. invoked[r] \in Seq(Nat) /\ invoked'[r] = Append(invoked[r], n)
    BY <1>3 DEF EngineInv, TypeOK
  <2>2. TypeOK'
    <3>1. row' \in [Runs -> Rows] BY <1>3 DEF EngineInv, TypeOK, Rows
    <3>2. co' \in [Clients -> [run : Runs \cup {nobody}, index : Nat]]
      BY <1>0, <1>3 DEF EngineInv, TypeOK
    <3>3. invoked' \in [Runs -> Seq(Nat)]
      BY <1>0, <1>3 DEF EngineInv, TypeOK
    <3>4. QED BY <1>3, <3>1, <3>2, <3>3 DEF EngineInv, TypeOK, Rows
  <2>3. OneDriver'
    <3>1. \A q \in Runs \ {r} : Drivers(q)' = Drivers(q) /\ row'[q] = row[q]
      BY <1>3, EngineAssumption DEF EngineInv, TypeOK, Drivers, Idle, EngineAssumption
    <3>2. Drivers(r)' = {c}
      BY <1>3, EngineAssumption DEF EngineInv, TypeOK, Drivers, Idle, EngineAssumption
    <3>3. row'[r] = w /\ co'[c].index = w.next_step
      BY <1>3 DEF EngineInv, TypeOK
    <3>4. \A q \in Runs \ {r} : \A d \in Drivers(q) : co'[d] = co[d]
      BY <1>3, EngineAssumption DEF EngineInv, TypeOK, Drivers, Idle, EngineAssumption
    <3>5. QED BY <3>1, <3>2, <3>3, <3>4 DEF EngineInv, OneDriver
  <2>4. Driven(w, invoked'[r])
    <3>1. Ordered(invoked'[r])
      BY <1>0, <2>1 DEF Left, Ordered
    <3>2. \A i \in DOMAIN invoked'[r] : invoked'[r][i] <= n
      BY <1>0, <2>1 DEF Left
    <3>3. QED BY <1>0, <1>3, <3>1, <3>2 DEF Left, Driven
  <2>5. \A q \in Runs : Consistent(row'[q], invoked'[q]) /\ Tally(row'[q])
    <3>1. row'[r] = w BY <1>3 DEF EngineInv, TypeOK
    <3>2. \A q \in Runs \ {r} : row'[q] = row[q] /\ invoked'[q] = invoked[q]
      BY <1>3 DEF EngineInv, TypeOK
    <3>3. QED BY <2>4, <3>1, <3>2 DEF EngineInv, Consistent
  <2>6. Shape'
    BY <1>3, EngineAssumption DEF EngineInv, TypeOK, Shape, EngineAssumption
  <2>7. HistoryFresh'
    <3>1. row'[r] = w /\ \A q \in Runs \ {r} : row'[q] = row[q]
      BY <1>3 DEF EngineInv, TypeOK
    <3>2. QED BY <1>3, <3>1 DEF EngineInv, HistoryFresh
  <2>8. QED
    BY <2>2, <2>3, <2>5, <2>6, <2>7 DEF EngineInv, Consistent, Tally
<1>4. QED BY <1>1, <1>2, <1>3 DEF Loop

-----------------------------------------------------------------------------
(* The handlers.                                                           *)

(* No run exists yet and every coroutine is idle.                          *)
LEMMA InitEngineInv == Init => EngineInv
<1> SUFFICES ASSUME Init PROVE EngineInv
  OBVIOUS
<1>1. TypeOK
  BY DEF Init, TypeOK, Absent, Idle, Statuses
<1>2. OneDriver /\ Shape
  BY EngineAssumption
  DEF Init, OneDriver, Shape, Drivers, Absent, Idle, EngineAssumption
<1>3. ASSUME NEW r \in Runs PROVE Consistent(row[r], invoked[r])
  <2>1. invoked[r] = <<>> /\ row[r] = Absent
    BY DEF Init
  <2>2. /\ Absent.status = "absent" /\ Absent.next_step = 0
        /\ Absent.steps = <<>> /\ Absent.results = <<>>
    BY DEF Absent
  <2>3. Passed(Absent, 0)
    BY DEF Passed
  <2>4. Len(<<>>) = 0 /\ DOMAIN <<>> = {}
    OBVIOUS
  <2>5. Ordered(<<>>)
    BY <2>4 DEF Ordered
  <2>6. QED BY <2>1, <2>2, <2>3, <2>4, <2>5 DEF Consistent, Left
<1>4. ASSUME NEW r \in Runs PROVE Tally(row[r])
  BY NothingMarked DEF Init, Absent, Tally
<1>5. HistoryFresh
  BY DEF Init, HistoryFresh, Absent
<1>6. QED BY <1>1, <1>2, <1>3, <1>4, <1>5 DEF EngineInv

(* A submitted row and an approved one, written out.                       *)
LEMMA Submitted ==
  ASSUME NEW u, NEW steps
  PROVE  [Absent EXCEPT !.status = "running", !.requester = u, !.steps = steps] =
           [status |-> "running", requester |-> u, steps |-> steps,
            next_step |-> 0, results |-> <<>>, completed |-> 0, failed |-> 0]
<1>1. Absent \in Rows /\ Absent.next_step = 0 /\ Absent.results = <<>>
      /\ Absent.completed = 0 /\ Absent.failed = 0
  BY DEF Absent, Rows, Statuses
<1>2. PICK v : v = [Absent EXCEPT !.status = "running", !.requester = u, !.steps = steps]
  OBVIOUS
<1>3. v = [status |-> "running", requester |-> u, steps |-> steps,
           next_step |-> Absent.next_step, results |-> Absent.results,
           completed |-> Absent.completed, failed |-> Absent.failed]
  BY <1>1, <1>2 DEF Rows
<1>4. QED BY <1>1, <1>2, <1>3

(* The row an approval hands to the loop.                                  *)
LEMMA Approved ==
  ASSUME NEW w \in Rows, NEW results, NEW completed
  PROVE  [w EXCEPT !.results = results, !.completed = completed, !.status = "running"] =
           [status |-> "running", requester |-> w.requester, steps |-> w.steps,
            next_step |-> w.next_step, results |-> results,
            completed |-> completed, failed |-> w.failed]
<1>1. PICK v : v = [w EXCEPT !.results = results, !.completed = completed,
                             !.status = "running"]
  OBVIOUS
<1>2. v = [status |-> "running", requester |-> w.requester, steps |-> w.steps,
           next_step |-> w.next_step, results |-> results,
           completed |-> completed, failed |-> w.failed]
  BY <1>1 DEF Rows
<1>3. QED BY <1>1, <1>2

(* A submitted run enters the loop at its first step.                      *)
LEMMA RunKeeps ==
  ASSUME EngineInv, NEW c \in Clients, NEW r \in Runs, NEW u \in Users,
         NEW steps \in Definitions, run(c, r, u, steps)
  PROVE  EngineInv'
<1> DEFINE w == [status |-> "running", requester |-> u, steps |-> steps,
                 next_step |-> 0, results |-> <<>>, completed |-> 0, failed |-> 0]
           fresh == [Absent EXCEPT !.status = "running",
                                   !.requester = u, !.steps = steps]
<1>0. fresh = w /\ [w EXCEPT !.status = "running"] = w
  BY Submitted
<1>1. /\ co[c] = Idle /\ row[r].status = "absent"
      /\ Loop(c, r, w, w.next_step)
  <2>1. /\ co[c] = Idle /\ row[r].status = "absent"
        /\ Loop(c, r, [fresh EXCEPT !.status = "running"], fresh.next_step)
    BY DEF run, Continue
  <2> HIDE DEF w, fresh
  <2>2. QED BY <1>0, <2>1
<1>2. w \in Rows
  BY DEF Rows, Statuses
<1>3. Drivers(r) = {}
  BY <1>1 DEF EngineInv, OneDriver
<1>4. Left(w, invoked[r])
  <2>1. row[r].next_step = 0 /\ Left(row[r], invoked[r]) /\ invoked[r] \in Seq(Nat)
    BY <1>1 DEF EngineInv, Shape, Consistent, TypeOK
  <2>2. \A i \in DOMAIN invoked[r] : invoked[r][i] < 0
    BY <2>1 DEF Left
  <2>3. Len(steps) \in Nat
    BY <1>2, StepsAreKinds
  <2>4. QED BY <2>1, <2>2, <2>3 DEF Left, Passed, Ordered
<1>5. w.status = "running" /\ Tally(w)
  BY NothingMarked DEF Tally
<1> HIDE DEF w
<1>6. QED BY <1>1, <1>2, <1>3, <1>4, <1>5, LoopKeeps

(* An approved step becomes a completed one, by somebody other than the    *)
(* requester, and the loop goes on behind it.                              *)
LEMMA ApproveKeeps ==
  ASSUME EngineInv, NEW c \in Clients, NEW r \in Runs, NEW u \in Users,
         NEW step, approve_step(c, r, u, step)
  PROVE  EngineInv'
<1> DEFINE last == Len(row[r].results)
           given == [status |-> "completed", by |-> u]
           decided == Replace(row[r].results, last, given)
           w == [row[r] EXCEPT !.results = decided,
                               !.completed = @ + 1,
                               !.status = "running"]
<1>1. /\ co[c] = Idle /\ row[r].status = "waiting_approval"
      /\ u # row[r].requester
      /\ row[r].results[last].status = "waiting_approval"
      /\ Loop(c, r, w, w.next_step)
  BY DEF approve_step, Continue
<1>2. row[r] \in Rows
  BY DEF EngineInv, TypeOK, Rows
<1>3. /\ Left(row[r], invoked[r])
      /\ row[r].next_step = last /\ last > 0 /\ last \in Nat
      /\ row[r].results \in Seq(Results)
  BY <1>1, <1>2 DEF EngineInv, Consistent, Left, Rows
<1>4. /\ w.status = "running" /\ w.requester = row[r].requester
      /\ w.steps = row[r].steps /\ w.next_step = last
      /\ w.results = [row[r].results EXCEPT ![last] = given]
  BY <1>2, <1>3 DEF Rows, Replace
<1>5. /\ w.results \in Seq(Results) /\ Len(w.results) = last
      /\ w.results[last] = given
      /\ \A k \in 1 .. last - 1 : w.results[k] = row[r].results[k]
  <2>1. given \in Results BY DEF Results
  <2>2. last \in 1 .. Len(row[r].results) BY <1>3
  <2>3. QED BY <1>3, <1>4, <2>1, <2>2
<1>6. w \in Rows
  <2>1. w = [status |-> "running", requester |-> row[r].requester,
             steps |-> row[r].steps, next_step |-> row[r].next_step,
             results |-> decided, completed |-> row[r].completed + 1,
             failed |-> row[r].failed]
    BY <1>2, Approved, Zenon
  <2>2. /\ row[r].requester \in Users \cup {nobody}
        /\ row[r].steps \in {<<>>} \cup Definitions
        /\ row[r].next_step \in Nat
        /\ row[r].completed \in Nat /\ row[r].failed \in Nat
    BY <1>2, Zenon DEF Rows
  <2>3. row[r].completed + 1 \in Nat /\ "running" \in Statuses
    BY <2>2 DEF Statuses
  <2> HIDE DEF w
  <2>4. QED BY <1>5, <2>1, <2>2, <2>3 DEF Rows
<1>7. Drivers(r) = {}
  BY <1>1 DEF EngineInv, OneDriver
<1>8. Left(w, invoked[r])
  <2>1. Passed(row[r], last - 1)
    BY <1>1, <1>3 DEF Left
  <2>2. u \notin {nobody, row[r].requester}
    BY <1>1, EngineAssumption DEF EngineAssumption
  <2> HIDE DEF w, last
  <2>3. Passed(w, last)
    BY <1>3, <1>4, <1>5, <2>1, <2>2 DEF Passed
  <2>4. QED BY <1>3, <1>4, <1>5, <2>3 DEF Left
<1>9. Tally(w)
  <2>1. given \in Results /\ given.status = "completed" BY DEF Results
  <2>2. last \in 1 .. Len(row[r].results) BY <1>3
  <2>3. w.completed = row[r].completed + 1 /\ w.failed = row[r].failed
    BY <1>2 DEF Rows
  <2>4. w.results = Replace(row[r].results, last, given) BY <1>4 DEF Replace
  <2>5. Tally(row[r]) BY DEF EngineInv
  <2> HIDE DEF w, given, last, decided
  <2>0. /\ row[r].results[last].status = "waiting_approval"
        /\ row[r].results \in Seq(Results)
        /\ row[r].results[last].status # given.status
        /\ "error" \notin {row[r].results[last].status, given.status}
    BY <1>1, <1>3, <2>1
  <2>6. /\ Marks(w.results, "error") = Marks(row[r].results, "error")
        /\ Marks(w.results, "waiting_approval")
             = Marks(row[r].results, "waiting_approval") \ {last}
        /\ Cardinality(Marks(w.results, "completed"))
             = Cardinality(Marks(row[r].results, "completed")) + 1
    <3>1. PICK s \in Seq(Results) : s = row[r].results BY <2>0, Zenon
    <3>2. last \in 1 .. Len(s) /\ s[last].status # given.status
      BY <2>0, <2>2, <3>1, Zenon
    <3>3. /\ \A status : status \notin {s[last].status, given.status} =>
                Marks(Replace(s, last, given), status) = Marks(s, status)
          /\ Marks(Replace(s, last, given), s[last].status)
               = Marks(s, s[last].status) \ {last}
          /\ Cardinality(Marks(Replace(s, last, given), given.status))
               = Cardinality(Marks(s, given.status)) + 1
      BY <2>1, <3>2, MarkReplaced
    <3>4. QED BY <2>0, <2>1, <2>4, <3>1, <3>3
  <2>7. Marks(row[r].results, "waiting_approval") = {last}
    BY <1>1, <2>5 DEF Tally, last
  <2>8. QED BY <1>4, <2>3, <2>5, <2>6, <2>7 DEF Tally
<1> HIDE DEF w
<1>10. QED BY <1>1, <1>4, <1>6, <1>7, <1>8, <1>9, LoopKeeps

(* The result of the awaited step is added, and the loop goes on or, after *)
(* a fatal failure, ends.                                                  *)
LEMMA StepReturnsKeeps ==
  ASSUME EngineInv, NEW c \in Clients, NEW outcome \in {"completed", "error"},
         StepReturns(c, outcome)
  PROVE  EngineInv'
<1> DEFINE r == co[c].run
           index == co[c].index
           back == [status |-> outcome, by |-> nobody]
           results == Append(row[r].results, back)
           completed == IF outcome = "completed" THEN row[r].completed + 1
                        ELSE row[r].completed
           failed == IF outcome = "completed" THEN row[r].failed
                     ELSE row[r].failed + 1
           w == [row[r] EXCEPT !.results = results, !.next_step = index + 1,
                               !.completed = completed, !.failed = failed]
           stopped == [w EXCEPT !.status = "failed"]
<1>1. /\ co[c] # Idle
      /\ \/ outcome = "error" /\ Leave(c, r, stopped)
         \/ Loop(c, r, w, index + 1)
  BY DEF StepReturns
<1>2. r \in Runs /\ co[c].run = r
  BY <1>1 DEF EngineInv, TypeOK, Shape
<1>3. /\ row[r].status = "running" /\ Drivers(r) \subseteq {c}
      /\ index = row[r].next_step /\ Driven(row[r], invoked[r])
  <2>1. c \in Drivers(r)
    BY DEF Drivers
  <2>2. /\ row[r].status = "running"
        /\ \A d \in Drivers(r) : c = d /\ co[c].index = row[r].next_step
    BY <1>2, <2>1 DEF EngineInv, OneDriver
  <2>3. QED BY <1>2, <2>1, <2>2 DEF EngineInv, Consistent
<1>4. row[r] \in Rows /\ invoked[r] \in Seq(Nat)
  BY <1>2 DEF EngineInv, TypeOK, Rows
<1>5. /\ index \in Nat /\ index = Len(row[r].results)
      /\ row[r].results \in Seq(Results)
      /\ index < Len(row[r].steps) /\ Len(row[r].steps) \in Nat
      /\ row[r].steps[index + 1] # "approval"
  BY <1>3, <1>4, StepsAreKinds DEF Driven, Rows
<1>6. /\ results \in Seq(Results) /\ Len(results) = index + 1
      /\ \A k \in 1 .. index : results[k] = row[r].results[k]
  <2>1. back \in Results BY DEF Results
  <2>2. QED BY <1>5, <2>1
<1>7. w = [status |-> "running", requester |-> row[r].requester,
           steps |-> row[r].steps, next_step |-> index + 1, results |-> results,
           completed |-> completed, failed |-> failed]
  <2> HIDE DEF results, completed, failed, index, r
  <2>1. w = [status |-> row[r].status, requester |-> row[r].requester,
             steps |-> row[r].steps, next_step |-> index + 1, results |-> results,
             completed |-> completed, failed |-> failed]
    <3>1. PICK v : v = w
      OBVIOUS
    <3>2. v = [status |-> row[r].status, requester |-> row[r].requester,
               steps |-> row[r].steps, next_step |-> index + 1, results |-> results,
               completed |-> completed, failed |-> failed]
      BY <1>4, <3>1 DEF Rows
    <3>3. QED BY <3>1, <3>2, Zenon
  <2> HIDE DEF w
  <2>2. QED BY <1>3, <2>1, Zenon
<1> HIDE DEF w, results
<1>8. /\ w.status = "running" /\ w.requester = row[r].requester
      /\ w.steps = row[r].steps /\ w.next_step = index + 1 /\ w.results = results
  BY <1>7
<1>9. w \in Rows
  <2>1. /\ row[r].requester \in Users \cup {nobody}
        /\ row[r].steps \in {<<>>} \cup Definitions
        /\ row[r].completed \in Nat /\ row[r].failed \in Nat
    BY <1>4, Zenon DEF Rows
  <2>2. /\ completed \in Nat /\ failed \in Nat /\ index + 1 \in Nat
        /\ "running" \in Statuses
    <3>1. completed \in Nat BY <2>1
    <3>2. failed \in Nat BY <2>1
    <3>3. index + 1 \in Nat BY <1>5
    <3>4. QED BY <3>1, <3>2, <3>3 DEF Statuses
  <2> HIDE DEF completed, failed, index, r
  <2>3. QED BY <1>6, <1>7, <2>1, <2>2 DEF Rows
<1>10. Left(w, invoked[r])
  <2>1. Passed(w, index + 1)
    <3> SUFFICES ASSUME NEW k \in 1 .. index + 1, row[r].steps[k] = "approval"
                 PROVE  results[k].by \notin {nobody, row[r].requester}
      BY <1>8 DEF Passed
    <3> HIDE DEF index, r
    <3>1. k \in 1 .. index
      BY <1>5
    <3>2. row[r].results[k].by \notin {nobody, row[r].requester}
      BY <1>3, <3>1 DEF Driven, Passed
    <3>3. QED BY <1>6, <3>1, <3>2
  <2>2. \A i \in DOMAIN invoked[r] : invoked[r][i] < index + 1
    BY <1>3, <1>4, <1>5 DEF Driven
  <2>3. Ordered(invoked[r])
    BY <1>3 DEF Driven
  <2>4. QED BY <1>5, <1>6, <1>8, <2>1, <2>2, <2>3 DEF Left
<1>11. Tally(w)
  <2>1. back \in Results /\ back.status = outcome BY DEF Results
  <2>2. /\ w.completed = completed /\ w.failed = failed
        /\ w.results = Append(row[r].results, back)
    BY <1>7 DEF results
  <2>3. Tally(row[r]) BY <1>2 DEF EngineInv
  <2> HIDE DEF back, index, r
  <2>4. /\ Marks(w.results, "waiting_approval")
             = Marks(row[r].results, "waiting_approval")
        /\ \A status \in {"completed", "error"} :
             Cardinality(Marks(w.results, status)) =
               IF status = outcome
               THEN Cardinality(Marks(row[r].results, status)) + 1
               ELSE Cardinality(Marks(row[r].results, status))
    <3>1. outcome # "waiting_approval" OBVIOUS
    <3>2. QED BY <1>5, <2>1, <2>2, <3>1, MarkAppended
  <2>5. /\ Cardinality(Marks(w.results, "completed")) = w.completed
        /\ Cardinality(Marks(w.results, "error")) = w.failed
    BY <2>2, <2>3, <2>4 DEF Tally
  <2>6. QED BY <1>3, <1>8, <2>3, <2>4, <2>5 DEF Tally
<1>12. CASE Loop(c, r, w, index + 1)
  BY <1>2, <1>3, <1>8, <1>9, <1>10, <1>12, <1>11, LoopKeeps
<1>13. CASE outcome = "error" /\ Leave(c, r, stopped)
  <2>1. /\ stopped.status = "failed" /\ stopped.requester = w.requester
        /\ stopped.steps = w.steps /\ stopped.next_step = w.next_step
        /\ stopped.results = w.results
        /\ stopped.completed = w.completed /\ stopped.failed = w.failed
    BY <1>9 DEF Rows
  <2>2. stopped \in Rows
    BY <1>9 DEF Rows, Statuses
  <2> HIDE DEF stopped
  <2>3. Left(stopped, invoked[r])
    BY <1>8, <1>10, <2>1 DEF Left, Passed
  <2>4. w.failed > 0
    <3>1. w.failed = row[r].failed + 1 /\ row[r].failed \in Nat
      BY <1>4, <1>7, <1>13 DEF Rows
    <3>2. QED BY <3>1
  <2>5. Tally(stopped)
    BY <1>8, <1>11, <2>1, <2>4 DEF Tally
  <2>6. QED BY <1>2, <1>3, <1>13, <2>1, <2>2, <2>3, <2>5, LeaveKeeps
<1>14. QED BY <1>1, <1>12, <1>13

(* Each step keeps the invariant.                                          *)
LEMMA NextEngineInv == EngineInv /\ [Next]_vars => EngineInv'
<1> SUFFICES ASSUME EngineInv, [Next]_vars PROVE EngineInv'
  OBVIOUS
<1>1. ASSUME NEW c \in Clients, NEW r \in Runs, NEW u \in Users,
             NEW steps \in Definitions, run(c, r, u, steps)
      PROVE  EngineInv'
  BY <1>1, RunKeeps
<1>2. ASSUME NEW c \in Clients, NEW r \in Runs, NEW u \in Users,
             NEW step \in DOMAIN row[r].results, approve_step(c, r, u, step)
      PROVE  EngineInv'
  BY <1>2, ApproveKeeps
<1>3. ASSUME NEW c \in Clients, NEW outcome \in {"completed", "error"},
             StepReturns(c, outcome)
      PROVE  EngineInv'
  BY <1>3, StepReturnsKeeps
<1>4. CASE UNCHANGED vars
  <2>1. row' = row /\ history' = history /\ co' = co /\ invoked' = invoked
    BY <1>4 DEF vars
  <2>2. TypeOK' BY <2>1 DEF EngineInv, TypeOK
  <2>3. OneDriver' /\ Shape'
    BY <2>1 DEF EngineInv, OneDriver, Drivers, Shape
  <2>4. HistoryFresh' BY <2>1 DEF EngineInv, HistoryFresh
  <2>5. \A r \in Runs : Consistent(row'[r], invoked'[r]) /\ Tally(row'[r])
    BY <2>1 DEF EngineInv
  <2>6. QED
    BY <2>2, <2>3, <2>4, <2>5 DEF EngineInv, Consistent, Tally
<1>5. QED BY <1>1, <1>2, <1>3, <1>4 DEF Next

-----------------------------------------------------------------------------
(* What follows from it.                                                   *)

(* No executor is started beyond an approval step until somebody other     *)
(* than the requester has approved it, and no step is started twice.       *)
LEMMA InvImplies == EngineInv => ApprovalBarrier /\ InvokedInOrder
<1> SUFFICES ASSUME EngineInv PROVE ApprovalBarrier /\ InvokedInOrder
  OBVIOUS
<1>1. ASSUME NEW r \in Runs PROVE Ordered(invoked[r])
  BY DEF EngineInv, Consistent, Left, Driven
<1>2. ASSUME NEW r \in Runs, NEW i \in DOMAIN invoked[r],
             NEW k \in 1 .. invoked[r][i], row[r].steps[k] = "approval"
      PROVE  row[r].results[k].by \notin {nobody, row[r].requester}
  <2>1. /\ invoked[r][i] \in Nat /\ row[r].next_step \in Nat
    BY <1>2 DEF EngineInv, TypeOK
  <2>2. CASE row[r].status = "running"
    BY <1>2, <2>1, <2>2 DEF EngineInv, Consistent, Driven, Passed
  <2>3. CASE row[r].status # "running"
    <3>1. Left(row[r], invoked[r])
      BY <2>3 DEF EngineInv, Consistent
    <3>2. invoked[r][i] < row[r].next_step
      BY <3>1 DEF Left
    <3>3. k \in 1 .. row[r].next_step - 1 /\ k \in 1 .. row[r].next_step
      BY <2>1, <3>2
    <3>4. QED BY <1>2, <3>1, <3>3 DEF Left, Passed
  <2>4. QED BY <2>2, <2>3
<1>3. QED BY <1>1, <1>2 DEF ApprovalBarrier, InvokedInOrder, Ordered

(* The counters are those of the results.                                  *)
LEMMA InvTallies == EngineInv => LedgerAgrees
<1> SUFFICES ASSUME EngineInv, NEW r \in Runs
             PROVE  /\ row[r].next_step = Len(row[r].results)
                    /\ row[r].completed = Cardinality(With(r, "completed"))
                    /\ row[r].failed = Cardinality(With(r, "error"))
                    /\ With(r, "waiting_approval") =
                         IF row[r].status = "waiting_approval"
                         THEN {Len(row[r].results)} ELSE {}
                    /\ row[r].status = "completed" =>
                         row[r].completed = Len(row[r].steps)
                    /\ row[r].status = "failed" => row[r].failed > 0
  BY DEF LedgerAgrees
<1>1. row[r].next_step = Len(row[r].results)
  BY DEF EngineInv, Consistent, Left, Driven
<1>2. \A status : With(r, status) = Marks(row[r].results, status)
  BY DEF With, Marks
<1>3. Tally(row[r]) BY DEF EngineInv
<1>4. QED BY <1>1, <1>2, <1>3 DEF Tally

(* EngineInv holds in every reachable state.                               *)
LEMMA AlwaysEngineInv == Spec => []EngineInv
<1>1. Init => EngineInv BY InitEngineInv
<1>2. EngineInv /\ [Next]_vars => EngineInv' BY NextEngineInv
<1>3. QED BY <1>1, <1>2, PTL DEF Spec

(* Every row, history item and coroutine keeps its type (RUNS,             *)
(* EXECUTION_HISTORY, _continue_run).                                      *)
THEOREM EngineTyped == Spec => []TypeOK
<1>1. EngineInv => TypeOK BY DEF EngineInv
<1>2. QED BY <1>1, AlwaysEngineInv, PTL

(* A run is running exactly while one coroutine drives it, and that one    *)
(* awaits the step at next_step (run, _continue_run, approve_step).        *)
THEOREM OneDriverOnly == Spec => []OneDriver
<1>1. EngineInv => OneDriver BY DEF EngineInv
<1>2. QED BY <1>1, AlwaysEngineInv, PTL

(* No executor is started beyond an approval step until somebody other     *)
(* than the requester has approved that step (approve_step).               *)
THEOREM ApprovalsGate == Spec => []ApprovalBarrier
<1>1. EngineInv => ApprovalBarrier BY InvImplies
<1>2. QED BY <1>1, AlwaysEngineInv, PTL

(* No step is started twice or out of order, however often the run is      *)
(* suspended and continued (_continue_run).                                *)
THEOREM StepsInOrder == Spec => []InvokedInOrder
<1>1. EngineInv => InvokedInOrder BY InvImplies
<1>2. QED BY <1>1, AlwaysEngineInv, PTL

(* The counters, the position and the verdict of a run are those of its    *)
(* step results (_continue_run, approve_step).                             *)
THEOREM LedgerAlwaysAgrees == Spec => []LedgerAgrees
<1>1. EngineInv => LedgerAgrees BY InvTallies
<1>2. QED BY <1>1, AlwaysEngineInv, PTL

(* The execution history holds one item per run that ever stopped, and it  *)
(* shows the row as it is while the run is stopped (_history_record).      *)
THEOREM HistoryIsFresh == Spec => []HistoryFresh
<1>1. EngineInv => HistoryFresh BY DEF EngineInv
<1>2. QED BY <1>1, AlwaysEngineInv, PTL

(* The loop changes the one row it was entered with.                       *)
LEMMA LoopTouches ==
  ASSUME TypeOK, NEW c, NEW r, NEW w, NEW index,
         Loop(c, r, w, index),
         NEW q \in Runs, q # r
  PROVE  row'[q] = row[q] /\ invoked'[q] = invoked[q]
BY DEF Loop, Leave, TypeOK

(* A completed or failed run keeps its row and starts no executor again,   *)
(* whoever still holds a coroutine of it (_continue_run, approve_step).    *)
THEOREM SettledStays == Spec => SettledIsFinal
<1> DEFINE Kept == \A r \in Runs : row[r].status \in {"completed", "failed"} =>
                     row'[r] = row[r] /\ invoked'[r] = invoked[r]
<1>1. ASSUME EngineInv, [Next]_vars PROVE [Kept]_vars
  <2> SUFFICES ASSUME NEW q \in Runs, row[q].status \in {"completed", "failed"}
               PROVE  row'[q] = row[q] /\ invoked'[q] = invoked[q]
    OBVIOUS
  <2>1. TypeOK
    BY <1>1 DEF EngineInv
  <2>2. ASSUME NEW c \in Clients, NEW r \in Runs, NEW u \in Users,
               NEW steps \in Definitions, run(c, r, u, steps)
        PROVE  row'[q] = row[q] /\ invoked'[q] = invoked[q]
    <3>1. q # r
      BY <2>2 DEF run
    <3>2. PICK w, index : Loop(c, r, w, index)
      BY <2>2 DEF run, Continue
    <3>3. QED BY <2>1, <3>1, <3>2, LoopTouches
  <2>3. ASSUME NEW c \in Clients, NEW r \in Runs, NEW u \in Users,
               NEW step, approve_step(c, r, u, step)
        PROVE  row'[q] = row[q] /\ invoked'[q] = invoked[q]
    <3>1. q # r
      BY <2>3 DEF approve_step
    <3>2. PICK w, index : Loop(c, r, w, index)
      BY <2>3 DEF approve_step, Continue
    <3>3. QED BY <2>1, <3>1, <3>2, LoopTouches
  <2>4. ASSUME NEW c \in Clients, NEW outcome \in {"completed", "error"},
               StepReturns(c, outcome)
        PROVE  row'[q] = row[q] /\ invoked'[q] = invoked[q]
    <3>1. PICK r, w, index : r = co[c].run /\ (Loop(c, r, w, index) \/ Leave(c, r, w))
      BY <2>4 DEF StepReturns
    <3>2. c \in Drivers(r) /\ co[c] # Idle
      BY <2>4, <3>1 DEF Drivers, StepReturns
    <3>3. r \in Runs
      BY <1>1, <2>1, <3>1, <3>2 DEF EngineInv, Shape, TypeOK
    <3>4. row[r].status = "running"
      BY <1>1, <3>2, <3>3 DEF EngineInv, OneDriver
    <3>5. q # r
      BY <3>4
    <3>6. CASE Loop(c, r, w, index)
      BY <2>1, <3>5, <3>6, LoopTouches
    <3>7. CASE Leave(c, r, w)
      BY <2>1, <3>5, <3>7 DEF Leave, TypeOK
    <3>8. QED BY <3>1, <3>6, <3>7
  <2>5. CASE UNCHANGED vars
    BY <2>5 DEF vars
  <2>6. QED BY <1>1, <2>2, <2>3, <2>4, <2>5 DEF Next
<1>2. QED
  BY <1>1, AlwaysEngineInv, PTL DEF Spec, SettledIsFinal
=============================================================================
