---------------------------- MODULE WorkflowEngine ----------------------------
(***************************************************************************)
(* The workflow engine (services/workflow_engine/main.py): runs kept in    *)
(* the process, driven by the coroutines of the HTTP requests.  One event  *)
(* loop executes everything between two awaits as one step, and the only   *)
(* awaits of _continue_run are those of step executors.  A coroutine is    *)
(* therefore either idle or suspended in the executor of one step; each    *)
(* action below runs from one such point to the next.                      *)
(*                                                                         *)
(* A step is a task whose failure ends the run ("fatal"), a task with      *)
(* fail_workflow_on_error = False ("tolerant"), or an "approval".  What a  *)
(* task returns is completed or not; "error" stands for "skipped" too,     *)
(* which the code counts alike.  An unknown step type is a task that       *)
(* fails; the code does not suspend for it.  Requests answered with an     *)
(* HTTP error change nothing.  Contexts, tenants and times are left out.   *)
(***************************************************************************)
EXTENDS Naturals, FiniteSets, Sequences

CONSTANTS
  Runs,         (* run ids                                                 *)
  Users,        (* verified subjects                                       *)
  Clients,      (* coroutines serving HTTP requests                        *)
  Definitions,  (* the workflows that may be submitted: sequences of steps *)
  capacity,     (* the most runs RUNS may hold (10000)                     *)
  nobody        (* no approver, no run                                     *)

Kinds == {"fatal", "tolerant", "approval"}

ASSUME EngineAssumption ==
  /\ Definitions \subseteq Seq(Kinds)
  /\ capacity \in Nat
  /\ nobody \notin Users \cup Runs

VARIABLES
  row,      (* RUNS                                                        *)
  history,  (* EXECUTION_HISTORY                                           *)
  co,       (* per coroutine: the run it drives and the index of the step
               whose executor it awaits                                    *)
  invoked   (* history variable: the step indices executors were started
               for, per run, in order                                      *)

vars == <<row, history, co, invoked>>

Absent == [status |-> "absent", requester |-> nobody, steps |-> <<>>,
           next_step |-> 0, results |-> <<>>, completed |-> 0, failed |-> 0]

Idle == [run |-> nobody, index |-> 0]

Statuses == {"absent", "running", "waiting_approval", "completed", "failed"}
Results == [status : {"completed", "error", "waiting_approval"},
            by : Users \cup {nobody}]

TypeOK ==
  /\ row \in [Runs -> [status : Statuses, requester : Users \cup {nobody},
                       steps : {<<>>} \cup Definitions, next_step : Nat,
                       results : Seq(Results), completed : Nat, failed : Nat]]
  /\ history \in Seq([run : Runs, status : Statuses, completed : Nat, failed : Nat])
  /\ co \in [Clients -> [run : Runs \cup {nobody}, index : Nat]]
  /\ invoked \in [Runs -> Seq(Nat)]

Init ==
  /\ row = [r \in Runs |-> Absent]
  /\ history = <<>>
  /\ co = [c \in Clients |-> Idle]
  /\ invoked = [r \in Runs |-> <<>>]

Replace(s, i, e) == [s EXCEPT ![i] = e]

-----------------------------------------------------------------------------
(* Plausible bugs: each stands in for one definition below, to show that   *)
(* the properties notice it.                                               *)

\* The history is only ever appended to.
HistoryRecordAppends(r, w) ==
  history' = Append(history, [run |-> r, status |-> w.status,
                              completed |-> w.completed, failed |-> w.failed])

\* _continue_run forgets to settle the status when the loop runs out.
LeaveUnsettled(c, r, w) ==
  /\ row' = [row EXCEPT ![r] = w]
  /\ co' = [co EXCEPT ![c] = Idle]
  /\ UNCHANGED <<history, invoked>>

-----------------------------------------------------------------------------
(* _history_record: one item per run, replaced in place.                   *)
HistoryRecord(r, w) ==
  LET item == [run |-> r, status |-> w.status,
               completed |-> w.completed, failed |-> w.failed]
      known == {i \in DOMAIN history : history[i].run = r}
  IN history' = IF known = {} THEN Append(history, item)
                ELSE [i \in DOMAIN history |-> IF i \in known THEN item ELSE history[i]]

(* The end of _continue_run: w is the row as the loop left it.             *)
Leave(c, r, w) ==
  LET final == IF w.status # "running" THEN w
               ELSE [w EXCEPT !.status = IF w.failed > 0 THEN "failed" ELSE "completed"]
  IN /\ row' = [row EXCEPT ![r] = final]
     /\ co' = [co EXCEPT ![c] = Idle]
     /\ HistoryRecord(r, final)
     /\ UNCHANGED invoked

(* The loop of _continue_run at `index`, up to its next await or its end.  *)
Loop(c, r, w, index) ==
  \/ /\ index = Len(w.steps)
     /\ Leave(c, r, w)
  \/ /\ index < Len(w.steps)
     /\ w.steps[index + 1] = "approval"
     /\ Leave(c, r, [w EXCEPT
          !.results = Append(@, [status |-> "waiting_approval", by |-> nobody]),
          !.next_step = index + 1,
          !.status = "waiting_approval"])
  \/ /\ index < Len(w.steps)
     /\ w.steps[index + 1] # "approval"
     /\ row' = [row EXCEPT ![r] = w]
     /\ co' = [co EXCEPT ![c] = [run |-> r, index |-> index]]
     /\ invoked' = [invoked EXCEPT ![r] = Append(@, index)]
     /\ UNCHANGED history

\* Plausible bugs of the two handlers below.
\* A step's status becomes the run's.
StepReturnsLeaks(c, outcome) ==
  LET r == co[c].run IN
  /\ co[c] # Idle
  /\ Loop(c, r, [row[r] EXCEPT
       !.results = Append(@, [status |-> outcome, by |-> nobody]),
       !.next_step = co[c].index + 1, !.status = outcome], co[c].index + 1)

\* The run is not marked as running before the first await.
ContinueUnmarked(c, r, w) == Loop(c, r, w, w.next_step)

Approvable(c, r, u, step) ==
  /\ co[c] = Idle
  /\ row[r].status = "waiting_approval"
  /\ step = Len(row[r].results)

\* The decision is recorded only once the remaining steps have run.
approve_stepLate(c, r, u, step) ==
  /\ Approvable(c, r, u, step)
  /\ u # row[r].requester
  /\ Loop(c, r, row[r], row[r].next_step)

\* The requester may approve.
approve_stepOwn(c, r, u, step) ==
  /\ Approvable(c, r, u, step)
  /\ Loop(c, r, [row[r] EXCEPT !.results = Replace(@, step, [status |-> "completed", by |-> u]),
                               !.completed = @ + 1,
                               !.status = "running"], row[r].next_step)

\* The approved step is not counted.
approve_stepUncounted(c, r, u, step) ==
  /\ Approvable(c, r, u, step)
  /\ u # row[r].requester
  /\ Loop(c, r, [row[r] EXCEPT !.results = Replace(@, step, [status |-> "completed", by |-> u]),
                               !.status = "running"], row[r].next_step)

Continue(c, r, w) == Loop(c, r, [w EXCEPT !.status = "running"], w.next_step)

-----------------------------------------------------------------------------
(* POST /workflows/run                                                     *)
run(c, r, u, steps) ==
  /\ co[c] = Idle
  /\ row[r].status = "absent"
  /\ Cardinality({q \in Runs : row[q].status # "absent"}) < capacity
  /\ Continue(c, r, [Absent EXCEPT !.status = "running",
                                 !.requester = u, !.steps = steps])

(* The awaited executor returns and the loop goes on.                      *)
StepReturns(c, outcome) ==
  LET r == co[c].run
      index == co[c].index
      w == [row[r] EXCEPT
              !.results = Append(@, [status |-> outcome, by |-> nobody]),
              !.next_step = index + 1,
              !.completed = IF outcome = "completed" THEN @ + 1 ELSE @,
              !.failed = IF outcome = "completed" THEN @ ELSE @ + 1]
  IN /\ co[c] # Idle
     /\ \/ /\ outcome = "error" /\ w.steps[index + 1] = "fatal"
           /\ Leave(c, r, [w EXCEPT !.status = "failed"])
        \/ /\ ~(outcome = "error" /\ w.steps[index + 1] = "fatal")
           /\ Loop(c, r, w, index + 1)

(* POST /workflows/{run_id}/approve/{step_id}, the step named by its index *)
approve_step(c, r, u, step) ==
  LET last == Len(row[r].results) IN
  /\ co[c] = Idle
  /\ row[r].status = "waiting_approval"
  /\ u # row[r].requester
  /\ step = last /\ row[r].results[last].status = "waiting_approval"
  /\ Continue(c, r, [row[r] EXCEPT
       !.results = Replace(@, last, [status |-> "completed", by |-> u]),
       !.completed = @ + 1])

Next ==
  \E c \in Clients :
    \/ \E r \in Runs, u \in Users : \/ \E steps \in Definitions : run(c, r, u, steps)
                                    \/ \E step \in DOMAIN row[r].results :
                                         approve_step(c, r, u, step)
    \/ \E outcome \in {"completed", "error"} : StepReturns(c, outcome)

(* Executors return: each of them awaits one HTTP call with a timeout, and *)
(* maps every exception to a result.  Nobody has to submit or approve.     *)
Fairness ==
  \A c \in Clients : WF_vars(\E outcome \in {"completed", "error"} : StepReturns(c, outcome))

Spec == Init /\ [][Next]_vars /\ Fairness

-----------------------------------------------------------------------------
(* "_continue_run changes state before its first await, rejecting          *)
(* duplicate decisions": a run is running exactly while one coroutine      *)
(* drives it, and that one awaits the row's next step.                     *)
Drivers(r) == {c \in Clients : co[c].run = r}

OneDriver ==
  \A r \in Runs :
    /\ row[r].status = "running" <=> Drivers(r) # {}
    /\ \A c, d \in Drivers(r) : c = d /\ co[c].index = row[r].next_step

(* The counters, the position and the verdict of a run are those of its    *)
(* step results, across any number of suspensions and approvals.           *)
With(r, status) == {i \in DOMAIN row[r].results : row[r].results[i].status = status}

LedgerAgrees ==
  \A r \in Runs : LET w == row[r] IN
    /\ w.next_step = Len(w.results)
    /\ w.completed = Cardinality(With(r, "completed"))
    /\ w.failed = Cardinality(With(r, "error"))
    /\ With(r, "waiting_approval") =
         IF w.status = "waiting_approval" THEN {Len(w.results)} ELSE {}
    /\ w.status = "completed" => w.completed = Len(w.steps)
    /\ w.status = "failed" => w.failed > 0

(* No executor is started beyond an approval step until somebody other     *)
(* than the requester has approved that step.                              *)
ApprovalBarrier ==
  \A r \in Runs : \A i \in DOMAIN invoked[r] : \A k \in 1 .. invoked[r][i] :
    row[r].steps[k] = "approval" =>
      row[r].results[k].by \notin {nobody, row[r].requester}

(* Steps have side effects: each is started at most once, in order.        *)
InvokedInOrder ==
  \A r \in Runs : \A i, j \in DOMAIN invoked[r] :
    i < j => invoked[r][i] < invoked[r][j]

(* The execution history has one item per run that ever stopped, and while *)
(* the run is stopped the item shows the row as it is.                     *)
HistoryFresh ==
  /\ \A i, j \in DOMAIN history : history[i].run = history[j].run => i = j
  /\ \A r \in Runs : row[r].status \notin {"absent", "running"} =>
       \E i \in DOMAIN history :
         history[i] = [run |-> r, status |-> row[r].status,
                       completed |-> row[r].completed, failed |-> row[r].failed]

(* A finished run is never touched again, by no late approval and no       *)
(* coroutine left over from an earlier stretch of it.                      *)
SettledIsFinal ==
  [][\A r \in Runs : row[r].status \in {"completed", "failed"} =>
       row'[r] = row[r] /\ invoked'[r] = invoked[r]]_vars

(* A started run stops: it completes, fails or waits for an approval.      *)
RunsSettle == \A r \in Runs : row[r].status = "running" ~> row[r].status # "running"
=============================================================================
