------------------------------ MODULE Approvals ------------------------------
(***************************************************************************)
(* The human-in-the-loop approval workflow of backend_core                 *)
(* (services/backend_core/approvals/service.py and router.py) over the     *)
(* PostgreSQL table human_approval_requests, READ COMMITTED.               *)
(*                                                                         *)
(* create_approval and decide_approval are one transaction each; decide    *)
(* holds the row lock (SELECT ... FOR UPDATE) from its read to its commit, *)
(* so each is one step.  cancel_approval reads the row without a lock and  *)
(* writes it later: two steps.  check_sla_breaches locks every pending     *)
(* row, sends its notices row by row inside the transaction and commits    *)
(* once: it spans several steps and may be rolled back between them.       *)
(*                                                                         *)
(* The audit log is a count per kind of entry, not a sequence: created_at  *)
(* is the start of the writer's transaction and the id is drawn before the *)
(* locked UPDATE, so the entry of a stale cancel may read as older than    *)
(* the decision it overwrites, and no order of the log can be relied on.   *)
(*                                                                         *)
(* A call that ends in ValueError rolls back and is a stuttering step.     *)
(* Tenant scoping, reasons and timestamps are left out.                    *)
(***************************************************************************)
EXTENDS Naturals, FiniteSets

CONSTANTS
  Requests,         (* request ids                                         *)
  Users,            (* verified subjects                                   *)
  Admins,           (* those who carry the role hsaai_admin                *)
  none,             (* a NULL column                                       *)
  MAX_ESCALATIONS,
  MaxAborts         (* bound: sweeps that are rolled back                  *)

ASSUME ApprovalAssumption ==
  /\ Admins \subseteq Users
  /\ none \notin Users
  /\ MAX_ESCALATIONS \in Nat \ {0}
  /\ MaxAborts \in Nat

VARIABLES
  row,        (* the committed rows                                        *)
  audit,      (* audit_logs: how often each entry stands there             *)
  overdue,    (* requests whose sla_deadline has passed                    *)
  cancelling, (* <<actor, request>>: cancel_approval past its checks       *)
  sweep,      (* the open check_sla_breaches transaction                   *)
  notices,    (* calls of notify_approval for an escalation, per request   *)
  aborts

vars == <<row, audit, overdue, cancelling, sweep, notices, aborts>>

Pending == {"pending", "pending_first_approval", "pending_second_approval"}
Decided == {"approved", "rejected", "expired", "cancelled"}

Absent == [status |-> "absent", requester |-> none, two_person |-> FALSE,
           approver |-> none, second_approver |-> none, escalation_count |-> 0]

Rows == [status : {"absent"} \cup Pending \cup Decided,
         requester : Users \cup {none}, two_person : BOOLEAN,
         approver : Users \cup {none}, second_approver : Users \cup {none},
         escalation_count : 0 .. MAX_ESCALATIONS]

Actions == {"create", "reject", "first_approve", "second_approve", "approve",
            "cancel", "expire", "escalate"}

Actors == Users \cup {"system:scheduler"}

Idle == [locked |-> {}, todo |-> {}, marked |-> {}]

TypeOK ==
  /\ row \in [Requests -> Rows]
  /\ audit \in [Requests -> [Actions -> [Actors -> Nat]]]
  /\ overdue \in SUBSET Requests
  /\ cancelling \in SUBSET (Users \X Requests)
  /\ sweep \in [locked : SUBSET Requests, todo : SUBSET Requests,
                marked : SUBSET Requests]
  /\ notices \in [Requests -> Nat]
  /\ aborts \in 0 .. MaxAborts

Init ==
  /\ row = [r \in Requests |-> Absent]
  /\ audit = [r \in Requests |-> [action \in Actions |-> [u \in Actors |-> 0]]]
  /\ overdue = {}
  /\ cancelling = {}
  /\ sweep = Idle
  /\ notices = [r \in Requests |-> 0]
  /\ aborts = 0

-----------------------------------------------------------------------------
(* Plausible bugs: each stands in for one definition below, to show that   *)
(* the properties notice it.                                               *)

\* The requester may be the first approver.
FirstApproveByAnyone(r, u) ==
  /\ r \notin sweep.locked
  /\ row[r].status = "pending_first_approval"
  /\ row' = [row EXCEPT ![r].status = "pending_second_approval", ![r].approver = u]
  /\ audit' = [audit EXCEPT ![r].first_approve[u] = @ + 1]

\* The first approver may also be the second.
SecondApproveBySame(r, u) ==
  /\ r \notin sweep.locked
  /\ row[r].status = "pending_second_approval"
  /\ u # row[r].requester
  /\ row' = [row EXCEPT ![r].status = "approved", ![r].second_approver = u]
  /\ audit' = [audit EXCEPT ![r].second_approve[u] = @ + 1]

\* The sweep selects the two-person states only (the bug its comment recalls).
SweepBeginTwoPerson ==
  LET locked == {r \in Requests : row[r].status \in Pending \ {"pending"}} IN
  /\ sweep = Idle
  /\ locked # {}
  /\ sweep' = [locked |-> locked, todo |-> locked \cap overdue, marked |-> {}]
  /\ UNCHANGED <<row, audit, overdue, cancelling, notices, aborts>>

\* The limit is compared with the count before it is bumped.
ExhaustedLate(r) == row[r].escalation_count >= MAX_ESCALATIONS

\* The notice is sent in the wrong branch.
SweepRowSwapped(r) ==
  /\ r \in sweep.todo
  /\ sweep' = [sweep EXCEPT !.todo = @ \ {r}, !.marked = @ \cup {r}]
  /\ notices' = IF row[r].escalation_count + 1 >= MAX_ESCALATIONS
                THEN [notices EXCEPT ![r] = @ + 1] ELSE notices
  /\ UNCHANGED <<row, audit, overdue, cancelling, aborts>>

\* The sweep reads the pending rows without with_for_update.
SweepBeginUnlocked ==
  LET found == {r \in Requests : row[r].status \in Pending} IN
  /\ sweep = Idle
  /\ found \cap overdue # {}
  /\ sweep' = [locked |-> {}, todo |-> found \cap overdue, marked |-> {}]
  /\ UNCHANGED <<row, audit, overdue, cancelling, notices, aborts>>

-----------------------------------------------------------------------------
(* _audit: the entry is added to the caller's transaction.                 *)
Audited(r, action, actor) ==
  audit' = [audit EXCEPT ![r][action][actor] = @ + 1]

NewRow(u, two) ==
  [status |-> IF two THEN "pending_first_approval" ELSE "pending",
   requester |-> u, two_person |-> two, approver |-> none,
   second_approver |-> none, escalation_count |-> 0]

create_approval(r, u, two) ==
  /\ row[r].status = "absent"
  /\ row' = [row EXCEPT ![r] = NewRow(u, two)]
  /\ Audited(r, "create", u)
  /\ UNCHANGED <<overdue, cancelling, sweep, notices, aborts>>

(* decide_approval waits for the row lock and finds the row as committed.  *)
Decidable(r) ==
  /\ r \notin sweep.locked
  /\ row[r].status \in IF row[r].two_person
                       THEN Pending \ {"pending"} ELSE {"pending"}

Reject(r, u) ==
  /\ Decidable(r)
  /\ row' = [row EXCEPT ![r].status = "rejected", ![r].approver = u]
  /\ Audited(r, "reject", u)

FirstApprove(r, u) ==
  /\ Decidable(r)
  /\ row[r].status = "pending_first_approval"
  /\ u # row[r].requester
  /\ row' = [row EXCEPT ![r].status = "pending_second_approval", ![r].approver = u]
  /\ Audited(r, "first_approve", u)

SecondApprove(r, u) ==
  /\ Decidable(r)
  /\ row[r].status = "pending_second_approval"
  /\ u \notin {row[r].approver, row[r].requester}
  /\ row' = [row EXCEPT ![r].status = "approved", ![r].second_approver = u]
  /\ Audited(r, "second_approve", u)

SingleApprove(r, u) ==
  /\ Decidable(r)
  /\ ~row[r].two_person
  /\ u # row[r].requester
  /\ row' = [row EXCEPT ![r].status = "approved", ![r].approver = u]
  /\ Audited(r, "approve", u)

decide_approval(r, u) ==
  /\ \/ Reject(r, u)
     \/ FirstApprove(r, u)
     \/ SecondApprove(r, u)
     \/ SingleApprove(r, u)
  /\ UNCHANGED <<overdue, cancelling, sweep, notices, aborts>>

-----------------------------------------------------------------------------
(* cancel_approval: an unlocked read with its checks, then the UPDATE,     *)
(* which waits for the row lock but does not look at the row again.        *)

CancelCheck(r, u) ==
  /\ row[r].status \in Pending
  /\ u = row[r].requester \/ u \in Admins
  /\ cancelling' = cancelling \cup {<<u, r>>}
  /\ UNCHANGED <<row, audit, overdue, sweep, notices, aborts>>

CancelWrite(r, u) ==
  /\ <<u, r>> \in cancelling
  /\ r \notin sweep.locked
  /\ cancelling' = cancelling \ {<<u, r>>}
  /\ row' = [row EXCEPT ![r].status = "cancelled"]
  /\ Audited(r, "cancel", u)
  /\ UNCHANGED <<overdue, sweep, notices, aborts>>

-----------------------------------------------------------------------------
(* check_sla_breaches: begin, one step per breached row, commit.           *)

SweepBegin ==
  LET locked == {r \in Requests : row[r].status \in Pending} IN
  /\ sweep = Idle
  /\ locked # {}
  /\ sweep' = [locked |-> locked, todo |-> locked \cap overdue, marked |-> {}]
  /\ UNCHANGED <<row, audit, overdue, cancelling, notices, aborts>>

Exhausted(r) == row[r].escalation_count + 1 >= MAX_ESCALATIONS

\* notify_approval is best effort: that it is called is all the code knows.
SweepRow(r) ==
  /\ r \in sweep.todo
  /\ sweep' = [sweep EXCEPT !.todo = @ \ {r}, !.marked = @ \cup {r}]
  /\ notices' = IF Exhausted(r) THEN notices ELSE [notices EXCEPT ![r] = @ + 1]
  /\ UNCHANGED <<row, audit, overdue, cancelling, aborts>>

SweepAction(r) == IF Exhausted(r) THEN "expire" ELSE "escalate"

SweepCommit ==
  /\ sweep # Idle
  /\ sweep.todo = {}
  /\ row' = [r \in Requests |->
       IF r \notin sweep.marked THEN row[r]
       ELSE [row[r] EXCEPT !.escalation_count = @ + 1,
                           !.status = IF Exhausted(r) THEN "expired" ELSE @]]
  /\ audit' = [r \in Requests |->
       IF r \in sweep.marked
       THEN [audit[r] EXCEPT ![SweepAction(r)]["system:scheduler"] = @ + 1]
       ELSE audit[r]]
  /\ sweep' = Idle
  /\ UNCHANGED <<overdue, cancelling, notices, aborts>>

\* A failed statement or a dead process rolls the sweep back, but not the calls it made.
SweepAbort ==
  /\ sweep # Idle
  /\ aborts < MaxAborts
  /\ aborts' = aborts + 1
  /\ sweep' = Idle
  /\ UNCHANGED <<row, audit, overdue, cancelling, notices>>

\* The SLA window of a request runs out.
DeadlinePasses(r) ==
  /\ row[r].status # "absent"
  /\ r \notin overdue
  /\ overdue' = overdue \cup {r}
  /\ UNCHANGED <<row, audit, cancelling, sweep, notices, aborts>>

Next ==
  \/ \E r \in Requests, u \in Users : \/ \E two \in BOOLEAN : create_approval(r, u, two)
                                      \/ decide_approval(r, u)
                                      \/ CancelCheck(r, u)
                                      \/ CancelWrite(r, u)
  \/ \E r \in Requests : SweepRow(r) \/ DeadlinePasses(r)
  \/ SweepBegin
  \/ SweepCommit
  \/ SweepAbort

(* The sweep is called periodically and a call that is not rolled back     *)
(* finishes; people are not obliged to decide anything.                    *)
Fairness ==
  /\ WF_vars(SweepBegin)
  /\ \A r \in Requests : WF_vars(SweepRow(r))
  /\ WF_vars(SweepCommit)

Spec == Init /\ [][Next]_vars /\ Fairness

-----------------------------------------------------------------------------
(* What the audit log of a request says was done, and who approved it.     *)
Logged(r, action) == \E u \in Actors : audit[r][action][u] > 0

Approving == {"first_approve", "second_approve", "approve"}

Backers(r) == {u \in Users : \E action \in Approving : audit[r][action][u] > 0}

(* The two-person rule: an approved request is backed in the audit log by  *)
(* someone other than its requester, and by two such people when the       *)
(* request needs two; the row names them (decide_approval).                *)
TwoPersonRule ==
  \A r \in Requests : row[r].status = "approved" =>
    /\ row[r].approver \in Backers(r) \ {row[r].requester}
    /\ row[r].two_person =>
         row[r].second_approver \in Backers(r) \ {row[r].requester, row[r].approver}

(* The actions that end a request, and the state each leads to.            *)
Verdicts == {"reject", "second_approve", "approve", "expire"}

Verdict(action) ==
  CASE action = "reject" -> "rejected"
    [] action \in {"second_approve", "approve"} -> "approved"
    [] action = "expire" -> "expired"

\* The state by the log of a request that no verdict and no cancel has ended.
OpenState(r) ==
  IF Logged(r, "first_approve") THEN "pending_second_approval"
  ELSE IF ~Logged(r, "create") THEN "absent"
  ELSE IF row[r].two_person THEN "pending_first_approval" ELSE "pending"

Swept(r, action) == audit[r][action]["system:scheduler"]

Settles(r) ==
  /\ \A a, b \in Verdicts, u, v \in Actors :
       audit[r][a][u] > 0 /\ audit[r][b][v] > 0
         => a = b /\ u = v /\ audit[r][a][u] = 1
  /\ Logged(r, "cancel") <=> row[r].status = "cancelled"
  /\ \A a \in Verdicts : Logged(r, a) => row[r].status \in {Verdict(a), "cancelled"}
  /\ (\A a \in Verdicts \cup {"cancel"} : ~Logged(r, a))
       => row[r].status = OpenState(r)
  /\ row[r].escalation_count = Swept(r, "escalate") + Swept(r, "expire")

(* The audit log settles the state of a request without its order: however *)
(* decisions, sweeps and stale cancels race, at most one verdict is ever   *)
(* logged, the row is in the state it names unless a cancel is logged too, *)
(* and every escalation has its entry (_audit and its callers).            *)
AuditSettlesRow == \A r \in Requests : Settles(r)

(* An escalation is on record only if notify_approval was called for it,   *)
(* even if sweeps are rolled back between rows: calls may be repeated,     *)
(* never skipped.  Whether a call reaches anyone is not known to the code. *)
EscalationsDispatched == \A r \in Requests : Swept(r, "escalate") <= notices[r]

(* Escalation ends: a request still pending has been escalated fewer than  *)
(* MAX_ESCALATIONS times, and an expired one exactly that often.           *)
EscalationBound ==
  \A r \in Requests :
    /\ row[r].status \in Pending => row[r].escalation_count < MAX_ESCALATIONS
    /\ row[r].status = "expired" => row[r].escalation_count = MAX_ESCALATIONS

(* The workflow implements the gate: releases need a quorum of distinct    *)
(* backers, and only a late cancel ever leaves the released state.         *)
Phase(status) ==
  CASE status = "absent" -> "absent"
    [] status \in Pending -> "open"
    [] status = "approved" -> "released"
    [] OTHER -> "closed"

GateRow(r) ==
  [phase |-> Phase(row[r].status),
   owner |-> IF row[r].status = "absent" THEN "none" ELSE row[r].requester,
   quorum |-> IF row[r].status = "absent" THEN 0
              ELSE IF row[r].two_person THEN 2 ELSE 1,
   backers |-> Backers(r)]

GateRows == [r \in Requests |-> GateRow(r)]

Gate == INSTANCE ApprovalGate WITH gate <- GateRows

ReleaseGate == Gate!Spec

(* A request that no one decides in time does not stay pending for ever:   *)
(* the periodic sweep expires it.                                          *)
OverdueSettles == \A r \in Requests : r \in overdue ~> row[r].status \in Decided

(* "Cannot cancel request in state=...": once decided, a request keeps its *)
(* state.                                                                  *)
DecisionIsFinal ==
  [][\A r \in Requests :
       row[r].status \in Decided => row'[r].status = row[r].status]_vars
=============================================================================
