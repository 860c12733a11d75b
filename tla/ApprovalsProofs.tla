--------------------------- MODULE ApprovalsProofs ---------------------------
(***************************************************************************)
(* Safety of the approval workflow for any number of requests, people and  *)
(* administrators, and any escalation limit.                               *)
(***************************************************************************)
EXTENDS Approvals, TLAPS

(* What a sweep has processed or has still to process, it holds locked,    *)
(* and what it holds stays pending under it.                               *)
SweepShape == sweep.todo \cup sweep.marked \subseteq sweep.locked

SweptRowsPending == \A r \in sweep.locked : row[r].status \in Pending

(* A request half-way through the two-person rule has a first backer.      *)
HalfBacked ==
  \A r \in Requests : row[r].status = "pending_second_approval" =>
    row[r].approver \in Backers(r) \ {row[r].requester}

WorkflowInv ==
  /\ TypeOK
  /\ SweepShape
  /\ SweptRowsPending
  /\ EscalationBound
  /\ HalfBacked
  /\ TwoPersonRule

-----------------------------------------------------------------------------
(* One more entry is counted where it belongs and nowhere else.            *)
LEMMA Counted ==
  ASSUME TypeOK, NEW r \in Requests, NEW action \in Actions, NEW u \in Actors,
         audit'[r] = [audit[r] EXCEPT ![action][u] = @ + 1]
  PROVE  /\ audit'[r] \in [Actions -> [Actors -> Nat]]
         /\ audit'[r][action][u] = audit[r][action][u] + 1
         /\ \A a \in Actions, v \in Actors :
              a # action \/ v # u => audit'[r][a][v] = audit[r][a][v]
<1>1. audit[r] \in [Actions -> [Actors -> Nat]] BY DEF TypeOK
<1>2. QED BY <1>1

(* So one more action is logged, and the others as before.                 *)
LEMMA LoggedAfter ==
  ASSUME TypeOK, NEW r \in Requests, NEW action \in Actions, NEW u \in Actors,
         audit'[r] = [audit[r] EXCEPT ![action][u] = @ + 1]
  PROVE  /\ Logged(r, action)'
         /\ \A a \in Actions \ {action} : Logged(r, a)' <=> Logged(r, a)
<1>1. audit[r] \in [Actions -> [Actors -> Nat]] BY DEF TypeOK
<1>2. audit[r][action][u] \in Nat BY <1>1
<1>3. QED BY <1>2, Counted DEF Logged

(* An approval adds its author to the backers, another entry nobody.       *)
LEMMA BackersAfter ==
  ASSUME TypeOK, NEW r \in Requests, NEW action \in Actions, NEW u \in Actors,
         audit'[r] = [audit[r] EXCEPT ![action][u] = @ + 1]
  PROVE  /\ action \in Approving => Backers(r)' = Backers(r) \cup ({u} \cap Users)
         /\ action \notin Approving => Backers(r)' = Backers(r)
<1>1. audit[r] \in [Actions -> [Actors -> Nat]] BY DEF TypeOK
<1>2. audit[r][action][u] \in Nat BY <1>1
<1>3. Approving \subseteq Actions /\ Users \subseteq Actors
  BY DEF Approving, Actions, Actors
<1>4. QED BY <1>2, <1>3, Counted DEF Backers

(* Requests whose log does not change keep their backers.                  *)
LEMMA AuditKept ==
  ASSUME NEW r \in Requests, audit'[r] = audit[r]
  PROVE  Backers(r)' = Backers(r)
  BY DEF Backers

(* _audit adds one entry to the log of one request.                        *)
LEMMA AuditedOne ==
  ASSUME TypeOK, NEW r \in Requests, NEW u \in Users, NEW action \in Actions,
         Audited(r, action, u)
  PROVE  /\ u \in Actors
         /\ audit'[r] = [audit[r] EXCEPT ![action][u] = @ + 1]
         /\ \A q \in Requests \ {r} : audit'[q] = audit[q]
         /\ audit' \in [Requests -> [Actions -> [Actors -> Nat]]]
         /\ \A q \in Requests : Backers(q) \subseteq Backers(q)'
         /\ action \in Approving => u \in Backers(r)'
<1>1. u \in Actors BY DEF Actors
<1>2. /\ audit'[r] = [audit[r] EXCEPT ![action][u] = @ + 1]
      /\ \A q \in Requests \ {r} : audit'[q] = audit[q]
      /\ DOMAIN audit' = Requests
      /\ audit' = [audit EXCEPT ![r] = [audit[r] EXCEPT ![action][u] = @ + 1]]
  BY DEF Audited, TypeOK
<1>3. audit' \in [Requests -> [Actions -> [Actors -> Nat]]]
  <2>1. audit'[r] \in [Actions -> [Actors -> Nat]] BY <1>1, <1>2, Counted
  <2>2. QED BY <1>2, <2>1 DEF TypeOK
<1>4. \A q \in Requests : Backers(q) \subseteq Backers(q)'
  <2>1. Backers(r) \subseteq Backers(r)' BY <1>1, <1>2, BackersAfter
  <2>2. \A q \in Requests \ {r} : Backers(q)' = Backers(q) BY <1>2, AuditKept
  <2>3. QED BY <2>1, <2>2
<1>5. ASSUME action \in Approving PROVE u \in Backers(r)'
  <2>1. Backers(r)' = Backers(r) \cup ({u} \cap Users)
    BY <1>1, <1>2, <1>5, BackersAfter
  <2>2. QED BY <2>1
<1>6. QED BY <1>1, <1>2, <1>3, <1>4, <1>5

-----------------------------------------------------------------------------
(* No request exists yet and no sweep is under way.                        *)
LEMMA InitWorkflowInv == Init => WorkflowInv
<1> SUFFICES ASSUME Init PROVE WorkflowInv
  OBVIOUS
<1>1. TypeOK
  <2>1. Absent \in Rows BY ApprovalAssumption DEF ApprovalAssumption, Absent, Rows
  <2>2. QED BY <2>1, ApprovalAssumption DEF Init, TypeOK, Idle, ApprovalAssumption
<1>2. SweepShape /\ SweptRowsPending BY DEF Init, SweepShape, SweptRowsPending, Idle
<1>3. \A r \in Requests : row[r].status = "absent" BY DEF Init, Absent
<1>4. EscalationBound /\ HalfBacked /\ TwoPersonRule
  BY <1>3 DEF EscalationBound, HalfBacked, TwoPersonRule, Pending
<1>5. QED BY <1>1, <1>2, <1>4 DEF WorkflowInv

(* Steps that write one row, leave its escalation count alone and do not   *)
(* touch the sweep: what each has to show of the row it writes.            *)
LEMMA RowWritten ==
  ASSUME WorkflowInv, NEW r \in Requests, NEW new \in Rows,
         row' = [row EXCEPT ![r] = new],
         \A q \in Requests : Backers(q) \subseteq Backers(q)',
         audit' \in [Requests -> [Actions -> [Actors -> Nat]]],
         cancelling' \in SUBSET (Users \X Requests),
         UNCHANGED <<overdue, sweep, notices, aborts>>,
         r \notin sweep.locked,
         new.status \in Pending => new.escalation_count < MAX_ESCALATIONS,
         new.status # "expired",
         new.status = "pending_second_approval" =>
           new.approver \in Backers(r)' \ {new.requester},
         new.status = "approved" =>
           /\ new.approver \in Backers(r)' \ {new.requester}
           /\ new.two_person =>
                new.second_approver \in Backers(r)' \ {new.requester, new.approver}
  PROVE  WorkflowInv'
<1>1. row' \in [Requests -> Rows] /\ row'[r] = new
      /\ \A q \in Requests \ {r} : row'[q] = row[q]
  BY DEF WorkflowInv, TypeOK
<1>2. TypeOK' BY <1>1 DEF WorkflowInv, TypeOK
<1>3. SweepShape' BY DEF WorkflowInv, SweepShape
<1>4. SweptRowsPending'
  BY <1>1 DEF WorkflowInv, SweptRowsPending, TypeOK
<1>5. EscalationBound' BY <1>1 DEF WorkflowInv, EscalationBound
<1>6. HalfBacked'
  <2> SUFFICES ASSUME NEW q \in Requests, row'[q].status = "pending_second_approval"
               PROVE  row'[q].approver \in Backers(q)' \ {row'[q].requester}
    BY DEF HalfBacked
  <2>1. CASE q = r BY <1>1, <2>1
  <2>2. CASE q # r BY <1>1, <2>2 DEF WorkflowInv, HalfBacked
  <2>3. QED BY <2>1, <2>2
<1>7. TwoPersonRule'
  <2> SUFFICES ASSUME NEW q \in Requests, row'[q].status = "approved"
               PROVE  /\ row'[q].approver \in Backers(q)' \ {row'[q].requester}
                      /\ row'[q].two_person => row'[q].second_approver \in
                           Backers(q)' \ {row'[q].requester, row'[q].approver}
    BY DEF TwoPersonRule
  <2>1. CASE q = r BY <1>1, <2>1
  <2>2. CASE q # r BY <1>1, <2>2 DEF WorkflowInv, TwoPersonRule
  <2>3. QED BY <2>1, <2>2
<1>8. QED BY <1>2, <1>3, <1>4, <1>5, <1>6, <1>7 DEF WorkflowInv

-----------------------------------------------------------------------------
(* The steps of the people: create, decide, cancel.                        *)

(* A new row starts below the escalation limit and without a backer.       *)
LEMMA CreateKeeps ==
  ASSUME WorkflowInv, NEW r \in Requests, NEW u \in Users, NEW two \in BOOLEAN,
         create_approval(r, u, two)
  PROVE  WorkflowInv'
<1> DEFINE new == NewRow(u, two)
<1> USE ApprovalAssumption DEF ApprovalAssumption
<1>1. new.status \in {"pending_first_approval", "pending"} /\ new.escalation_count = 0
  BY DEF NewRow
<1>2. new \in Rows
  <2> DEFINE s == IF two THEN "pending_first_approval" ELSE "pending"
  <2>1. s \in Pending BY DEF Pending
  <2> HIDE DEF s
  <2>2. [status |-> s, requester |-> u, two_person |-> two, approver |-> none,
         second_approver |-> none, escalation_count |-> 0] \in Rows
    BY <2>1 DEF Rows
  <2>3. QED BY <2>2 DEF NewRow, s
<1>3. row' = [row EXCEPT ![r] = new] /\ Audited(r, "create", u)
  BY DEF create_approval
<1>4. /\ audit' \in [Requests -> [Actions -> [Actors -> Nat]]]
      /\ \A q \in Requests : Backers(q) \subseteq Backers(q)'
  BY <1>3, AuditedOne DEF WorkflowInv, Actions
<1>5. r \notin sweep.locked
  BY DEF create_approval, WorkflowInv, SweptRowsPending, Pending
<1>6. /\ cancelling' \in SUBSET (Users \X Requests)
      /\ UNCHANGED <<overdue, sweep, notices, aborts>>
  BY DEF create_approval, WorkflowInv, TypeOK
<1> HIDE DEF new
<1>7. /\ new.escalation_count < MAX_ESCALATIONS
      /\ new.status \notin {"expired", "pending_second_approval", "approved"}
  BY <1>1
<1>8. QED BY <1>2, <1>3, <1>4, <1>5, <1>6, <1>7, RowWritten

(* Whoever approves is not the requester, and for the second approval not  *)
(* the first approver, and is in the log from then on.                     *)
LEMMA DecideKeeps ==
  ASSUME WorkflowInv, NEW r \in Requests, NEW u \in Users, decide_approval(r, u)
  PROVE  WorkflowInv'
<1> USE DEF Decidable
<1>1. /\ row[r] \in Rows
      /\ r \notin sweep.locked
      /\ row[r].status \in Pending
      /\ row[r].escalation_count < MAX_ESCALATIONS
      /\ UNCHANGED <<overdue, cancelling, sweep, notices, aborts>>
  BY DEF decide_approval, Reject, FirstApprove, SecondApprove, SingleApprove,
         WorkflowInv, TypeOK, EscalationBound, Pending
<1>2. cancelling' \in SUBSET (Users \X Requests)
  BY <1>1 DEF WorkflowInv, TypeOK
<1>3. CASE Reject(r, u)
  <2> DEFINE new == [row[r] EXCEPT !.status = "rejected", !.approver = u]
  <2>1. row' = [row EXCEPT ![r] = new]
    BY <1>3 DEF Reject, WorkflowInv, TypeOK
  <2>2. new \in Rows /\ new.status = "rejected"
    BY <1>1 DEF Rows, Decided
  <2>3. /\ audit' \in [Requests -> [Actions -> [Actors -> Nat]]]
        /\ \A q \in Requests : Backers(q) \subseteq Backers(q)'
    BY <1>3, AuditedOne DEF Reject, WorkflowInv, Actions, Approving
  <2>4. QED BY <1>1, <1>2, <2>1, <2>2, <2>3, RowWritten DEF Pending
<1>4. CASE FirstApprove(r, u)
  <2> DEFINE new == [row[r] EXCEPT !.status = "pending_second_approval", !.approver = u]
  <2>1. row' = [row EXCEPT ![r] = new]
    BY <1>4 DEF FirstApprove, WorkflowInv, TypeOK
  <2>2. /\ new \in Rows /\ new.status = "pending_second_approval"
        /\ new.approver = u /\ new.requester = row[r].requester
        /\ new.escalation_count = row[r].escalation_count
    BY <1>1 DEF Rows, Pending
  <2>3. /\ audit' \in [Requests -> [Actions -> [Actors -> Nat]]]
        /\ \A q \in Requests : Backers(q) \subseteq Backers(q)'
        /\ u \in Backers(r)'
    BY <1>4, AuditedOne DEF FirstApprove, WorkflowInv, Actions, Approving
  <2>4. u # row[r].requester BY <1>4 DEF FirstApprove
  <2>5. QED BY <1>1, <1>2, <2>1, <2>2, <2>3, <2>4, RowWritten
<1>5. CASE SecondApprove(r, u)
  <2> DEFINE new == [row[r] EXCEPT !.status = "approved", !.second_approver = u]
  <2>1. row' = [row EXCEPT ![r] = new]
    BY <1>5 DEF SecondApprove, WorkflowInv, TypeOK
  <2>2. /\ new \in Rows /\ new.status = "approved"
        /\ new.second_approver = u /\ new.requester = row[r].requester
        /\ new.approver = row[r].approver
    BY <1>1 DEF Rows, Decided
  <2>3. /\ audit' \in [Requests -> [Actions -> [Actors -> Nat]]]
        /\ \A q \in Requests : Backers(q) \subseteq Backers(q)'
        /\ u \in Backers(r)'
    BY <1>5, AuditedOne DEF SecondApprove, WorkflowInv, Actions, Approving
  <2>4. row[r].approver \in Backers(r) \ {row[r].requester}
    BY <1>5 DEF SecondApprove, WorkflowInv, HalfBacked
  <2>5. u \notin {row[r].approver, row[r].requester} BY <1>5 DEF SecondApprove
  <2>6. QED BY <1>1, <1>2, <2>1, <2>2, <2>3, <2>4, <2>5, RowWritten DEF Pending
<1>6. CASE SingleApprove(r, u)
  <2> DEFINE new == [row[r] EXCEPT !.status = "approved", !.approver = u]
  <2>1. row' = [row EXCEPT ![r] = new]
    BY <1>6 DEF SingleApprove, WorkflowInv, TypeOK
  <2>2. /\ new \in Rows /\ new.status = "approved"
        /\ new.approver = u /\ new.requester = row[r].requester
        /\ new.two_person = row[r].two_person
    BY <1>1 DEF Rows, Decided
  <2>3. /\ audit' \in [Requests -> [Actions -> [Actors -> Nat]]]
        /\ \A q \in Requests : Backers(q) \subseteq Backers(q)'
        /\ u \in Backers(r)'
    BY <1>6, AuditedOne DEF SingleApprove, WorkflowInv, Actions, Approving
  <2>4. u # row[r].requester /\ ~row[r].two_person BY <1>6 DEF SingleApprove
  <2>5. QED BY <1>1, <1>2, <2>1, <2>2, <2>3, <2>4, RowWritten DEF Pending
<1>7. QED BY <1>3, <1>4, <1>5, <1>6 DEF decide_approval

(* A cancel closes the row, or does nothing if the row is closed by then.  *)
LEMMA CancelKeeps ==
  ASSUME WorkflowInv, NEW r \in Requests, NEW u \in Users, CancelWrite(r, u)
  PROVE  WorkflowInv'
<1> DEFINE new == [row[r] EXCEPT !.status = "cancelled"]
<1>1. row' = [row EXCEPT ![r] = new]
  BY DEF CancelWrite, WorkflowInv, TypeOK
<1>2. new \in Rows /\ new.status = "cancelled"
  BY DEF WorkflowInv, TypeOK, Rows, Decided
<1>3. /\ audit' \in [Requests -> [Actions -> [Actors -> Nat]]]
      /\ \A q \in Requests : Backers(q) \subseteq Backers(q)'
  BY AuditedOne DEF CancelWrite, WorkflowInv, Actions
<1>4. cancelling' \in SUBSET (Users \X Requests)
  BY DEF CancelWrite, WorkflowInv, TypeOK
<1>5. QED BY <1>1, <1>2, <1>3, <1>4, RowWritten DEF CancelWrite, Pending

-----------------------------------------------------------------------------
(* The commit of a sweep writes every row it marked, each of them pending  *)
(* and locked since the sweep began.                                       *)
LEMMA SweepCommitKeeps ==
  ASSUME WorkflowInv, SweepCommit
  PROVE  WorkflowInv'
<1> USE ApprovalAssumption DEF ApprovalAssumption
<1>1. ASSUME NEW q \in sweep.marked
      PROVE  /\ q \in Requests
             /\ row[q] \in Rows
             /\ row[q].status \in Pending
             /\ row[q].escalation_count \in Nat
             /\ row[q].escalation_count < MAX_ESCALATIONS
  <2>1. q \in Requests /\ row[q].status \in Pending
    BY DEF WorkflowInv, TypeOK, SweepShape, SweptRowsPending
  <2>2. QED BY <2>1 DEF WorkflowInv, TypeOK, EscalationBound, Rows
<1>2. ASSUME NEW q \in Requests, q \notin sweep.marked
      PROVE  row'[q] = row[q] /\ audit'[q] = audit[q]
  BY <1>2 DEF SweepCommit
<1>3. ASSUME NEW q \in sweep.marked
      PROVE  /\ row'[q] \in Rows
             /\ row'[q].escalation_count = row[q].escalation_count + 1
             /\ row'[q].status = IF Exhausted(q) THEN "expired" ELSE row[q].status
             /\ row'[q].requester = row[q].requester
             /\ row'[q].approver = row[q].approver
             /\ audit'[q] =
                  [audit[q] EXCEPT ![SweepAction(q)]["system:scheduler"] = @ + 1]
  <2> DEFINE new == [row[q] EXCEPT !.escalation_count = @ + 1,
                                   !.status = IF Exhausted(q) THEN "expired" ELSE @]
  <2>1. /\ row'[q] = new
        /\ audit'[q] = [audit[q] EXCEPT ![SweepAction(q)]["system:scheduler"] = @ + 1]
    BY <1>1 DEF SweepCommit
  <2>2. row[q].escalation_count + 1 \in 0 .. MAX_ESCALATIONS BY <1>1
  <2>3. CASE Exhausted(q)
    <3>1. new = [row[q] EXCEPT !.escalation_count = @ + 1, !.status = "expired"]
      BY <2>3
    <3>2. /\ new \in Rows /\ new.status = "expired"
          /\ new.escalation_count = row[q].escalation_count + 1
          /\ new.requester = row[q].requester /\ new.approver = row[q].approver
      BY <1>1, <2>2, <3>1 DEF Rows, Decided
    <3> HIDE DEF new
    <3>3. QED BY <2>1, <2>3, <3>2
  <2>4. CASE ~Exhausted(q)
    <3>1. new = [row[q] EXCEPT !.escalation_count = @ + 1, !.status = @]
      BY <2>4
    <3>2. /\ new \in Rows /\ new.status = row[q].status
          /\ new.escalation_count = row[q].escalation_count + 1
          /\ new.requester = row[q].requester /\ new.approver = row[q].approver
      BY <1>1, <2>2, <3>1 DEF Rows
    <3> HIDE DEF new
    <3>3. QED BY <2>1, <2>4, <3>2
  <2>5. QED BY <2>3, <2>4
<1>4. ASSUME NEW q \in Requests PROVE Backers(q) \subseteq Backers(q)'
  <2>1. CASE q \in sweep.marked
    <3>1. SweepAction(q) \in Actions /\ "system:scheduler" \in Actors
      BY DEF SweepAction, Actions, Actors
    <3>2. audit'[q] = [audit[q] EXCEPT ![SweepAction(q)]["system:scheduler"] = @ + 1]
      BY <1>3, <2>1
    <3>3. TypeOK BY DEF WorkflowInv
    <3>4. QED BY <3>1, <3>2, <3>3, BackersAfter
  <2>2. CASE q \notin sweep.marked BY <1>2, <2>2, AuditKept
  <2>3. QED BY <2>1, <2>2
<1>5. TypeOK'
  <2>1. row' \in [Requests -> Rows]
    <3>1. \A q \in Requests : row'[q] \in Rows
      BY <1>2, <1>3 DEF WorkflowInv, TypeOK
    <3>2. QED BY <3>1 DEF SweepCommit
  <2>2. audit' \in [Requests -> [Actions -> [Actors -> Nat]]]
    <3>1. ASSUME NEW q \in Requests PROVE audit'[q] \in [Actions -> [Actors -> Nat]]
      <4>1. SweepAction(q) \in Actions /\ "system:scheduler" \in Actors
        BY DEF SweepAction, Actions, Actors
      <4>2. CASE q \in sweep.marked
        <5>1. TypeOK BY DEF WorkflowInv
        <5>2. audit'[q] = [audit[q] EXCEPT ![SweepAction(q)]["system:scheduler"] = @ + 1]
          BY <1>3, <4>2
        <5>3. QED BY <4>1, <5>1, <5>2, Counted
      <4>3. CASE q \notin sweep.marked BY <1>2, <4>3 DEF WorkflowInv, TypeOK
      <4>4. QED BY <4>2, <4>3
    <3>2. QED BY <3>1 DEF SweepCommit
  <2>3. QED BY <2>1, <2>2 DEF WorkflowInv, TypeOK, SweepCommit, Idle
<1>6. SweepShape' /\ SweptRowsPending'
  BY DEF SweepCommit, Idle, SweepShape, SweptRowsPending
<1>7. EscalationBound'
  <2> SUFFICES ASSUME NEW q \in Requests
               PROVE  /\ row'[q].status \in Pending
                           => row'[q].escalation_count < MAX_ESCALATIONS
                      /\ row'[q].status = "expired"
                           => row'[q].escalation_count = MAX_ESCALATIONS
    BY DEF EscalationBound
  <2>1. CASE q \in sweep.marked
    <3>1. /\ row'[q].escalation_count = row[q].escalation_count + 1
          /\ row'[q].status = IF Exhausted(q) THEN "expired" ELSE row[q].status
      BY <1>3, <2>1
    <3>2. /\ row[q].status \in Pending
          /\ row[q].escalation_count \in 0 .. MAX_ESCALATIONS - 1
      BY <1>1, <2>1
    <3>3. CASE Exhausted(q) BY <3>1, <3>2, <3>3 DEF Exhausted, Pending
    <3>4. CASE ~Exhausted(q) BY <3>1, <3>2, <3>4 DEF Exhausted, Pending
    <3>5. QED BY <3>3, <3>4
  <2>2. CASE q \notin sweep.marked
    BY <1>2, <2>2 DEF WorkflowInv, EscalationBound
  <2>3. QED BY <2>1, <2>2
<1>8. HalfBacked'
  <2> SUFFICES ASSUME NEW q \in Requests, row'[q].status = "pending_second_approval"
               PROVE  row'[q].approver \in Backers(q)' \ {row'[q].requester}
    BY DEF HalfBacked
  <2>1. CASE q \in sweep.marked
    BY <1>3, <1>4, <2>1 DEF WorkflowInv, HalfBacked
  <2>2. CASE q \notin sweep.marked
    BY <1>2, <1>4, <2>2 DEF WorkflowInv, HalfBacked
  <2>3. QED BY <2>1, <2>2
<1>9. TwoPersonRule'
  <2>1. ASSUME NEW q \in Requests, row'[q].status = "approved"
        PROVE  q \notin sweep.marked
    BY <1>1, <1>3, <2>1 DEF Pending
  <2>2. QED BY <1>2, <1>4, <2>1 DEF WorkflowInv, TwoPersonRule
<1>10. QED BY <1>5, <1>6, <1>7, <1>8, <1>9 DEF WorkflowInv

-----------------------------------------------------------------------------
(* Every step keeps WorkflowInv.                                           *)
LEMMA NextWorkflowInv == WorkflowInv /\ [Next]_vars => WorkflowInv'
<1> SUFFICES ASSUME WorkflowInv, [Next]_vars PROVE WorkflowInv'
  OBVIOUS
<1> USE ApprovalAssumption DEF ApprovalAssumption
\* Steps that write neither rows nor the audit log.
<1> DEFINE Kept == /\ UNCHANGED <<row, audit>>
                   /\ TypeOK' /\ SweepShape' /\ SweptRowsPending'
<1>0. Kept => WorkflowInv'
  <2>1. UNCHANGED <<row, audit>> => \A r \in Requests : Backers(r)' = Backers(r)
    BY AuditKept
  <2>2. QED BY <2>1 DEF WorkflowInv, EscalationBound, HalfBacked, TwoPersonRule
<1>1. ASSUME NEW r \in Requests, NEW u \in Users, NEW two \in BOOLEAN,
             create_approval(r, u, two)
      PROVE  WorkflowInv'
  BY <1>1, CreateKeeps
<1>2. ASSUME NEW r \in Requests, NEW u \in Users, decide_approval(r, u)
      PROVE  WorkflowInv'
  BY <1>2, DecideKeeps
<1>3. ASSUME NEW r \in Requests, NEW u \in Users, CancelCheck(r, u)
      PROVE  WorkflowInv'
  <2>1. Kept
    BY <1>3 DEF CancelCheck, WorkflowInv, TypeOK, SweepShape, SweptRowsPending
  <2>2. QED BY <1>0, <2>1
<1>4. ASSUME NEW r \in Requests, NEW u \in Users, CancelWrite(r, u)
      PROVE  WorkflowInv'
  BY <1>4, CancelKeeps
<1>5. ASSUME NEW r \in Requests, SweepRow(r) PROVE WorkflowInv'
  <2>1. notices' \in [Requests -> Nat] BY <1>5 DEF SweepRow, WorkflowInv, TypeOK
  <2>2. Kept
    BY <1>5, <2>1 DEF SweepRow, WorkflowInv, TypeOK, SweepShape, SweptRowsPending
  <2>3. QED BY <1>0, <2>2
<1>6. ASSUME NEW r \in Requests, DeadlinePasses(r) PROVE WorkflowInv'
  <2>1. Kept
    BY <1>6 DEF DeadlinePasses, WorkflowInv, TypeOK, SweepShape, SweptRowsPending
  <2>2. QED BY <1>0, <2>1
<1>7. CASE SweepBegin
  <2>1. Kept
    BY <1>7 DEF SweepBegin, WorkflowInv, TypeOK, SweepShape, SweptRowsPending
  <2>2. QED BY <1>0, <2>1
<1>8. CASE SweepCommit BY <1>8, SweepCommitKeeps
<1>9. CASE SweepAbort
  <2>1. aborts' \in 0 .. MaxAborts BY <1>9 DEF SweepAbort, WorkflowInv, TypeOK
  <2>2. Kept
    BY <1>9, <2>1
    DEF SweepAbort, Idle, WorkflowInv, TypeOK, SweepShape, SweptRowsPending
  <2>3. QED BY <1>0, <2>2
<1>10. CASE UNCHANGED vars
  <2>1. Kept BY <1>10 DEF vars, WorkflowInv, TypeOK, SweepShape, SweptRowsPending
  <2>2. QED BY <1>0, <2>1
<1>11. QED
  BY <1>1, <1>2, <1>3, <1>4, <1>5, <1>6, <1>7, <1>8, <1>9, <1>10 DEF Next

-----------------------------------------------------------------------------
(* How each kind of entry keeps the log and the row together.              *)

\* Only a request that was created has a log.
LogAfterCreation ==
  \A r \in Requests : row[r].status = "absent" =>
    \A a \in Actions : ~Logged(r, a)

AuditInv == LogAfterCreation /\ AuditSettlesRow

(* A request whose row and log stay as they are is still settled.          *)
LEMMA SettlesKept ==
  ASSUME NEW r \in Requests, Settles(r), row'[r] = row[r], audit'[r] = audit[r]
  PROVE  Settles(r)'
  BY DEF Settles, Logged, OpenState, Swept

(* An action that is not logged is counted nowhere.                        *)
LEMMA NotLogged ==
  ASSUME TypeOK, NEW r \in Requests, NEW a \in Actions, ~Logged(r, a)
  PROVE  \A u \in Actors : audit[r][a][u] = 0
<1>1. \A u \in Actors : audit[r][a][u] \in Nat BY DEF TypeOK
<1>2. QED BY <1>1 DEF Logged

(* A request that is still pending has no verdict and no cancel in its log.*)
LEMMA OpenLog ==
  ASSUME NEW r \in Requests, Settles(r), row[r].status \in Pending
  PROVE  \A a \in Verdicts \cup {"cancel"} : ~Logged(r, a)
<1>1. \A a \in Verdicts : Verdict(a) \notin Pending
  BY DEF Verdicts, Verdict, Pending
<1>2. "cancelled" \notin Pending BY DEF Pending
<1>3. QED BY <1>1, <1>2 DEF Settles

(* The counts of the sweep after one more entry.                           *)
LEMMA SweptAfter ==
  ASSUME TypeOK, NEW r \in Requests, NEW action \in Actions, NEW u \in Actors,
         audit'[r] = [audit[r] EXCEPT ![action][u] = @ + 1],
         action \in {"escalate", "expire"} => u = "system:scheduler"
  PROVE  /\ Swept(r, "escalate") \in Nat /\ Swept(r, "expire") \in Nat
         /\ Swept(r, "escalate")' =
              Swept(r, "escalate") + IF action = "escalate" THEN 1 ELSE 0
         /\ Swept(r, "expire")' =
              Swept(r, "expire") + IF action = "expire" THEN 1 ELSE 0
<1>1. /\ "system:scheduler" \in Actors
      /\ "escalate" \in Actions /\ "expire" \in Actions
  BY DEF Actors, Actions
<1>2. \A a \in Actions, v \in Actors : audit[r][a][v] \in Nat BY DEF TypeOK
<1>3. QED BY <1>1, <1>2, Counted DEF Swept

(* A verdict on a pending request is the first one logged.                 *)
LEMMA SettledByVerdict ==
  ASSUME TypeOK, NEW r \in Requests, NEW action \in Verdicts, NEW u \in Actors,
         Settles(r), audit'[r] = [audit[r] EXCEPT ![action][u] = @ + 1],
         action = "expire" => u = "system:scheduler",
         row[r].status \in Pending, row'[r].status = Verdict(action),
         row'[r].escalation_count =
           row[r].escalation_count + IF action = "expire" THEN 1 ELSE 0
  PROVE  Settles(r)'
<1>1. /\ Verdicts \cup {"cancel"} \subseteq Actions /\ "cancel" \notin Verdicts
      /\ action \in Actions /\ action # "escalate"
  BY DEF Verdicts, Actions
<1>2. \A a \in Verdicts \cup {"cancel"} : ~Logged(r, a) BY OpenLog
<1>3. \A a \in Verdicts, v \in Actors : audit[r][a][v] = 0
  BY <1>1, <1>2, NotLogged
<1>4. \A a \in Verdicts, v \in Actors :
        audit'[r][a][v] = IF a = action /\ v = u THEN 1 ELSE 0
  BY <1>1, <1>3, Counted
<1>5. /\ Logged(r, action)'
      /\ \A a \in (Verdicts \cup {"cancel"}) \ {action} : ~Logged(r, a)'
  BY <1>1, <1>2, LoggedAfter
<1>6. Verdict(action) # "cancelled" BY DEF Verdicts, Verdict
<1>7. row'[r].escalation_count = Swept(r, "escalate")' + Swept(r, "expire")'
  BY <1>1, SweptAfter DEF Settles
<1>8. /\ Logged(r, "cancel")' <=> row'[r].status = "cancelled"
      /\ \A a \in Verdicts : Logged(r, a)' => row'[r].status \in {Verdict(a), "cancelled"}
  BY <1>1, <1>5, <1>6
<1>9. \A a, b \in Verdicts, v, w \in Actors :
        audit'[r][a][v] > 0 /\ audit'[r][b][w] > 0
          => a = b /\ v = w /\ audit'[r][a][v] = 1
  BY <1>4
<1>10. QED BY <1>5, <1>7, <1>8, <1>9 DEF Settles

(* A cancel overrides whatever verdict there is.                           *)
LEMMA SettledByCancel ==
  ASSUME TypeOK, NEW r \in Requests, NEW u \in Actors,
         Settles(r), audit'[r] = [audit[r] EXCEPT !["cancel"][u] = @ + 1],
         row'[r].status = "cancelled",
         row'[r].escalation_count = row[r].escalation_count
  PROVE  Settles(r)'
<1>1. "cancel" \in Actions /\ "cancel" \notin Verdicts /\ Verdicts \subseteq Actions
  BY DEF Verdicts, Actions
<1>2. \A a \in Verdicts, v \in Actors : audit'[r][a][v] = audit[r][a][v]
  BY <1>1, Counted
<1>3. Logged(r, "cancel")' BY <1>1, LoggedAfter
<1>4. row'[r].escalation_count = Swept(r, "escalate")' + Swept(r, "expire")'
  BY <1>1, SweptAfter DEF Settles
<1>5. QED BY <1>2, <1>3, <1>4 DEF Settles

(* An entry that ends nothing leaves the request open, in the state its    *)
(* log then says.                                                          *)
LEMMA SettledOpen ==
  ASSUME TypeOK, NEW r \in Requests, NEW u \in Actors,
         NEW action \in {"create", "first_approve", "escalate"},
         Settles(r), audit'[r] = [audit[r] EXCEPT ![action][u] = @ + 1],
         action = "escalate" => u = "system:scheduler",
         \A a \in Verdicts \cup {"cancel"} : ~Logged(r, a),
         row'[r].status = OpenState(r)', row'[r].status # "cancelled",
         row'[r].escalation_count =
           row[r].escalation_count + IF action = "escalate" THEN 1 ELSE 0
  PROVE  Settles(r)'
<1>1. /\ action \in Actions /\ action \notin Verdicts \cup {"cancel"}
      /\ action # "expire" /\ Verdicts \cup {"cancel"} \subseteq Actions
  BY DEF Verdicts, Actions
<1>2. \A a \in Verdicts, v \in Actors : audit'[r][a][v] = audit[r][a][v]
  BY <1>1, Counted
<1>3. \A a \in Verdicts \cup {"cancel"} : ~Logged(r, a)' BY <1>1, LoggedAfter
<1>4. row'[r].escalation_count = Swept(r, "escalate")' + Swept(r, "expire")'
  BY <1>1, SweptAfter DEF Settles
<1>5. QED BY <1>2, <1>3, <1>4 DEF Settles

-----------------------------------------------------------------------------
(* Each step keeps AuditSettlesRow.                                        *)

\* A step that writes the row and the log of one request, and what it shows.
LEMMA OneSettledIsEnough ==
  ASSUME WorkflowInv, AuditInv, NEW r \in Requests, NEW u \in Users,
         NEW action \in Actions, Audited(r, action, u),
         \A q \in Requests \ {r} : row'[q] = row[q],
         row'[r].status # "absent", Settles(r)'
  PROVE  AuditInv'
<1>1. \A q \in Requests \ {r} : audit'[q] = audit[q]
  BY AuditedOne DEF WorkflowInv
<1>2. \A q \in Requests \ {r} : Settles(q)'
  BY <1>1, SettlesKept DEF AuditInv, AuditSettlesRow
<1>3. LogAfterCreation' BY <1>1 DEF AuditInv, LogAfterCreation, Logged
<1>4. QED BY <1>2, <1>3 DEF AuditInv, AuditSettlesRow

(* Decisions: three verdicts and an approval that is not yet one.          *)
LEMMA DecisionSettles ==
  ASSUME WorkflowInv, AuditInv, NEW r \in Requests, NEW u \in Users,
         decide_approval(r, u)
  PROVE  AuditInv'
<1>1. /\ row[r] \in Rows /\ Settles(r) /\ row[r].status \in Pending
      /\ row[r].escalation_count \in Nat /\ u \in Actors
  BY ApprovalAssumption
  DEF decide_approval, Reject, FirstApprove, SecondApprove, SingleApprove, Decidable,
      Pending, WorkflowInv, TypeOK, Rows, AuditInv, AuditSettlesRow, Actors,
      ApprovalAssumption
<1>2. \A q \in Requests \ {r} : row'[q] = row[q]
  BY DEF decide_approval, Reject, FirstApprove, SecondApprove, SingleApprove,
         WorkflowInv, TypeOK
<1>3. ASSUME NEW action \in Verdicts \ {"expire"}, Audited(r, action, u),
             row'[r].status = Verdict(action),
             row'[r].escalation_count = row[r].escalation_count
      PROVE  AuditInv'
  <2>1. /\ action \in Actions /\ action # "expire" /\ Verdict(action) # "absent"
    BY DEF Verdicts, Actions, Verdict
  <2>2. audit'[r] = [audit[r] EXCEPT ![action][u] = @ + 1]
    BY <1>3, <2>1, AuditedOne DEF WorkflowInv
  <2>3. row'[r].escalation_count =
          row[r].escalation_count + IF action = "expire" THEN 1 ELSE 0
    BY <1>1, <1>3, <2>1
  <2>4. Settles(r)'
    BY <1>1, <1>3, <2>1, <2>2, <2>3, SettledByVerdict DEF WorkflowInv
  <2>5. QED BY <1>2, <1>3, <2>1, <2>4, OneSettledIsEnough
<1>4. CASE Reject(r, u)
  <2>1. /\ row'[r].status = Verdict("reject") /\ Audited(r, "reject", u)
        /\ row'[r].escalation_count = row[r].escalation_count
    BY <1>1, <1>4 DEF Reject, Verdict, WorkflowInv, TypeOK, Rows
  <2>2. QED BY <1>3, <2>1 DEF Verdicts
<1>5. CASE SecondApprove(r, u)
  <2>1. /\ row'[r].status = Verdict("second_approve") /\ Audited(r, "second_approve", u)
        /\ row'[r].escalation_count = row[r].escalation_count
    BY <1>1, <1>5 DEF SecondApprove, Verdict, WorkflowInv, TypeOK, Rows
  <2>2. QED BY <1>3, <2>1 DEF Verdicts
<1>6. CASE SingleApprove(r, u)
  <2>1. /\ row'[r].status = Verdict("approve") /\ Audited(r, "approve", u)
        /\ row'[r].escalation_count = row[r].escalation_count
    BY <1>1, <1>6 DEF SingleApprove, Verdict, WorkflowInv, TypeOK, Rows
  <2>2. QED BY <1>3, <2>1 DEF Verdicts
<1>7. CASE FirstApprove(r, u)
  <2>1. /\ row'[r].status = "pending_second_approval" /\ Audited(r, "first_approve", u)
        /\ row'[r].escalation_count = row[r].escalation_count
    BY <1>1, <1>7 DEF FirstApprove, WorkflowInv, TypeOK, Rows
  <2>2. "first_approve" \in Actions BY DEF Actions
  <2>3. audit'[r] = [audit[r] EXCEPT !["first_approve"][u] = @ + 1]
    BY <2>1, <2>2, AuditedOne DEF WorkflowInv
  <2>4. Logged(r, "first_approve")' BY <1>1, <2>2, <2>3, LoggedAfter DEF WorkflowInv
  <2>5. \A a \in Verdicts \cup {"cancel"} : ~Logged(r, a) BY <1>1, OpenLog
  <2>6. row'[r].status = OpenState(r)' BY <2>1, <2>4 DEF OpenState
  <2>7. row'[r].escalation_count =
          row[r].escalation_count + IF "first_approve" = "escalate" THEN 1 ELSE 0
    BY <1>1, <2>1
  <2>8. Settles(r)'
    BY <1>1, <2>1, <2>3, <2>5, <2>6, <2>7, SettledOpen DEF WorkflowInv
  <2>9. QED BY <1>2, <2>1, <2>2, <2>8, OneSettledIsEnough
<1>8. QED BY <1>4, <1>5, <1>6, <1>7 DEF decide_approval

(* A cancel, stale or not, writes row and entry together.                  *)
LEMMA CancelSettles ==
  ASSUME WorkflowInv, AuditInv, NEW r \in Requests, NEW u \in Users, CancelWrite(r, u)
  PROVE  AuditInv'
<1>1. /\ row'[r].status = "cancelled" /\ Audited(r, "cancel", u)
      /\ row'[r].escalation_count = row[r].escalation_count
      /\ \A q \in Requests \ {r} : row'[q] = row[q]
  BY DEF CancelWrite, WorkflowInv, TypeOK, Rows
<1>2. "cancel" \in Actions BY DEF Actions
<1>3. u \in Actors /\ audit'[r] = [audit[r] EXCEPT !["cancel"][u] = @ + 1]
  BY <1>1, <1>2, AuditedOne DEF WorkflowInv
<1>4. Settles(r)'
  BY <1>1, <1>3, SettledByCancel DEF WorkflowInv, AuditInv, AuditSettlesRow
<1>5. QED BY <1>1, <1>2, <1>4, OneSettledIsEnough

(* A creation writes row and first entry together.                         *)
LEMMA CreationSettles ==
  ASSUME WorkflowInv, AuditInv, NEW r \in Requests, NEW u \in Users,
         NEW two \in BOOLEAN, create_approval(r, u, two)
  PROVE  AuditInv'
<1>1. /\ row'[r] = NewRow(u, two) /\ \A q \in Requests \ {r} : row'[q] = row[q]
      /\ row[r].status = "absent" /\ Audited(r, "create", u)
  BY DEF create_approval, WorkflowInv, TypeOK
<1>2. /\ row'[r].status = IF row'[r].two_person THEN "pending_first_approval"
                          ELSE "pending"
      /\ row'[r].escalation_count = 0
  BY <1>1 DEF NewRow
<1>3. \A a \in Actions : ~Logged(r, a) BY <1>1 DEF AuditInv, LogAfterCreation
<1>4. /\ {"create", "first_approve", "escalate", "expire"} \subseteq Actions
      /\ Verdicts \cup {"cancel"} \subseteq Actions
  BY DEF Actions, Verdicts
<1>5. u \in Actors /\ audit'[r] = [audit[r] EXCEPT !["create"][u] = @ + 1]
  BY <1>1, <1>4, AuditedOne DEF WorkflowInv
<1>6. Logged(r, "create")' /\ ~Logged(r, "first_approve")'
  BY <1>3, <1>4, <1>5, LoggedAfter DEF WorkflowInv
<1>7. row'[r].status = OpenState(r)' BY <1>2, <1>6 DEF OpenState
<1>8. row[r].escalation_count = 0
  <2>1. "system:scheduler" \in Actors BY DEF Actors
  <2>2. Swept(r, "escalate") = 0 /\ Swept(r, "expire") = 0
    BY <1>3, <1>4, <2>1, NotLogged DEF WorkflowInv, Swept
  <2>3. QED BY <2>2 DEF AuditInv, AuditSettlesRow, Settles
<1>9. Settles(r)'
  <2>1. row'[r].escalation_count =
          row[r].escalation_count + IF "create" = "escalate" THEN 1 ELSE 0
    BY <1>2, <1>8
  <2>2. row'[r].status # "cancelled" BY <1>2
  <2>3. \A a \in Verdicts \cup {"cancel"} : ~Logged(r, a) BY <1>3, <1>4
  <2>4. QED
    BY <1>5, <1>7, <2>1, <2>2, <2>3, SettledOpen
    DEF WorkflowInv, AuditInv, AuditSettlesRow
<1>10. row'[r].status # "absent" BY <1>2
<1>11. QED BY <1>1, <1>4, <1>9, <1>10, OneSettledIsEnough

(* The commit of the sweep writes, for each row it marked, either an       *)
(* expiry or an escalation, with its entry.                                *)
LEMMA SweepSettles ==
  ASSUME WorkflowInv, AuditInv, SweepCommit
  PROVE  AuditInv'
<1>1. ASSUME NEW q \in Requests, q \notin sweep.marked
      PROVE  row'[q] = row[q] /\ audit'[q] = audit[q]
  BY <1>1 DEF SweepCommit
<1>2. ASSUME NEW q \in Requests, q \in sweep.marked
      PROVE  Settles(q)' /\ row'[q].status # "absent"
  <2> DEFINE u == "system:scheduler"
  <2>1. audit'[q] = [audit[q] EXCEPT ![SweepAction(q)][u] = @ + 1]
    BY <1>2 DEF SweepCommit
  <2>2. /\ row[q] \in Rows /\ row[q].status \in Pending /\ Settles(q)
        /\ row[q].escalation_count \in Nat /\ u \in Actors
    BY <1>2, ApprovalAssumption
    DEF WorkflowInv, TypeOK, SweepShape, SweptRowsPending, Rows, AuditInv,
        AuditSettlesRow, Actors, ApprovalAssumption
  <2>3. /\ row'[q].escalation_count = row[q].escalation_count + 1
        /\ row'[q].status = IF Exhausted(q) THEN "expired" ELSE row[q].status
        /\ row'[q].two_person = row[q].two_person
    BY <1>2, <2>2 DEF SweepCommit, Rows
  <2> HIDE DEF u
  <2>4. CASE Exhausted(q)
    <3> DEFINE action == "expire"
    <3>1. /\ SweepAction(q) = action /\ action \in Verdicts
          /\ row'[q].status = Verdict(action)
          /\ row'[q].escalation_count =
               row[q].escalation_count + IF action = "expire" THEN 1 ELSE 0
          /\ action = "expire" => u = "system:scheduler"
      BY <2>3, <2>4 DEF SweepAction, Verdicts, Verdict, u
    <3> HIDE DEF action
    <3>2. Settles(q)' BY <2>1, <2>2, <3>1, SettledByVerdict DEF WorkflowInv
    <3>3. QED BY <2>3, <2>4, <3>2
  <2>5. CASE ~Exhausted(q)
    <3>1. SweepAction(q) = "escalate" /\ row'[q].status = row[q].status
      BY <2>3, <2>5 DEF SweepAction
    <3>2. \A a \in Verdicts \cup {"cancel"} : ~Logged(q, a) BY <2>2, OpenLog
    <3>3. {"create", "first_approve", "escalate"} \subseteq Actions BY DEF Actions
    <3>4. \A a \in {"create", "first_approve"} : Logged(q, a)' <=> Logged(q, a)
      BY <2>1, <2>2, <3>1, <3>3, LoggedAfter DEF WorkflowInv
    <3>5. row'[q].status = OpenState(q)'
      BY <2>2, <2>3, <3>1, <3>2, <3>4 DEF Settles, OpenState
    <3>6. row'[q].status \notin {"cancelled", "absent"} BY <2>2, <3>1 DEF Pending
    <3>7. Settles(q)'
      BY <2>1, <2>2, <2>3, <3>1, <3>2, <3>5, <3>6, SettledOpen DEF WorkflowInv, u
    <3>8. QED BY <3>6, <3>7
  <2>6. QED BY <2>4, <2>5
<1>3. AuditSettlesRow' BY <1>1, <1>2, SettlesKept DEF AuditInv, AuditSettlesRow
<1>4. LogAfterCreation' BY <1>1, <1>2 DEF AuditInv, LogAfterCreation, Logged
<1>5. QED BY <1>3, <1>4 DEF AuditInv

(* Without requests the log is empty.                                      *)
LEMMA InitAuditInv == Init => AuditInv
<1> SUFFICES ASSUME Init, NEW r \in Requests
             PROVE  Settles(r) /\ \A a \in Actions : ~Logged(r, a)
  BY DEF AuditInv, LogAfterCreation, AuditSettlesRow
<1>1. /\ \A a \in Actions, u \in Actors : audit[r][a][u] = 0
      /\ row[r].status = "absent" /\ row[r].escalation_count = 0
  BY DEF Init, Absent
<1>2. \A a \in Actions : ~Logged(r, a) BY <1>1 DEF Logged
<1>3. /\ Verdicts \cup {"cancel", "create", "first_approve", "escalate", "expire"}
           \subseteq Actions
      /\ "system:scheduler" \in Actors
  BY DEF Verdicts, Actions, Actors
<1>4. QED BY <1>1, <1>2, <1>3 DEF Settles, OpenState, Swept

(* Each step keeps what the log says.                                      *)
LEMMA NextAuditInv == WorkflowInv /\ AuditInv /\ [Next]_vars => AuditInv'
<1> SUFFICES ASSUME WorkflowInv, AuditInv, [Next]_vars PROVE AuditInv'
  OBVIOUS
<1>1. ASSUME UNCHANGED <<row, audit>> PROVE AuditInv'
  BY <1>1, SettlesKept DEF AuditInv, AuditSettlesRow, LogAfterCreation, Logged
<1>2. QED
  BY <1>1, DecisionSettles, CancelSettles, CreationSettles, SweepSettles
  DEF Next, CancelCheck, SweepRow, DeadlinePasses, SweepBegin, SweepAbort, vars

-----------------------------------------------------------------------------
(* Notices run ahead of the log by the rows a sweep has notified and not   *)
(* yet committed.                                                          *)

Owed(r) == IF r \in sweep.marked /\ ~Exhausted(r) THEN 1 ELSE 0

Ahead(r) == Swept(r, "escalate") + Owed(r) <= notices[r]

NoticesAhead == \A r \in Requests : Ahead(r)

(* The counts are numbers.                                                 *)
LEMMA NoticesCounted ==
  ASSUME TypeOK, NEW r \in Requests
  PROVE  Swept(r, "escalate") \in Nat /\ notices[r] \in Nat /\ Owed(r) \in {0, 1}
<1>1. "system:scheduler" \in Actors /\ "escalate" \in Actions
  BY DEF Actors, Actions
<1>2. QED BY <1>1 DEF TypeOK, Swept, Owed

\* What a step may do to one request without owing it a call.
LEMMA AheadKept ==
  ASSUME TypeOK, NEW r \in Requests, Ahead(r),
         Swept(r, "escalate")' = Swept(r, "escalate"), notices'[r] = notices[r],
         Owed(r)' \in {0, Owed(r)}
  PROVE  Ahead(r)'
<1>1. QED BY NoticesCounted DEF Ahead

(* People log no escalations and touch no row the sweep has locked.        *)
LEMMA PeopleAhead ==
  ASSUME WorkflowInv, NoticesAhead, NEW r \in Requests, NEW u \in Users,
         NEW action \in Actions \ {"escalate", "expire"},
         Audited(r, action, u), r \notin sweep.locked,
         \A q \in Requests \ {r} : row'[q] = row[q],
         UNCHANGED <<sweep, notices>>
  PROVE  NoticesAhead'
<1>1. /\ u \in Actors /\ audit'[r] = [audit[r] EXCEPT ![action][u] = @ + 1]
      /\ \A q \in Requests \ {r} : audit'[q] = audit[q]
  BY AuditedOne DEF WorkflowInv
<1>2. Swept(r, "escalate")' = Swept(r, "escalate") BY <1>1, SweptAfter DEF WorkflowInv
<1>3. \A q \in Requests \ {r} : Swept(q, "escalate")' = Swept(q, "escalate")
  BY <1>1 DEF Swept
<1>4. Owed(r)' = 0 BY DEF WorkflowInv, SweepShape, Owed
<1>5. \A q \in Requests \ {r} : Owed(q)' = Owed(q) BY DEF Owed, Exhausted
<1>6. QED BY <1>2, <1>3, <1>4, <1>5, AheadKept DEF WorkflowInv, NoticesAhead

(* notify_approval is called for a swept row when it is marked, before its *)
(* escalation is logged.                                                   *)
LEMMA SweepRowAhead ==
  ASSUME WorkflowInv, NoticesAhead, NEW r \in Requests, SweepRow(r)
  PROVE  NoticesAhead'
<1>1. UNCHANGED <<row, audit>> /\ sweep'.marked = sweep.marked \cup {r}
  BY DEF SweepRow, WorkflowInv, TypeOK
<1>2. \A q \in Requests : Swept(q, "escalate")' = Swept(q, "escalate")
  BY <1>1 DEF Swept
<1>3. Ahead(r)'
  <2>1. Owed(r)' = IF Exhausted(r) THEN 0 ELSE 1
    BY <1>1 DEF Owed, Exhausted
  <2>2. notices'[r] = IF Exhausted(r) THEN notices[r] ELSE notices[r] + 1
    BY DEF SweepRow, WorkflowInv, TypeOK
  <2>3. QED
    BY <1>2, <2>1, <2>2, NoticesCounted DEF WorkflowInv, NoticesAhead, Ahead
<1>4. ASSUME NEW q \in Requests \ {r} PROVE Ahead(q)'
  <2>1. Owed(q)' = Owed(q) BY <1>1 DEF Owed, Exhausted
  <2>2. notices'[q] = notices[q] BY DEF SweepRow, WorkflowInv, TypeOK
  <2>3. QED BY <1>2, <2>1, <2>2, AheadKept DEF WorkflowInv, NoticesAhead
<1>5. QED BY <1>3, <1>4 DEF NoticesAhead

(* The commit logs the escalations whose calls were made.                  *)
LEMMA SweepCommitAhead ==
  ASSUME WorkflowInv, NoticesAhead, SweepCommit
  PROVE  NoticesAhead'
<1>1. sweep'.marked = {} /\ notices' = notices BY DEF SweepCommit, Idle
<1>2. SUFFICES ASSUME NEW q \in Requests PROVE Ahead(q)'
  BY DEF NoticesAhead
<1>3. Owed(q)' = 0 BY <1>1 DEF Owed
<1>4. CASE q \notin sweep.marked
  <2>1. audit'[q] = audit[q] BY <1>4 DEF SweepCommit
  <2>2. Swept(q, "escalate")' = Swept(q, "escalate") BY <2>1 DEF Swept
  <2>3. QED BY <1>1, <1>3, <2>2, AheadKept DEF WorkflowInv, NoticesAhead
<1>5. CASE q \in sweep.marked
  <2>1. audit'[q] = [audit[q] EXCEPT ![SweepAction(q)]["system:scheduler"] = @ + 1]
    BY <1>5 DEF SweepCommit
  <2>2. SweepAction(q) \in Actions /\ "system:scheduler" \in Actors
    BY DEF SweepAction, Actions, Actors
  <2>3. Swept(q, "escalate")' =
          Swept(q, "escalate") + IF SweepAction(q) = "escalate" THEN 1 ELSE 0
    BY <2>1, <2>2, SweptAfter DEF WorkflowInv
  <2>4. Owed(q) = IF SweepAction(q) = "escalate" THEN 1 ELSE 0
    BY <1>5 DEF Owed, SweepAction
  <2>5. QED
    BY <1>1, <1>3, <2>3, <2>4, NoticesCounted DEF WorkflowInv, NoticesAhead, Ahead
<1>6. QED BY <1>4, <1>5

(* Nothing is logged and nothing owed at the start.                        *)
LEMMA InitNoticesAhead == Init => NoticesAhead
<1> SUFFICES ASSUME Init, NEW r \in Requests PROVE Ahead(r)
  BY DEF NoticesAhead
<1>1. "system:scheduler" \in Actors /\ "escalate" \in Actions
  BY DEF Actors, Actions
<1>2. QED BY <1>1 DEF Init, Ahead, Swept, Owed, Idle

(* Each step keeps the calls ahead of the log.                             *)
LEMMA NextNoticesAhead == WorkflowInv /\ NoticesAhead /\ [Next]_vars => NoticesAhead'
<1> SUFFICES ASSUME WorkflowInv, NoticesAhead, [Next]_vars PROVE NoticesAhead'
  OBVIOUS
\* Steps that call and record nothing, and leave the open sweep or end it.
<1>1. ASSUME UNCHANGED <<row, audit, notices>>,
             sweep' = sweep \/ sweep'.marked = {}
      PROVE  NoticesAhead'
  <2>1. \A q \in Requests : /\ Owed(q)' \in {0, Owed(q)}
                            /\ Swept(q, "escalate")' = Swept(q, "escalate")
    BY <1>1 DEF Owed, Exhausted, Swept
  <2>2. QED BY <1>1, <2>1, AheadKept DEF WorkflowInv, NoticesAhead
<1>2. ASSUME NEW r \in Requests, NEW u \in Users, NEW two \in BOOLEAN,
             create_approval(r, u, two)
      PROVE  NoticesAhead'
  <2>1. r \notin sweep.locked
    BY <1>2 DEF create_approval, WorkflowInv, SweptRowsPending, Pending
  <2>2. \A q \in Requests \ {r} : row'[q] = row[q]
    BY <1>2 DEF create_approval, WorkflowInv, TypeOK
  <2>3. QED BY <1>2, <2>1, <2>2, PeopleAhead DEF create_approval, Actions
<1>3. ASSUME NEW r \in Requests, NEW u \in Users,
             decide_approval(r, u) \/ CancelWrite(r, u)
      PROVE  NoticesAhead'
  <2>1. \A q \in Requests \ {r} : row'[q] = row[q]
    BY <1>3
    DEF decide_approval, Reject, FirstApprove, SecondApprove, SingleApprove,
        CancelWrite, WorkflowInv, TypeOK
  <2>2. r \notin sweep.locked /\ UNCHANGED <<sweep, notices>>
    BY <1>3
    DEF decide_approval, Reject, FirstApprove, SecondApprove, SingleApprove,
        CancelWrite, Decidable
  <2>3. PICK action \in {"reject", "first_approve", "second_approve", "approve",
                         "cancel"} : Audited(r, action, u)
    BY <1>3
    DEF decide_approval, Reject, FirstApprove, SecondApprove, SingleApprove,
        CancelWrite
  <2>4. action \in Actions \ {"escalate", "expire"} BY DEF Actions
  <2>5. QED BY <2>1, <2>2, <2>3, <2>4, PeopleAhead
<1>4. ASSUME SweepBegin \/ SweepAbort PROVE NoticesAhead'
  BY <1>1, <1>4 DEF SweepBegin, SweepAbort, Idle
<1>5. QED
  BY <1>1, <1>2, <1>3, <1>4, SweepRowAhead, SweepCommitAhead
  DEF Next, CancelCheck, DeadlinePasses, vars

-----------------------------------------------------------------------------
(* Whatever people, late cancels and sweeps do, every row, log and open    *)
(* sweep is well formed.                                                   *)
THEOREM ApprovalsTyped == Spec => []TypeOK
<1>1. WorkflowInv => TypeOK BY DEF WorkflowInv
<1>2. QED BY InitWorkflowInv, NextWorkflowInv, <1>1, PTL DEF Spec

(* An approved request is backed in the audit log by someone other than    *)
(* its requester, by two such people if it needs two (decide_approval).    *)
THEOREM TwoPersonRuleHolds == Spec => []TwoPersonRule
<1>1. WorkflowInv => TwoPersonRule BY DEF WorkflowInv
<1>2. QED BY InitWorkflowInv, NextWorkflowInv, <1>1, PTL DEF Spec

(* A pending request has been escalated fewer than MAX_ESCALATIONS times,  *)
(* an expired one exactly that often (check_sla_breaches).                 *)
THEOREM EscalationIsBounded == Spec => []EscalationBound
<1>1. WorkflowInv => EscalationBound BY DEF WorkflowInv
<1>2. QED BY InitWorkflowInv, NextWorkflowInv, <1>1, PTL DEF Spec

(* Whatever races, the audit log settles the state of every request        *)
(* without its order: at most one verdict is logged, the row is in the     *)
(* state it names unless a cancel is logged too, and every escalation has  *)
(* its entry (_audit and its callers).                                     *)
THEOREM AuditLogSettles == Spec => []AuditSettlesRow
<1>1. AuditInv => AuditSettlesRow BY DEF AuditInv
<1>2. QED BY InitWorkflowInv, NextWorkflowInv, InitAuditInv, NextAuditInv, <1>1,
             PTL DEF Spec

(* However sweeps are rolled back between rows, no escalation is recorded  *)
(* for which notify_approval was not called (check_sla_breaches).          *)
THEOREM EscalationsAreDispatched == Spec => []EscalationsDispatched
<1>1. WorkflowInv /\ NoticesAhead => EscalationsDispatched
  BY NoticesCounted DEF WorkflowInv, NoticesAhead, Ahead, EscalationsDispatched
<1>2. QED BY InitWorkflowInv, NextWorkflowInv, InitNoticesAhead, NextNoticesAhead,
             <1>1, PTL DEF Spec
=============================================================================
