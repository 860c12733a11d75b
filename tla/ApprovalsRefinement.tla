-------------------------- MODULE ApprovalsRefinement --------------------------
(***************************************************************************)
(* The approval workflow implements ApprovalGate: every step of the rows   *)
(* and the audit log is a step of the gate or leaves it alone.             *)
(***************************************************************************)
EXTENDS ApprovalsProofs, FiniteSetTheorems

(* Who stands behind a row that is still open, and that the kind of row    *)
(* fixes the states it can wait in.                                        *)
Standing(r) ==
  /\ row[r].status = "absent" => Backers(r) = {}
  /\ row[r].status \in Pending => (row[r].two_person <=> row[r].status # "pending")
  /\ row[r].status \in {"pending", "pending_first_approval"} => Backers(r) = {}
  /\ row[r].status = "pending_second_approval" => Backers(r) = {row[r].approver}

GateInv ==
  /\ \A r \in Requests : Standing(r)
  /\ \A p \in cancelling : row[p[2]].status # "absent"

-----------------------------------------------------------------------------
(* An audited approval adds its author to the backers, another entry       *)
(* nobody.                                                                 *)
LEMMA AuditedBackers ==
  ASSUME TypeOK, NEW r \in Requests, NEW action \in Actions, NEW u \in Users,
         Audited(r, action, u)
  PROVE  /\ action \in Approving => Backers(r)' = Backers(r) \cup {u}
         /\ action \notin Approving => Backers(r)' = Backers(r)
<1>1. u \in Actors /\ audit'[r] = [audit[r] EXCEPT ![action][u] = @ + 1]
  BY AuditedOne
<1>2. {u} \cap Users = {u} OBVIOUS
<1>3. QED BY <1>1, <1>2, BackersAfter

(* A row that is not written looks the same to the gate.                   *)
LEMMA Unseen ==
  ASSUME NEW q \in Requests, row'[q] = row[q], audit'[q] = audit[q]
  PROVE  GateRow(q)' = GateRow(q) /\ (Standing(q) => Standing(q)')
<1>1. Backers(q)' = Backers(q) BY AuditKept
<1>2. QED BY <1>1 DEF GateRow, Phase, Standing

(* The gate after a step that writes one row.                              *)
LEMMA OneGateRow ==
  ASSUME NEW r \in Requests, \A q \in Requests \ {r} : GateRow(q)' = GateRow(q)
  PROVE  /\ GateRows' = [GateRows EXCEPT ![r] = GateRow(r)']
         /\ GateRows[r] = GateRow(r)
BY DEF GateRows
(* What a step that writes and audits one row leaves of the invariant, and *)
(* what it shows the gate.                                                 *)
LEMMA WriterKeeps ==
  ASSUME WorkflowInv, GateInv, NEW r \in Requests, NEW new, NEW action, NEW u,
         row' = [row EXCEPT ![r] = new], Audited(r, action, u),
         cancelling' \subseteq cancelling,
         new.status # "absent", Standing(r)'
  PROVE  /\ GateInv'
         /\ GateRows' = [GateRows EXCEPT ![r] = GateRow(r)']
         /\ GateRows[r] = GateRow(r)
<1>1. row'[r] = new /\ \A q \in Requests \ {r} : row'[q] = row[q]
  BY DEF WorkflowInv, TypeOK
<1>2. \A q \in Requests \ {r} : audit'[q] = audit[q]
  BY DEF WorkflowInv, TypeOK, Audited
<1>3. \A q \in Requests \ {r} : GateRow(q)' = GateRow(q) /\ Standing(q)'
  BY <1>1, <1>2, Unseen DEF GateInv
<1>4. \A p \in cancelling' : row'[p[2]].status # "absent"
  <2> SUFFICES ASSUME NEW p \in cancelling PROVE row'[p[2]].status # "absent"
    OBVIOUS
  <2>1. p[2] \in Requests /\ row[p[2]].status # "absent"
    BY DEF WorkflowInv, TypeOK, GateInv
  <2>2. QED BY <1>1, <2>1
<1>5. GateInv'
  BY <1>3, <1>4 DEF GateInv
<1>6. QED BY <1>3, <1>5, OneGateRow

-----------------------------------------------------------------------------
(* People.                                                                 *)

(* A creation opens the gate of the request.                               *)
LEMMA CreateOpens ==
  ASSUME WorkflowInv, GateInv, NEW r \in Requests, NEW u \in Users,
         NEW two \in BOOLEAN, create_approval(r, u, two)
  PROVE  GateInv' /\ Gate!Next
<1> DEFINE new == NewRow(u, two)
           quorum == IF two THEN 2 ELSE 1
<1>1. /\ row[r].status = "absent" /\ row' = [row EXCEPT ![r] = new]
      /\ Audited(r, "create", u) /\ cancelling' = cancelling
  BY DEF create_approval
<1>2. /\ new.status = IF two THEN "pending_first_approval" ELSE "pending"
      /\ new.requester = u /\ new.two_person = two
  BY DEF NewRow
<1>3. row'[r] = new
  BY <1>1 DEF WorkflowInv, TypeOK
<1>4. Backers(r)' = {}
  <2>1. Backers(r) = {} BY <1>1 DEF GateInv, Standing
  <2>2. "create" \in Actions BY DEF Actions
  <2>3. QED BY <1>1, <2>1, <2>2, AuditedBackers DEF WorkflowInv, Actions, Approving
<1> HIDE DEF new
<1>5. Standing(r)'
  BY <1>2, <1>3, <1>4 DEF Standing, Pending
<1>6. GateRow(r)' = [phase |-> "open", owner |-> u, quorum |-> quorum, backers |-> {}]
  BY <1>2, <1>3, <1>4 DEF GateRow, Phase, Pending
<1>7. GateRow(r).phase = "absent"
  BY <1>1 DEF GateRow, Phase, Pending
<1>8. GateInv' /\ GateRows' = [GateRows EXCEPT ![r] = GateRow(r)']
      /\ GateRows[r] = GateRow(r)
  BY <1>1, <1>2, <1>5, WriterKeeps
<1>9. quorum \in 1 .. 2 OBVIOUS
<1>10. Gate!Open(r, u, quorum)
  BY <1>6, <1>7, <1>8 DEF Gate!Open
<1>11. QED BY <1>8, <1>9, <1>10 DEF Gate!Next

(* The gate counts as this module does.                                    *)
LEMMA SameCardinality == \A S : Gate!Cardinality(S) = Cardinality(S)
BY DEF Gate!Cardinality, Cardinality

(* One more backer: the gate is released if the quorum is met.             *)
LEMMA Backs ==
  ASSUME NEW r \in Requests, NEW u \in Users, NEW owner, NEW quorum, NEW before,
         NEW phase, u \notin before \cup {owner},
         phase = IF Cardinality(before \cup {u}) = quorum THEN "released" ELSE "open",
         GateRow(r) = [phase |-> "open", owner |-> owner, quorum |-> quorum,
                       backers |-> before],
         GateRow(r)' = [phase |-> phase, owner |-> owner, quorum |-> quorum,
                        backers |-> before \cup {u}],
         GateRows' = [GateRows EXCEPT ![r] = GateRow(r)'],
         GateRows[r] = GateRow(r)
  PROVE  Gate!Next
<1>1. PICK v : v = GateRow(r)
  OBVIOUS
<1>2. /\ v.phase = "open" /\ v.owner = owner /\ v.quorum = quorum
      /\ v.backers = before
      /\ v = [phase |-> v.phase, owner |-> v.owner, quorum |-> v.quorum,
              backers |-> v.backers]
  BY <1>1
<1>3. PICK w : w = [v EXCEPT !.backers = before \cup {u}, !.phase = phase]
  OBVIOUS
<1>4. w = [phase |-> phase, owner |-> v.owner, quorum |-> v.quorum,
           backers |-> before \cup {u}]
  BY <1>2, <1>3
<1>5. w = GateRow(r)'
  BY <1>2, <1>4
<1>6. /\ v = GateRows[r]
      /\ GateRows' = [GateRows EXCEPT
           ![r] = [v EXCEPT !.backers = before \cup {u}, !.phase = phase]]
  BY <1>1, <1>3, <1>5
<1>7. Gate!Back(r, u)
  BY <1>2, <1>6, SameCardinality DEF Gate!Back
<1>8. QED BY <1>7 DEF Gate!Next

(* A row that closes, as the gate sees it.                                 *)
LEMMA GateRowCloses ==
  ASSUME NEW r \in Requests, row[r].status # "absent",
         row'[r].status \in Decided \ {"approved"},
         row'[r].requester = row[r].requester,
         row'[r].two_person = row[r].two_person, Backers(r)' = Backers(r)
  PROVE  GateRow(r)' = [GateRow(r) EXCEPT !.phase = "closed"]
<1>1. PICK v : v = GateRow(r)
  OBVIOUS
<1>2. v = [phase |-> v.phase, owner |-> v.owner, quorum |-> v.quorum,
           backers |-> v.backers]
  BY <1>1 DEF GateRow
<1>3. PICK w : w = [v EXCEPT !.phase = "closed"]
  OBVIOUS
<1>4. w = [phase |-> "closed", owner |-> v.owner, quorum |-> v.quorum,
           backers |-> v.backers]
  BY <1>2, <1>3
<1>5. Phase(row'[r].status) = "closed"
  BY DEF Phase, Decided, Pending
<1>6. /\ v.owner = row[r].requester /\ v.backers = Backers(r)
      /\ v.quorum = IF row[r].two_person THEN 2 ELSE 1
  BY <1>1 DEF GateRow
<1>7. row'[r].status # "absent"
  BY DEF Decided
<1>8. GateRow(r)' = [phase |-> "closed", owner |-> row[r].requester,
                     quorum |-> IF row[r].two_person THEN 2 ELSE 1,
                     backers |-> Backers(r)]
  BY <1>5, <1>7 DEF GateRow
<1>9. QED BY <1>1, <1>3, <1>4, <1>6, <1>8

(* An open row, as the gate sees it.                                       *)
LEMMA GateRowOpen ==
  ASSUME NEW r \in Requests, row[r].status \in Pending
  PROVE  GateRow(r) = [phase |-> "open", owner |-> row[r].requester,
                       quorum |-> IF row[r].two_person THEN 2 ELSE 1,
                       backers |-> Backers(r)]
<1>1. row[r].status # "absent" /\ Phase(row[r].status) = "open"
  BY DEF Phase, Pending
<1>2. QED BY <1>1 DEF GateRow

(* A rejection refuses it.                                                 *)
LEMMA RejectRefuses ==
  ASSUME WorkflowInv, GateInv, NEW r \in Requests, NEW u \in Users,
         Reject(r, u), cancelling' = cancelling
  PROVE  GateInv' /\ Gate!Next
<1> DEFINE new == [row[r] EXCEPT !.status = "rejected", !.approver = u]
<1>1. /\ row' = [row EXCEPT ![r] = new] /\ Audited(r, "reject", u)
      /\ row[r].status \in Pending
  BY DEF Reject, Decidable, Pending, WorkflowInv, TypeOK
<1>2. /\ new.status = "rejected" /\ new.requester = row[r].requester
      /\ new.two_person = row[r].two_person
  BY DEF WorkflowInv, TypeOK, Rows
<1>3. row'[r] = new
  BY <1>1 DEF WorkflowInv, TypeOK
<1>4. Backers(r)' = Backers(r)
  BY <1>1, AuditedBackers DEF WorkflowInv, Actions, Approving
<1> HIDE DEF new
<1>5. Standing(r)'
  BY <1>2, <1>3 DEF Standing, Pending
<1>6. GateRow(r)' = [GateRow(r) EXCEPT !.phase = "closed"]
  BY <1>1, <1>2, <1>3, <1>4, GateRowCloses DEF Decided, Pending
<1>7. /\ GateInv' /\ GateRows' = [GateRows EXCEPT ![r] = GateRow(r)']
      /\ GateRows[r] = GateRow(r)
  BY <1>1, <1>2, <1>5, WriterKeeps
<1>8. GateRow(r).phase = "open"
  BY <1>1, GateRowOpen
<1>9. Gate!Refuse({r})
  <2>1. GateRows = [q \in Requests |-> GateRows[q]]
    BY DEF GateRows
  <2>2. QED BY <1>6, <1>7, <1>8, <2>1 DEF Gate!Refuse
<1>10. QED BY <1>7, <1>9 DEF Gate!Next

(* A first approval backs it and leaves it open.                           *)
LEMMA FirstBacks ==
  ASSUME WorkflowInv, GateInv, NEW r \in Requests, NEW u \in Users,
         FirstApprove(r, u), cancelling' = cancelling
  PROVE  GateInv' /\ Gate!Next
<1> DEFINE new == [row[r] EXCEPT !.status = "pending_second_approval", !.approver = u]
           quorum == 2
           before == {}
           phase == "open"
<1>1. /\ row' = [row EXCEPT ![r] = new] /\ Audited(r, "first_approve", u)
      /\ row[r].status = "pending_first_approval" /\ u # row[r].requester
  BY DEF FirstApprove, WorkflowInv, TypeOK
<1>2. /\ new.status = "pending_second_approval" /\ new.requester = row[r].requester
      /\ new.two_person = row[r].two_person /\ new.approver = u
  BY DEF WorkflowInv, TypeOK, Rows
<1>3. row'[r] = new
  BY <1>1 DEF WorkflowInv, TypeOK
<1> HIDE DEF new
<1>4. row[r].two_person /\ Backers(r) = {}
  BY <1>1 DEF GateInv, Standing, Pending
<1>5. Backers(r)' = before \cup {u}
  BY <1>1, <1>4, AuditedBackers DEF WorkflowInv, Actions, Approving
<1>6. Standing(r)'
  BY <1>2, <1>3, <1>4, <1>5 DEF Standing, Pending
<1>7. GateRow(r) = [phase |-> "open", owner |-> row[r].requester, quorum |-> quorum,
                    backers |-> before]
  BY <1>1, <1>4, GateRowOpen DEF Pending
<1>8. GateRow(r)' = [phase |-> phase, owner |-> row[r].requester, quorum |-> quorum,
                     backers |-> before \cup {u}]
  BY <1>2, <1>3, <1>4, <1>5 DEF GateRow, Phase, Pending
<1>9. /\ GateInv' /\ GateRows' = [GateRows EXCEPT ![r] = GateRow(r)']
      /\ GateRows[r] = GateRow(r)
  BY <1>1, <1>2, <1>6, WriterKeeps
<1>10. Cardinality(before \cup {u}) = 1
  <2>1. before \cup {u} = {u} OBVIOUS
  <2>2. QED BY <2>1, FS_Singleton
<1>11. /\ u \notin before \cup {row[r].requester}
       /\ phase = IF Cardinality(before \cup {u}) = quorum THEN "released" ELSE "open"
  BY <1>1, <1>10
<1> HIDE DEF quorum, before, phase
<1>12. Gate!Next
  BY <1>7, <1>8, <1>9, <1>11, Backs, Zenon
<1>13. QED BY <1>9, <1>12

(* A second one reaches the quorum of two and releases it.                 *)
LEMMA SecondBacks ==
  ASSUME WorkflowInv, GateInv, NEW r \in Requests, NEW u \in Users,
         SecondApprove(r, u), cancelling' = cancelling
  PROVE  GateInv' /\ Gate!Next
<1> DEFINE new == [row[r] EXCEPT !.status = "approved", !.second_approver = u]
           first == row[r].approver
           quorum == 2
<1>1. /\ row' = [row EXCEPT ![r] = new] /\ Audited(r, "second_approve", u)
      /\ row[r].status = "pending_second_approval"
      /\ u \notin {first, row[r].requester}
  BY DEF SecondApprove, WorkflowInv, TypeOK
<1>2. /\ new.status = "approved" /\ new.requester = row[r].requester
      /\ new.two_person = row[r].two_person
  BY DEF WorkflowInv, TypeOK, Rows
<1>3. row'[r] = new
  BY <1>1 DEF WorkflowInv, TypeOK
<1> HIDE DEF new
<1>4. row[r].two_person /\ Backers(r) = {first}
  BY <1>1 DEF GateInv, Standing, Pending
<1>5. Backers(r)' = {first} \cup {u}
  BY <1>1, <1>4, AuditedBackers DEF WorkflowInv, Actions, Approving
<1>6. Standing(r)'
  BY <1>2, <1>3 DEF Standing, Pending
<1>7. GateRow(r) = [phase |-> "open", owner |-> row[r].requester, quorum |-> quorum,
                    backers |-> {first}]
  BY <1>1, <1>4, GateRowOpen DEF Pending
<1>8. GateRow(r)' = [phase |-> "released", owner |-> row[r].requester, quorum |-> quorum,
                     backers |-> {first} \cup {u}]
  BY <1>2, <1>3, <1>4, <1>5 DEF GateRow, Phase, Pending
<1>9. /\ GateInv' /\ GateRows' = [GateRows EXCEPT ![r] = GateRow(r)']
      /\ GateRows[r] = GateRow(r)
  BY <1>1, <1>2, <1>6, WriterKeeps
<1>10. Cardinality({first} \cup {u}) = 2
  <2>1. IsFiniteSet({first}) /\ Cardinality({first}) = 1
    BY FS_Singleton
  <2>2. u \notin {first}
    BY <1>1
  <2> HIDE DEF first
  <2>3. Cardinality({first} \cup {u}) = Cardinality({first}) + 1
    BY <2>1, <2>2, FS_AddElement
  <2>4. QED BY <2>1, <2>3
<1>11. /\ u \notin {first} \cup {row[r].requester}
       /\ "released" = IF Cardinality({first} \cup {u}) = quorum
                       THEN "released" ELSE "open"
  BY <1>1, <1>10
<1> HIDE DEF first, quorum
<1>12. Gate!Next
  BY <1>7, <1>8, <1>9, <1>11, Backs, Zenon
<1>13. QED BY <1>9, <1>12

(* The one approval of a single-person request releases it.                *)
LEMMA SingleBacks ==
  ASSUME WorkflowInv, GateInv, NEW r \in Requests, NEW u \in Users,
         SingleApprove(r, u), cancelling' = cancelling
  PROVE  GateInv' /\ Gate!Next
<1> DEFINE new == [row[r] EXCEPT !.status = "approved", !.approver = u]
           quorum == 1
           before == {}
           phase == "released"
<1>1. /\ row' = [row EXCEPT ![r] = new] /\ Audited(r, "approve", u)
      /\ row[r].status = "pending" /\ ~row[r].two_person /\ u # row[r].requester
  BY DEF SingleApprove, Decidable, WorkflowInv, TypeOK
<1>2. /\ new.status = "approved" /\ new.requester = row[r].requester
      /\ new.two_person = row[r].two_person
  BY DEF WorkflowInv, TypeOK, Rows
<1>3. row'[r] = new
  BY <1>1 DEF WorkflowInv, TypeOK
<1> HIDE DEF new
<1>4. Backers(r) = {}
  BY <1>1 DEF GateInv, Standing
<1>5. Backers(r)' = before \cup {u}
  BY <1>1, <1>4, AuditedBackers DEF WorkflowInv, Actions, Approving
<1>6. Standing(r)'
  BY <1>2, <1>3 DEF Standing, Pending
<1>7. GateRow(r) = [phase |-> "open", owner |-> row[r].requester, quorum |-> quorum,
                    backers |-> before]
  BY <1>1, <1>4, GateRowOpen DEF Pending
<1>8. GateRow(r)' = [phase |-> phase, owner |-> row[r].requester, quorum |-> quorum,
                     backers |-> before \cup {u}]
  BY <1>1, <1>2, <1>3, <1>5 DEF GateRow, Phase, Pending
<1>9. /\ GateInv' /\ GateRows' = [GateRows EXCEPT ![r] = GateRow(r)']
      /\ GateRows[r] = GateRow(r)
  BY <1>1, <1>2, <1>6, WriterKeeps
<1>10. Cardinality(before \cup {u}) = 1
  <2>1. before \cup {u} = {u} OBVIOUS
  <2>2. QED BY <2>1, FS_Singleton
<1>11. /\ u \notin before \cup {row[r].requester}
       /\ phase = IF Cardinality(before \cup {u}) = quorum THEN "released" ELSE "open"
  BY <1>1, <1>10
<1> HIDE DEF quorum, before, phase
<1>12. Gate!Next
  BY <1>7, <1>8, <1>9, <1>11, Backs, Zenon
<1>13. QED BY <1>9, <1>12

(* A cancel withdraws the request, decided or not.                         *)
LEMMA CancelWithdraws ==
  ASSUME WorkflowInv, GateInv, NEW r \in Requests, NEW u \in Users, CancelWrite(r, u)
  PROVE  GateInv' /\ Gate!Next
<1> DEFINE new == [row[r] EXCEPT !.status = "cancelled"]
<1>1. /\ row' = [row EXCEPT ![r] = new] /\ Audited(r, "cancel", u)
      /\ cancelling' \subseteq cancelling /\ <<u, r>> \in cancelling
  BY DEF CancelWrite, WorkflowInv, TypeOK
<1>2. /\ new.status = "cancelled" /\ new.requester = row[r].requester
      /\ new.two_person = row[r].two_person
  BY DEF WorkflowInv, TypeOK, Rows
<1>3. row'[r] = new
  BY <1>1 DEF WorkflowInv, TypeOK
<1>4. row[r].status # "absent"
  BY <1>1 DEF GateInv
<1>5. Backers(r)' = Backers(r)
  BY <1>1, AuditedBackers DEF WorkflowInv, Actions, Approving
<1> HIDE DEF new
<1>6. Standing(r)'
  BY <1>2, <1>3 DEF Standing, Pending
<1>7. GateRow(r)' = [GateRow(r) EXCEPT !.phase = "closed"]
  BY <1>2, <1>3, <1>4, <1>5, GateRowCloses DEF Decided
<1>8. /\ GateInv' /\ GateRows' = [GateRows EXCEPT ![r] = GateRow(r)']
      /\ GateRows[r] = GateRow(r)
  BY <1>1, <1>2, <1>6, WriterKeeps
<1>9. GateRow(r).phase # "absent"
  <2>1. Phase(row[r].status) # "absent"
    BY <1>4 DEF Phase, Pending
  <2>2. QED BY <2>1 DEF GateRow
<1>10. Gate!Withdraw(r)
  BY <1>7, <1>8, <1>9 DEF Gate!Withdraw
<1>11. QED BY <1>8, <1>10 DEF Gate!Next

-----------------------------------------------------------------------------
(* The sweep.  Its commit refuses, in one step, the requests it expires.   *)
LEMMA SweepRefuses ==
  ASSUME WorkflowInv, GateInv, SweepCommit
  PROVE  GateInv' /\ Gate!Next
<1> DEFINE expired == {q \in sweep.marked : Exhausted(q)}
<1>1. ASSUME NEW q \in sweep.marked
      PROVE  /\ q \in Requests /\ row[q] \in Rows /\ row[q].status \in Pending
             /\ Backers(q)' = Backers(q)
             /\ row'[q].requester = row[q].requester
             /\ row'[q].two_person = row[q].two_person
             /\ row'[q].approver = row[q].approver
             /\ row'[q].status = IF Exhausted(q) THEN "expired" ELSE row[q].status
  <2>1. q \in Requests /\ row[q].status \in Pending /\ row[q] \in Rows
    BY DEF WorkflowInv, TypeOK, SweepShape, SweptRowsPending
  <2>2. audit'[q] = [audit[q] EXCEPT ![SweepAction(q)]["system:scheduler"] = @ + 1]
    BY <2>1 DEF SweepCommit
  <2>3. Backers(q)' = Backers(q)
    <3>1. /\ SweepAction(q) \in Actions \ Approving
          /\ "system:scheduler" \in Actors
      BY DEF SweepAction, Approving, Actions, Actors
    <3>2. QED BY <2>1, <2>2, <3>1, BackersAfter DEF WorkflowInv
  <2>4. row'[q] = [row[q] EXCEPT !.escalation_count = @ + 1,
                                 !.status = IF Exhausted(q) THEN "expired" ELSE @]
    BY <2>1 DEF SweepCommit
  <2>5. QED BY <2>1, <2>3, <2>4 DEF Rows
<1>2. ASSUME NEW q \in Requests, q \notin sweep.marked
      PROVE  row'[q] = row[q] /\ audit'[q] = audit[q]
  BY <1>2 DEF SweepCommit
<1>3. ASSUME NEW q \in Requests
      PROVE  /\ Standing(q)'
             /\ row[q].status # "absent" => row'[q].status # "absent"
  <2>1. CASE q \in sweep.marked /\ Exhausted(q)
    BY <1>1, <2>1 DEF Standing, Pending
  <2>2. CASE q \in sweep.marked /\ ~Exhausted(q)
    <3>1. row'[q].status = row[q].status /\ Standing(q) /\ row[q].status # "absent"
      BY <1>1, <2>2 DEF GateInv, Pending
    <3>2. QED BY <1>1, <2>2, <3>1 DEF Standing
  <2>3. CASE q \notin sweep.marked
    BY <1>2, <2>3, Unseen DEF GateInv
  <2>4. QED BY <2>1, <2>2, <2>3
<1>4. GateInv'
  <2>1. cancelling' = cancelling
    BY DEF SweepCommit
  <2>2. \A p \in cancelling : p[2] \in Requests /\ row[p[2]].status # "absent"
    BY DEF WorkflowInv, TypeOK, GateInv
  <2>3. QED BY <1>3, <2>1, <2>2 DEF GateInv
<1>5. ASSUME NEW q \in expired
      PROVE  /\ q \in Requests /\ GateRow(q).phase = "open"
             /\ GateRow(q)' = [GateRow(q) EXCEPT !.phase = "closed"]
  <2>1. GateRow(q).phase = "open"
    BY <1>1, <1>5, GateRowOpen
  <2>2. row[q].status # "absent" /\ row'[q].status \in Decided \ {"approved"}
    BY <1>1, <1>5 DEF Pending, Decided
  <2>3. QED BY <1>1, <1>5, <2>1, <2>2, GateRowCloses
<1>6. ASSUME NEW q \in Requests, q \notin expired
      PROVE  GateRow(q)' = GateRow(q)
  <2>1. CASE q \in sweep.marked
    <3>1. row'[q].status = row[q].status
      BY <1>1, <1>6, <2>1
    <3>2. QED BY <1>1, <2>1, <3>1 DEF GateRow
  <2>2. CASE q \notin sweep.marked
    BY <1>2, <2>2, Unseen
  <2>3. QED BY <2>1, <2>2
<1> HIDE DEF expired
<1>7. Gate!Refuse(expired)
  <2>1. \A q \in expired : GateRows[q].phase = "open"
    BY <1>5 DEF GateRows
  <2>2. GateRows' = [q \in Requests |-> GateRow(q)']
    BY DEF GateRows
  <2>3. \A q \in Requests : GateRows[q] = GateRow(q)
    BY DEF GateRows
  <2>4. GateRows' = [q \in Requests |->
          IF q \in expired THEN [GateRows[q] EXCEPT !.phase = "closed"] ELSE GateRows[q]]
    BY <1>5, <1>6, <2>2, <2>3
  <2>5. QED BY <2>1, <2>4 DEF Gate!Refuse
<1>8. expired \in SUBSET Requests
  BY <1>5
<1>9. QED BY <1>4, <1>7, <1>8 DEF Gate!Next

-----------------------------------------------------------------------------
(* Every step.                                                             *)

(* The initial states map to the initial state of the gate.                *)
LEMMA InitGate == Init => GateInv /\ Gate!Init
<1> SUFFICES ASSUME Init PROVE GateInv /\ Gate!Init
  OBVIOUS
<1>1. ASSUME NEW r \in Requests
      PROVE  row[r].status = "absent" /\ Backers(r) = {}
  <2>1. Approving \subseteq Actions /\ Users \subseteq Actors
    BY DEF Approving, Actions, Actors
  <2>2. \A a \in Actions, u \in Actors : audit[r][a][u] = 0 BY DEF Init
  <2>3. Backers(r) = {} BY <2>1, <2>2 DEF Backers
  <2>4. QED BY <2>3 DEF Init, Absent
<1>2. GateInv
  BY <1>1 DEF Init, GateInv, Standing, Pending
<1>3. \A r \in Requests : GateRow(r) = Gate!Fresh
  BY <1>1 DEF GateRow, Phase, Pending, Gate!Fresh
<1>4. QED BY <1>2, <1>3 DEF GateRows, Gate!Init

(* Every step maps to a step of the gate or a stutter.                     *)
LEMMA StepGate ==
  ASSUME WorkflowInv, GateInv, [Next]_vars
  PROVE  GateInv' /\ [Gate!Next]_GateRows
\* Steps that write neither rows nor the audit log.
<1>0. ASSUME UNCHANGED <<row, audit>>,
             \A p \in cancelling' : row[p[2]].status # "absent"
      PROVE  GateInv' /\ [Gate!Next]_GateRows
  <2>1. \A q \in Requests : GateRow(q)' = GateRow(q) /\ Standing(q)'
    BY <1>0, Unseen DEF GateInv
  <2>2. GateRows' = GateRows
    BY <2>1 DEF GateRows
  <2>3. QED BY <1>0, <2>1, <2>2 DEF GateInv
<1>1. ASSUME NEW r \in Requests, NEW u \in Users, NEW two \in BOOLEAN,
             create_approval(r, u, two)
      PROVE  GateInv' /\ [Gate!Next]_GateRows
  BY <1>1, CreateOpens
<1>2. ASSUME NEW r \in Requests, NEW u \in Users, decide_approval(r, u)
      PROVE  GateInv' /\ [Gate!Next]_GateRows
  <2>1. cancelling' = cancelling
    BY <1>2 DEF decide_approval
  <2>2. CASE Reject(r, u)
    BY <2>1, <2>2, RejectRefuses
  <2>3. CASE FirstApprove(r, u)
    BY <2>1, <2>3, FirstBacks
  <2>4. CASE SecondApprove(r, u)
    BY <2>1, <2>4, SecondBacks
  <2>5. CASE SingleApprove(r, u)
    BY <2>1, <2>5, SingleBacks
  <2>6. QED BY <1>2, <2>2, <2>3, <2>4, <2>5 DEF decide_approval
<1>3. ASSUME NEW r \in Requests, NEW u \in Users, CancelCheck(r, u)
      PROVE  GateInv' /\ [Gate!Next]_GateRows
  <2>1. row[r].status # "absent"
    BY <1>3 DEF CancelCheck, Pending
  <2>2. QED BY <1>0, <1>3, <2>1 DEF CancelCheck, GateInv
<1>4. ASSUME NEW r \in Requests, NEW u \in Users, CancelWrite(r, u)
      PROVE  GateInv' /\ [Gate!Next]_GateRows
  BY <1>4, CancelWithdraws
<1>5. ASSUME NEW r \in Requests, SweepRow(r) \/ DeadlinePasses(r)
      PROVE  GateInv' /\ [Gate!Next]_GateRows
  BY <1>0, <1>5 DEF SweepRow, DeadlinePasses, GateInv
<1>6. CASE SweepBegin \/ SweepAbort
  BY <1>0, <1>6 DEF SweepBegin, SweepAbort, GateInv
<1>7. CASE SweepCommit
  BY <1>7, SweepRefuses
<1>8. CASE UNCHANGED vars
  BY <1>0, <1>8 DEF vars, GateInv
<1>9. QED BY <1>1, <1>2, <1>3, <1>4, <1>5, <1>6, <1>7, <1>8 DEF Next

(* Whatever people, late cancels and sweeps do, for any sets of requests   *)
(* and people: a request is released only by a quorum of distinct backers  *)
(* other than its requester, and never after it was closed.                *)
THEOREM ImplementsGate == Spec => ReleaseGate
<1>1. WorkflowInv /\ GateInv /\ [Next]_vars => GateInv' /\ [Gate!Next]_GateRows
  BY StepGate
<1>2. QED
  BY <1>1, InitGate, InitWorkflowInv, NextWorkflowInv, PTL
  DEF Spec, ReleaseGate, Gate!Spec
=============================================================================
