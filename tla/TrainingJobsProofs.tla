-------------------------- MODULE TrainingJobsProofs --------------------------
(***************************************************************************)
(* Safety of the training jobs, for any jobs, API processes and workers    *)
(* and any number of queued runs.                                          *)
(***************************************************************************)
EXTENDS TrainingJobs, FiniteSetTheorems, SequenceTheorems, TLAPS

(* The workers on a run that has yet to store its model.                   *)
Unregistered == {w \in Workers : work[w].at \in {"loading", "stepping", "saving"}}

(* A run is queued, then on a worker, then a model: together they are      *)
(* never more than the runs put in the queue.                              *)
RunsCounted ==
  /\ IsFiniteSet(Unregistered)
  /\ \A j \in Jobs : models[j] + Len(queue) + Cardinality(Unregistered) <= runs
  /\ \A j \in Jobs : deployed[j] \subseteq 1 .. models[j]

(* An enqueue that has yet to commit has its run in the queue, unless that *)
(* run was overtaken.                                                      *)
EnqueuedQueued ==
  \A a \in Apis : api[a].at = "enqueue" =>
    api[a].job \in ToSet(queue) \/ api[a].job \in overtaken

(* What a worker holds on to while it is on a run: a row with a log entry, *)
(* the .cancel file it started with, the model it has stored.              *)
WorkBacked ==
  \A w \in Workers : Busy(w) =>
    LET j == work[w].job IN
    /\ Exists(j) /\ row[j].logged
    /\ work[w].doomed => cancel_file[j]
    /\ work[w].at = "registered" => models[j] > 0

(* Behind a job in Training or Saving is a worker that will write another  *)
(* status: not one that has read Failed and would omit it, should it fail. *)
TrainingLeaves ==
  \A j \in Jobs : row[j].status \in {"Training", "Saving"} =>
    \/ \E w \in Workers : Busy(w) /\ work[w].job = j /\ work[w].seen # "Failed"
    \/ j \in died

JobsInv ==
  /\ TypeOK
  /\ RunsCounted
  /\ EnqueuedQueued
  /\ WorkBacked
  /\ TrainingLeaves
  /\ StatusBacked
  /\ CancelOutlivesRetry

-----------------------------------------------------------------------------
(* The queue and the counts.                                               *)

(* An enqueued run is added at the end.                                    *)
LEMMA QueueGrows ==
  ASSUME NEW s \in Seq(Jobs), NEW j \in Jobs
  PROVE  /\ Append(s, j) \in Seq(Jobs)
         /\ Len(Append(s, j)) = Len(s) + 1
         /\ ToSet(Append(s, j)) = ToSet(s) \cup {j}
<1>1. /\ Append(s, j) \in Seq(Jobs) /\ Len(Append(s, j)) = Len(s) + 1
      /\ Len(s) \in Nat /\ DOMAIN s = 1 .. Len(s)
      /\ DOMAIN Append(s, j) = 1 .. Len(s) + 1
      /\ \A i \in 1 .. Len(s) : Append(s, j)[i] = s[i]
      /\ Append(s, j)[Len(s) + 1] = j
  OBVIOUS
<1>2. ToSet(Append(s, j)) = ToSet(s) \cup {j}
  BY <1>1 DEF ToSet
<1>3. QED BY <1>1, <1>2

(* A worker takes the head.                                                *)
LEMMA QueueShrinks ==
  ASSUME NEW s \in Seq(Jobs), s # <<>>
  PROVE  /\ Head(s) \in Jobs /\ Tail(s) \in Seq(Jobs)
         /\ Len(Tail(s)) = Len(s) - 1 /\ Len(s) \in Nat
         /\ ToSet(s) = ToSet(Tail(s)) \cup {Head(s)}
<1>1. /\ Head(s) \in Jobs /\ Tail(s) \in Seq(Jobs)
      /\ Len(Tail(s)) = Len(s) - 1 /\ Len(s) \in Nat /\ Len(s) > 0
      /\ DOMAIN s = 1 .. Len(s) /\ DOMAIN Tail(s) = 1 .. Len(s) - 1
      /\ \A i \in 1 .. Len(s) - 1 : Tail(s)[i] = s[i + 1]
      /\ Head(s) = s[1]
  BY HeadTailProperties, EmptySeq, LenProperties
<1>2. ToSet(s) \subseteq ToSet(Tail(s)) \cup {Head(s)}
  <2> SUFFICES ASSUME NEW i \in 1 .. Len(s)
               PROVE  s[i] \in ToSet(Tail(s)) \cup {Head(s)}
    BY <1>1 DEF ToSet
  <2>1. CASE i = 1 BY <1>1, <2>1
  <2>2. CASE i # 1
    <3>1. i - 1 \in 1 .. Len(s) - 1 /\ Tail(s)[i - 1] = s[i] BY <1>1, <2>2
    <3>2. QED BY <1>1, <3>1 DEF ToSet
  <2>3. QED BY <2>1, <2>2
<1>3. ToSet(Tail(s)) \cup {Head(s)} \subseteq ToSet(s)
  BY <1>1 DEF ToSet
<1>4. QED BY <1>1, <1>2, <1>3

(* A worker joins or leaves those that have yet to store a model.          *)
LEMMA OneMore ==
  ASSUME IsFiniteSet(Unregistered), NEW w, Unregistered' = Unregistered \cup {w},
         w \notin Unregistered
  PROVE  /\ IsFiniteSet(Unregistered')
         /\ Cardinality(Unregistered) \in Nat
         /\ Cardinality(Unregistered') = Cardinality(Unregistered) + 1
  BY FS_AddElement, FS_CardinalityType

(* A worker that has stored its model, or ends, no longer counts.          *)
LEMMA OneLess ==
  ASSUME IsFiniteSet(Unregistered), NEW w, Unregistered' = Unregistered \ {w}
  PROVE  /\ IsFiniteSet(Unregistered')
         /\ Cardinality(Unregistered) \in Nat /\ Cardinality(Unregistered') \in Nat
         /\ Cardinality(Unregistered') =
              IF w \in Unregistered THEN Cardinality(Unregistered) - 1
              ELSE Cardinality(Unregistered)
  BY FS_RemoveElement, FS_CardinalityType

-----------------------------------------------------------------------------
(* No job exists yet and every worker is idle.                             *)
LEMMA InitJobsInv == Init => JobsInv
<1> SUFFICES ASSUME Init PROVE JobsInv
  OBVIOUS
<1> USE TrainingAssumption DEF TrainingAssumption, Init, Idle
<1>1. TypeOK BY DEF TypeOK
<1>2. RunsCounted
  <2>1. Unregistered = {} BY DEF Unregistered
  <2>2. QED BY <2>1, FS_EmptySet DEF RunsCounted
<1>3. /\ EnqueuedQueued /\ WorkBacked /\ TrainingLeaves /\ StatusBacked
      /\ CancelOutlivesRetry
  BY DEF EnqueuedQueued, WorkBacked, TrainingLeaves, StatusBacked,
         CancelOutlivesRetry, Busy
<1>4. QED BY <1>1, <1>2, <1>3 DEF JobsInv

Gone == {"none", "deleted"}
Running == [at : {"loading", "stepping", "saving", "registered"},
            job : Jobs, doomed : BOOLEAN, seen : JobStatus \cup {"expired"}]
RowType == [status : JobStatus \cup {"none", "deleted"},
            output_dir : BOOLEAN, logged : BOOLEAN]

(* A worker that is not idle is on a run.                                  *)
LEMMA OnARun ==
  ASSUME TypeOK, NEW w \in Workers, Busy(w) \/ work[w].at # "idle"
  PROVE  work[w] \in Running /\ Busy(w) /\ work[w].at # "idle"
<1>1. work[w] \in {Idle} \cup Running BY Zenon DEF TypeOK, Running
<1>2. CASE work[w] = Idle BY <1>2 DEF Busy, Idle
<1>3. CASE work[w] \in Running BY <1>3 DEF Busy, Running, Idle
<1>4. QED BY <1>1, <1>2, <1>3

(* An API process that is not idle is in a handler.                        *)
LEMMA InAHandler ==
  ASSUME TypeOK, NEW a \in Apis, api[a] # Idle \/ api[a].at # "idle"
  PROVE  /\ api[a].at \in {"enqueue", "cancel"} /\ api[a].job \in Jobs
         /\ api[a].seen \in JobStatus /\ api[a] # Idle
<1>1. api[a] \in {Idle} \cup [at : {"enqueue", "cancel"}, job : Jobs, seen : JobStatus]
  BY Zenon DEF TypeOK
<1>2. CASE api[a] = Idle BY <1>2 DEF Idle
<1>3. CASE api[a] \in [at : {"enqueue", "cancel"}, job : Jobs, seen : JobStatus]
  BY <1>3 DEF Idle
<1>4. QED BY <1>1, <1>2, <1>3

(* The steps of a run keep the types of the rows and of the workers.       *)
LEMMA StatusTyped ==
  ASSUME TypeOK, NEW j \in Jobs, NEW s \in JobStatus \cup Gone,
         row' = [row EXCEPT ![j].status = s]
  PROVE  row' \in [Jobs -> RowType]
<1>1. row \in [Jobs -> RowType] BY Zenon DEF TypeOK, RowType
<1>2. row' = [row EXCEPT ![j] = [row[j] EXCEPT !.status = s]] OBVIOUS
<1>3. [row[j] EXCEPT !.status = s] \in RowType BY <1>1 DEF RowType, Gone
<1>4. QED BY <1>1, <1>2, <1>3

(* A commit leaves a status, and none disappears in it.                    *)
LEMMA CommittedStatus ==
  ASSUME TypeOK, NEW j \in Jobs, NEW seen, NEW s \in JobStatus, Exists(j)
  PROVE  Committed(j, seen, s) \in JobStatus
<1>1. row[j].status \in JobStatus BY DEF TypeOK, Exists
<1>2. QED BY <1>1 DEF Committed

(* A row replaced by one of its type keeps the type.                       *)
LEMMA RowTyped ==
  ASSUME TypeOK, NEW j \in Jobs, NEW new \in RowType,
         row' = [row EXCEPT ![j] = new]
  PROVE  row' \in [Jobs -> RowType]
<1>1. row \in [Jobs -> RowType] BY Zenon DEF TypeOK, RowType
<1>2. QED BY <1>1

(* A worker gets new work, goes on with what it has, or leaves it.         *)
LEMMA WorkTyped ==
  ASSUME TypeOK, NEW w \in Workers, NEW x \in {Idle} \cup Running,
         work' = [work EXCEPT ![w] = x]
  PROVE  work' \in [Workers -> {Idle} \cup Running]
<1>1. work \in [Workers -> {Idle} \cup Running] BY Zenon DEF TypeOK, Running
<1> HIDE DEF Idle
<1>2. QED BY <1>1

(* The work of a worker that goes on with its run.                         *)
GoesOn(w, at, seen) == [work[w] EXCEPT !.at = at, !.seen = seen]

LEMMA GoingOn ==
  ASSUME TypeOK, NEW w \in Workers, work[w] \in Running,
         NEW at \in {"loading", "stepping", "saving", "registered"},
         NEW seen \in JobStatus \cup {"expired"}
  PROVE  /\ GoesOn(w, at, seen) \in Running
         /\ GoesOn(w, at, seen).at = at /\ GoesOn(w, at, seen).seen = seen
         /\ GoesOn(w, at, seen).job = work[w].job
         /\ GoesOn(w, at, seen).doomed = work[w].doomed
  BY DEF GoesOn, Running

(* The steps of a worker that goes on with its run.                        *)
LEMMA Goings ==
  ASSUME TypeOK, NEW w \in Workers,
         \/ Load(w) \/ StepBegins(w) \/ LogMetric(w) \/ TrainingEnds(w)
         \/ register_from_job(w)
  PROVE  /\ work[w] \in Running /\ Busy(w)
         /\ Load(w) => work' = [work EXCEPT ![w] =
              GoesOn(w, work[w].at, row[work[w].job].status)]
         /\ StepBegins(w) =>
              work' = [work EXCEPT ![w] = GoesOn(w, "stepping", work[w].seen)]
         /\ LogMetric(w) =>
              work' = [work EXCEPT ![w] = GoesOn(w, work[w].at, "expired")]
         /\ TrainingEnds(w) =>
              work' = [work EXCEPT ![w] = GoesOn(w, "saving", "expired")]
         /\ register_from_job(w) =>
              work' = [work EXCEPT ![w] = GoesOn(w, "registered", work[w].seen)]
<1>1. work[w] \in Running /\ Busy(w)
  BY OnARun DEF Load, StepBegins, LogMetric, TrainingEnds, register_from_job
<1>2. work \in [Workers -> {Idle} \cup Running] BY Zenon DEF TypeOK, Running
<1>3. \A s : [work EXCEPT ![w].seen = s] = [work EXCEPT ![w] = GoesOn(w, work[w].at, s)]
  <2> TAKE s
  <2>1. [work[w] EXCEPT !.seen = s] = GoesOn(w, work[w].at, s)
    BY <1>1 DEF GoesOn, Running
  <2>2. [work EXCEPT ![w].seen = s] = [work EXCEPT ![w] = [work[w] EXCEPT !.seen = s]]
    BY <1>2
  <2>3. QED BY <2>1, <2>2
<1>4. \A at : [work EXCEPT ![w].at = at] = [work EXCEPT ![w] = GoesOn(w, at, work[w].seen)]
  <2> TAKE at
  <2>1. [work[w] EXCEPT !.at = at] = GoesOn(w, at, work[w].seen)
    BY <1>1 DEF GoesOn, Running
  <2>2. [work EXCEPT ![w].at = at] = [work EXCEPT ![w] = [work[w] EXCEPT !.at = at]]
    BY <1>2
  <2>3. QED BY <2>1, <2>2
<1>5. [work EXCEPT ![w].at = "saving", ![w].seen = "expired"]
        = [work EXCEPT ![w] = GoesOn(w, "saving", "expired")]
  BY <1>2 DEF GoesOn
<1>6. QED
  BY <1>1, <1>3, <1>4, <1>5
  DEF Load, StepBegins, LogMetric, TrainingEnds, register_from_job

(* Each step keeps the types; that models stay in range follows from the   *)
(* count of runs.                                                          *)
LEMMA Typed ==
  ASSUME TypeOK, [Next]_vars, RunsCounted, WorkBacked
  PROVE  TypeOK'
<1> USE TrainingAssumption DEF TrainingAssumption
<1>1. ASSUME NEW j \in Jobs, create_job(j) PROVE TypeOK'
  <2>1. row' \in [Jobs -> RowType] BY <1>1, StatusTyped DEF create_job, JobStatus
  <2>2. QED BY <1>1, <2>1, Zenon DEF TypeOK, create_job, registry, past, RowType
<1>2. ASSUME NEW j \in Jobs, pause(j) PROVE TypeOK'
  <2>1. row' \in [Jobs -> RowType] BY <1>2, StatusTyped DEF pause, JobStatus
  <2>2. QED BY <1>2, <2>1, Zenon DEF TypeOK, pause, registry, past, RowType
<1>3. ASSUME NEW j \in Jobs, delete_training_job(j) PROVE TypeOK'
  <2>1. row' \in [Jobs -> RowType] BY <1>3, StatusTyped DEF delete_training_job, Gone
  <2>2. QED
    BY <1>3, <2>1, Zenon DEF TypeOK, delete_training_job, registry, past, RowType
<1>4. ASSUME NEW j \in Jobs, deploy_job(j) PROVE TypeOK'
  <2>1. PICK m \in 1 .. models[j] : deployed' = [deployed EXCEPT ![j] = @ \cup {m}]
    BY <1>4 DEF deploy_job
  <2>2. m \in 1 .. MaxRuns BY DEF TypeOK
  <2>3. deployed' \in [Jobs -> SUBSET (1 .. MaxRuns)]
    BY <2>1, <2>2 DEF TypeOK
  <2>4. QED BY <1>4, <2>3, Zenon DEF TypeOK, deploy_job, past
<1>5. ASSUME NEW a \in Apis, NEW j \in Jobs, EnqueueRun(a, j) PROVE TypeOK'
  BY <1>5 DEF TypeOK, EnqueueRun, registry, past, Exists, Idle
<1>6. ASSUME NEW a \in Apis, NEW j \in Jobs, CancelFile(a, j) PROVE TypeOK'
  BY <1>6 DEF TypeOK, CancelFile, registry, past, Exists, Idle
<1>7. ASSUME NEW a \in Apis, HandlerCommit(a) PROVE TypeOK'
  <2> DEFINE j == api[a].job
             s == Committed(j, api[a].seen, IF api[a].at = "enqueue"
                                            THEN "Preparing" ELSE "Cancelled")
             new == [row[j] EXCEPT !.status = s, !.logged = TRUE]
  <2>1. j \in Jobs BY <1>7 DEF HandlerCommit, TypeOK, Idle
  <2>2. row' = row \/ row' = [row EXCEPT ![j].status = s, ![j].logged = TRUE]
    BY <1>7 DEF HandlerCommit
  <2>3. Exists(j) => s \in JobStatus
    BY <2>1, CommittedStatus DEF JobStatus
  <2>4. row' = row \/ Exists(j) BY <1>7 DEF HandlerCommit
  <2> HIDE DEF s, j
  <2>5. row' \in [Jobs -> RowType]
    <3>1. row \in [Jobs -> RowType] BY Zenon DEF TypeOK, RowType
    <3>2. Exists(j) => new \in RowType
      BY <2>1, <2>3, <3>1 DEF RowType
    <3>3. row' = row \/ row' = [row EXCEPT ![j] = new]
      BY <2>1, <2>2, <3>1
    <3> HIDE DEF new
    <3>4. QED BY <2>1, <2>4, <3>1, <3>2, <3>3, RowTyped, Zenon
  <2>6. api' = [api EXCEPT ![a] = Idle] BY <1>7 DEF HandlerCommit
  <2>7. api' \in [Apis -> {Idle} \cup
                [at : {"enqueue", "cancel"}, job : Jobs, seen : JobStatus]]
    <3> HIDE DEF Idle
    <3>1. QED BY <2>6 DEF TypeOK
  <2>8. QED
    BY <1>7, <2>5, <2>7, Zenon DEF TypeOK, HandlerCommit, registry, past, RowType
<1>8. ASSUME NEW a \in Apis, ApiDies(a) PROVE TypeOK'
  BY <1>8 DEF TypeOK, ApiDies, registry, past, Idle
<1>9. ASSUME NEW w \in Workers, Take(w) PROVE TypeOK'
  <2> DEFINE j == Head(queue)
             begun == [at |-> "loading", job |-> j, doomed |-> cancel_file[j],
                       seen |-> "expired"]
  <2>1. j \in Jobs /\ Tail(queue) \in Seq(Jobs)
    BY <1>9, QueueShrinks DEF Take, TypeOK
  <2>2. begun \in Running BY <2>1 DEF Running, TypeOK
  <2>3. work' \in [Workers -> {Idle} \cup Running]
    <3>1. work' = [work EXCEPT ![w] = begun] \/ work' = work BY <1>9 DEF Take
    <3>2. work \in [Workers -> {Idle} \cup Running] BY Zenon DEF TypeOK, Running
    <3> HIDE DEF begun
    <3>3. QED BY <2>2, <3>1, <3>2
  <2>4. row' \in [Jobs -> RowType]
    <3>1. CASE row' = row BY <3>1 DEF TypeOK, RowType
    <3>2. CASE row' = [row EXCEPT ![j].status = "Training",
                                  ![j].output_dir = TRUE, ![j].logged = TRUE]
      <4> HIDE DEF j
      <4>1. row \in [Jobs -> RowType] BY Zenon DEF TypeOK, RowType
      <4>2. row' = [row EXCEPT ![j] = [[[row[j] EXCEPT !.status = "Training"]
                EXCEPT !.output_dir = TRUE] EXCEPT !.logged = TRUE]]
        BY <2>1, <3>2, <4>1
      <4>3. \A old \in RowType : [[[old EXCEPT !.status = "Training"]
                EXCEPT !.output_dir = TRUE] EXCEPT !.logged = TRUE] \in RowType
        BY DEF RowType, JobStatus
      <4>4. QED BY <2>1, <4>1, <4>2, <4>3, RowTyped
    <3>3. QED BY <1>9, <3>1, <3>2, Zenon DEF Take
  <2>5. overtaken' \subseteq Jobs
    <3>1. overtaken' \in {overtaken \cup {j}, overtaken \ {j}} BY <1>9 DEF Take
    <3>2. QED BY <2>1, <3>1 DEF TypeOK
  <2> HIDE DEF j
  <2>6. /\ queue' \in Seq(Jobs)
        /\ UNCHANGED <<cancel_file, models, deployed, api, runs, died>>
    BY <1>9, <2>1 DEF Take, registry, j
  <2>7. QED BY <2>3, <2>4, <2>5, <2>6, Zenon DEF TypeOK, Running, RowType
<1>10. ASSUME NEW w \in Workers, Load(w) \/ StepBegins(w) \/ LogMetric(w)
       PROVE  TypeOK'
  <2>1. /\ work[w] \in Running /\ Exists(work[w].job)
        /\ work[w].job \in Jobs /\ row[work[w].job].status \in JobStatus
    BY <1>10, Goings DEF WorkBacked, Exists, Running, TypeOK
  <2>2. PICK at \in {"loading", "stepping", "saving", "registered"},
             seen \in JobStatus \cup {"expired"} :
               work' = [work EXCEPT ![w] = GoesOn(w, at, seen)]
    <3>1. /\ work[w].at \in {"loading", "stepping", "saving", "registered"}
          /\ work[w].seen \in JobStatus \cup {"expired"}
      BY <2>1 DEF Running
    <3>2. QED BY <1>10, <2>1, <3>1, Goings
  <2>3. work' \in [Workers -> {Idle} \cup Running]
    BY <2>1, <2>2, GoingOn, WorkTyped
  <2>4. QED
    BY <1>10, <2>3, Zenon
    DEF TypeOK, Load, StepBegins, LogMetric, registry, past, Running
<1>11. ASSUME NEW w \in Workers, TrainingEnds(w) PROVE TypeOK'
  <2>1. work[w] \in Running /\ Exists(work[w].job) /\ work[w].job \in Jobs
    BY <1>11, Goings DEF WorkBacked, Running
  <2>2. work' \in [Workers -> {Idle} \cup Running]
    BY <1>11, <2>1, Goings, GoingOn, WorkTyped
  <2>3. row' \in [Jobs -> RowType]
    BY <1>11, <2>1, CommittedStatus, StatusTyped DEF TrainingEnds, JobStatus
  <2>4. QED
    BY <1>11, <2>2, <2>3, Zenon
    DEF TypeOK, TrainingEnds, registry, past, Running, RowType
<1>12. ASSUME NEW w \in Workers, register_from_job(w) PROVE TypeOK'
  <2>1. work[w] \in Running BY <1>12, Goings
  <2>2. work' \in [Workers -> {Idle} \cup Running]
    <3>1. work[w].seen \in JobStatus \cup {"expired"} BY <2>1 DEF Running
    <3>2. QED BY <1>12, <2>1, <3>1, Goings, GoingOn, WorkTyped
  <2>3. models' \in [Jobs -> 0 .. MaxRuns]
    <3>1. w \in Unregistered BY <1>12 DEF register_from_job, Unregistered
    <3>2. Cardinality(Unregistered) \in Nat /\ Cardinality(Unregistered) > 0
      BY <3>1, FS_EmptySet, FS_CardinalityType DEF RunsCounted
    <3>3. work[w].job \in Jobs BY <2>1 DEF Running
    <3>4. models[work[w].job] + 1 <= MaxRuns
      BY <3>2, <3>3 DEF RunsCounted, TypeOK
    <3>5. QED BY <1>12, <3>3, <3>4 DEF register_from_job, TypeOK
  <2>4. QED
    BY <1>12, <2>2, <2>3, Zenon DEF TypeOK, register_from_job, past, Running
<1>13. ASSUME NEW w \in Workers, Complete(w) PROVE TypeOK'
  <2>1. work[w] \in Running BY <1>13, OnARun DEF Complete
  <2>2. work' \in [Workers -> {Idle} \cup Running]
    BY <1>13, WorkTyped DEF Complete
  <2>3. row' \in [Jobs -> RowType]
    BY <1>13, <2>1, StatusTyped DEF Complete, JobStatus, Running
  <2>4. QED
    BY <1>13, <2>2, <2>3, Zenon
    DEF TypeOK, Complete, registry, past, Running, RowType
<1>14. ASSUME NEW w \in Workers, Fail(w) PROVE TypeOK'
  <2>1. work[w] \in Running /\ Exists(work[w].job) /\ work[w].job \in Jobs
    BY <1>14, OnARun DEF Fail, WorkBacked, Running
  <2>2. work' \in [Workers -> {Idle} \cup Running]
    BY <1>14, WorkTyped DEF Fail
  <2>3. row' \in [Jobs -> RowType]
    BY <1>14, <2>1, CommittedStatus, StatusTyped DEF Fail, JobStatus
  <2>4. QED
    BY <1>14, <2>2, <2>3, Zenon
    DEF TypeOK, Fail, registry, past, Running, RowType
<1>15. ASSUME NEW w \in Workers, WorkerDies(w) PROVE TypeOK'
  <2>1. work[w] \in Running BY <1>15, OnARun DEF WorkerDies
  <2>2. work' \in [Workers -> {Idle} \cup Running]
    BY <1>15, WorkTyped DEF WorkerDies
  <2>3. died' \subseteq Jobs
    BY <1>15, <2>1 DEF WorkerDies, TypeOK, Running
  <2>4. QED
    BY <1>15, <2>2, <2>3, Zenon DEF TypeOK, WorkerDies, registry, Running
<1>16. CASE UNCHANGED vars BY <1>16 DEF TypeOK, vars, registry, past
<1>17. QED
  BY <1>1, <1>2, <1>3, <1>4, <1>5, <1>6, <1>7, <1>8, <1>9, <1>10, <1>11, <1>12,
     <1>13, <1>14, <1>15, <1>16 DEF Next, RunStep

-----------------------------------------------------------------------------
(* A row with a log entry is never removed, nor its log entry, and neither *)
(* a .cancel file nor a stored model ever goes away.                       *)
LEMMA NothingVanishes ==
  ASSUME TypeOK, [Next]_vars, WorkBacked, NEW j \in Jobs
  PROVE  /\ Exists(j) /\ row[j].logged => row'[j].status \notin Gone /\ row'[j].logged
         /\ cancel_file[j] => cancel_file'[j]
         /\ models[j] <= models'[j]
<1> DEFINE Kept == /\ Exists(j) /\ row[j].logged =>
                        row'[j].status \notin Gone /\ row'[j].logged
                   /\ cancel_file[j] => cancel_file'[j]
                   /\ models[j] <= models'[j]
<1> USE DEF TypeOK, Exists, Gone, registry, past
<1>1. ASSUME NEW i \in Jobs, create_job(i) PROVE Kept BY <1>1 DEF create_job
<1>2. ASSUME NEW i \in Jobs, pause(i) PROVE Kept BY <1>2 DEF pause
<1>3. ASSUME NEW i \in Jobs, delete_training_job(i) PROVE Kept
  BY <1>3 DEF delete_training_job
<1>4. ASSUME NEW i \in Jobs, deploy_job(i) PROVE Kept BY <1>4 DEF deploy_job
<1>5. ASSUME NEW a \in Apis, NEW i \in Jobs, EnqueueRun(a, i) PROVE Kept
  BY <1>5 DEF EnqueueRun
<1>6. ASSUME NEW a \in Apis, NEW i \in Jobs, CancelFile(a, i) PROVE Kept
  BY <1>6 DEF CancelFile
\* A commit over an existing row leaves it there.
<1>a. ASSUME NEW i \in Jobs, NEW seen, NEW t \in JobStatus, Exists(i),
             \/ row' = [row EXCEPT ![i].status = Committed(i, seen, t)]
             \/ row' = [row EXCEPT ![i].status = Committed(i, seen, t), ![i].logged = TRUE],
             UNCHANGED <<cancel_file, models>>
      PROVE  Kept
  <2> DEFINE s == Committed(i, seen, t)
  <2>1. s \in JobStatus BY <1>a, CommittedStatus
  <2>2. s \notin Gone BY <2>1 DEF JobStatus
  <2> HIDE DEF s
  <2>3. row \in [Jobs -> RowType] BY Zenon DEF RowType
  <2>4. Exists(j) /\ row[j].logged =>
          row'[j].status \notin Gone /\ row'[j].logged
    <3> HIDE DEF TypeOK
    <3>1. QED BY <1>a, <2>2, <2>3 DEF RowType, s
  <2>5. QED BY <1>a, <2>4
<1>7. ASSUME NEW a \in Apis, HandlerCommit(a) PROVE Kept
  <2>1. api[a].job \in Jobs BY <1>7, InAHandler DEF HandlerCommit
  <2>2. CASE row' = row BY <1>7, <2>2 DEF HandlerCommit
  <2>3. CASE Exists(api[a].job)
    BY <1>7, <2>1, <2>2, <2>3, <1>a DEF HandlerCommit, JobStatus
  <2>4. QED BY <1>7, <2>2, <2>3 DEF HandlerCommit
<1>8. ASSUME NEW a \in Apis, ApiDies(a) PROVE Kept BY <1>8 DEF ApiDies
<1>9. ASSUME NEW w \in Workers, Take(w) PROVE Kept
  <2>1. UNCHANGED <<cancel_file, models>> BY <1>9 DEF Take
  <2>2. Exists(j) /\ row[j].logged =>
          row'[j].status \notin Gone /\ row'[j].logged
    <3>1. row \in [Jobs -> RowType] BY Zenon DEF RowType
    <3>2. CASE row' = row BY <3>2
    <3>3. CASE row' = [row EXCEPT ![Head(queue)].status = "Training",
                ![Head(queue)].output_dir = TRUE, ![Head(queue)].logged = TRUE]
      <4> HIDE DEF TypeOK
      <4>1. QED BY <3>1, <3>3 DEF RowType
    <3>4. QED BY <1>9, <3>2, <3>3, Zenon DEF Take
  <2>3. QED BY <2>1, <2>2
<1>10. ASSUME NEW w \in Workers, Load(w) \/ StepBegins(w) \/ LogMetric(w) PROVE Kept
  BY <1>10 DEF Load, StepBegins, LogMetric
<1>11. ASSUME NEW w \in Workers, TrainingEnds(w) \/ Fail(w) PROVE Kept
  <2>1. /\ work[w].job \in Jobs /\ row[work[w].job].status \notin Gone
        /\ UNCHANGED <<cancel_file, models>>
    BY <1>11, OnARun DEF TrainingEnds, Fail, WorkBacked, Running
  <2>2. QED BY <1>11, <2>1, <1>a DEF TrainingEnds, Fail, JobStatus
<1>12. ASSUME NEW w \in Workers, register_from_job(w) PROVE Kept
  BY <1>12 DEF register_from_job
<1>13. ASSUME NEW w \in Workers, Complete(w) PROVE Kept BY <1>13 DEF Complete
<1>14. ASSUME NEW w \in Workers, WorkerDies(w) PROVE Kept BY <1>14 DEF WorkerDies
<1>15. CASE UNCHANGED vars BY <1>15 DEF vars
<1>16. QED
  BY <1>1, <1>2, <1>3, <1>4, <1>5, <1>6, <1>7, <1>8, <1>9, <1>10, <1>11, <1>12,
     <1>13, <1>14, <1>15 DEF Next, RunStep

(* What a step may do to the work of the workers: one of them begins a run *)
(* of a row it has just written, goes on with its run, or leaves it.       *)
LEMMA WorkMoves ==
  ASSUME TypeOK, [Next]_vars, NEW v \in Workers, Busy(v)'
  PROVE  \/ work'[v] = work[v] /\ Busy(v)
         \/ /\ work'[v].job \in Jobs /\ work'[v].at = "loading"
            /\ row'[work'[v].job].status \notin Gone /\ row'[work'[v].job].logged
            /\ work'[v].doomed = cancel_file'[work'[v].job]
         \/ /\ Busy(v) /\ work'[v].job = work[v].job
            /\ work'[v].doomed = work[v].doomed
            /\ \/ work'[v].at = work[v].at
               \/ /\ work[v].at = "loading" /\ work'[v].at = "stepping"
                  /\ ~cancel_file[work[v].job]
               \/ work[v].at = "stepping" /\ work'[v].at = "saving"
               \/ /\ work[v].at = "saving" /\ work'[v].at = "registered"
                  /\ models'[work[v].job] = models[work[v].job] + 1
<1> DEFINE Moves ==
      \/ work'[v] = work[v] /\ Busy(v)
      \/ /\ work'[v].job \in Jobs /\ work'[v].at = "loading"
         /\ row'[work'[v].job].status \notin Gone /\ row'[work'[v].job].logged
         /\ work'[v].doomed = cancel_file'[work'[v].job]
      \/ /\ Busy(v) /\ work'[v].job = work[v].job
         /\ work'[v].doomed = work[v].doomed
         /\ \/ work'[v].at = work[v].at
            \/ /\ work[v].at = "loading" /\ work'[v].at = "stepping"
               /\ ~cancel_file[work[v].job]
            \/ work[v].at = "stepping" /\ work'[v].at = "saving"
            \/ /\ work[v].at = "saving" /\ work'[v].at = "registered"
               /\ models'[work[v].job] = models[work[v].job] + 1
<1>0. work' = work => Moves BY DEF Busy
<1>1. ASSUME NEW w \in Workers, work' = [work EXCEPT ![w] = Idle] PROVE Moves
  BY <1>1 DEF TypeOK, Busy
<1>2. ASSUME NEW w \in Workers, Take(w) PROVE Moves
  <2>1. Head(queue) \in Jobs BY <1>2, QueueShrinks DEF Take, TypeOK
  <2>2. CASE v = w /\ Exists(Head(queue))
    <3>1. /\ work'[v] = [at |-> "loading", job |-> Head(queue),
                         doomed |-> cancel_file[Head(queue)], seen |-> "expired"]
          /\ row'[Head(queue)].logged /\ row'[Head(queue)].status = "Training"
          /\ cancel_file' = cancel_file
      BY <1>2, <2>1, <2>2 DEF Take, TypeOK
    <3>2. QED BY <2>1, <3>1 DEF Gone
  <2>3. CASE v # w BY <1>2, <2>3 DEF Take, Busy, TypeOK
  <2>4. CASE v = w /\ ~Exists(Head(queue)) BY <1>0, <1>2, <2>4 DEF Take
  <2>5. QED BY <2>2, <2>3, <2>4
<1>3. ASSUME NEW w \in Workers,
             \/ Load(w) \/ StepBegins(w) \/ LogMetric(w) \/ TrainingEnds(w)
             \/ register_from_job(w)
      PROVE  Moves
  <2>1. work[w] \in Running /\ Busy(w) BY <1>3, Goings
  <2>2. PICK at \in {"loading", "stepping", "saving", "registered"},
             seen \in JobStatus \cup Gone \cup {"expired"} :
          /\ work' = [work EXCEPT ![w] = GoesOn(w, at, seen)]
          /\ \/ at = work[w].at
             \/ work[w].at = "loading" /\ at = "stepping" /\ ~cancel_file[work[w].job]
             \/ work[w].at = "stepping" /\ at = "saving"
             \/ /\ work[w].at = "saving" /\ at = "registered"
                /\ models'[work[w].job] = models[work[w].job] + 1
    <3>1. /\ work[w].at \in {"loading", "stepping", "saving", "registered"}
          /\ work[w].seen \in JobStatus \cup {"expired"} /\ work[w].job \in Jobs
          /\ row[work[w].job].status \in JobStatus \cup Gone
      BY <2>1 DEF Running, TypeOK, Gone
    <3>2. ASSUME register_from_job(w)
          PROVE  models'[work[w].job] = models[work[w].job] + 1
      BY <3>1, <3>2 DEF register_from_job, TypeOK
    <3>3. /\ StepBegins(w) => work[w].at = "loading" /\ ~cancel_file[work[w].job]
          /\ TrainingEnds(w) => work[w].at = "stepping"
          /\ register_from_job(w) => work[w].at = "saving"
      BY DEF StepBegins, TrainingEnds, register_from_job
    <3>4. CASE Load(w) BY <3>1, <3>4, Goings
    <3>5. CASE StepBegins(w) BY <3>1, <3>3, <3>5, Goings
    <3>6. CASE LogMetric(w) BY <3>1, <3>6, Goings
    <3>7. CASE TrainingEnds(w) BY <3>3, <3>7, Goings
    <3>8. CASE register_from_job(w) BY <3>1, <3>2, <3>3, <3>8, Goings
    <3>9. QED BY <1>3, <3>4, <3>5, <3>6, <3>7, <3>8
  <2>3. CASE v # w BY <2>2, <2>3 DEF Busy, TypeOK
  <2>4. CASE v = w
    <3>1. work'[v] = GoesOn(w, at, seen) BY <2>2, <2>4 DEF TypeOK
    <3>2. /\ GoesOn(w, at, seen).at = at /\ GoesOn(w, at, seen).job = work[w].job
          /\ GoesOn(w, at, seen).doomed = work[w].doomed
      BY <2>1 DEF GoesOn, Running
    <3>3. QED BY <2>1, <2>2, <2>4, <3>1, <3>2
  <2>5. QED BY <2>3, <2>4
<1>4. ASSUME NEW w \in Workers, Complete(w) \/ Fail(w) \/ WorkerDies(w) PROVE Moves
  BY <1>1, <1>4, Zenon DEF Complete, Fail, WorkerDies
<1>5. ASSUME NEW j \in Jobs, \/ create_job(j) \/ pause(j) \/ delete_training_job(j)
                            \/ deploy_job(j)
      PROVE  Moves
  BY <1>0, <1>5, Zenon DEF create_job, pause, delete_training_job, deploy_job
<1>6. ASSUME NEW a \in Apis, \/ \E j \in Jobs : EnqueueRun(a, j) \/ CancelFile(a, j)
                            \/ HandlerCommit(a) \/ ApiDies(a)
      PROVE  Moves
  BY <1>0, <1>6, Zenon DEF EnqueueRun, CancelFile, HandlerCommit, ApiDies
<1>7. CASE UNCHANGED vars BY <1>0, <1>7 DEF vars
<1>8. QED
  BY <1>2, <1>3, <1>4, <1>5, <1>6, <1>7 DEF Next, RunStep

(* What a busy worker relies on is not taken from it.                      *)
LEMMA WorkStaysBacked ==
  ASSUME TypeOK, TypeOK', [Next]_vars, WorkBacked, CancelOutlivesRetry
  PROVE  WorkBacked' /\ CancelOutlivesRetry'
<1> SUFFICES ASSUME NEW v \in Workers, Busy(v)'
             PROVE  /\ row'[work'[v].job].status \notin Gone /\ row'[work'[v].job].logged
                    /\ work'[v].doomed => cancel_file'[work'[v].job]
                    /\ work'[v].at = "registered" => models'[work'[v].job] > 0
                    /\ work'[v].doomed => work'[v].at = "loading"
  BY DEF WorkBacked, CancelOutlivesRetry, Exists, Gone
<1> DEFINE j == work[v].job
<1>1. CASE Busy(v) /\ work'[v].job = j
  <2>1. /\ j \in Jobs /\ models[j] \in Nat /\ models'[j] \in Nat
        /\ work[v] \in Running
    BY <1>1, OnARun DEF TypeOK, Running
  <2>2. /\ Exists(j) /\ row[j].logged
        /\ work[v].doomed => cancel_file[j] /\ work[v].at = "loading"
        /\ work[v].at = "registered" => models[j] > 0
    BY <1>1 DEF WorkBacked, CancelOutlivesRetry
  <2>3. /\ row'[j].status \notin Gone /\ row'[j].logged
        /\ cancel_file[j] => cancel_file'[j]
        /\ models[j] <= models'[j]
    BY <2>1, <2>2, NothingVanishes
  <2> HIDE DEF j
  <2>4. QED BY <1>1, <2>1, <2>2, <2>3, WorkMoves DEF Running
<1>2. CASE ~(Busy(v) /\ work'[v].job = j)
  BY <1>2, WorkMoves
<1>3. QED BY <1>1, <1>2

-----------------------------------------------------------------------------
(* Only an enqueue adds to the runs; a run moves from the queue to a       *)
(* worker to a model, and is counted once throughout.                      *)
LEMMA RunsStayCounted ==
  ASSUME TypeOK, TypeOK', [Next]_vars, RunsCounted
  PROVE  RunsCounted'
<1>0. /\ IsFiniteSet(Unregistered) /\ Cardinality(Unregistered) \in Nat
      /\ Len(queue) \in Nat /\ Len(queue') \in Nat /\ runs \in Nat
      /\ \A j \in Jobs : models[j] \in Nat /\ models'[j] \in Nat
      /\ \A j \in Jobs : models[j] + Len(queue) + Cardinality(Unregistered) <= runs
      /\ \A j \in Jobs : deployed[j] \subseteq 1 .. models[j]
  BY FS_CardinalityType DEF TypeOK, RunsCounted
\* A step that registers nothing and leaves the queue alone can only lower
\* the number of workers on a run.
<1>1. ASSUME NEW w \in Workers,
             \/ work' = work
             \/ /\ work[w].at # "idle"
                /\ work' = [work EXCEPT ![w] = Idle]
             \/ /\ work[w].at \in {"loading", "stepping"} /\ work[w] \in Running
                /\ \E at \in {"loading", "stepping", "saving"} : \E seen :
                     work' = [work EXCEPT ![w] = GoesOn(w, at, seen)],
             UNCHANGED <<queue, models, deployed, runs>>
      PROVE  RunsCounted'
  <2>1. Unregistered' \in {Unregistered, Unregistered \ {w}}
    <3>1. work \in [Workers -> {Idle} \cup Running] BY Zenon DEF TypeOK, Running
    <3>2. CASE work' = work BY <3>2 DEF Unregistered
    <3>3. CASE work' = [work EXCEPT ![w] = Idle]
      <4>1. Unregistered' = Unregistered \ {w}
        BY <3>1, <3>3 DEF Unregistered, Idle
      <4>2. QED BY <4>1
    <3>4. ASSUME work[w].at \in {"loading", "stepping"}, work[w] \in Running,
                 NEW at \in {"loading", "stepping", "saving"}, NEW seen,
                 work' = [work EXCEPT ![w] = GoesOn(w, at, seen)]
          PROVE  Unregistered' = Unregistered
      <4>1. GoesOn(w, at, seen).at = at BY <3>4 DEF GoesOn, Running
      <4>2. work'[w].at = at /\ \A v \in Workers \ {w} : work'[v] = work[v]
        BY <3>1, <3>4, <4>1
      <4>3. QED BY <3>4, <4>2 DEF Unregistered
    <3>5. QED BY <1>1, <3>2, <3>3, <3>4
  <2>2. /\ IsFiniteSet(Unregistered') /\ Cardinality(Unregistered') \in Nat
        /\ Cardinality(Unregistered') <= Cardinality(Unregistered)
    <3>1. CASE Unregistered' = Unregistered BY <1>0, <3>1
    <3>2. CASE Unregistered' = Unregistered \ {w}
      <4>1. /\ IsFiniteSet(Unregistered') /\ Cardinality(Unregistered') \in Nat
            /\ Cardinality(Unregistered') = IF w \in Unregistered
                 THEN Cardinality(Unregistered) - 1 ELSE Cardinality(Unregistered)
        BY <1>0, <3>2, OneLess, Zenon
      <4>2. QED BY <1>0, <4>1
    <3>3. QED BY <2>1, <3>1, <3>2
  <2>3. \A j \in Jobs : models'[j] + Len(queue') + Cardinality(Unregistered') <= runs'
    BY <1>0, <1>1, <2>2
  <2>4. QED BY <1>0, <1>1, <2>2, <2>3 DEF RunsCounted
<1>2. ASSUME NEW a \in Apis, NEW i \in Jobs, EnqueueRun(a, i) PROVE RunsCounted'
  <2>1. Len(queue') = Len(queue) + 1 /\ runs' = runs + 1
    BY <1>2, QueueGrows DEF EnqueueRun, TypeOK
  <2>2. Unregistered' = Unregistered /\ UNCHANGED <<models, deployed>>
    BY <1>2 DEF EnqueueRun, Unregistered, registry
  <2>3. \A j \in Jobs : models'[j] + Len(queue') + Cardinality(Unregistered') <= runs'
    BY <1>0, <2>1, <2>2
  <2>4. QED BY <1>0, <2>2, <2>3 DEF RunsCounted
<1>3. ASSUME NEW w \in Workers, Take(w) PROVE RunsCounted'
  <2>1. Len(queue') = Len(queue) - 1 /\ UNCHANGED <<models, deployed, runs>>
    BY <1>3, QueueShrinks DEF Take, TypeOK, registry
  <2>2. w \notin Unregistered BY <1>3 DEF Take, Busy, Unregistered, Idle
  <2>3. Unregistered' \in {Unregistered, Unregistered \cup {w}}
    <3>1. CASE work' = work BY <3>1 DEF Unregistered
    <3>2. CASE work' = [work EXCEPT ![w] = [at |-> "loading", job |-> Head(queue),
                doomed |-> cancel_file[Head(queue)], seen |-> "expired"]]
      <4>1. work'[w].at = "loading" /\ \A v \in Workers \ {w} : work'[v] = work[v]
        BY <3>2 DEF TypeOK
      <4>2. QED BY <4>1 DEF Unregistered
    <3>3. QED BY <1>3, <3>1, <3>2, Zenon DEF Take
  <2>4. /\ IsFiniteSet(Unregistered') /\ Cardinality(Unregistered') \in Nat
        /\ Cardinality(Unregistered') <= Cardinality(Unregistered) + 1
    <3>1. CASE Unregistered' = Unregistered BY <1>0, <3>1
    <3>2. CASE Unregistered' = Unregistered \cup {w}
      <4>1. /\ IsFiniteSet(Unregistered')
            /\ Cardinality(Unregistered') = Cardinality(Unregistered) + 1
        BY <1>0, <2>2, <3>2, OneMore, Zenon
      <4>2. QED BY <1>0, <4>1
    <3>3. QED BY <2>3, <3>1, <3>2
  <2>5. \A j \in Jobs : models'[j] + Len(queue') + Cardinality(Unregistered') <= runs'
    BY <1>0, <2>1, <2>4
  <2>6. QED BY <1>0, <2>1, <2>4, <2>5 DEF RunsCounted
<1>4. ASSUME NEW w \in Workers, register_from_job(w) PROVE RunsCounted'
  <2>1. w \in Unregistered BY <1>4 DEF register_from_job, Unregistered
  <2>2. Unregistered' = Unregistered \ {w}
    <3>1. work \in [Workers -> {Idle} \cup Running] BY Zenon DEF TypeOK, Running
    <3>2. /\ work' = [work EXCEPT ![w] = GoesOn(w, "registered", work[w].seen)]
          /\ GoesOn(w, "registered", work[w].seen).at = "registered"
      BY <1>4, Goings DEF GoesOn, Running
    <3>3. work'[w].at = "registered" /\ \A v \in Workers \ {w} : work'[v] = work[v]
      BY <3>1, <3>2
    <3>4. Unregistered' =
            {v \in Workers : work'[v].at \in {"loading", "stepping", "saving"}}
      BY DEF Unregistered
    <3>5. QED BY <3>3, <3>4 DEF Unregistered
  <2>3. /\ IsFiniteSet(Unregistered') /\ Cardinality(Unregistered') \in Nat
        /\ Cardinality(Unregistered') = Cardinality(Unregistered) - 1
    BY <1>0, <2>1, <2>2, OneLess
  <2>4. /\ UNCHANGED <<queue, deployed, runs>>
        /\ \A j \in Jobs : models'[j] \in {models[j], models[j] + 1}
    BY <1>4 DEF register_from_job, past, TypeOK
  <2>5. ASSUME NEW j \in Jobs
        PROVE  models'[j] + Len(queue') + Cardinality(Unregistered') <= runs'
    <3>1. models[j] + Len(queue) + Cardinality(Unregistered) <= runs BY <1>0
    <3>2. models[j] \in Nat /\ Len(queue) \in Nat /\ runs \in Nat
          /\ Cardinality(Unregistered) \in Nat
      BY <1>0
    <3>3. models'[j] <= models[j] + 1 /\ models'[j] \in Nat BY <2>4, <3>2
    <3>4. QED BY <2>3, <2>4, <3>1, <3>2, <3>3
  <2>6. \A j \in Jobs : deployed'[j] \subseteq 1 .. models'[j]
    BY <1>0, <2>4
  <2>7. QED BY <2>3, <2>5, <2>6 DEF RunsCounted
<1>5. ASSUME NEW i \in Jobs, deploy_job(i) PROVE RunsCounted'
  <2>1. Unregistered' = Unregistered /\ UNCHANGED <<models, queue, runs>>
    BY <1>5 DEF deploy_job, Unregistered, past
  <2>2. \A j \in Jobs : deployed'[j] \subseteq 1 .. models'[j]
    BY <1>0, <1>5, <2>1 DEF deploy_job, TypeOK
  <2>3. QED BY <1>0, <2>1, <2>2 DEF RunsCounted
<1>6. ASSUME NEW w \in Workers,
             Load(w) \/ StepBegins(w) \/ LogMetric(w) \/ TrainingEnds(w)
      PROVE  RunsCounted'
  <2>1. work[w].at \in {"loading", "stepping"} /\ work[w] \in Running
    BY <1>6, Goings DEF Load, StepBegins, LogMetric, TrainingEnds
  <2>2. \E at \in {"loading", "stepping", "saving"} : \E seen :
          work' = [work EXCEPT ![w] = GoesOn(w, at, seen)]
    BY <1>6, <2>1, Goings
  <2>3. UNCHANGED <<queue, models, deployed, runs>>
    BY <1>6 DEF Load, StepBegins, LogMetric, TrainingEnds, registry, past
  <2>4. QED BY <1>1, <2>1, <2>2, <2>3
<1>7. ASSUME NEW w \in Workers, Complete(w) \/ Fail(w) \/ WorkerDies(w)
      PROVE  RunsCounted'
  <2>1. work[w].at # "idle" BY <1>7, OnARun DEF Complete, Fail, WorkerDies
  <2>2. work' = [work EXCEPT ![w] = Idle] /\ UNCHANGED <<queue, models, deployed, runs>>
    BY <1>7 DEF Complete, Fail, WorkerDies, registry, past
  <2>3. QED BY <1>1, <2>1, <2>2
<1>8. ASSUME UNCHANGED <<work, queue, models, deployed, runs>> PROVE RunsCounted'
  BY <1>0, <1>8 DEF RunsCounted, Unregistered
<1>9. ASSUME NEW j \in Jobs, \/ create_job(j) \/ pause(j) \/ delete_training_job(j)
      PROVE  RunsCounted'
  BY <1>8, <1>9 DEF create_job, pause, delete_training_job, registry, past
<1>10. ASSUME NEW a \in Apis, \/ \E j \in Jobs : CancelFile(a, j)
                             \/ HandlerCommit(a) \/ ApiDies(a)
      PROVE  RunsCounted'
  BY <1>8, <1>10 DEF CancelFile, HandlerCommit, ApiDies, registry, past
<1>11. CASE UNCHANGED vars BY <1>8, <1>11 DEF vars, registry, past
<1>12. QED
  BY <1>2, <1>3, <1>4, <1>5, <1>6, <1>7, <1>9, <1>10, <1>11 DEF Next, RunStep

-----------------------------------------------------------------------------
(* Statuses.                                                               *)

\* A pending enqueue, and a Preparing job, are backed by the queue.
Backed(j) == j \in ToSet(queue) \/ j \in overtaken

\* Only Take removes what backs a job, and then marks the job overtaken if
\* an enqueue of it has yet to commit.
LEMMA BackingKept ==
  ASSUME TypeOK, [Next]_vars, NEW j \in Jobs, Backed(j), ~Backed(j)'
  PROVE  /\ \E w \in Workers : Take(w)
         /\ queue # <<>> /\ j = Head(queue)
         /\ ~\E a \in Apis : api[a].at = "enqueue" /\ api[a].job = j
<1>1. ASSUME NEW w \in Workers, Take(w)
      PROVE  /\ queue # <<>> /\ j = Head(queue)
             /\ ~\E a \in Apis : api[a].at = "enqueue" /\ api[a].job = j
  <2>1. /\ queue # <<>> /\ queue' = Tail(queue)
        /\ ToSet(queue) = ToSet(queue') \cup {Head(queue)}
    BY <1>1, QueueShrinks DEF Take, TypeOK
  <2>2. overtaken' = IF \E a \in Apis : api[a].at = "enqueue" /\ api[a].job = Head(queue)
                     THEN overtaken \cup {Head(queue)} ELSE overtaken \ {Head(queue)}
    BY <1>1 DEF Take
  <2>3. QED BY <2>1, <2>2 DEF Backed
<1>2. ASSUME NEW a \in Apis, NEW i \in Jobs, EnqueueRun(a, i) PROVE FALSE
  <2>1. ToSet(queue) \subseteq ToSet(queue') /\ overtaken' = overtaken
    BY <1>2, QueueGrows DEF EnqueueRun, TypeOK
  <2>2. QED BY <2>1 DEF Backed
<1>3. ASSUME UNCHANGED <<queue, overtaken>> PROVE FALSE
  BY <1>3 DEF Backed
<1>4. ASSUME NEW w \in Workers, \/ Load(w) \/ StepBegins(w) \/ LogMetric(w)
                               \/ TrainingEnds(w) \/ Complete(w)
                               \/ register_from_job(w) \/ Fail(w) \/ WorkerDies(w)
      PROVE  FALSE
  BY <1>3, <1>4
  DEF Load, LogMetric, StepBegins, TrainingEnds, Complete, register_from_job, Fail, WorkerDies, past
<1>5. ASSUME NEW i \in Jobs, \/ create_job(i) \/ pause(i) \/ delete_training_job(i)
                            \/ deploy_job(i)
      PROVE  FALSE
  BY <1>3, <1>5 DEF create_job, pause, delete_training_job, deploy_job, past
<1>6. ASSUME NEW a \in Apis, \/ \E i \in Jobs : CancelFile(a, i)
                            \/ HandlerCommit(a) \/ ApiDies(a)
      PROVE  FALSE
  BY <1>3, <1>6 DEF CancelFile, HandlerCommit, ApiDies, past
<1>7. CASE UNCHANGED vars BY <1>3, <1>7 DEF vars, past
<1>8. QED
  BY <1>1, <1>2, <1>4, <1>5, <1>6, <1>7 DEF Next, RunStep

(* The run of an uncommitted enqueue leaves the queue only by being        *)
(* overtaken.                                                              *)
LEMMA EnqueuesStayQueued ==
  ASSUME TypeOK, TypeOK', [Next]_vars, EnqueuedQueued
  PROVE  EnqueuedQueued'
<1> SUFFICES ASSUME NEW a \in Apis, api'[a].at = "enqueue"
             PROVE  api'[a].job \in ToSet(queue') \/ api'[a].job \in overtaken'
  BY DEF EnqueuedQueued, Backed
<1>1. CASE api'[a] = api[a]
  <2>1. PICK j \in Jobs : j = api[a].job
    BY <1>1, InAHandler
  <2>2. Backed(j) BY <1>1, <2>1 DEF EnqueuedQueued, Backed
  <2>3. Backed(j)' BY <1>1, <2>1, <2>2, BackingKept
  <2>4. QED BY <1>1, <2>1, <2>3 DEF Backed
<1>2. CASE api'[a] # api[a]
  <2>1. PICK i \in Jobs : EnqueueRun(a, i)
    <3>1. ASSUME NEW b \in Apis, NEW i \in Jobs, EnqueueRun(b, i) PROVE b = a
      BY <1>2, <3>1 DEF EnqueueRun, TypeOK
    <3>2. ASSUME NEW b \in Apis, NEW i \in Jobs, CancelFile(b, i) PROVE FALSE
      BY <1>2, <3>2 DEF CancelFile, TypeOK
    <3>3. ASSUME NEW b \in Apis, HandlerCommit(b) \/ ApiDies(b) PROVE FALSE
      BY <1>2, <3>3 DEF HandlerCommit, ApiDies, TypeOK, Idle
    <3>4. ASSUME NEW w \in Workers, RunStep(w) \/ WorkerDies(w) PROVE FALSE
      BY <1>2, <3>4
      DEF RunStep, Take, Load, LogMetric, StepBegins, TrainingEnds, Complete, register_from_job,
          Fail, WorkerDies
    <3>5. ASSUME NEW i \in Jobs, \/ create_job(i) \/ pause(i) \/ deploy_job(i)
                                \/ delete_training_job(i)
          PROVE  FALSE
      BY <1>2, <3>5 DEF create_job, pause, delete_training_job, deploy_job
    <3>6. ~UNCHANGED vars BY <1>2 DEF vars
    <3>7. QED BY <3>1, <3>2, <3>3, <3>4, <3>5, <3>6 DEF Next
  <2>2. queue' = Append(queue, i) /\ api'[a].job = i
    BY <2>1 DEF EnqueueRun, TypeOK
  <2>3. i \in ToSet(queue') BY <2>2, QueueGrows DEF TypeOK
  <2>4. QED BY <2>2, <2>3
<1>3. QED BY <1>1, <1>2

(* Who writes which status.  A status that a step leaves or that it does   *)
(* not move away from is as before; the others are written by the step     *)
(* that makes them true.                                                   *)
LEMMA StatusWritten ==
  ASSUME TypeOK, [Next]_vars, NEW j \in Jobs, row'[j].status # row[j].status
  PROVE  /\ row'[j].status = "Training" =>
              \E w \in Workers : /\ Take(w) /\ work'[w].job = j /\ work'[w].at = "loading"
                                 /\ work'[w].seen = "expired"
         /\ row'[j].status = "Saving" =>
              \E w \in Workers : TrainingEnds(w) /\ work[w].job = j
         /\ row'[j].status = "Preparing" =>
              \E a \in Apis : /\ HandlerCommit(a) /\ api[a].at = "enqueue"
                             /\ api[a].job = j
         /\ row'[j].status = "Completed" =>
              \E w \in Workers : Complete(w) /\ work[w].job = j
<1> DEFINE s == row'[j].status
           Written == /\ s = "Training" =>
                           \E w \in Workers : /\ Take(w) /\ work'[w].job = j
                                              /\ work'[w].at = "loading"
                                              /\ work'[w].seen = "expired"
                      /\ s = "Saving" =>
                           \E w \in Workers : TrainingEnds(w) /\ work[w].job = j
                      /\ s = "Preparing" =>
                           \E a \in Apis : /\ HandlerCommit(a) /\ api[a].at = "enqueue"
                                          /\ api[a].job = j
                      /\ s = "Completed" =>
                           \E w \in Workers : Complete(w) /\ work[w].job = j
<1>0. row \in [Jobs -> RowType] BY Zenon DEF TypeOK, RowType
<1>a. ASSUME NEW k, NEW t, row' = [row EXCEPT ![k].status = t]
      PROVE  k = j /\ s = t
  BY <1>0, <1>a DEF RowType
<1>1. ASSUME NEW w \in Workers, Take(w) PROVE Written
  <2>1. CASE row' = row BY <2>1
  <2>2. CASE /\ row' = [row EXCEPT ![Head(queue)].status = "Training",
                  ![Head(queue)].output_dir = TRUE, ![Head(queue)].logged = TRUE]
             /\ work' = [work EXCEPT ![w] = [at |-> "loading", job |-> Head(queue),
                    doomed |-> cancel_file[Head(queue)], seen |-> "expired"]]
    <3>1. Head(queue) = j /\ s = "Training" BY <1>0, <2>2 DEF RowType
    <3>2. work'[w] = [at |-> "loading", job |-> j, doomed |-> cancel_file[j],
                      seen |-> "expired"]
      BY <2>2, <3>1 DEF TypeOK
    <3>3. work'[w].job = j /\ work'[w].at = "loading" /\ work'[w].seen = "expired"
      BY <3>2
    <3> HIDE DEF s
    <3>4. QED BY <1>1, <3>1, <3>3
  <2>3. QED BY <1>1, <2>1, <2>2, Zenon DEF Take
<1>2. ASSUME NEW w \in Workers, TrainingEnds(w) PROVE Written
  <2>1. work[w].job = j /\ s = "Saving" BY <1>2, <1>a DEF TrainingEnds, Committed
  <2> HIDE DEF s
  <2>2. QED BY <1>2, <2>1
<1>3. ASSUME NEW w \in Workers, Complete(w) PROVE Written
  <2>1. work[w].job = j /\ s = "Completed" BY <1>3, <1>a DEF Complete
  <2> HIDE DEF s
  <2>2. QED BY <1>3, <2>1
<1>4. ASSUME NEW w \in Workers, Fail(w) PROVE Written
  <2>1. s = "Failed"
    <3>1. j = work[w].job /\ s = Committed(j, work[w].seen, "Failed")
      BY <1>4, <1>a DEF Fail
    <3>2. QED BY <3>1 DEF Committed
  <2> HIDE DEF s
  <2>2. QED BY <2>1
<1>5. ASSUME NEW i \in Jobs, \/ create_job(i) \/ pause(i) \/ delete_training_job(i)
      PROVE  Written
  <2>1. s \in {"Pending", "Paused", "deleted"}
    BY <1>5, <1>a DEF create_job, pause, delete_training_job
  <2> HIDE DEF s
  <2>2. QED BY <2>1
<1>6. ASSUME NEW a \in Apis, HandlerCommit(a) PROVE Written
  <2> DEFINE k == api[a].job
             written == IF api[a].at = "enqueue" THEN "Preparing" ELSE "Cancelled"
             t == Committed(k, api[a].seen, written)
  <2>1. row' = [row EXCEPT ![k].status = t, ![k].logged = TRUE]
    BY <1>6 DEF HandlerCommit
  <2>2. k = j /\ s = t
    <3> HIDE DEF k, t
    <3>1. QED BY <1>0, <2>1 DEF RowType
  <2>3. s = written
    <3> HIDE DEF written
    <3>1. QED BY <2>2 DEF Committed
  <2>4. s = "Cancelled" \/ (s = "Preparing" /\ api[a].at = "enqueue")
    BY <2>3
  <2> HIDE DEF s, t, written
  <2>5. QED BY <1>6, <2>2, <2>4
<1>7. ASSUME NEW w \in Workers, \/ Load(w) \/ StepBegins(w) \/ LogMetric(w)
                               \/ register_from_job(w) \/ WorkerDies(w)
      PROVE  FALSE
  BY <1>7 DEF Load, StepBegins, LogMetric, register_from_job, WorkerDies
<1>8. ASSUME NEW a \in Apis, \/ \E i \in Jobs : EnqueueRun(a, i) \/ CancelFile(a, i)
                            \/ ApiDies(a)
      PROVE  FALSE
  BY <1>8 DEF EnqueueRun, CancelFile, ApiDies
<1>9. ASSUME NEW i \in Jobs, deploy_job(i) PROVE FALSE
  BY <1>9 DEF deploy_job
<1>10. ~UNCHANGED vars BY DEF vars
<1>11. Written
  BY <1>1, <1>2, <1>3, <1>4, <1>5, <1>6, <1>7, <1>8, <1>9, <1>10 DEF Next, RunStep
<1>12. QED BY <1>11, Zenon

(* A worker that would write any status stays one on its job, unless it    *)
(* leaves it with a final status written, or dies.  It reads none but      *)
(* that of the row.                                                        *)
LEMMA RunLeft ==
  ASSUME TypeOK, [Next]_vars, NEW w \in Workers, Busy(w), work[w].seen # "Failed",
         row[work[w].job].status # "Failed"
  PROVE  \/ Busy(w)' /\ work'[w].job = work[w].job /\ work'[w].seen # "Failed"
         \/ row'[work[w].job].status \in {"Completed", "Failed"}
         \/ work[w].job \in died'
<1> DEFINE k == work[w].job
           Stays == Busy(w)' /\ work'[w].job = k /\ work'[w].seen # "Failed"
           Left == row'[k].status \in {"Completed", "Failed"} \/ k \in died'
<1>0. work[w] \in Running /\ k \in Jobs BY OnARun DEF Running
<1>1. ASSUME NEW v \in Workers, NEW x, work' = [work EXCEPT ![v] = x], v # w
      PROVE  Stays
  BY <1>1 DEF Busy, TypeOK
<1>2. ASSUME NEW v \in Workers, Complete(v) PROVE Stays \/ Left
  <2>1. CASE v # w BY <1>1, <1>2, <2>1 DEF Complete
  <2>2. CASE v = w
    <3>1. row'[k].status = "Completed" BY <1>0, <1>2, <2>2 DEF Complete, TypeOK
    <3>2. QED BY <3>1
  <2>3. QED BY <2>1, <2>2
<1>3. ASSUME NEW v \in Workers, Fail(v) PROVE Stays \/ Left
  <2>1. CASE v # w BY <1>1, <1>3, <2>1 DEF Fail
  <2>2. CASE v = w
    <3>1. row'[k].status = "Failed"
      BY <1>0, <1>3, <2>2 DEF Fail, Committed, TypeOK
    <3>2. QED BY <3>1
  <2>3. QED BY <2>1, <2>2
<1>4. ASSUME NEW v \in Workers, WorkerDies(v) PROVE Stays \/ Left
  <2>1. CASE v # w BY <1>1, <1>4, <2>1 DEF WorkerDies
  <2>2. CASE v = w BY <1>4, <2>2 DEF WorkerDies
  <2>3. QED BY <2>1, <2>2
<1>5. work' = work => Stays BY DEF Busy
<1>6. ASSUME NEW v \in Workers, Take(v) PROVE Stays
  <2>1. v # w BY <1>6 DEF Take
  <2>2. work' = work \/ \E x : work' = [work EXCEPT ![v] = x] BY <1>6 DEF Take
  <2>3. CASE work' = work BY <1>5, <2>3, Zenon
  <2>4. CASE work' # work BY <1>1, <2>1, <2>2, <2>4, Zenon
  <2>5. QED BY <2>3, <2>4
<1>7. ASSUME NEW v \in Workers,
             \/ Load(v) \/ StepBegins(v) \/ LogMetric(v) \/ TrainingEnds(v)
             \/ register_from_job(v)
      PROVE  Stays
  <2>1. CASE v # w
    <3>1. \E at, seen : work' = [work EXCEPT ![v] = GoesOn(v, at, seen)]
      BY <1>7, Goings
    <3>2. QED BY <1>1, <2>1, <3>1
  <2>2. CASE v = w
    <3>1. PICK at, seen :
            /\ at \in {"loading", "stepping", "saving", "registered"}
            /\ work' = [work EXCEPT ![w] = GoesOn(w, at, seen)]
            /\ seen # "Failed"
      <4>1. work[w].at \in {"loading", "stepping", "saving", "registered"}
        BY <1>0 DEF Running
      <4>2. QED BY <1>7, <2>2, <4>1, Goings
    <3>2. work'[w] = GoesOn(w, at, seen) BY <3>1 DEF TypeOK
    <3>3. /\ GoesOn(w, at, seen).at = at /\ GoesOn(w, at, seen).seen = seen
          /\ GoesOn(w, at, seen).job = k
      BY <1>0 DEF GoesOn, Running
    <3>4. QED BY <3>1, <3>2, <3>3 DEF Busy, Idle
  <2>3. QED BY <2>1, <2>2
<1>8. ASSUME NEW i \in Jobs, \/ create_job(i) \/ pause(i) \/ delete_training_job(i)
                            \/ deploy_job(i)
      PROVE  Stays
  BY <1>5, <1>8, Zenon DEF create_job, pause, delete_training_job, deploy_job
<1>9. ASSUME NEW a \in Apis, \/ \E i \in Jobs : EnqueueRun(a, i) \/ CancelFile(a, i)
                            \/ HandlerCommit(a) \/ ApiDies(a)
      PROVE  Stays
  BY <1>5, <1>9, Zenon DEF EnqueueRun, CancelFile, HandlerCommit, ApiDies
<1>10. CASE UNCHANGED vars BY <1>5, <1>10 DEF vars
<1>11. Stays \/ Left
  BY <1>2, <1>3, <1>4, <1>6, <1>7, <1>8, <1>9, <1>10 DEF Next, RunStep
<1>12. QED BY <1>11

(* A job on which a worker died stays one.                                 *)
LEMMA DiedGrows ==
  ASSUME [Next]_vars PROVE died \subseteq died'
BY DEF Next, RunStep, create_job, pause, delete_training_job, deploy_job, EnqueueRun,
       CancelFile, HandlerCommit, ApiDies, Take, Load, LogMetric, StepBegins, TrainingEnds,
       register_from_job, Complete, Fail, WorkerDies, vars, past

(* A job in Training or Saving keeps a worker that will write another      *)
(* status, or one has died on it.                                          *)
LEMMA TrainingStillLeaves ==
  ASSUME TypeOK, TypeOK', [Next]_vars, TrainingLeaves
  PROVE  TrainingLeaves'
<1> SUFFICES ASSUME NEW j \in Jobs, row'[j].status \in {"Training", "Saving"}
             PROVE  \/ \E w \in Workers : /\ Busy(w)' /\ work'[w].job = j
                                          /\ work'[w].seen # "Failed"
                    \/ j \in died'
  BY DEF TrainingLeaves
<1>1. CASE row'[j].status = row[j].status
  <2>1. CASE j \in died BY <2>1, DiedGrows
  <2>2. ASSUME NEW w \in Workers, Busy(w), work[w].job = j, work[w].seen # "Failed"
        PROVE  \/ \E v \in Workers : /\ Busy(v)' /\ work'[v].job = j
                                     /\ work'[v].seen # "Failed"
               \/ j \in died'
    <3>1. row[work[w].job].status # "Failed" BY <1>1, <2>2
    <3>2. QED BY <2>2, <3>1, RunLeft
  <2>3. QED BY <1>1, <2>1, <2>2 DEF TrainingLeaves
<1>2. CASE row'[j].status # row[j].status
  <2>1. CASE row'[j].status = "Training"
    <3>1. PICK w \in Workers : /\ work'[w].job = j /\ work'[w].at = "loading"
                               /\ work'[w].seen = "expired"
      BY <1>2, <2>1, StatusWritten
    <3>2. Busy(w)' BY <3>1 DEF Busy, Idle
    <3>3. QED BY <3>1, <3>2
  <2>2. CASE row'[j].status = "Saving"
    <3>1. PICK w \in Workers : TrainingEnds(w) /\ work[w].job = j
      BY <1>2, <2>2, StatusWritten
    <3>2. work[w] \in Running /\ work' = [work EXCEPT ![w] = GoesOn(w, "saving", "expired")]
      BY <3>1, Goings
    <3>3. work'[w] = GoesOn(w, "saving", "expired") BY <3>2 DEF TypeOK
    <3>4. work'[w].job = j /\ work'[w].at = "saving" /\ work'[w].seen = "expired"
      BY <3>1, <3>2, <3>3, GoingOn
    <3>5. Busy(w)' BY <3>4 DEF Busy, Idle
    <3>6. QED BY <3>4, <3>5
  <2>3. QED BY <2>1, <2>2
<1>3. QED BY <1>1, <1>2

(* A status is made true by the step that writes it, and outlived by none  *)
(* of what backs it.                                                       *)
LEMMA StatusStaysBacked ==
  ASSUME TypeOK, TypeOK', [Next]_vars, StatusBacked, EnqueuedQueued, WorkBacked,
         TrainingLeaves'
  PROVE  StatusBacked'
<1> SUFFICES ASSUME NEW j \in Jobs
             PROVE  /\ row'[j].status \in {"Training", "Saving"} =>
                         (\E w \in Workers : Busy(w)' /\ work'[w].job = j) \/ j \in died'
                    /\ row'[j].status = "Preparing" => Backed(j)'
                    /\ row'[j].status = "Completed" => models'[j] > 0
  BY DEF StatusBacked, OnIt, Backed
<1>1. row'[j].status \in {"Training", "Saving"} =>
        (\E w \in Workers : Busy(w)' /\ work'[w].job = j) \/ j \in died'
  BY DEF TrainingLeaves
<1>2. ASSUME row'[j].status = "Preparing" PROVE Backed(j)'
  <2>1. CASE row'[j].status = row[j].status
    <3>1. Backed(j) BY <1>2, <2>1 DEF StatusBacked, Backed
    <3>2. SUFFICES ASSUME ~Backed(j)' PROVE FALSE
      OBVIOUS
    <3>3. PICK w \in Workers : Take(w) /\ j = Head(queue)
      BY <3>1, <3>2, BackingKept
    <3>4. Exists(j) BY <1>2, <2>1 DEF Exists
    <3>5. row'[j].status = "Training"
      BY <3>3, <3>4 DEF Take, TypeOK
    <3>6. QED BY <1>2, <3>5
  <2>2. CASE row'[j].status # row[j].status
    <3>1. PICK a \in Apis : HandlerCommit(a) /\ api[a].at = "enqueue" /\ api[a].job = j
      BY <1>2, <2>2, StatusWritten
    <3>2. Backed(j) BY <3>1 DEF EnqueuedQueued, Backed
    <3>3. UNCHANGED <<queue, overtaken>> BY <3>1 DEF HandlerCommit, past
    <3>4. QED BY <3>2, <3>3 DEF Backed
  <2>3. QED BY <2>1, <2>2
<1>3. ASSUME row'[j].status = "Completed" PROVE models'[j] > 0
  <2>1. models[j] > 0
    <3>1. CASE row'[j].status = row[j].status BY <1>3, <3>1 DEF StatusBacked
    <3>2. CASE row'[j].status # row[j].status
      <4>1. PICK w \in Workers : Complete(w) /\ work[w].job = j
        BY <1>3, <3>2, StatusWritten
      <4>2. Busy(w) BY <4>1, OnARun DEF Complete
      <4>3. QED BY <4>1, <4>2 DEF WorkBacked, Complete
    <3>3. QED BY <3>1, <3>2
  <2>2. models[j] <= models'[j] /\ models[j] \in Nat /\ models'[j] \in Nat
    BY NothingVanishes DEF TypeOK
  <2>3. QED BY <2>1, <2>2
<1>4. QED BY <1>1, <1>2, <1>3

(* Each step keeps the invariant.                                          *)
LEMMA NextJobsInv == JobsInv /\ [Next]_vars => JobsInv'
<1> SUFFICES ASSUME JobsInv, [Next]_vars PROVE JobsInv'
  OBVIOUS
<1>1. TypeOK' BY Typed DEF JobsInv
<1>2. RunsCounted' BY <1>1, RunsStayCounted DEF JobsInv
<1>3. EnqueuedQueued' BY <1>1, EnqueuesStayQueued DEF JobsInv
<1>4. WorkBacked' /\ CancelOutlivesRetry' BY <1>1, WorkStaysBacked DEF JobsInv
<1>5. TrainingLeaves' BY <1>1, TrainingStillLeaves DEF JobsInv
<1>6. StatusBacked' BY <1>1, <1>5, StatusStaysBacked DEF JobsInv
<1>7. QED BY <1>1, <1>2, <1>3, <1>4, <1>5, <1>6 DEF JobsInv

(* JobsInv holds in every reachable state.                                 *)
LEMMA AlwaysJobsInv == Spec => []JobsInv
  BY InitJobsInv, NextJobsInv, PTL DEF Spec

-----------------------------------------------------------------------------
(* Every status, counter and handler position stays in its range; no more  *)
(* models are ever stored than runs were queued.                           *)
THEOREM JobsTyped == Spec => []TypeOK
<1>1. JobsInv => TypeOK BY DEF JobsInv
<1>2. QED BY <1>1, AlwaysJobsInv, PTL

(* Whoever wrote a status last and over whom: Training and Saving mean a   *)
(* worker is on the job or died on it, Preparing that a run of it is       *)
(* queued or was overtaken, Completed that it has a model (enqueue,        *)
(* cancel, run_training_job).                                              *)
THEOREM StatusesBacked == Spec => []StatusBacked
<1>1. JobsInv => StatusBacked BY DEF JobsInv
<1>2. QED BY <1>1, AlwaysJobsInv, PTL

(* A run started with the .cancel file of its job in place never gets past *)
(* its first callback (ensure_not_cancelled).                              *)
THEOREM CancelsOutliveRetries == Spec => []CancelOutlivesRetry
<1>1. JobsInv => CancelOutlivesRetry BY DEF JobsInv
<1>2. QED BY <1>1, AlwaysJobsInv, PTL

(* No row is deleted under a worker that is on it: it has a log entry from *)
(* the worker's first commit on (delete_training_job).                     *)
THEOREM WorkedRowsAreKept == Spec => []WorkedRowsStay
<1>1. JobsInv => WorkedRowsStay BY DEF JobsInv, WorkBacked, WorkedRowsStay
<1>2. QED BY <1>1, AlwaysJobsInv, PTL
===============================================================================
