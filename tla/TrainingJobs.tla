----------------------------- MODULE TrainingJobs -----------------------------
(***************************************************************************)
(* Training jobs of services/model_training: the API processes, the RQ     *)
(* queue, the workers that run run_training_job, the table training_jobs   *)
(* and the .cancel file in a job's output directory.  They share one       *)
(* status column that nobody locks and nobody reads before writing it.     *)
(*                                                                         *)
(* A handler has no await, so an API process is inside one handler at a    *)
(* time; handlers of two processes and the workers interleave at every     *)
(* commit and at every effect outside the transaction (queue, file).  The  *)
(* ORM omits a column whose new value is the one it read: `seen` is that   *)
(* value where it is kept over another step, by enqueue, by cancel and by  *)
(* the session of a worker, where each commit makes it "expired".          *)
(*                                                                         *)
(* Redis and the file system are external and reliable; a process may die  *)
(* between any two steps.  Metrics, logs and datasets are left out, except *)
(* that a job with a log row cannot be deleted (foreign key).              *)
(***************************************************************************)
EXTENDS Naturals, Sequences, SequencesExt

CONSTANTS
  Jobs, Apis, Workers,
  MaxRuns  (* bound: runs ever put in the queue                            *)

ASSUME TrainingAssumption == MaxRuns \in Nat

VARIABLES
  row,          (* training_jobs: status, whether output_dir is set and
                   whether training_logs refers to the row                 *)
  cancel_file,  (* output_dir/.cancel exists                               *)
  queue,        (* RQ: the job ids of the queued runs                      *)
  models,       (* how many trained_models rows carry version v<job id>    *)
  deployed,     (* which of them a deployment refers to                    *)
  api,          (* the handler each API process is inside                  *)
  work,         (* the run each worker is inside                           *)
  runs,         (* runs queued so far                                      *)
  died,         (* history: jobs a worker died on                          *)
  overtaken     (* history: the last run taken was taken while an enqueue
                   of its job had yet to commit                            *)

registry == <<models, deployed>>
past     == <<runs, died, overtaken>>
vars     == <<row, cancel_file, queue, registry, api, work, past>>

JobStatus == {"Pending", "Preparing", "Training", "Saving", "Completed",
              "Failed", "Cancelled", "Paused"}

Idle == [at |-> "idle"]

TypeOK ==
  /\ row \in [Jobs -> [status : JobStatus \cup {"none", "deleted"},
                       output_dir : BOOLEAN, logged : BOOLEAN]]
  /\ cancel_file \in [Jobs -> BOOLEAN]
  /\ queue \in Seq(Jobs)
  /\ models \in [Jobs -> 0..MaxRuns]
  /\ deployed \in [Jobs -> SUBSET (1..MaxRuns)]
  /\ api \in [Apis -> {Idle} \cup
                [at : {"enqueue", "cancel"}, job : Jobs, seen : JobStatus]]
  /\ work \in [Workers -> {Idle} \cup
                 [at : {"loading", "stepping", "saving", "registered"},
                  job : Jobs, doomed : BOOLEAN,
                  seen : JobStatus \cup {"expired"}]]
  /\ runs \in 0..MaxRuns
  /\ died \subseteq Jobs /\ overtaken \subseteq Jobs

Init ==
  /\ row = [j \in Jobs |-> [status |-> "none", output_dir |-> FALSE,
                            logged |-> FALSE]]
  /\ cancel_file = [j \in Jobs |-> FALSE]
  /\ queue = <<>>
  /\ models = [j \in Jobs |-> 0]
  /\ deployed = [j \in Jobs |-> {}]
  /\ api = [a \in Apis |-> Idle]
  /\ work = [w \in Workers |-> Idle]
  /\ runs = 0
  /\ died = {} /\ overtaken = {}

Exists(j) == row[j].status \notin {"none", "deleted"}

Busy(w) == work[w] # Idle

\* The status after a commit: it is not updated if what is written is what
\* was read.
Committed(j, seen, status) == IF seen = status THEN row[j].status ELSE status

-----------------------------------------------------------------------------
(* Plausible bugs: each stands in for one action below, to show that the   *)
(* properties notice it.                                                   *)

\* A cancelled run is not taken for a failure.
FailSilently(w) ==
  /\ Busy(w)
  /\ work' = [work EXCEPT ![w] = Idle]
  /\ UNCHANGED <<row, cancel_file, queue, registry, api, past>>

\* The worker removes a leftover .cancel when it starts.
TakeClearsCancel(w) ==
  /\ ~Busy(w) /\ queue # <<>>
  /\ LET j == Head(queue) IN
     /\ Exists(j)
     /\ queue' = Tail(queue)
     /\ row' = [row EXCEPT ![j].status = "Training", ![j].output_dir = TRUE,
                           ![j].logged = TRUE]
     /\ work' = [work EXCEPT ![w] = [at |-> "loading", job |-> j,
                                     doomed |-> cancel_file[j],
                                     seen |-> "expired"]]
     /\ cancel_file' = [cancel_file EXCEPT ![j] = FALSE]
  /\ UNCHANGED <<registry, api, past>>

\* register_from_job stores the adapter and the merged model.
RegisterTwice(w) ==
  /\ work[w].at = "saving"
  /\ work' = [work EXCEPT ![w].at = "registered"]
  /\ models' = [models EXCEPT ![work[w].job] = @ + 2]
  /\ UNCHANGED <<row, cancel_file, queue, deployed, api, past>>

\* The log rows are deleted along with the job.
delete_cascades(j) ==
  /\ Exists(j)
  /\ row' = [row EXCEPT ![j].status = "deleted", ![j].logged = FALSE]
  /\ UNCHANGED <<cancel_file, queue, registry, api, work, past>>

-----------------------------------------------------------------------------
(* API handlers.                                                           *)

create_job(j) ==
  /\ row[j].status = "none"
  /\ row' = [row EXCEPT ![j].status = "Pending"]
  /\ UNCHANGED <<cancel_file, queue, registry, api, work, past>>

(* start, resume and retry are all enqueue: whatever the status, the run   *)
(* is in the queue before the status is committed.                         *)
EnqueueRun(a, j) ==
  /\ api[a] = Idle /\ Exists(j)
  /\ runs < MaxRuns
  /\ runs' = runs + 1
  /\ queue' = Append(queue, j)
  /\ api' = [api EXCEPT ![a] = [at |-> "enqueue", job |-> j,
                                seen |-> row[j].status]]
  /\ UNCHANGED <<row, cancel_file, registry, work, died, overtaken>>

(* cancel leaves its file only if it read an output_dir.                   *)
CancelFile(a, j) ==
  /\ api[a] = Idle /\ Exists(j)
  /\ cancel_file' = [cancel_file EXCEPT ![j] = @ \/ row[j].output_dir]
  /\ api' = [api EXCEPT ![a] = [at |-> "cancel", job |-> j,
                                seen |-> row[j].status]]
  /\ UNCHANGED <<row, queue, registry, work, past>>

(* The commit of either handler; it fails if the row is gone meanwhile.    *)
HandlerCommit(a) ==
  LET j == api[a].job
      written == IF api[a].at = "enqueue" THEN "Preparing" ELSE "Cancelled"
  IN
  /\ api[a] # Idle
  /\ api' = [api EXCEPT ![a] = Idle]
  /\ \/ /\ Exists(j)
        /\ row' = [row EXCEPT ![j].status = Committed(j, api[a].seen, written),
                              ![j].logged = TRUE]
     \/ ~Exists(j) /\ UNCHANGED row
  /\ UNCHANGED <<cancel_file, queue, registry, work, past>>

ApiDies(a) ==
  /\ api[a] # Idle
  /\ api' = [api EXCEPT ![a] = Idle]
  /\ UNCHANGED <<row, cancel_file, queue, registry, work, past>>

pause(j) ==
  /\ Exists(j)
  /\ row' = [row EXCEPT ![j].status = "Paused"]
  /\ UNCHANGED <<cancel_file, queue, registry, api, work, past>>

(* DELETE /jobs/{job_id}: training_logs.job_id is a foreign key.           *)
delete_training_job(j) ==
  /\ Exists(j) /\ ~row[j].logged
  /\ row' = [row EXCEPT ![j].status = "deleted"]
  /\ UNCHANGED <<cancel_file, queue, registry, api, work, past>>

(* deploy_job takes the first model of that version, in no stated order.   *)
deploy_job(j) ==
  /\ \E m \in 1..models[j] : deployed' = [deployed EXCEPT ![j] = @ \cup {m}]
  /\ UNCHANGED <<row, cancel_file, queue, models, api, work, past>>

-----------------------------------------------------------------------------
(* run_training_job in a worker.                                           *)

(* Up to the first commit.  A run of a deleted job raises and is over.     *)
Take(w) ==
  /\ ~Busy(w) /\ queue # <<>>
  /\ LET j == Head(queue) IN
     /\ queue' = Tail(queue)
     /\ overtaken' =
          IF \E a \in Apis : api[a].at = "enqueue" /\ api[a].job = j
          THEN overtaken \cup {j} ELSE overtaken \ {j}
     /\ \/ /\ Exists(j)
           /\ row' = [row EXCEPT ![j].status = "Training",
                                 ![j].output_dir = TRUE, ![j].logged = TRUE]
           /\ work' = [work EXCEPT ![w] = [at |-> "loading", job |-> j,
                                           doomed |-> cancel_file[j],
                                           seen |-> "expired"]]
        \/ ~Exists(j) /\ UNCHANGED <<row, work>>
  /\ UNCHANGED <<cancel_file, registry, api, runs, died>>

(* The job is loaded again before the trainer starts.                      *)
Load(w) ==
  /\ work[w].at = "loading" /\ work[w].seen = "expired"
  /\ work' = [work EXCEPT ![w].seen = row[work[w].job].status]
  /\ UNCHANGED <<row, cancel_file, queue, registry, api, past>>

(* A callback of the trainer that finds no .cancel; one that finds it      *)
(* raises TrainingCancelled, which is an Exception like any other (Fail).  *)
StepBegins(w) ==
  /\ work[w].at = "loading" /\ work[w].seen # "expired"
  /\ ~cancel_file[work[w].job]
  /\ work' = [work EXCEPT ![w].at = "stepping"]
  /\ UNCHANGED <<row, cancel_file, queue, registry, api, past>>

(* on_log finds no .cancel either and emits: log_metric commits.           *)
LogMetric(w) ==
  /\ work[w].at = "stepping" /\ work[w].seen # "expired"
  /\ ~cancel_file[work[w].job]
  /\ work' = [work EXCEPT ![w].seen = "expired"]
  /\ UNCHANGED <<row, cancel_file, queue, registry, api, past>>

(* The last callback has passed and trainer.run() returns.                 *)
TrainingEnds(w) ==
  LET j == work[w].job IN
  /\ work[w].at = "stepping"
  /\ work' = [work EXCEPT ![w].at = "saving", ![w].seen = "expired"]
  /\ row' = [row EXCEPT ![j].status = Committed(j, work[w].seen, "Saving")]
  /\ UNCHANGED <<cancel_file, queue, registry, api, past>>

register_from_job(w) ==
  /\ work[w].at = "saving"
  /\ work' = [work EXCEPT ![w].at = "registered"]
  /\ models' = [models EXCEPT ![work[w].job] = @ + 1]
  /\ UNCHANGED <<row, cancel_file, queue, deployed, api, past>>

Complete(w) ==
  /\ work[w].at = "registered"
  /\ work' = [work EXCEPT ![w] = Idle]
  /\ row' = [row EXCEPT ![work[w].job].status = "Completed"]
  /\ UNCHANGED <<cancel_file, queue, registry, api, past>>

(* Any exception of the run, at any point after its first commit.          *)
Fail(w) ==
  LET j == work[w].job IN
  /\ Busy(w)
  /\ work' = [work EXCEPT ![w] = Idle]
  /\ row' = [row EXCEPT ![j].status = Committed(j, work[w].seen, "Failed")]
  /\ UNCHANGED <<cancel_file, queue, registry, api, past>>

(* The process is killed, or the database fails it and with it the except  *)
(* branch: the status stays.  RQ does not run the job again.               *)
WorkerDies(w) ==
  /\ Busy(w)
  /\ work' = [work EXCEPT ![w] = Idle]
  /\ died' = died \cup {work[w].job}
  /\ UNCHANGED <<row, cancel_file, queue, registry, api, runs, overtaken>>

RunStep(w) ==
  \/ Take(w) \/ Load(w) \/ StepBegins(w) \/ LogMetric(w) \/ TrainingEnds(w)
  \/ register_from_job(w) \/ Complete(w) \/ Fail(w)

Next ==
  \/ \E j \in Jobs : \/ create_job(j)
                     \/ pause(j)
                     \/ delete_training_job(j)
                     \/ deploy_job(j)
  \/ \E a \in Apis : \/ \E j \in Jobs : EnqueueRun(a, j) \/ CancelFile(a, j)
                     \/ HandlerCommit(a)
                     \/ ApiDies(a)
  \/ \E w \in Workers : RunStep(w) \/ WorkerDies(w)

(* Workers poll the queue and a run ends; handlers return or die.          *)
Fairness ==
  /\ \A w \in Workers : WF_vars(RunStep(w))
  /\ \A a \in Apis : WF_vars(HandlerCommit(a) \/ ApiDies(a))

Spec == Init /\ [][Next]_vars /\ Fairness

-----------------------------------------------------------------------------
OnIt(j) == \E w \in Workers : Busy(w) /\ work[w].job = j

(* A status is true of something, whoever wrote it last and over whom: a   *)
(* job in Training or Saving is inside a worker, unless one died on it; a  *)
(* Preparing job is queued, unless its run was taken before enqueue had    *)
(* committed the status; a Completed job has its model in the registry.    *)
StatusBacked ==
  \A j \in Jobs :
    /\ row[j].status \in {"Training", "Saving"} => OnIt(j) \/ j \in died
    /\ row[j].status = "Preparing" => j \in ToSet(queue) \/ j \in overtaken
    /\ row[j].status = "Completed" => models[j] > 0

(* A cancel that found an output directory outlives every retry: a run     *)
(* that starts with the .cancel file in place never gets past its first    *)
(* callback, let alone to a model (ensure_not_cancelled, enqueue).         *)
CancelOutlivesRetry ==
  \A w \in Workers : Busy(w) /\ work[w].doomed => work[w].at = "loading"

(* No row disappears under a worker that is on it, whatever is deleted     *)
(* between the queueing of a run and its start (delete_training_job).      *)
WorkedRowsStay == \A w \in Workers : Busy(w) => Exists(work[w].job)

(* A job in Training or Saving leaves them, unless a worker dies on it.    *)
TrainingSettles ==
  \A j \in Jobs :
    row[j].status \in {"Training", "Saving"}
      ~> (row[j].status \notin {"Training", "Saving"} \/ j \in died)

=============================================================================
