---------------------------- MODULE MCTrainingJobs ----------------------------
(* The deployment's two API processes (k8s/model-training.yaml) and two    *)
(* workers, as while its single worker is rolled over, on one job.         *)
EXTENDS TrainingJobs

CONSTANTS j1, a1, a2, w1, w2

MCJobs == {j1}
MCApis == {a1, a2}
MCWorkers == {w1, w2}
=============================================================================
