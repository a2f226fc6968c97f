----------------------------- MODULE MCDurableTask -----------------------------
(* Instances of DurableTask for TLC.                                       *)
EXTENDS DurableTask, TLC

CONSTANTS w1, w2, t1, t2, t3

\* Every process has a runner for every task_type.
AllRunners == [w \in Worker |-> Task]

WorkerSymmetry == Permutations(Worker)
TaskSymmetry == Permutations(Task)
=============================================================================
