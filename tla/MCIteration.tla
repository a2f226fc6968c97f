----------------------------- MODULE MCIteration -----------------------------
(* Instances of Iteration for TLC.                                         *)
EXTENDS Iteration, TLC

CONSTANTS h1, h2, t1, t2

InstanceSymmetry == Permutations(Handler) \cup Permutations(Task)
==============================================================================
