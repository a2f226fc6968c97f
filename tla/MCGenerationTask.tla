--------------------------- MODULE MCGenerationTask ---------------------------
(* Instances of GenerationTask for TLC.                                    *)
EXTENDS GenerationTask, TLC

CONSTANTS g1, g2, s1, h1, h2

GameSymmetry == Permutations(Game)
=============================================================================
