-------------------------- MODULE MCCreationSession --------------------------
(* Instances of CreationSession for TLC.                                    *)
EXTENDS CreationSession

CONSTANTS h1, h2, h3, g1, g2, g3, p1, p2
=============================================================================
