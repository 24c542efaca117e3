---------------------------- MODULE MCEngineRamp ---------------------------
(* EngineRamp for TLC; its threads are interchangeable.                     *)
EXTENDS EngineRamp, TLC

Symmetry == Permutations(Threads)

=============================================================================
