---------------------------- MODULE MCRampExec -----------------------------
(***************************************************************************)
(* RampExec for TLC.  Morsels, local threads and the workers that are      *)
(* alike in Mortal are interchangeable, so safety is checked up to their   *)
(* permutations.                                                           *)
(***************************************************************************)
EXTENDS RampExec, TLC

Symmetry ==
  Permutations(Morsels) \cup Permutations(Locals)
  \cup {f \in Permutations(Workers) : \A w \in Workers : w \in Mortal <=> f[w] \in Mortal}

=============================================================================
