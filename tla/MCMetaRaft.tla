---------------------------- MODULE MCMetaRaft ----------------------------
(***************************************************************************)
(* MetaRaft for TLC.  No action tells two PUT calls apart, or two nodes    *)
(* that are in Contenders and Victims alike, so safety is checked up to    *)
(* their permutations.                                                     *)
(***************************************************************************)
EXTENDS MetaRaft, TLC

Symmetry ==
  {f \in Permutations(Nodes) :
     \A n \in Nodes : /\ n \in Contenders <=> f[n] \in Contenders
                      /\ n \in Victims <=> f[n] \in Victims}
  \cup Permutations(Puts)

=============================================================================
