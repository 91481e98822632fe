-------------------------------- MODULE MCKeys -------------------------------
(***************************************************************************)
(* Instances of Keys for TLC.                                              *)
(***************************************************************************)
EXTENDS Keys, TLC

CONSTANTS k0, k1, s0, s1, s2, p1, p2

Symmetry == Permutations(Proc) \cup Permutations(Secret \ {BootSecret})
=============================================================================
