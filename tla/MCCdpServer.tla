----------------------------- MODULE MCCdpServer -----------------------------
(* TLC instances of CdpServer. *)
EXTENDS CdpServerProps, TLC

Symmetry == Permutations(Conns)
=============================================================================
