--------------------------- MODULE MCHttpTransfer ---------------------------
(* TLC instances of HttpTransfer. *)
EXTENDS HttpTransferProps, TLC

Symmetry == Permutations(Transfers) \union Permutations(Conns) \union Permutations(Owners)
=============================================================================
