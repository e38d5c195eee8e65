--------------------------- MODULE MCPageScripts ---------------------------
(* Instances of PageScripts for TLC. *)
EXTENDS PageScriptsProps
=============================================================================
