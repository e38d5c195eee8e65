---------------------------- MODULE MCHtmlParser ----------------------------
(* TLC instances of HtmlParser. *)
EXTENDS HtmlParserProps, TLC

Symmetry == Permutations(Nodes \ {Root})
=============================================================================
