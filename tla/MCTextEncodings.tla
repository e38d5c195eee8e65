-------------------------- MODULE MCTextEncodings --------------------------
(* TextDecoder and QueryEncoding for TLC. They share nothing, so a behaviour  *)
(* of the instance is one of the first or a step of the second.               *)
EXTENDS TextDecoder, QueryEncoding

\* A text is encoded first of all, and only one: nothing is kept from it.
AtStart ==
  ~fatal /\ ~ignoreBOM /\ object = "live" /\ fed = << >> /\ decoder = 0 /\ ~bomSeen
  /\ heap = [h \in Handles |-> "unborn"]

MCInit == Init /\ QueryInit
MCNext ==
  \/ sent.use = "none" /\ Next /\ UNCHANGED sent
  \/ sent.use = "none" /\ AtStart /\ QueryNext /\ UNCHANGED vars

MCSpec == MCInit /\ [][MCNext]_<<vars, sent>>
=============================================================================
