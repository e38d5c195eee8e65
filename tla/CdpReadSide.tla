---------------------------- MODULE CdpReadSide ----------------------------
(***************************************************************************)
(* What network/Network.zig promises of a CDP socket (CdpLink, comment of  *)
(* the type): its read side has one reader at a time, it is handed from    *)
(* the worker to the Network thread once, only the Network thread takes    *)
(* frames off it, and what the reader uses is released only after the      *)
(* Network thread gave the link up.                                        *)
(***************************************************************************)
EXTENDS Naturals

CONSTANT Conns

VARIABLES
  reader,  \* who may read the socket of a connection
  taken    \* frames the Network thread took off it

vars == <<reader, taken>>

TypeOK ==
  /\ reader \in [Conns -> {"none", "worker", "network", "nobody", "released"}]
  /\ taken \in [Conns -> Nat]

Init ==
  /\ reader = [c \in Conns |-> "none"]
  /\ taken = [c \in Conns |-> 0]

Pass(c, from, to) ==
  /\ reader[c] \in from
  /\ reader' = [reader EXCEPT ![c] = to]
  /\ UNCHANGED taken

Open(c)     == Pass(c, {"none"}, "worker")
HandOver(c) == Pass(c, {"worker"}, "network")
Abandon(c)  == Pass(c, {"worker"}, "nobody")
Release(c)  == Pass(c, {"worker", "nobody"}, "released")

\* The Network thread gives up several links in one pass.
Withdraw(S) ==
  /\ \A c \in S : reader[c] = "network"
  /\ reader' = [c \in Conns |-> IF c \in S THEN "nobody" ELSE reader[c]]
  /\ UNCHANGED taken

Take(c) ==
  /\ reader[c] = "network"
  /\ taken' = [taken EXCEPT ![c] = @ + 1]
  /\ UNCHANGED reader

Next ==
  \/ \E c \in Conns :
       Open(c) \/ HandOver(c) \/ Abandon(c) \/ Release(c) \/ Take(c)
  \/ \E S \in SUBSET Conns : Withdraw(S)

Spec == Init /\ [][Next]_vars
=============================================================================
