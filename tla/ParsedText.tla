----------------------------- MODULE ParsedText -----------------------------
(***************************************************************************)
(* What a reader of the document may rely on while browser/parser builds   *)
(* it: a chunk of characters the tokenizer sends ends up, at once and once *)
(* only, at the end of the text the parser is at, and the text of a node   *)
(* changes otherwise only where a script writes it.  That the parser       *)
(* collects chunks in a buffer of its own does not show.                   *)
(***************************************************************************)
EXTENDS Naturals, Sequences

CONSTANTS Nodes, Root

VARIABLES
  kind,   \* what each node is
  kids,   \* children lists
  text,   \* characters of the text nodes, a sequence of chunks
  sent    \* chunks the tokenizer sent so far

vars == <<kind, kids, text, sent>>

Script == 0  \* characters that come from a script

Init ==
  /\ kind = [n \in Nodes |-> IF n = Root THEN "root" ELSE "free"]
  /\ kids = [n \in Nodes |-> << >>]
  /\ text = [n \in Nodes |-> << >>]
  /\ sent = 0

EndsInText(p) == kids[p] # << >> /\ kind[kids[p][Len(kids[p])]] = "text"

\* A chunk for the end of p goes to the text p ends in, or to a new one.
Extend(p) ==
  /\ EndsInText(p)
  /\ LET t == kids[p][Len(kids[p])]
     IN  text' = [text EXCEPT ![t] = Append(@, sent')]
  /\ UNCHANGED <<kind, kids>>

Begin(p) ==
  /\ ~EndsInText(p)
  /\ \E n \in Nodes :
       /\ kind[n] = "free"
       /\ kind' = [kind EXCEPT ![n] = "text"]
       /\ kids' = [kids EXCEPT ![p] = Append(@, n)]
       /\ text' = [text EXCEPT ![n] = <<sent'>>]

\* The list s with n at place i.
Inserted(s, n, i) ==
  [j \in 1..(Len(s) + 1) |-> IF j < i THEN s[j] ELSE IF j = i THEN n ELSE s[j - 1]]

\* A chunk that is foster parented gets a text node of its own before e.
Foster(e) ==
  \E p, n \in Nodes : \E i \in DOMAIN kids[p] :
    /\ kids[p][i] = e /\ kind[n] = "free"
    /\ kind' = [kind EXCEPT ![n] = "text"]
    /\ kids' = [kids EXCEPT ![p] = Inserted(@, n, i)]
    /\ text' = [text EXCEPT ![n] = <<sent'>>]

Send ==
  /\ sent' = sent + 1
  /\ \E p \in Nodes : Extend(p) \/ Begin(p) \/ Foster(p)

\* Parser and scripts make nodes and move them; no text changes by that.
Build ==
  /\ \A n \in Nodes : kind'[n] = kind[n] \/ kind[n] = "free"
  /\ text' = [n \in Nodes |-> IF kind[n] = "free" /\ kind'[n] = "text"
                             THEN <<Script>> ELSE text[n]]
  /\ UNCHANGED sent

Rewrite(t) ==
  /\ kind[t] = "text"
  /\ text' = [text EXCEPT ![t] = <<Script>>]
  /\ UNCHANGED <<kind, kids, sent>>

Next == Send \/ Build \/ \E t \in Nodes : Rewrite(t)

Spec == Init /\ [][Next]_vars

\* A chunk is in one text node at most, and a node has its chunks in the order
\* in which the tokenizer sent them.
Holds(n, c) == \E i \in DOMAIN text[n] : text[n][i] = c
ChunksOnce ==
  /\ \A n \in Nodes : \A i, j \in DOMAIN text[n] :
       i < j /\ text[n][i] # Script => text[n][i] < text[n][j]
  /\ \A m, n \in Nodes : \A c \in 1..sent : Holds(m, c) /\ Holds(n, c) => m = n
=============================================================================
