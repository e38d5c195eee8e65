-------------------------- MODULE HtmlParserProps --------------------------
(* What the parser guarantees of the tree it builds and of its text. *)
EXTENDS HtmlParser

Buffered(n) == pending # None /\ buf # << >> /\ pending.node = n

\* The text of a node once the buffer is written to it.
Whole == [n \in Nodes |-> IF Buffered(n) THEN buf ELSE data[n]]

Pendings == [parent : Nodes, node : Nodes]
Helds == [node : Nodes, into : Nodes \union {None}, outer : Nodes \union {None}]

\* Types of the variables; PendingText.text_node is a text node.
TypeOK ==
  /\ mode \in {"none", "between", "feeding", "ending", "done", "panicked"}
  /\ how \in {"none", "document", "fragment", "xml", "stream"}
  /\ kind \in [Nodes -> {"root", "free", "element", "text", "other"}]
  /\ kids \in [Nodes -> Seq(Nodes)]
  /\ data \in [Nodes -> Seq(Nat)]
  /\ pending \in Pendings \union {None}
  /\ pending # None => kind[pending.node] = "text"
  /\ buf \in Seq(Nat)
  /\ held \in Helds \union {Free}
  /\ script \in {"no", "early", "late"}
  /\ sent \in 0..MaxChunks /\ ops \in 0..MaxOps /\ wrote \in BOOLEAN

\* The buffer is empty when no run owns it: a flush, on whichever path, leaves
\* no characters to the next run (flushPendingText, comment at the field buf).
BufIsPending == pending = None => buf = << >>

\* Whatever the callbacks and the scripts between them did, a node has one
\* place in the tree, only documents and elements have children and nothing
\* is above the root: Node._parent and the child lists, which appendNew,
\* removeNode and insertNodeRelative change apart, agree.
OnePlace ==
  /\ \A p, q \in Nodes : \A i \in DOMAIN kids[p], j \in DOMAIN kids[q] :
       kids[p][i] = kids[q][j] => p = q /\ i = j
  /\ \A n \in Nodes : kids[n] # << >> => n \in Elements
  /\ \A p \in Nodes : ~IsParent(p, Root)

\* "Flush before any nodeComplete so Build.complete (and any custom-element
\* callbacks reachable from it) observe the final text data" (_popCallback),
\* and the same for reactions to insertions and removals: a script that runs
\* after the work of a callback finds all text sent so far in the nodes.
ScriptSeesWhole == script = "late" \/ mode \in {"done", "panicked"} => data = Whole

\* The buffer does not show: HtmlParser implements ParsedText.
Abstract == INSTANCE ParsedText WITH text <- Whole
ImplementsParsedText == Abstract!Spec

\* No chunk is doubled, and no two change places in a node, however runs are
\* interrupted, resumed, moved by scripts or foster parented (appendTextChunk).
ChunksOnce == Abstract!ChunksOnce

\* And none is lost, unless a script wrote over it.
ChunksKept == ~wrote => \A c \in 1..sent : \E n \in Nodes : Abstract!Holds(n, c)
=============================================================================
