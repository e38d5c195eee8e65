----------------------------- MODULE HtmlParser -----------------------------
(***************************************************************************)
(* The binding of html5ever: the tree sink (html5ever/sink.rs) and the     *)
(* Parser its callbacks reach (browser/parser/Parser.zig).  html5ever      *)
(* decides which callback comes next; here any that it could make may.     *)
(*                                                                         *)
(* The Parser does not write every chunk of text to its node: chunks of    *)
(* one run are collected in buf and written by flushPendingText.  Between  *)
(* callbacks scripts run (custom-element constructors and reactions, and   *)
(* script elements when they are popped), which read and change the tree.  *)
(***************************************************************************)
EXTENDS Naturals, Sequences, FiniteSets

CONSTANTS
  Nodes,      \* DOM nodes, Root included (bound)
  Root,       \* Parser.container: the document, or the fragment to parse into
  None,
  MaxChunks,  \* chunks of characters the tokenizer sends (bound)
  MaxOps      \* changes scripts make to the tree (bound)

ASSUME NodesAssumption ==
  /\ IsFiniteSet(Nodes) /\ Root \in Nodes
  /\ None \notin Nodes /\ None \notin [parent : Nodes, node : Nodes]
ASSUME BoundsAssumption == MaxChunks \in Nat /\ MaxOps \in Nat

VARIABLES
  mode,     \* where the call into html5ever is
  how,      \* which parser was made
  kind,     \* what each node is
  kids,     \* children lists
  data,     \* CData._data of the text nodes: the chunks in it
  pending,  \* Parser.pending_text
  buf,      \* Parser.buf
  held,     \* nodes html5ever has made or taken out and not yet placed
  script,   \* script that runs inside a callback, and when in it
  sent,     \* chunks sent so far
  ops,      \* changes scripts made so far
  wrote     \* a script wrote the data of a text node

tree == <<kind, kids>>
text == <<data, pending, buf>>
call == <<mode, how>>
hist == <<sent, ops, wrote>>
vars == <<call, tree, text, held, script, hist>>

Script == 0  \* characters that come from a script

\* html5ever is to place node, below into or in outer if they are set; outer is
\* a clone it has not placed either, which is in its hand next.
Hold(n) == [node |-> n, into |-> None, outer |-> None]
Free == Hold(None)

Init ==
  /\ mode = "none" /\ how = "none"
  /\ kind = [n \in Nodes |-> IF n = Root THEN "root" ELSE "free"]
  /\ kids = [n \in Nodes |-> << >>]
  /\ data = [n \in Nodes |-> << >>]
  /\ pending = None /\ buf = << >>
  /\ held = Free /\ script = "no"
  /\ sent = 0 /\ ops = 0 /\ wrote = FALSE
-----------------------------------------------------------------------------
(* The tree. *)

Elements == {n \in Nodes : kind[n] \in {"root", "element"}}

IsParent(p, n) == \E i \in DOMAIN kids[p] : kids[p][i] = n
HasParent(n) == \E p \in Nodes : IsParent(p, n)

\* n and everything above it.
UpFrom(n) ==
  LET above[k \in Nat] ==
        IF k = 0 THEN {}
        ELSE LET u == above[k - 1]
             IN  {p \in Nodes : IsParent(p, n) \/ \E m \in u : IsParent(p, m)}
  IN  {n} \union above[Cardinality(Nodes)]

\* A children list without n, which is in it once at most.
Without(s, n) ==
  IF \E i \in DOMAIN s : s[i] = n
  THEN LET i == CHOOSE j \in DOMAIN s : s[j] = n
       IN  [j \in 1..(Len(s) - 1) |-> IF j < i THEN s[j] ELSE s[j + 1]]
  ELSE s

\* The children list s with n before e.
Before(s, n, e) ==
  LET i == CHOOSE j \in DOMAIN s : s[j] = e
  IN  [j \in 1..(Len(s) + 1) |->
         IF j < i THEN s[j] ELSE IF j = i THEN n ELSE s[j - 1]]

Detached(n) == [p \in Nodes |-> Without(kids[p], n)]

LastKid(p) == kids[p][Len(kids[p])]

EndsInText(p) == kids[p] # << >> /\ kind[LastKid(p)] = "text"
-----------------------------------------------------------------------------
(* The text buffer. *)

FlushedData ==
  IF pending # None /\ buf # << >> THEN [data EXCEPT ![pending.node] = buf] ELSE data

FlushedBuf == IF pending = None THEN buf ELSE << >>

FlushPendingText ==
  /\ data' = FlushedData
  /\ pending' = None
  /\ buf' = FlushedBuf

\* Mutant: nobody looks whether the run still ends its parent.
FaultContinuesRun(p) == pending # None /\ pending.parent = p
ContinuesRun(p) ==
  /\ pending # None /\ kids[p] # << >>
  /\ pending.parent = p /\ pending.node = LastKid(p)

\* A further chunk of the run at hand: the first one is fetched from the node.
\* Mutant: the chunk the node holds is not fetched.
FaultContinueRun(p) ==
  /\ ContinuesRun(p)
  /\ buf' = Append(buf, sent')
  /\ UNCHANGED <<data, pending, tree>>
ContinueRun(p) ==
  /\ ContinuesRun(p)
  /\ buf' = Append(IF buf = << >> THEN data[pending.node] ELSE buf, sent')
  /\ UNCHANGED <<data, pending, tree>>

\* p ends in a text node of another run, or of a script.
ResumeText(p) ==
  /\ ~ContinuesRun(p) /\ EndsInText(p)
  /\ data' = FlushedData
  /\ pending' = [parent |-> p, node |-> LastKid(p)]
  /\ buf' = FlushedBuf \o Append(FlushedData[LastKid(p)], sent')
  /\ UNCHANGED tree

NewText(p, n) ==
  /\ ~ContinuesRun(p) /\ ~EndsInText(p)
  /\ kind[n] = "free"
  /\ kind' = [kind EXCEPT ![n] = "text"]
  /\ kids' = [kids EXCEPT ![p] = Append(@, n)]
  /\ data' = [FlushedData EXCEPT ![n] = <<sent'>>]
  /\ pending' = [parent |-> p, node |-> n]
  /\ buf' = FlushedBuf

AppendTextChunk(p) == ContinueRun(p) \/ ResumeText(p) \/ \E n \in Nodes : NewText(p, n)
-----------------------------------------------------------------------------
(* Calls into html5ever. *)

\* An empty input returns before a parser is made.
Start(h) ==
  /\ mode = "none"
  /\ mode' \in {"ending", "done"}
  /\ how' = h
  /\ UNCHANGED <<tree, text, held, script, hist>>

ParseDocument             == Start("document")
ParseDocumentWithEncoding == Start("document")
ParseFragment             == Start("fragment")
ParseXml                  == Start("xml")

StreamingCreate ==
  /\ mode = "none"
  /\ mode' = "between" /\ how' = "stream"
  /\ UNCHANGED <<tree, text, held, script, hist>>

StreamingFeed ==
  /\ mode = "between"
  /\ mode' = "feeding"
  /\ UNCHANGED <<how, tree, text, held, script, hist>>

FeedReturns ==
  /\ mode = "feeding" /\ script = "no" /\ held = Free
  /\ mode' = "between"
  /\ UNCHANGED <<how, tree, text, held, script, hist>>

\* html5ever panics: Streaming.read destroys the parser, and the caller flushes
\* what was collected before it drops the rest.
FeedPanics ==
  /\ mode = "feeding" /\ script = "no"
  /\ mode' = "panicked" /\ held' = Free
  /\ FlushPendingText
  /\ UNCHANGED <<how, tree, script, hist>>

StreamingFinish ==
  /\ mode = "between"
  /\ mode' = "ending"
  /\ UNCHANGED <<how, tree, text, held, script, hist>>

\* The parse is over: the callers flush what the last run left.
EndOfParse ==
  /\ mode = "ending" /\ script = "no" /\ held = Free
  /\ mode' = "done"
  /\ FlushPendingText
  /\ UNCHANGED <<how, tree, held, script, hist>>
-----------------------------------------------------------------------------
(* Callbacks.  script' = "late" when reactions or scripts run after the    *)
(* work of the callback, "early" when a constructor runs inside it.        *)

Calls == mode \in {"feeding", "ending"} /\ script = "no"
Html == how # "xml"

\* The adoption agency goes on to put the element in hand into a clone.
Adopting == Html /\ held.outer = None /\ held.into = None /\ kind[held.node] = "element"

CreateElement(n) ==
  /\ Calls /\ kind[n] = "free"
  /\ kind' = [kind EXCEPT ![n] = "element"]
  /\ \/ held = Free /\ held' = Hold(n)
     \/ held # Free /\ Adopting /\ held' = [held EXCEPT !.outer = n]
  /\ script' = "early"
  /\ UNCHANGED <<call, kids, text, hist>>

\* Comments and processing instructions.
CreateOther(n) ==
  /\ Calls /\ held = Free /\ kind[n] = "free"
  /\ kind' = [kind EXCEPT ![n] = "other"]
  /\ held' = Hold(n)
  /\ UNCHANGED <<call, kids, text, script, hist>>

\* The doctype goes to the container and leaves a text run open.
AppendDoctype(n) ==
  /\ Calls /\ held = Free /\ how \in {"document", "stream", "xml"} /\ kind[n] = "free"
  /\ kind' = [kind EXCEPT ![n] = "other"]
  /\ kids' = [kids EXCEPT ![Root] = Append(@, n)]
  /\ UNCHANGED <<call, text, held, script, hist>>

AppendText(p) ==
  /\ Calls /\ held = Free /\ p \in Elements /\ sent < MaxChunks
  /\ sent' = sent + 1
  /\ AppendTextChunk(p)
  /\ UNCHANGED <<call, held, script, ops, wrote>>

\* A constructor or a reaction may have placed the node: it is taken out first.
\* Mutant: it is not.
FaultAppendNode(p) ==
  /\ Calls /\ held # Free /\ p \in Elements
  /\ {held.into, held.outer} \subseteq {None, p} /\ held.node \notin UpFrom(p)
  /\ FlushPendingText
  /\ kids' = [kids EXCEPT ![p] = Append(@, held.node)]
  /\ held' = Hold(held.outer) /\ script' = "late"
  /\ UNCHANGED <<call, kind, hist>>
AppendNode(p) ==
  /\ Calls /\ held # Free /\ p \in Elements
  /\ {held.into, held.outer} \subseteq {None, p} /\ held.node \notin UpFrom(p)
  /\ FlushPendingText
  /\ kids' = [Detached(held.node) EXCEPT ![p] = Append(@, held.node)]
  /\ held' = Hold(held.outer) /\ script' = "late"
  /\ UNCHANGED <<call, kind, hist>>

\* Foster parenting: before e if e has a parent; otherwise html5ever's other
\* choice prev takes the node or text as a last child.
FosterNode(p, e) ==
  /\ Calls /\ Html /\ held # Free /\ held.into = None /\ held.outer = None
  /\ kind[e] = "element" /\ IsParent(p, e) /\ held.node \notin UpFrom(e)
  /\ FlushPendingText
  /\ kids' = [Detached(held.node) EXCEPT ![p] = Before(@, held.node, e)]
  /\ held' = Free /\ script' = "late"
  /\ UNCHANGED <<call, kind, hist>>

FosterText(p, e, n) ==
  /\ Calls /\ Html /\ held = Free /\ sent < MaxChunks
  /\ kind[e] = "element" /\ IsParent(p, e) /\ kind[n] = "free"
  /\ sent' = sent + 1
  /\ kind' = [kind EXCEPT ![n] = "text"]
  /\ kids' = [kids EXCEPT ![p] = Before(@, n, e)]
  /\ data' = [FlushedData EXCEPT ![n] = <<sent'>>]
  /\ pending' = None /\ buf' = FlushedBuf
  /\ UNCHANGED <<call, held, script, ops, wrote>>

AppendBasedOnParentNode(e) ==
  \/ \E p \in Nodes : FosterNode(p, e) \/ \E n \in Nodes : FosterText(p, e, n)
  \/ Html /\ ~HasParent(e) /\ \E prev \in Elements : AppendNode(prev) \/ AppendText(prev)

\* nodeComplete: runs a script element, loads what others need.
\* Mutant: the text before the node is still in the buffer then.
FaultPop(n) ==
  /\ Calls /\ held = Free /\ kind[n] = "element"
  /\ script' = "late"
  /\ UNCHANGED <<call, tree, text, held, hist>>
Pop(n) ==
  /\ Calls /\ held = Free /\ kind[n] = "element"
  /\ FlushPendingText
  /\ script' = "late"
  /\ UNCHANGED <<call, tree, held, hist>>

\* html5ever places the node again afterwards, in the clone it made just before
\* if it made one, or drops it (a replaced body).
RemoveFromParent(n) ==
  /\ Calls /\ Html /\ kind[n] = "element"
  /\ FlushPendingText
  /\ kids' = Detached(n)
  /\ \/ held = Free /\ held' \in {Free, Hold(n)}
     \/ n = held.node /\ held.into = None /\ UNCHANGED held
     \/ /\ held # Free /\ Adopting /\ n \notin UpFrom(held.node)
        /\ held' = [Hold(n) EXCEPT !.outer = held.node]
  /\ script' = "late"
  /\ UNCHANGED <<call, kind, hist>>

\* The children of n go to a new element, which then becomes the child of n.
ReparentChildren(n) ==
  /\ Calls /\ held # Free /\ Adopting /\ ~HasParent(held.node)
  /\ kind[n] = "element" /\ held.node \notin UpFrom(n)
  /\ FlushPendingText
  /\ kids' = [kids EXCEPT ![held.node] = @ \o kids[n], ![n] = << >>]
  /\ held' = [held EXCEPT !.into = n]
  /\ script' = "late"
  /\ UNCHANGED <<call, kind, hist>>
-----------------------------------------------------------------------------
(* What scripts do to the tree: in a callback, or between two calls of     *)
(* document.write.  They leave alone the inside of nodes html5ever holds.  *)

Scripting == (script # "no" \/ mode = "between") /\ ops < MaxOps
Open(p) == p \in Elements /\ {held.node, held.outer} \intersect UpFrom(p) = {}

\* CData.setData writes _data and does not know of the buffer.
ScriptWrites(n) ==
  /\ Scripting /\ kind[n] = "text"
  /\ ops' = ops + 1 /\ wrote' = TRUE
  /\ data' = [data EXCEPT ![n] = <<Script>>]
  /\ UNCHANGED <<call, tree, pending, buf, held, script, sent>>

ScriptAddsText(p, n) ==
  /\ Scripting /\ Open(p) /\ kind[n] = "free"
  /\ ops' = ops + 1
  /\ kind' = [kind EXCEPT ![n] = "text"]
  /\ kids' = [kids EXCEPT ![p] = Append(@, n)]
  /\ data' = [data EXCEPT ![n] = <<Script>>]
  /\ UNCHANGED <<call, pending, buf, held, script, sent, wrote>>

ScriptRemoves(n) ==
  /\ Scripting /\ HasParent(n)
  /\ ops' = ops + 1
  /\ kids' = Detached(n)
  /\ UNCHANGED <<call, kind, text, held, script, sent, wrote>>

\* Nodes without children, so that nothing is moved into itself.
ScriptMoves(n, p) ==
  /\ Scripting /\ Open(p) /\ n # p /\ n # Root
  /\ kind[n] # "free" /\ kids[n] = << >>
  /\ ops' = ops + 1
  /\ kids' = [Detached(n) EXCEPT ![p] = Append(@, n)]
  /\ UNCHANGED <<call, kind, text, held, script, sent, wrote>>

ScriptReturns ==
  /\ script # "no"
  /\ script' = "no"
  /\ UNCHANGED <<call, tree, text, held, hist>>
-----------------------------------------------------------------------------
Calling ==
  \/ ParseDocument \/ ParseDocumentWithEncoding \/ ParseFragment \/ ParseXml
  \/ StreamingCreate \/ StreamingFeed \/ FeedReturns \/ FeedPanics
  \/ StreamingFinish \/ EndOfParse

Callback(n) ==
  \/ CreateElement(n) \/ CreateOther(n) \/ AppendDoctype(n)
  \/ AppendText(n) \/ AppendNode(n) \/ AppendBasedOnParentNode(n)
  \/ Pop(n) \/ RemoveFromParent(n) \/ ReparentChildren(n)

Scripts(n) ==
  \/ ScriptWrites(n) \/ ScriptRemoves(n)
  \/ \E p \in Nodes : ScriptAddsText(p, n) \/ ScriptMoves(n, p)

Next == Calling \/ ScriptReturns \/ \E n \in Nodes : Callback(n) \/ Scripts(n)

Spec == Init /\ [][Next]_vars
=============================================================================
