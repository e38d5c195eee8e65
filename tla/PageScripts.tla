---------------------------- MODULE PageScripts ----------------------------
(***************************************************************************)
(* The scripts of one frame: ScriptManager and ScriptManagerBase, which    *)
(* load and order them, the load state of Frame that waits for them, and   *)
(* document.write, open and close, with which they feed the parser again.  *)
(*                                                                         *)
(* One thread runs all of it, but a script that is parsed, evaluated or    *)
(* loaded may start the next one: stack is the calls in progress, and what *)
(* the network completes while one of them waits is handled above it.      *)
(***************************************************************************)
EXTENDS Naturals, Sequences, SequencesExt, FiniteSets

CONSTANTS
  Nodes,       \* nodes parsers and scripts make (bound)
  None,
  MaxDepth,    \* calls on the stack (bound)
  Single,      \* groups of kinds of which there is one node at most (bound)
  MaxMoves     \* times code moves a node or opens a document (bound)

ASSUME BoundsAssumption ==
  /\ None \notin Nodes \union Nat
  /\ MaxDepth \in Nat \ {0} /\ MaxMoves \in Nat

VARIABLES
  kind,        \* what each node is
  st,          \* what became of a script
  kids,        \* nodes of the document, 0, and of each fragment being parsed
  stack,       \* calls in progress, the innermost last
  load,        \* Frame._load_state
  static,      \* static_scripts_done
  evaluating,  \* is_evaluating
  notified,    \* frame_notified_of_completion
  asyncs,      \* async_scripts
  defers,      \* defer_scripts
  readys,      \* ready_scripts
  current,     \* Document._current_script
  point,       \* Document._write_insertion_point
  counter,     \* Document._throw_on_dynamic_markup_insertion_counter
  parser,      \* Document._script_created_parser: the handle in it, or Nulled
  handles,     \* what became of html5ever's streaming parsers
  broken,      \* a handle was used that is not there, or that is in use
  \* history
  queued,      \* scripts put on defer_scripts, in that order
  ran,         \* scripts started, in that order
  wrote,       \* nodes document.write put into the document for a script
  disturbed,   \* scripts whose written nodes were moved
  moves        \* times code moved a node or opened a document

lists == <<asyncs, defers, readys>>
flags == <<load, static, notified>>
doc   == <<current, point, counter>>
html5 == <<parser, handles, broken>>
past  == <<queued, wrote, disturbed, moves>>
nodes == <<kind, kids>>
vars  == <<nodes, st, stack, flags, evaluating, lists, doc, html5, past, ran>>

Kinds == {"plain", "custom", "inline", "module", "src", "defer", "async"}
Scripts == Kinds \ {"plain", "custom"}
Nulled == 0
Parsers == {"parse", "fragment", "feed", "finish"}
Code == {"script", "constructor", "event", "error", "task"}

\* A call: what it is about, where it puts what it parses, and what it puts
\* back when it returns.
Call(at, n) ==
  [at |-> at, node |-> n, place |-> 0, cur |-> current, point |-> point, was |-> evaluating]
Top == stack[Len(stack)]
At(S) == stack # << >> /\ Top.at \in S /\ ~broken
Below == SubSeq(stack, 1, Len(stack) - 1)
Room == Len(stack) < MaxDepth

\* The main document is about to be parsed, or the frame is an about:blank one,
\* which never is.
Init ==
  /\ kind = [n \in Nodes |-> "free"] /\ st = [n \in Nodes |-> "idle"]
  /\ kids = [p \in 0..MaxDepth |-> << >>]
  /\ current = None /\ point = None /\ counter = 0
  /\ evaluating = FALSE /\ static = FALSE /\ notified = FALSE
  /\ \/ load = "parsing" /\ stack = <<Call("parse", None)>>
     \/ load = "complete" /\ stack = << >>
  /\ asyncs = {} /\ defers = << >> /\ readys = << >>
  /\ parser = None /\ handles = [h \in 1..MaxMoves |-> "unborn"] /\ broken = FALSE
  /\ queued = << >> /\ ran = << >>
  /\ wrote = [n \in Nodes |-> << >>] /\ disturbed = {} /\ moves = 0
\* A list without n, which is in it once at most.
Unlinked(s, n) ==
  IF n \in Range(s) THEN RemoveAt(s, CHOOSE i \in DOMAIN s : s[i] = n) ELSE s
-----------------------------------------------------------------------------
(* Loading and evaluating scripts. *)

\* Script.eval, above the calls s.
Eval(s, n) ==
  /\ stack' = Append(s, Call("script", n))
  /\ current' = n /\ point' = None /\ evaluating' = TRUE
  /\ ran' = Append(ran, n)

NoEval == UNCHANGED <<current, point, evaluating, ran>>

\* evaluate, above the calls s.
\* Mutant: it may be entered again.
FaultEvaluate(s) ==
  /\ evaluating' = TRUE /\ stack' = Append(s, Call("ready", None))
Evaluate(s) ==
  IF evaluating
  THEN stack' = s /\ UNCHANGED evaluating
  ELSE stack' = Append(s, Call("ready", None)) /\ evaluating' = TRUE

Queue(n) ==
  /\ defers' = Append(defers, n) /\ queued' = Append(queued, n)
  /\ UNCHANGED <<asyncs, readys>>

\* ScriptManager.addFromElement. A script starts once, wherever it is put.
\* Mutant: it does not matter that a script was started.
FaultStarted(n) == st[n] = "loading"
Started(n) == st[n] # "idle"

Add(fromParser, n, k) ==
  LET waits == k = "src" /\ fromParser
      queue == k = "defer" \/ (k = "module" /\ ~static)
  IN  /\ st' = [st EXCEPT ![n] = IF k \in {"inline", "module"} THEN "loaded" ELSE "loading"]
      /\ IF k = "inline" \/ (k = "module" /\ static)
         THEN Eval(stack, n)
         ELSE /\ stack' = IF waits THEN Append(stack, Call("sync", n)) ELSE stack
              /\ evaluating' = (evaluating \/ waits)
              /\ UNCHANGED <<current, point, ran>>
      /\ IF queue THEN Queue(n)
         ELSE /\ asyncs' = IF k = "async" \/ (k = "src" /\ ~fromParser)
                           THEN asyncs \union {n} ELSE asyncs
              /\ UNCHANGED <<defers, readys, queued>>

AddFromElement(fromParser, n, k) ==
  IF k \notin Scripts \/ Started(n)
  THEN UNCHANGED <<st, stack, evaluating, current, point, ran, lists, queued>>
  ELSE Add(fromParser, n, k)

\* The network answers: between calls of the event loop, in the syncRequest of a
\* script and in waitForImport.  The other callers of syncRequest are left out:
\* importScripts of a worker, and external style sheets, which are off unless
\* configured.
Ticking == ~broken /\ (stack = << >> \/ At({"sync", "wait"}))

DoneCallback(n) ==
  /\ Ticking /\ Room /\ st[n] = "loading" /\ n \in asyncs \union Range(defers)
  /\ st' = [st EXCEPT ![n] = "loaded"]
  /\ asyncs' = asyncs \ {n}
  /\ readys' = IF n \in asyncs THEN Append(readys, n) ELSE readys
  /\ Evaluate(stack)
  /\ UNCHANGED <<nodes, flags, doc, html5, past, ran, defers>>

\* Listeners of the error event run, then evaluate.
ErrorCallback(n) ==
  /\ Ticking /\ Room /\ st[n] = "loading" /\ n \in asyncs \union Range(defers)
  /\ st' = [st EXCEPT ![n] = "failed"]
  /\ asyncs' = asyncs \ {n} /\ defers' = Unlinked(defers, n)
  /\ stack' = Append(stack, Call("error", n))
  /\ UNCHANGED <<nodes, flags, doc, html5, past, ran, evaluating, readys>>

ErrorReturns ==
  /\ At({"error"})
  /\ Evaluate(Below)
  /\ UNCHANGED <<nodes, st, flags, doc, html5, past, ran, lists>>

\* syncRequest of a blocking script returns: it has the script, or a response
\* that is an error, of which listeners are told, or nothing.  What ran while it
\* waited may have moved the insertion point; is_evaluating is that of before.
SyncReturns ==
  /\ At({"sync"})
  /\ \/ /\ st' = [st EXCEPT ![Top.node] = "loaded"]
        /\ stack' = Append(Below, [Top EXCEPT !.at = "script", !.point = point])
        /\ current' = Top.node /\ point' = None
        /\ ran' = Append(ran, Top.node)
        /\ UNCHANGED evaluating
     \/ /\ st' = [st EXCEPT ![Top.node] = "failed"]
        /\ stack' = Append(Below, [Top EXCEPT !.at = "event"]) \/ stack' = Below
        /\ evaluating' = Top.was
        /\ UNCHANGED <<current, point, ran>>
  /\ UNCHANGED <<nodes, flags, counter, html5, past, lists>>

\* A module needs an import: waitForImport.
WaitForImport ==
  /\ At({"script"}) /\ Room /\ kind[Top.node] \in {"module", "defer", "async"}
  /\ stack' = Append(stack, Call("wait", Top.node)) /\ evaluating' = TRUE
  /\ UNCHANGED <<nodes, st, flags, doc, html5, past, ran, lists>>

WaitReturns ==
  /\ At({"wait"})
  /\ stack' = Below /\ evaluating' = Top.was
  /\ UNCHANGED <<nodes, st, flags, doc, html5, past, ran, lists>>

\* The drain of defer_scripts removes a script after it ran.
\* Mutant: the insertion point stays that of the script.
FaultScriptReturns ==
  /\ At({"script"})
  /\ stack' = Below /\ current' = Top.cur /\ evaluating' = Top.was
  /\ defers' = IF Below # << >> /\ Last(Below).at = "defers" THEN Tail(defers) ELSE defers
  /\ UNCHANGED <<nodes, st, flags, counter, point, html5, past, ran, asyncs, readys>>
ScriptReturns ==
  /\ At({"script"})
  /\ stack' = Below /\ current' = Top.cur /\ point' = Top.point /\ evaluating' = Top.was
  /\ defers' = IF Below # << >> /\ Last(Below).at = "defers" THEN Tail(defers) ELSE defers
  /\ UNCHANGED <<nodes, st, flags, counter, html5, past, ran, asyncs, readys>>
-----------------------------------------------------------------------------
(* evaluate: "ready", then "defers", then the hook at its end, "tail". *)

Phase(at) == Append(Below, [Top EXCEPT !.at = at])
EvaluateReturns == stack' = Below /\ evaluating' = FALSE

RunReady ==
  /\ At({"ready"}) /\ Room /\ readys # << >>
  /\ Eval(stack, Head(readys)) /\ readys' = Tail(readys)
  /\ UNCHANGED <<nodes, st, flags, counter, html5, past, asyncs, defers>>

\* The ready ones are done, and deferred ones may run.
AtDefers == At({"defers"}) \/ (At({"ready"}) /\ readys = << >> /\ static)

NotYet ==
  /\ At({"ready"}) /\ readys = << >> /\ ~static
  /\ EvaluateReturns
  /\ UNCHANGED <<nodes, st, flags, doc, html5, past, ran, lists>>

\* Mutant: whichever script is there first runs first.
FaultRunDeferred ==
  /\ AtDefers /\ Room
  /\ \E n \in Range(defers) \ Range(ran) : st[n] = "loaded" /\ Eval(Phase("defers"), n)
  /\ UNCHANGED <<nodes, st, flags, counter, html5, past, lists>>
RunDeferred ==
  /\ AtDefers /\ Room /\ defers # << >> /\ st[Head(defers)] = "loaded"
  /\ Eval(Phase("defers"), Head(defers))
  /\ UNCHANGED <<nodes, st, flags, counter, html5, past, lists>>

\* Mutant: a script that is still loading is not waited for.
FaultNoDeferred ==
  /\ AtDefers /\ (defers # << >> => st[Head(defers)] # "loaded")
  /\ stack' = Phase("tail")
  /\ UNCHANGED <<nodes, st, evaluating, flags, doc, html5, past, ran, lists>>
NoDeferred ==
  /\ AtDefers
  /\ \/ defers = << >> /\ stack' = Phase("tail") /\ UNCHANGED evaluating
     \/ defers # << >> /\ st[Head(defers)] # "loaded" /\ EvaluateReturns
  /\ UNCHANGED <<nodes, st, flags, doc, html5, past, ran, lists>>

\* documentIsComplete, above the calls s: load and pageshow events.  It would
\* call documentIsLoaded first if load were "parsing": TailHook asks for that, and
\* CloseReturns has a parser to close only if Open found the page parsed.
DocumentIsComplete(s) ==
  IF load = "complete"
  THEN stack' = s /\ UNCHANGED load
  ELSE stack' = Append(s, Call("event", None)) /\ load' = "complete"

\* tailHook: documentIsLoaded with DOMContentLoaded, then
\* scriptsCompletedLoading.
TailHook ==
  /\ At({"tail"}) /\ Room
  /\ \/ /\ load = "parsing"
        /\ load' = "loaded" /\ stack' = Append(stack, Call("event", None))
        /\ UNCHANGED <<evaluating, notified>>
     \/ /\ load # "parsing" /\ asyncs = {} /\ ~notified
        /\ notified' = TRUE /\ DocumentIsComplete(stack)
        /\ UNCHANGED evaluating
     \/ /\ load # "parsing" /\ (asyncs # {} \/ notified)
        /\ EvaluateReturns
        /\ UNCHANGED <<load, notified>>
  /\ UNCHANGED <<nodes, st, static, doc, html5, past, ran, lists>>

\* Listeners and timers return.
CodeReturns ==
  /\ At({"event", "task"})
  /\ stack' = Below
  /\ UNCHANGED <<nodes, st, flags, evaluating, doc, html5, past, ran, lists>>

\* The event loop runs a timer, a listener or a script of a client.
Task ==
  /\ stack = << >> /\ ~broken
  /\ stack' = <<Call("task", None)>>
  /\ UNCHANGED <<nodes, st, flags, evaluating, doc, html5, past, ran, lists>>
-----------------------------------------------------------------------------
(* Parsers put nodes into the document or into a fragment of their own. *)

Homes(n) == {p \in DOMAIN kids : n \in Range(kids[p])}
Without(n) == [p \in DOMAIN kids |-> Unlinked(kids[p], n)]
AtEndOf(p, n) == [Without(n) EXCEPT ![p] = Append(@, n)]

\* Scripts whose written nodes are no longer where they were put, n moved.
Disturbs(n) == {s \in Nodes : n = s \/ n \in Range(wrote[s])}

Fresh(n, k) ==
  /\ kind[n] = "free" /\ n = CHOOSE m \in Nodes : kind[m] = "free"
  /\ \A group \in Single : k \in group => group \intersect Range(kind) = {}
ParserPlace(s) == IF Last(s).at = "fragment" THEN Len(s) ELSE 0

\* nodeIsReady(true) for a script, once it has its end tag.
ParserAdds(n, k) ==
  /\ At(Parsers) /\ Room /\ Fresh(n, k) /\ k # "custom"
  /\ kind' = [kind EXCEPT ![n] = k]
  /\ kids' = AtEndOf(ParserPlace(stack), n)
  /\ AddFromElement(TRUE, n, k)
  /\ UNCHANGED <<flags, counter, html5, wrote, disturbed, moves>>

\* A custom element is constructed first; meanwhile markup must not be
\* inserted.
ParserConstructs(n) ==
  /\ At(Parsers) /\ Room /\ Fresh(n, "custom")
  /\ kind' = [kind EXCEPT ![n] = "custom"]
  /\ counter' = counter + 1
  /\ stack' = Append(stack, Call("constructor", n))
  /\ UNCHANGED <<kids, st, flags, evaluating, lists, current, point, html5, past, ran>>

ConstructorReturns ==
  /\ At({"constructor"})
  /\ counter' = counter - 1
  /\ stack' = Below
  /\ kids' = AtEndOf(ParserPlace(Below), Top.node)
  /\ disturbed' = disturbed \union (IF Homes(Top.node) = {} THEN {} ELSE Disturbs(Top.node))
  /\ UNCHANGED <<kind, st, flags, evaluating, lists, current, point, html5, queued, wrote, moves, ran>>

\* The main document is parsed: staticScriptsDone.
ParseReturns ==
  /\ At({"parse"})
  /\ static' = TRUE /\ Evaluate(Below)
  /\ UNCHANGED <<nodes, st, load, notified, lists, doc, html5, past, ran>>
-----------------------------------------------------------------------------
(* document.open, write and close, called from code. *)

\* Mutant: the counter is not looked at.
FaultCalls == At(Code) /\ Room
Calls == At(Code) /\ Room /\ counter = 0
InUse(h) == \E i \in 1..Len(stack) : stack[i].at = "feed" /\ stack[i].node = h

\* open, when it is not ignored: the document is emptied for a new parser.
Opens == load # "parsing" /\ parser = None
Opened ==
  /\ kids' = [kids EXCEPT ![0] = << >>]
  /\ disturbed' = disturbed \union UNION {Disturbs(n) : n \in Range(kids[0])}
  /\ moves < MaxMoves /\ moves' = moves + 1
  /\ parser' = Cardinality({h \in DOMAIN handles : handles[h] # "unborn"}) + 1
  /\ handles' = [handles EXCEPT ![parser'] = "live"]

Open ==
  /\ Calls /\ Opens
  /\ Opened
  /\ UNCHANGED <<kind, st, stack, flags, evaluating, lists, doc, broken, queued, wrote, ran>>

\* write outside the page's own parse feeds the parser open made; a parser that
\* is being closed has no handle.
WriteToParser ==
  /\ Calls /\ (current = None \/ load # "parsing")
  /\ \/ /\ Opens /\ Opened
        /\ UNCHANGED broken
     \/ /\ parser # None
        /\ broken' = (parser = Nulled)
        /\ UNCHANGED <<kids, disturbed, moves, parser, handles>>
  /\ stack' = Append(stack, Call("feed", parser'))
  /\ UNCHANGED <<kind, st, flags, evaluating, lists, doc, queued, wrote, ran>>

FeedReturns ==
  /\ At({"feed"})
  /\ stack' = Below
  /\ UNCHANGED <<nodes, st, flags, evaluating, lists, doc, html5, past, ran>>

\* html5ever panicked: its handle is destroyed, though a call of it that this
\* one is nested in may still use it.
\* Mutant: the document keeps the parser.
FaultFeedPanics ==
  /\ At({"feed"})
  /\ stack' = Below
  /\ handles' = [handles EXCEPT ![Top.node] = "freed"]
  /\ broken' = \E i \in 1..Len(Below) : Below[i].at = "feed" /\ Below[i].node = Top.node
  /\ UNCHANGED <<nodes, st, flags, evaluating, lists, doc, parser, past, ran>>
FeedPanics ==
  /\ At({"feed"})
  /\ stack' = Below
  /\ handles' = [handles EXCEPT ![Top.node] = "freed"]
  /\ parser' = None
  /\ broken' = \E i \in 1..Len(Below) : Below[i].at = "feed" /\ Below[i].node = Top.node
  /\ UNCHANGED <<nodes, st, flags, evaluating, lists, doc, past, ran>>

\* write of a script while the page is parsed: a fragment is parsed, put after
\* the script or what it wrote before.
WriteInline ==
  /\ Calls /\ current # None /\ load = "parsing"
  /\ \E p \in Homes(current) :
       stack' = Append(stack, [Call("fragment", current) EXCEPT !.place = p])
  /\ UNCHANGED <<nodes, st, flags, evaluating, lists, doc, html5, past, ran>>

\* Where the nodes of a fragment go: after one of these, or nowhere.
\* Mutant: always after the script.
FaultInsertAfter(c) == IF c.node \in Range(kids[c.place]) THEN {c.node} ELSE {}
InsertAfter(c) ==
  IF point # None /\ point \in Range(kids[c.place]) THEN {point}
  ELSE IF c.node \in Range(kids[c.place]) THEN {c.node}
  ELSE {}

\* A list with the nodes new behind n.
InsertedBehind(s, n, new) ==
  LET i == CHOOSE j \in DOMAIN s : s[j] = n
  IN  SubSeq(s, 1, i) \o new \o SubSeq(s, i + 1, Len(s))

FragmentReturns ==
  LET i == Len(stack)
      p == Top.place
      new == kids[i]
  IN  /\ At({"fragment"})
      /\ stack' = Below
      /\ IF new = << >> \/ InsertAfter(Top) = {}
         THEN /\ kids' = [kids EXCEPT ![i] = << >>]
              /\ UNCHANGED <<point, wrote>>
         ELSE \E n \in InsertAfter(Top) :
                /\ kids' = [kids EXCEPT ![i] = << >>, ![p] = InsertedBehind(@, n, new)]
                /\ point' = Last(new)
                /\ wrote' = [wrote EXCEPT ![Top.node] = @ \o new]
      /\ UNCHANGED <<kind, st, flags, evaluating, lists, current, counter, html5,
                     queued, disturbed, moves, ran>>

\* close: done, then scriptCreatedParseDone, then documentIsComplete, and last
\* the parser is dropped.
Close ==
  /\ Calls /\ parser # None
  /\ parser' = Nulled
  /\ broken' = (parser = Nulled \/ InUse(parser))
  /\ stack' = Append(stack, Call("finish", parser))
  /\ UNCHANGED <<nodes, st, flags, evaluating, lists, doc, handles, past, ran>>

FinishReturns ==
  /\ At({"finish"}) /\ Room
  /\ handles' = [handles EXCEPT ![Top.node] = "freed"]
  /\ static' = TRUE /\ Evaluate(Phase("closing"))
  /\ UNCHANGED <<nodes, st, load, notified, lists, doc, parser, broken, past, ran>>

CloseCompletes ==
  /\ At({"closing"}) /\ Room
  /\ DocumentIsComplete(Phase("closed"))
  /\ UNCHANGED <<nodes, st, static, notified, evaluating, lists, doc, html5, past, ran>>

CloseReturns ==
  /\ At({"closed"})
  /\ stack' = Below /\ parser' = None
  /\ UNCHANGED <<nodes, st, flags, evaluating, lists, doc, handles, broken, past, ran>>

\* Code puts a node at the end of the document, a new one or one it moves:
\* nodeIsReady(false).
ScriptInserts(n, k) ==
  /\ At(Code) /\ Room /\ k # "custom"
  /\ IF kind[n] = "free" THEN Fresh(n, k) /\ UNCHANGED moves
     ELSE kind[n] = k /\ moves < MaxMoves /\ moves' = moves + 1
  /\ kind' = [kind EXCEPT ![n] = k]
  /\ kids' = AtEndOf(0, n)
  /\ disturbed' = disturbed \union (IF kind[n] = "free" THEN {} ELSE Disturbs(n))
  /\ AddFromElement(FALSE, n, k)
  /\ UNCHANGED <<flags, counter, html5, wrote>>

ScriptRemoves(n) ==
  /\ At(Code) /\ Homes(n) # {} /\ moves < MaxMoves
  /\ moves' = moves + 1
  /\ kids' = Without(n)
  /\ disturbed' = disturbed \union Disturbs(n)
  /\ UNCHANGED <<kind, st, stack, flags, evaluating, lists, doc, html5, queued, wrote, ran>>
-----------------------------------------------------------------------------
Next ==
  \/ \E n \in Nodes :
       \/ DoneCallback(n) \/ ErrorCallback(n)
       \/ ParserConstructs(n) \/ ScriptRemoves(n)
       \/ \E k \in Kinds : ParserAdds(n, k) \/ ScriptInserts(n, k)
  \/ ErrorReturns \/ SyncReturns \/ WaitForImport \/ WaitReturns \/ ScriptReturns
  \/ RunReady \/ NotYet \/ RunDeferred \/ NoDeferred \/ TailHook
  \/ CodeReturns \/ Task \/ ConstructorReturns \/ ParseReturns
  \/ Open \/ WriteToParser \/ FeedReturns \/ FeedPanics
  \/ WriteInline \/ FragmentReturns
  \/ Close \/ FinishReturns \/ CloseCompletes \/ CloseReturns

Spec == Init /\ [][Next]_vars
=============================================================================
