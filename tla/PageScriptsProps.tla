-------------------------- MODULE PageScriptsProps --------------------------
(* What the scripts of a page, their loading and document.write must keep.  *)
EXTENDS PageScripts

Frames(S) == {i \in 1..Len(stack) : stack[i].at \in S}
Before(s, a, b) == \A i, j \in 1..Len(s) : s[i] = a /\ s[j] = b => i < j

\* A script runs at most once, however it is put into the document, moved or
\* put back (_executed), and whichever list it went through.
RunsOnce == IsInjective(ran)

\* Deferred scripts and inline modules run in the order they were parsed in,
\* whatever order the network answers in and although one may wait for imports.
DeferredInOrder ==
  \A i, j \in 1..Len(queued) : i < j => Before(ran, queued[i], queued[j])

\* is_evaluating keeps the drain of the lists from being entered again, and is
\* set exactly while a drain, a script, or a wait of one is in progress.
OneDrain ==
  /\ Cardinality(Frames({"ready", "defers", "tail"})) <= 1
  /\ ~broken =>
       (evaluating <=> Frames({"ready", "defers", "tail", "script", "sync", "wait"}) # {})

\* document.currentScript is the innermost script that runs, and the insertion
\* point of document.write is a node that very script wrote.
InsertionPointIsOwn ==
  /\ current = IF Frames({"script"}) = {} THEN None
               ELSE stack[CHOOSE i \in Frames({"script"}) :
                            \A j \in Frames({"script"}) : j <= i].node
  /\ point # None => current # None /\ point \in Range(wrote[current])

\* What a script writes while the page is parsed stands behind it in the order
\* of the calls, with what its own scripts write in between, unless the nodes
\* were moved.
WritesInOrder ==
  \A s \in Nodes \ disturbed : \A p \in Homes(s) :
    LET all == <<s>> \o wrote[s]
    IN  \A i, j \in 1..Len(all) :
          i < j => all[j] \in Range(kids[p]) /\ Before(kids[p], all[i], all[j])

\* html5ever's parser is there exactly as long as the document has it, and a
\* document without handle is being closed: nothing is fed to a parser that is
\* gone, none is lost.
ParserMatchesHandles ==
  ~broken =>
    /\ \A h \in DOMAIN handles :
         handles[h] = "live" <=> h = parser \/ \E i \in Frames({"finish"}) : stack[i].node = h
    /\ parser = Nulled <=> Frames({"finish", "closing", "closed"}) # {}

\* No markup is parsed for document.write while the constructor of a custom
\* element runs that the parser waits for: the count of them is right.
NoMarkupInConstructor ==
  /\ counter = Cardinality(Frames({"constructor"}))
  /\ ~broken => \A i \in Frames({"constructor"}), j \in Frames({"fragment", "feed", "finish"}) : j < i

\* staticScriptsDone asserts that it is called once: no close sets the flag
\* while the page is parsed.
StaticOnce == Frames({"parse"}) # {} => ~static /\ load = "parsing" /\ parser = None

\* DOMContentLoaded waits for every script the page deferred: it ran, or its
\* request failed.
LoadedMeansDrained ==
  [][load = "parsing" /\ load' # "parsing"
       => \A n \in Range(queued) : st[n] = "failed" \/ n \in Range(ran)]_vars
=============================================================================
