-------------------------- MODULE PageScripts_proofs --------------------------
(***************************************************************************)
(* PageScripts for any number of scripts and any depth of calls: the       *)
(* nesting of calls, the types, and the handles of html5ever's parsers.    *)
(*                                                                         *)
(* is_evaluating is one flag that calls save and put back.  The flag alone *)
(* says too little to be kept by the return of a call: Nested says of each *)
(* call in progress that what it saved is what the calls below it make of  *)
(* the flag, and that a drain was entered with the flag down.  Handled     *)
(* says the like of document.open's parser and the calls that use it.      *)
(***************************************************************************)
EXTENDS PageScriptsProps, FiniteSetTheorems, SequenceTheorems, TLAPS

Drains == {"ready", "defers", "tail"}
Waiters == {"script", "sync", "wait"}
Busy == Drains \union Waiters

Framed(c) == {"at", "was"} \subseteq DOMAIN c
IsStack(s) == \E S : s \in Seq(S) /\ \A c \in S : Framed(c)
BusyBelow(s, i) == \E j \in 1..(i - 1) : s[j].at \in Busy
AnyBusy(s) == \E j \in 1..Len(s) : s[j].at \in Busy

Nested(s) ==
  /\ IsStack(s)
  /\ \A i \in 1..Len(s) :
       /\ s[i].at \in Waiters => s[i].was \in BOOLEAN /\ (s[i].was <=> BusyBelow(s, i))
       /\ s[i].at \in Drains => ~BusyBelow(s, i)

Flagged(s, flag) == flag \in BOOLEAN /\ (flag <=> AnyBusy(s))

NestInv == Nested(stack) /\ Flagged(stack, evaluating)

-----------------------------------------------------------------------------
(* Pushing and popping calls. *)

LEMMA PushShape ==
  ASSUME NEW s, IsStack(s), NEW c, Framed(c)
  PROVE  /\ IsStack(Append(s, c))
         /\ Len(s) \in Nat /\ Len(Append(s, c)) = Len(s) + 1
         /\ \A i \in 1..Len(s) : Append(s, c)[i] = s[i]
         /\ Append(s, c)[Len(s) + 1] = c
<1>1. PICK S : s \in Seq(S) /\ \A d \in S : Framed(d)
  BY DEF IsStack
<1>2. s \in Seq(S \union {c}) /\ c \in S \union {c}
  BY <1>1
<1>3. Append(s, c) \in Seq(S \union {c}) /\ \A d \in S \union {c} : Framed(d)
  BY <1>1, <1>2
<1>4. IsStack(Append(s, c))
  BY <1>3 DEF IsStack
<1>5. QED
  BY <1>2, <1>4

LEMMA PrefixShape ==
  ASSUME NEW S, NEW s \in Seq(S), NEW n \in Nat, n <= Len(s)
  PROVE  /\ SubSeq(s, 1, n) \in Seq(S)
         /\ Len(SubSeq(s, 1, n)) = n
         /\ \A i \in 1..n : SubSeq(s, 1, n)[i] = s[i]
<1>1. \A i \in 1..n : s[i] \in S
  OBVIOUS
<1>2. 1 \in Int /\ n \in Int
  OBVIOUS
<1>3. Len(SubSeq(s, 1, n)) = IF 1 <= n THEN n - 1 + 1 ELSE 0
  BY ONLY <1>1, <1>2, SubSeqProperties
<1>4. Len(SubSeq(s, 1, n)) = n
  BY <1>3
<1>5. QED
  BY <1>4

LEMMA PopShape ==
  ASSUME NEW s, IsStack(s), s # << >>
  PROVE  /\ Len(s) \in Nat \ {0}
         /\ IsStack(SubSeq(s, 1, Len(s) - 1))
         /\ Len(SubSeq(s, 1, Len(s) - 1)) = Len(s) - 1
         /\ \A i \in 1..(Len(s) - 1) : SubSeq(s, 1, Len(s) - 1)[i] = s[i]
         /\ Framed(s[Len(s)])
<1>1. PICK S : s \in Seq(S) /\ \A d \in S : Framed(d)
  BY DEF IsStack
<1>2. Len(s) \in Nat \ {0} /\ Len(s) - 1 \in Nat /\ Len(s) - 1 <= Len(s)
  BY <1>1
<1>3. Framed(s[Len(s)])
  BY <1>1, <1>2
<1>4. QED
  BY <1>1, <1>2, <1>3, PrefixShape DEF IsStack

\* A call that does not drain and does not wait changes nothing.
LEMMA PushOther ==
  ASSUME NEW s, Nested(s), NEW f, Flagged(s, f), NEW c, Framed(c), c.at \notin Busy
  PROVE  Nested(Append(s, c)) /\ Flagged(Append(s, c), f)
<1> DEFINE t == Append(s, c)
<1>1. /\ IsStack(t) /\ Len(s) \in Nat /\ Len(t) = Len(s) + 1
      /\ \A i \in 1..Len(s) : t[i] = s[i]
      /\ t[Len(s) + 1] = c
  BY PushShape DEF Nested
<1> HIDE DEF t
<1>2. \A i \in 1..Len(s) : BusyBelow(t, i) <=> BusyBelow(s, i)
  BY <1>1 DEF BusyBelow
<1>3. AnyBusy(t) <=> AnyBusy(s)
  BY <1>1 DEF AnyBusy
<1>4. c.at \notin Waiters /\ c.at \notin Drains
  BY DEF Busy
<1>5. Nested(t)
  BY <1>1, <1>2, <1>4 DEF Nested
<1>6. QED
  BY <1>3, <1>5 DEF t, Flagged

\* One that waits, or runs a script, has saved the flag.
LEMMA PushWaiter ==
  ASSUME NEW s, Nested(s), NEW f, Flagged(s, f), NEW c, Framed(c), c.at \in Waiters, c.was = f
  PROVE  Nested(Append(s, c)) /\ Flagged(Append(s, c), TRUE)
<1> DEFINE t == Append(s, c)
<1>1. /\ IsStack(t) /\ Len(s) \in Nat /\ Len(t) = Len(s) + 1
      /\ \A i \in 1..Len(s) : t[i] = s[i]
      /\ t[Len(s) + 1] = c
  BY PushShape DEF Nested
<1> HIDE DEF t
<1>2. \A i \in 1..Len(s) : BusyBelow(t, i) <=> BusyBelow(s, i)
  BY <1>1 DEF BusyBelow
<1>3. BusyBelow(t, Len(t)) <=> AnyBusy(s)
  BY <1>1 DEF BusyBelow, AnyBusy
<1>4. c.at \notin Drains /\ c.at \in Busy
  BY DEF Waiters, Drains, Busy
<1>5. AnyBusy(t)
  BY <1>1, <1>4 DEF AnyBusy
<1>6. Nested(t)
  BY <1>1, <1>2, <1>3, <1>4 DEF Nested, Flagged
<1>7. QED
  BY <1>5, <1>6 DEF t, Flagged

\* A drain is entered with the flag down.
LEMMA PushDrain ==
  ASSUME NEW s, Nested(s), Flagged(s, FALSE), NEW c, Framed(c), c.at \in Drains
  PROVE  Nested(Append(s, c)) /\ Flagged(Append(s, c), TRUE)
<1> DEFINE t == Append(s, c)
<1>1. /\ IsStack(t) /\ Len(s) \in Nat /\ Len(t) = Len(s) + 1
      /\ \A i \in 1..Len(s) : t[i] = s[i]
      /\ t[Len(s) + 1] = c
  BY PushShape DEF Nested
<1> HIDE DEF t
<1>2. \A i \in 1..Len(s) : BusyBelow(t, i) <=> BusyBelow(s, i)
  BY <1>1 DEF BusyBelow
<1>3. BusyBelow(t, Len(t)) <=> AnyBusy(s)
  BY <1>1 DEF BusyBelow, AnyBusy
<1>4. c.at \notin Waiters /\ c.at \in Busy
  BY DEF Waiters, Drains, Busy
<1>5. AnyBusy(t)
  BY <1>1, <1>4 DEF AnyBusy
<1>6. Nested(t)
  BY <1>1, <1>2, <1>3, <1>4 DEF Nested, Flagged
<1>7. QED
  BY <1>5, <1>6 DEF t, Flagged

\* What a return leaves, and what the flag has to be then.
LEMMA Pop ==
  ASSUME NEW s, Nested(s), NEW f, Flagged(s, f), s # << >>,
         NEW t, t = SubSeq(s, 1, Len(s) - 1), NEW c, c = s[Len(s)]
  PROVE  /\ Nested(t) /\ Framed(c)
         /\ c.at \in Waiters => Flagged(t, c.was)
         /\ c.at \in Drains => Flagged(t, FALSE)
         /\ c.at \notin Busy => Flagged(t, f)
<1>1. /\ Len(s) \in Nat \ {0} /\ IsStack(t) /\ Len(t) = Len(s) - 1
      /\ \A i \in 1..Len(t) : t[i] = s[i]
      /\ Framed(c)
  BY PopShape DEF Nested
<1>2. \A i \in 1..Len(t) : BusyBelow(t, i) <=> BusyBelow(s, i)
  BY <1>1 DEF BusyBelow
<1>3. AnyBusy(t) <=> BusyBelow(s, Len(s))
  BY <1>1 DEF BusyBelow, AnyBusy
<1>4. AnyBusy(s) <=> AnyBusy(t) \/ c.at \in Busy
  BY <1>1 DEF AnyBusy
<1>5. Len(s) \in 1..Len(s) /\ \A i \in 1..Len(t) : i \in 1..Len(s)
  BY <1>1
<1>6. Nested(t)
  BY <1>1, <1>2, <1>5 DEF Nested
<1>7. c.at \in Waiters => Flagged(t, c.was)
  BY <1>3, <1>5 DEF Nested, Flagged
<1>8. c.at \in Drains => Flagged(t, FALSE)
  BY <1>3, <1>5 DEF Nested, Flagged
<1>9. c.at \notin Busy => Flagged(t, f)
  BY <1>4 DEF Flagged
<1>10. QED
  BY <1>1, <1>6, <1>7, <1>8, <1>9
-----------------------------------------------------------------------------
(* The pieces of the actions. *)

LEMMA CallIsFramed ==
  ASSUME NEW at, NEW n
  PROVE  Framed(Call(at, n)) /\ Call(at, n).at = at /\ Call(at, n).was = evaluating
  BY DEF Call, Framed

LEMMA Relabelled ==
  ASSUME NEW c, Framed(c), NEW at
  PROVE  /\ Framed([c EXCEPT !.at = at]) /\ [c EXCEPT !.at = at].at = at
         /\ [c EXCEPT !.at = at].was = c.was
  BY DEF Framed

LEMMA KindsOfCalls ==
  /\ \A at \in {"parse", "fragment", "feed", "finish", "closing", "closed",
                "constructor", "event", "error", "task"} : at \notin Busy
  /\ \A at \in Drains \union Waiters : at \in Busy
  /\ \A at \in Drains : at \notin Waiters
  BY DEF Busy, Drains, Waiters

\* The calls below the innermost one.
LEMMA Return ==
  ASSUME NestInv, stack # << >>
  PROVE  /\ Nested(Below) /\ Framed(Top)
         /\ Top.at \in Waiters => Flagged(Below, Top.was) /\ evaluating
         /\ Top.at \in Drains => Flagged(Below, FALSE) /\ evaluating
         /\ Top.at \notin Busy => Flagged(Below, evaluating)
<1>1. /\ Nested(Below) /\ Framed(Top)
      /\ Top.at \in Waiters => Flagged(Below, Top.was)
      /\ Top.at \in Drains => Flagged(Below, FALSE)
      /\ Top.at \notin Busy => Flagged(Below, evaluating)
  BY Pop DEF NestInv, Below, Top
<1>2. Top.at \in Busy => evaluating
  <2>1. Len(stack) \in 1..Len(stack)
    BY PopShape DEF NestInv, Nested
  <2>2. QED
    BY <2>1 DEF NestInv, Flagged, AnyBusy, Top
<1>3. QED
  BY <1>1, <1>2, KindsOfCalls

\* A script starts.
LEMMA EvalNests ==
  ASSUME NEW s, Nested(s), Flagged(s, evaluating), NEW n, Eval(s, n)
  PROVE  NestInv'
<1>1. Framed(Call("script", n)) /\ Call("script", n).at \in Waiters
      /\ Call("script", n).was = evaluating
  BY CallIsFramed DEF Waiters
<1>2. Nested(stack') /\ Flagged(stack', TRUE)
  BY <1>1, PushWaiter DEF Eval
<1>3. QED
  BY <1>2 DEF Eval, NestInv

\* evaluate is entered, or is not.
LEMMA EvaluateNests ==
  ASSUME NEW s, Nested(s), Flagged(s, evaluating), Evaluate(s)
  PROVE  NestInv'
<1>1. CASE evaluating
  BY <1>1 DEF Evaluate, NestInv
<1>2. CASE ~evaluating
  <2>1. Framed(Call("ready", None)) /\ Call("ready", None).at \in Drains
    BY CallIsFramed DEF Drains
  <2>2. Flagged(s, FALSE)
    BY <1>2 DEF Flagged
  <2>3. Nested(stack') /\ Flagged(stack', TRUE)
    BY <1>2, <2>1, <2>2, PushDrain DEF Evaluate
  <2>4. QED
    BY <1>2, <2>3 DEF Evaluate, NestInv
<1>3. QED
  BY <1>1, <1>2

\* A call is made that leaves the flag alone.
LEMMA OtherNests ==
  ASSUME NEW s, Nested(s), Flagged(s, evaluating), UNCHANGED evaluating,
         NEW at, at \notin Busy, NEW n, stack' = Append(s, Call(at, n))
  PROVE  NestInv'
  BY CallIsFramed, PushOther DEF NestInv

LEMMA SameNests ==
  ASSUME NestInv, UNCHANGED <<stack, evaluating>>
  PROVE  NestInv'
  BY DEF NestInv

\* A drain goes on to its next phase.
LEMMA PhaseDrains ==
  ASSUME NestInv, stack # << >>, Top.at \in Drains, NEW at \in Drains
  PROVE  Nested(Phase(at)) /\ Flagged(Phase(at), evaluating)
<1>1. Nested(Below) /\ Flagged(Below, FALSE) /\ evaluating /\ Framed(Top)
  BY Return
<1>2. evaluating = TRUE
  BY <1>1 DEF NestInv, Flagged
<1>3. QED
  BY <1>1, <1>2, Relabelled, PushDrain DEF Phase

LEMMA PhaseOther ==
  ASSUME NestInv, stack # << >>, Top.at \notin Busy, NEW at, at \notin Busy
  PROVE  Nested(Phase(at)) /\ Flagged(Phase(at), evaluating)
  BY Return, Relabelled, PushOther DEF Phase

\* addFromElement, whoever inserts.
LEMMA AddNests ==
  ASSUME NestInv, NEW fromParser \in BOOLEAN, NEW n, NEW k, AddFromElement(fromParser, n, k)
  PROVE  NestInv'
<1>1. CASE k \notin Scripts \/ Started(n)
  BY <1>1, SameNests DEF AddFromElement
<1>2. CASE ~(k \notin Scripts \/ Started(n))
  <2>1. Add(fromParser, n, k)
    BY <1>2 DEF AddFromElement
  <2>2. CASE k = "inline" \/ (k = "module" /\ static)
    BY <2>1, <2>2, EvalNests DEF Add, NestInv
  <2>3. CASE ~(k = "inline" \/ (k = "module" /\ static)) /\ k = "src" /\ fromParser
    <3>1. stack' = Append(stack, Call("sync", n)) /\ evaluating' = TRUE
      BY <2>1, <2>3 DEF Add, NestInv, Flagged
    <3>2. "sync" \in Waiters
      BY DEF Waiters
    <3>3. Nested(stack') /\ Flagged(stack', TRUE)
      BY <3>1, <3>2, CallIsFramed, PushWaiter DEF NestInv
    <3>4. QED
      BY <3>1, <3>3 DEF NestInv
  <2>4. CASE ~(k = "inline" \/ (k = "module" /\ static)) /\ ~(k = "src" /\ fromParser)
    <3>1. UNCHANGED <<stack, evaluating>>
      BY <2>1, <2>4 DEF Add, NestInv, Flagged
    <3>2. QED
      BY <3>1, SameNests
  <2>5. QED
    BY <2>2, <2>3, <2>4
<1>3. QED
  BY <1>1, <1>2

\* The calls return that are no drain and put nothing back.
LEMMA PlainReturn ==
  ASSUME NestInv, stack # << >>, Top.at \notin Busy, stack' = Below, UNCHANGED evaluating
  PROVE  NestInv'
  BY Return DEF NestInv

\* The calls return that put back what they saved.
LEMMA WaiterReturn ==
  ASSUME NestInv, stack # << >>, Top.at \in Waiters, stack' = Below, evaluating' = Top.was
  PROVE  NestInv'
  BY Return DEF NestInv

LEMMA DrainReturn ==
  ASSUME NestInv, stack # << >>, Top.at \in Drains, EvaluateReturns
  PROVE  NestInv'
  BY Return DEF NestInv, EvaluateReturns

LEMMA CompleteNests ==
  ASSUME NEW s, Nested(s), Flagged(s, evaluating), UNCHANGED evaluating, DocumentIsComplete(s)
  PROVE  NestInv'
<1>1. CASE load = "complete"
  BY <1>1 DEF DocumentIsComplete, NestInv
<1>2. CASE load # "complete"
  BY <1>2, OtherNests, KindsOfCalls DEF DocumentIsComplete
<1>3. QED
  BY <1>1, <1>2

-----------------------------------------------------------------------------
(* Every action keeps the nesting. *)

LEMMA LoadingNests ==
  ASSUME NestInv, NEW n \in Nodes, DoneCallback(n) \/ ErrorCallback(n)
  PROVE  NestInv'
<1>1. CASE DoneCallback(n)
  BY <1>1, EvaluateNests DEF DoneCallback, NestInv
<1>2. CASE ErrorCallback(n)
  BY <1>2, OtherNests, KindsOfCalls DEF ErrorCallback, NestInv
<1>3. QED
  BY <1>1, <1>2

LEMMA WaitingNests ==
  ASSUME NestInv,
         ErrorReturns \/ SyncReturns \/ WaitForImport \/ WaitReturns \/ ScriptReturns
  PROVE  NestInv'
<1>1. CASE ErrorReturns
  <2>1. stack # << >> /\ Top.at \notin Busy /\ Evaluate(Below)
    BY <1>1, KindsOfCalls DEF ErrorReturns, At
  <2>2. QED
    BY <2>1, Return, EvaluateNests
<1>2. CASE SyncReturns
  <2>1. stack # << >> /\ Top.at = "sync" /\ Top.at \in Waiters
    BY <1>2 DEF SyncReturns, At, Waiters
  <2>2. CASE /\ stack' = Append(Below, [Top EXCEPT !.at = "script", !.point = point])
             /\ UNCHANGED evaluating
    <3>1. /\ Nested(Below) /\ Flagged(Below, Top.was) /\ evaluating = TRUE /\ Framed(Top)
      BY <2>1, Return DEF NestInv, Flagged
    <3> DEFINE c == [Top EXCEPT !.at = "script", !.point = point]
    <3>2. Framed(c) /\ c.at = "script" /\ c.was = Top.was /\ "script" \in Waiters
      BY <3>1 DEF Waiters, Framed
    <3> HIDE DEF c
    <3>3. Nested(Append(Below, c)) /\ Flagged(Append(Below, c), TRUE)
      BY <3>1, <3>2, PushWaiter
    <3>4. QED
      BY <2>2, <3>1, <3>3 DEF NestInv, c
  <2>3. CASE stack' = Append(Below, [Top EXCEPT !.at = "event"]) /\ evaluating' = Top.was
    <3>1. Nested(Below) /\ Flagged(Below, Top.was) /\ Framed(Top)
      BY <2>1, Return
    <3> DEFINE c == [Top EXCEPT !.at = "event"]
    <3>2. Framed(c) /\ c.at \notin Busy
      BY <3>1, Relabelled, KindsOfCalls
    <3> HIDE DEF c
    <3>3. Nested(Append(Below, c)) /\ Flagged(Append(Below, c), Top.was)
      BY <3>1, <3>2, PushOther
    <3>4. QED
      BY <2>3, <3>3 DEF NestInv, c
  <2>4. CASE stack' = Below /\ evaluating' = Top.was
    BY <2>1, <2>4, WaiterReturn
  <2>5. QED
    BY <1>2, <2>2, <2>3, <2>4 DEF SyncReturns
<1>3. CASE WaitForImport
  <2>1. stack # << >> /\ Top.at \in Waiters
    BY <1>3 DEF WaitForImport, At, Waiters
  <2>2. "wait" \in Waiters /\ Call("wait", Top.node).was = evaluating
    BY CallIsFramed DEF Waiters
  <2>3. Nested(stack') /\ Flagged(stack', TRUE)
    BY <1>3, <2>2, CallIsFramed, PushWaiter DEF WaitForImport, NestInv
  <2>4. QED
    BY <1>3, <2>3 DEF WaitForImport, NestInv
<1>4. CASE WaitReturns
  <2>1. stack # << >> /\ Top.at \in Waiters
    BY <1>4 DEF WaitReturns, At, Waiters
  <2>2. QED
    BY <1>4, <2>1, WaiterReturn DEF WaitReturns
<1>5. CASE ScriptReturns
  <2>1. stack # << >> /\ Top.at \in Waiters
    BY <1>5 DEF ScriptReturns, At, Waiters
  <2>2. QED
    BY <1>5, <2>1, WaiterReturn DEF ScriptReturns
<1>6. QED
  BY <1>1, <1>2, <1>3, <1>4, <1>5

LEMMA DrainingNests ==
  ASSUME NestInv, RunReady \/ NotYet \/ RunDeferred \/ NoDeferred \/ TailHook
  PROVE  NestInv'
<1>0. AtDefers => stack # << >> /\ Top.at \in Drains
  BY DEF At, AtDefers, Drains
<1>1. CASE RunReady
  BY <1>1, EvalNests DEF RunReady, NestInv
<1>2. CASE NotYet
  <2>1. stack # << >> /\ Top.at \in Drains
    BY <1>2 DEF NotYet, At, Drains
  <2>2. QED
    BY <1>2, <2>1, DrainReturn DEF NotYet
<1>3. CASE RunDeferred
  <2>1. "defers" \in Drains /\ stack # << >> /\ Top.at \in Drains
    BY <1>0, <1>3 DEF RunDeferred, Drains
  <2>2. Nested(Phase("defers")) /\ Flagged(Phase("defers"), evaluating)
    BY <2>1, PhaseDrains
  <2>3. QED
    BY <1>3, <2>2, EvalNests DEF RunDeferred
<1>4. CASE NoDeferred
  <2>1. "tail" \in Drains /\ stack # << >> /\ Top.at \in Drains
    BY <1>0, <1>4 DEF NoDeferred, Drains
  <2>2. CASE stack' = Phase("tail") /\ UNCHANGED evaluating
    BY <2>1, <2>2, PhaseDrains DEF NestInv
  <2>3. CASE EvaluateReturns
    BY <2>1, <2>3, DrainReturn
  <2>4. QED
    BY <1>4, <2>2, <2>3 DEF NoDeferred
<1>5. CASE TailHook
  <2>1. stack # << >> /\ Top.at \in Drains
    BY <1>5 DEF TailHook, At, Drains
  <2>2. CASE stack' = Append(stack, Call("event", None)) /\ UNCHANGED evaluating
    BY <2>2, OtherNests, KindsOfCalls DEF NestInv
  <2>3. CASE DocumentIsComplete(stack) /\ UNCHANGED evaluating
    BY <2>3, CompleteNests DEF NestInv
  <2>4. CASE EvaluateReturns
    BY <2>1, <2>4, DrainReturn
  <2>5. QED
    BY <1>5, <2>2, <2>3, <2>4 DEF TailHook
<1>6. QED
  BY <1>1, <1>2, <1>3, <1>4, <1>5

LEMMA ParsingNests ==
  ASSUME NestInv,
         \/ \E n \in Nodes : ParserConstructs(n) \/ (\E k \in Kinds : ParserAdds(n, k))
         \/ CodeReturns \/ Task \/ ConstructorReturns \/ ParseReturns
  PROVE  NestInv'
<1>1. ASSUME NEW n \in Nodes, ParserConstructs(n) PROVE NestInv'
  BY <1>1, OtherNests, KindsOfCalls DEF ParserConstructs, NestInv
<1>2. ASSUME NEW n \in Nodes, NEW k \in Kinds, ParserAdds(n, k) PROVE NestInv'
  BY <1>2, AddNests DEF ParserAdds
<1>3. CASE CodeReturns
  <2>1. stack # << >> /\ Top.at \notin Busy
    BY <1>3, KindsOfCalls DEF CodeReturns, At
  <2>2. QED
    BY <1>3, <2>1, PlainReturn DEF CodeReturns
<1>4. CASE Task
  <2>1. stack' = Append(stack, Call("task", None))
    BY <1>4 DEF Task
  <2>2. QED
    BY <1>4, <2>1, OtherNests, KindsOfCalls DEF Task, NestInv
<1>5. CASE ConstructorReturns
  <2>1. stack # << >> /\ Top.at \notin Busy
    BY <1>5, KindsOfCalls DEF ConstructorReturns, At
  <2>2. QED
    BY <1>5, <2>1, PlainReturn DEF ConstructorReturns
<1>6. CASE ParseReturns
  <2>1. stack # << >> /\ Top.at \notin Busy
    BY <1>6, KindsOfCalls DEF ParseReturns, At
  <2>2. QED
    BY <1>6, <2>1, Return, EvaluateNests DEF ParseReturns
<1>7. QED
  BY <1>1, <1>2, <1>3, <1>4, <1>5, <1>6

LEMMA WritingNests ==
  ASSUME NestInv,
         \/ Open \/ WriteToParser \/ FeedReturns \/ FeedPanics \/ WriteInline
         \/ FragmentReturns \/ Close \/ FinishReturns \/ CloseCompletes \/ CloseReturns
         \/ \E n \in Nodes : ScriptRemoves(n) \/ (\E k \in Kinds : ScriptInserts(n, k))
  PROVE  NestInv'
<1>0. Nested(stack) /\ Flagged(stack, evaluating)
  BY DEF NestInv
<1>1. CASE Open
  BY <1>1, SameNests DEF Open
<1>2. CASE WriteToParser
  BY <1>0, <1>2, OtherNests, KindsOfCalls DEF WriteToParser
<1>3. CASE FeedReturns \/ FeedPanics
  <2>1. stack # << >> /\ Top.at \notin Busy
    BY <1>3, KindsOfCalls DEF FeedReturns, FeedPanics, At
  <2>2. QED
    BY <1>3, <2>1, PlainReturn DEF FeedReturns, FeedPanics
<1>4. CASE WriteInline
  <2>1. PICK p : stack' = Append(stack, [Call("fragment", current) EXCEPT !.place = p])
    BY <1>4 DEF WriteInline
  <2> DEFINE c == [Call("fragment", current) EXCEPT !.place = p]
  <2>2. Framed(c) /\ c.at = "fragment"
    BY DEF Call, Framed
  <2> HIDE DEF c
  <2>3. Nested(stack') /\ Flagged(stack', evaluating)
    BY <1>0, <2>1, <2>2, PushOther, KindsOfCalls DEF c
  <2>4. QED
    BY <1>4, <2>3 DEF WriteInline, NestInv
<1>5. CASE FragmentReturns
  <2>1. stack # << >> /\ Top.at \notin Busy
    BY <1>5, KindsOfCalls DEF FragmentReturns, At
  <2>2. stack' = Below /\ UNCHANGED evaluating
    BY <1>5 DEF FragmentReturns
  <2>3. QED
    BY <2>1, <2>2, PlainReturn
<1>6. CASE Close
  BY <1>0, <1>6, OtherNests, KindsOfCalls DEF Close
<1>7. CASE FinishReturns
  <2>1. stack # << >> /\ Top.at \notin Busy /\ Evaluate(Phase("closing"))
    BY <1>7, KindsOfCalls DEF FinishReturns, At
  <2>2. Nested(Phase("closing")) /\ Flagged(Phase("closing"), evaluating)
    BY <2>1, PhaseOther, KindsOfCalls
  <2>3. QED
    BY <2>1, <2>2, EvaluateNests
<1>8. CASE CloseCompletes
  <2>1. stack # << >> /\ Top.at \notin Busy
    BY <1>8, KindsOfCalls DEF CloseCompletes, At
  <2>2. Nested(Phase("closed")) /\ Flagged(Phase("closed"), evaluating)
    BY <2>1, PhaseOther, KindsOfCalls
  <2>3. QED
    BY <1>8, <2>2, CompleteNests DEF CloseCompletes
<1>9. CASE CloseReturns
  <2>1. stack # << >> /\ Top.at \notin Busy
    BY <1>9, KindsOfCalls DEF CloseReturns, At
  <2>2. QED
    BY <1>9, <2>1, PlainReturn DEF CloseReturns
<1>10. ASSUME NEW n \in Nodes, ScriptRemoves(n) PROVE NestInv'
  BY <1>10, SameNests DEF ScriptRemoves
<1>11. ASSUME NEW n \in Nodes, NEW k \in Kinds, ScriptInserts(n, k) PROVE NestInv'
  BY <1>11, AddNests DEF ScriptInserts
<1>12. QED
  BY <1>1, <1>2, <1>3, <1>4, <1>5, <1>6, <1>7, <1>8, <1>9, <1>10, <1>11

LEMMA NestStep == NestInv /\ [Next]_vars => NestInv'
<1> SUFFICES ASSUME NestInv, [Next]_vars PROVE NestInv'
  OBVIOUS
<1>1. CASE UNCHANGED vars
  BY <1>1, SameNests DEF vars
<1>2. CASE Next
  BY <1>2, LoadingNests, WaitingNests, DrainingNests, ParsingNests, WritingNests DEF Next
<1>3. QED
  BY <1>1, <1>2

LEMMA NestInit == Init => NestInv
<1> SUFFICES ASSUME Init PROVE NestInv
  OBVIOUS
<1>1. IsStack(<< >>) /\ Len(<< >>) = 0
  <2>1. PICK S : S = {}
    OBVIOUS
  <2>2. << >> \in Seq(S) /\ \A c \in S : Framed(c)
    BY <2>1
  <2>3. IsStack(<< >>)
    BY <2>2 DEF IsStack
  <2>4. QED
    BY <2>3
<1>2. Nested(<< >>) /\ Flagged(<< >>, FALSE)
  BY <1>1 DEF Nested, Flagged, AnyBusy
<1>3. CASE stack = << >>
  BY <1>2, <1>3 DEF Init, NestInv
<1>4. CASE stack = <<Call("parse", None)>>
  <2>1. stack = Append(<< >>, Call("parse", None))
    BY <1>4
  <2>2. Nested(stack) /\ Flagged(stack, FALSE)
    BY <1>2, <2>1, CallIsFramed, PushOther, KindsOfCalls
  <2>3. QED
    BY <2>2 DEF Init, NestInv
<1>5. QED
  BY <1>3, <1>4 DEF Init

\* Two drains in progress would need one that was entered with the flag up.
LEMMA NestedHasOneDrain ==
  ASSUME NestInv
  PROVE  OneDrain
<1> DEFINE D == Frames(Drains)
<1>1. /\ Frames({"ready", "defers", "tail"}) = D
      /\ Frames({"ready", "defers", "tail", "script", "sync", "wait"}) = Frames(Busy)
  BY DEF Frames, Drains, Busy, Waiters
<1>2. Len(stack) \in Nat
  BY DEF NestInv, Nested, IsStack
<1>3. \A i, j \in D : i = j
  <2>1. \A i, j \in D : i <= j
    BY <1>2, KindsOfCalls DEF Frames, NestInv, Nested, BusyBelow, Busy
  <2>2. D \subseteq Nat
    BY <1>2 DEF Frames
  <2>3. QED
    BY <2>1, <2>2
<1>4. Cardinality(D) <= 1
  <2>1. CASE D = {}
    BY <2>1, FS_EmptySet
  <2>2. CASE D # {}
    <3>1. PICK i \in D : D = {i}
      BY <1>3, <2>2
    <3>2. Cardinality(D) = 1
      BY <3>1, FS_Singleton
    <3>3. QED
      BY <3>2
  <2>3. QED
    BY <2>1, <2>2
<1>5. evaluating <=> Frames(Busy) # {}
  BY DEF NestInv, Flagged, AnyBusy, Frames
<1>6. QED
  BY <1>1, <1>4, <1>5 DEF OneDrain

\* evaluate is never entered again while it drains the lists of scripts, and
\* is_evaluating is up exactly while a drain, a script or a wait of one is in
\* progress, for any nesting of them (ScriptManagerBase.zig:412).
THEOREM DrainIsSingle == Spec => []OneDrain
<1>1. NestInv => OneDrain
  BY NestedHasOneDrain
<1>2. QED
  BY NestInit, NestStep, <1>1, PTL DEF Spec
-----------------------------------------------------------------------------
(* The page's own parse: it is the outermost call, and while it is there the *)
(* lists are not drained to their end and no document was opened.            *)

LateCalls == {"defers", "tail", "finish", "closing", "closed"}
IsParsed(s) == Len(s) # 0 /\ s[1].at = "parse"

Shaped(s) ==
  /\ IsStack(s)
  /\ \A i \in 1..Len(s) : s[i].at = "parse" => i = 1
  /\ IsParsed(s) => \A i \in 1..Len(s) : s[i].at \notin LateCalls

Quiet == ~static /\ load = "parsing" /\ parser = None

ParseInv == Shaped(stack) /\ (IsParsed(stack) => Quiet)

\* A call other than the page's own parse is made.
LEMMA PushShaped ==
  ASSUME NEW s, Shaped(s), NEW c, Framed(c), c.at # "parse",
         c.at \in LateCalls => ~IsParsed(s)
  PROVE  Shaped(Append(s, c)) /\ (IsParsed(Append(s, c)) <=> IsParsed(s))
<1> DEFINE t == Append(s, c)
<1>1. /\ IsStack(t) /\ Len(s) \in Nat /\ Len(t) = Len(s) + 1
      /\ \A i \in 1..Len(s) : t[i] = s[i]
      /\ t[Len(s) + 1] = c
  BY PushShape DEF Shaped
<1> HIDE DEF t
<1>2. IsParsed(t) <=> IsParsed(s)
  BY <1>1 DEF IsParsed
<1>3. Shaped(t)
  BY <1>1, <1>2 DEF Shaped
<1>4. QED
  BY <1>2, <1>3 DEF t

LEMMA PopShaped ==
  ASSUME ParseInv, stack # << >>
  PROVE  /\ Shaped(Below) /\ Framed(Top)
         /\ IsParsed(Below) => IsParsed(stack) /\ Top.at \notin LateCalls
         /\ Top.at = "parse" => ~IsParsed(Below)
<1> DEFINE t == SubSeq(stack, 1, Len(stack) - 1)
<1>1. /\ Len(stack) \in Nat \ {0} /\ IsStack(t) /\ Len(t) = Len(stack) - 1
      /\ \A i \in 1..Len(t) : t[i] = stack[i]
      /\ Framed(stack[Len(stack)])
  BY PopShape DEF ParseInv, Shaped
<1> HIDE DEF t
<1>2. IsParsed(t) => IsParsed(stack) /\ Top.at \notin LateCalls
  BY <1>1 DEF IsParsed, ParseInv, Shaped, Top
<1>3. Top.at = "parse" => ~IsParsed(t)
  BY <1>1 DEF IsParsed, ParseInv, Shaped, Top
<1>4. Shaped(t)
  BY <1>1, <1>2 DEF ParseInv, Shaped
<1>5. QED
  BY <1>1, <1>2, <1>3, <1>4 DEF t, Below, Top

LEMMA LateIsNotParsed ==
  ASSUME ParseInv, stack # << >>, Top.at \in LateCalls
  PROVE  ~IsParsed(stack)
  BY PopShape DEF ParseInv, Shaped, Top

\* The calls of the event loop, of code and of parsers, made and undone while
\* what Quiet speaks of stays.
LEMMA PushKeeps ==
  ASSUME NEW s, Shaped(s), IsParsed(s) => Quiet, IsParsed(s) => UNCHANGED <<static, load, parser>>,
         NEW c, Framed(c), c.at # "parse", c.at \notin LateCalls, stack' = Append(s, c)
  PROVE  ParseInv'
  BY PushShaped DEF ParseInv, Quiet

LEMMA StackKeeps ==
  ASSUME NEW s, Shaped(s), IsParsed(s) => Quiet, IsParsed(s) => UNCHANGED <<static, load, parser>>,
         stack' = s
  PROVE  ParseInv'
  BY DEF ParseInv, Quiet

LEMMA BelowKeeps ==
  ASSUME ParseInv, stack # << >>
  PROVE  Shaped(Below) /\ (IsParsed(Below) => Quiet)
  BY PopShaped DEF ParseInv

LEMMA EvalKeeps ==
  ASSUME NEW s, Shaped(s), IsParsed(s) => Quiet, IsParsed(s) => UNCHANGED <<static, load, parser>>,
         NEW n, Eval(s, n)
  PROVE  ParseInv'
<1>1. Framed(Call("script", n)) /\ Call("script", n).at = "script" /\ "script" \notin LateCalls
  BY CallIsFramed DEF LateCalls
<1>2. stack' = Append(s, Call("script", n))
  BY DEF Eval
<1>3. QED
  BY <1>1, <1>2, PushKeeps

LEMMA EvaluateKeeps ==
  ASSUME NEW s, Shaped(s), IsParsed(s) => Quiet, IsParsed(s) => UNCHANGED <<static, load, parser>>,
         Evaluate(s)
  PROVE  ParseInv'
<1>1. Framed(Call("ready", None)) /\ Call("ready", None).at = "ready" /\ "ready" \notin LateCalls
  BY CallIsFramed DEF LateCalls
<1>2. CASE stack' = Append(s, Call("ready", None))
  BY <1>1, <1>2, PushKeeps
<1>3. CASE stack' = s
  BY <1>3, StackKeeps
<1>4. QED
  BY <1>2, <1>3 DEF Evaluate

\* A drain or a close goes on, which the page's parse does not see.
LEMMA PhaseKeeps ==
  ASSUME ParseInv, stack # << >>, NEW at, at # "parse", at \in LateCalls => ~IsParsed(stack)
  PROVE  /\ Shaped(Phase(at))
         /\ IsParsed(Phase(at)) => Quiet /\ IsParsed(stack)
  BY PopShaped, Relabelled, PushShaped DEF Phase, ParseInv

LEMMA CompleteKeeps ==
  ASSUME NEW s, Shaped(s), ~IsParsed(s), DocumentIsComplete(s)
  PROVE  ParseInv'
<1>1. /\ Framed(Call("event", None)) /\ Call("event", None).at = "event"
      /\ "event" \notin LateCalls
  BY CallIsFramed DEF LateCalls
<1>2. CASE stack' = Append(s, Call("event", None))
  BY <1>1, <1>2, PushKeeps
<1>3. CASE stack' = s
  BY <1>3, StackKeeps
<1>4. QED
  BY <1>2, <1>3 DEF DocumentIsComplete

\* addFromElement, whoever inserts: at most a script or a synchronous load is
\* put on the stack.
LEMMA AddKeeps ==
  ASSUME ParseInv, NEW fromParser \in BOOLEAN, NEW n, NEW k, AddFromElement(fromParser, n, k),
         UNCHANGED <<static, load, parser>>
  PROVE  ParseInv'
<1>0. Shaped(stack) /\ (IsParsed(stack) => Quiet)
  BY DEF ParseInv
<1>1. CASE stack' = stack
  BY <1>0, <1>1, StackKeeps
<1>2. CASE stack' = Append(stack, Call("sync", n))
  <2>1. /\ Framed(Call("sync", n)) /\ Call("sync", n).at = "sync" /\ "sync" \notin LateCalls
    BY CallIsFramed DEF LateCalls
  <2>2. QED
    BY <1>0, <1>2, <2>1, PushKeeps
<1>3. CASE Eval(stack, n)
  BY <1>0, <1>3, EvalKeeps
<1>4. QED
  BY <1>1, <1>2, <1>3 DEF AddFromElement, Add

\* Calls that code, parsers and the event loop make.
LEMMA CallKeeps ==
  ASSUME ParseInv, NEW at, at # "parse", at \notin LateCalls, NEW n,
         stack' = Append(stack, Call(at, n)),
         IsParsed(stack) => UNCHANGED <<static, load, parser>>
  PROVE  ParseInv'
  BY CallIsFramed, PushKeeps DEF ParseInv

LEMMA ReturnKeeps ==
  ASSUME ParseInv, stack # << >>, stack' = Below,
         IsParsed(Below) => UNCHANGED <<static, load, parser>>
  PROVE  ParseInv'
  BY BelowKeeps, StackKeeps

LEMMA EarlyCalls ==
  \A at \in {"ready", "script", "sync", "wait", "fragment", "feed",
             "constructor", "event", "error", "task"} : at \notin LateCalls /\ at # "parse"
  BY DEF LateCalls

LEMMA LoadingKeeps ==
  ASSUME ParseInv, NEW n \in Nodes, DoneCallback(n) \/ ErrorCallback(n)
  PROVE  ParseInv'
<1>1. CASE DoneCallback(n)
  BY <1>1, EvaluateKeeps DEF DoneCallback, ParseInv, flags, html5
<1>2. CASE ErrorCallback(n)
  BY <1>2, CallKeeps, EarlyCalls DEF ErrorCallback, flags, html5
<1>3. QED
  BY <1>1, <1>2

LEMMA WaitingKeeps ==
  ASSUME ParseInv,
         ErrorReturns \/ SyncReturns \/ WaitForImport \/ WaitReturns \/ ScriptReturns
  PROVE  ParseInv'
<1>1. stack # << >>
  BY DEF ErrorReturns, SyncReturns, WaitForImport, WaitReturns, ScriptReturns, At
<1>2. UNCHANGED <<static, load, parser>>
  BY DEF ErrorReturns, SyncReturns, WaitForImport, WaitReturns, ScriptReturns, flags, html5
<1>3. CASE ErrorReturns
  BY <1>1, <1>2, <1>3, BelowKeeps, EvaluateKeeps DEF ErrorReturns
<1>4. CASE stack' = Below
  BY <1>1, <1>2, <1>4, ReturnKeeps
<1>5. CASE WaitForImport
  BY <1>2, <1>5, CallKeeps, EarlyCalls DEF WaitForImport
<1>6. CASE SyncReturns
  <2> DEFINE c == [Top EXCEPT !.at = "script", !.point = point]
             d == [Top EXCEPT !.at = "event"]
  <2>1. /\ Framed(Top) /\ Framed(c) /\ c.at \notin LateCalls /\ c.at # "parse"
        /\ Framed(d) /\ d.at \notin LateCalls /\ d.at # "parse"
    BY <1>1, PopShaped, Relabelled, EarlyCalls DEF Framed
  <2>2. stack' \in {Append(Below, c), Append(Below, d), Below}
    BY <1>6 DEF SyncReturns
  <2> HIDE DEF c, d
  <2>3. QED
    BY <1>1, <1>2, <1>4, <2>1, <2>2, BelowKeeps, PushKeeps
<1>7. QED
  BY <1>3, <1>4, <1>5, <1>6 DEF WaitReturns, ScriptReturns

LEMMA DrainingKeeps ==
  ASSUME ParseInv, RunReady \/ NotYet \/ RunDeferred \/ NoDeferred \/ TailHook
  PROVE  ParseInv'
<1>1. CASE RunReady
  BY <1>1, EvalKeeps DEF RunReady, ParseInv, flags, html5
<1>2. CASE NotYet
  BY <1>2, ReturnKeeps DEF NotYet, At, EvaluateReturns, flags, html5
<1>3. AtDefers => stack # << >> /\ ~IsParsed(stack)
  <2>1. CASE At({"defers"})
    BY <2>1, LateIsNotParsed DEF At, LateCalls
  <2>2. CASE At({"ready"}) /\ static
    BY <2>2 DEF At, ParseInv, Quiet
  <2>3. QED
    BY <2>1, <2>2 DEF AtDefers
<1>4. CASE RunDeferred
  <2>1. Shaped(Phase("defers")) /\ ~IsParsed(Phase("defers"))
    BY <1>3, <1>4, PhaseKeeps DEF RunDeferred
  <2>2. QED
    BY <1>4, <2>1, EvalKeeps DEF RunDeferred
<1>5. CASE NoDeferred
  <2>1. Shaped(Phase("tail")) /\ ~IsParsed(Phase("tail"))
    BY <1>3, <1>5, PhaseKeeps DEF NoDeferred
  <2>2. CASE stack' = Phase("tail")
    BY <2>1, <2>2, StackKeeps
  <2>3. CASE EvaluateReturns
    BY <1>3, <1>5, <2>3, ReturnKeeps DEF NoDeferred, EvaluateReturns, flags, html5
  <2>4. QED
    BY <1>5, <2>2, <2>3 DEF NoDeferred
<1>6. CASE TailHook
  <2>1. stack # << >> /\ ~IsParsed(stack)
    BY <1>6, LateIsNotParsed DEF TailHook, At, LateCalls
  <2>2. CASE stack' = Append(stack, Call("event", None))
    BY <2>1, <2>2, CallKeeps, EarlyCalls
  <2>3. CASE DocumentIsComplete(stack)
    BY <2>1, <2>3, CompleteKeeps DEF ParseInv
  <2>4. CASE EvaluateReturns
    BY <2>1, <2>4, ReturnKeeps, PopShaped DEF EvaluateReturns
  <2>5. QED
    BY <1>6, <2>2, <2>3, <2>4 DEF TailHook
<1>7. QED
  BY <1>1, <1>2, <1>4, <1>5, <1>6

LEMMA ParsingKeeps ==
  ASSUME ParseInv,
         \/ \E n \in Nodes : ParserConstructs(n) \/ (\E k \in Kinds : ParserAdds(n, k))
         \/ CodeReturns \/ Task \/ ConstructorReturns \/ ParseReturns
  PROVE  ParseInv'
<1>1. ASSUME NEW n \in Nodes, ParserConstructs(n) PROVE ParseInv'
  BY <1>1, CallKeeps, EarlyCalls DEF ParserConstructs, flags, html5
<1>2. ASSUME NEW n \in Nodes, NEW k \in Kinds, ParserAdds(n, k) PROVE ParseInv'
  BY <1>2, AddKeeps DEF ParserAdds, flags, html5
<1>3. CASE CodeReturns
  BY <1>3, ReturnKeeps DEF CodeReturns, At, flags, html5
<1>4. CASE Task
  <2>1. stack' = Append(stack, Call("task", None))
    BY <1>4 DEF Task
  <2>2. QED
    BY <1>4, <2>1, CallKeeps, EarlyCalls DEF Task, flags, html5
<1>5. CASE ConstructorReturns
  BY <1>5, ReturnKeeps DEF ConstructorReturns, At, flags, html5
<1>6. CASE ParseReturns
  <2>1. stack # << >> /\ Top.at = "parse" /\ Evaluate(Below)
    BY <1>6 DEF ParseReturns, At
  <2>2. QED
    BY <2>1, PopShaped, EvaluateKeeps
<1>7. QED
  BY <1>1, <1>2, <1>3, <1>4, <1>5, <1>6

LEMMA WritingKeeps ==
  ASSUME ParseInv,
         \/ Open \/ WriteToParser \/ FeedReturns \/ FeedPanics \/ WriteInline
         \/ FragmentReturns \/ Close \/ FinishReturns \/ CloseCompletes \/ CloseReturns
         \/ \E n \in Nodes : ScriptRemoves(n) \/ (\E k \in Kinds : ScriptInserts(n, k))
  PROVE  ParseInv'
<1>0. Shaped(stack) /\ (IsParsed(stack) => Quiet)
  BY DEF ParseInv
<1>1. CASE Open
  <2>1. ~IsParsed(stack) /\ stack' = stack
    BY <1>0, <1>1 DEF Open, Opens, Quiet
  <2>2. QED
    BY <1>0, <2>1, StackKeeps
<1>2. CASE WriteToParser
  <2>1. ~IsParsed(stack)
    BY <1>0, <1>2 DEF WriteToParser, Opens, Quiet
  <2>2. QED
    BY <1>2, <2>1, CallKeeps, EarlyCalls DEF WriteToParser
<1>3. CASE FeedReturns
  BY <1>3, ReturnKeeps DEF FeedReturns, At, flags, html5
<1>4. CASE FeedPanics
  <2>1. stack # << >> /\ stack' = Below /\ UNCHANGED <<static, load>> /\ parser' = None
    BY <1>4 DEF FeedPanics, At, flags
  <2>2. IsParsed(Below) => UNCHANGED <<static, load, parser>>
    BY <2>1, BelowKeeps DEF Quiet
  <2>3. QED
    BY <2>1, <2>2, ReturnKeeps
<1>5. CASE WriteInline
  <2>1. PICK p : stack' = Append(stack, [Call("fragment", current) EXCEPT !.place = p])
    BY <1>5 DEF WriteInline
  <2> DEFINE c == [Call("fragment", current) EXCEPT !.place = p]
  <2>2. Framed(c) /\ c.at = "fragment"
    BY DEF Call, Framed
  <2> HIDE DEF c
  <2>3. stack' = Append(stack, c)
    BY <2>1 DEF c
  <2>4. QED
    BY <1>0, <1>5, <2>2, <2>3, PushKeeps, EarlyCalls DEF WriteInline, flags, html5
<1>6. CASE FragmentReturns
  <2>1. stack # << >> /\ stack' = Below /\ UNCHANGED <<static, load, parser>>
    BY <1>6 DEF FragmentReturns, At, flags, html5
  <2>2. QED
    BY <2>1, ReturnKeeps
<1>7. CASE Close
  <2>1. ~IsParsed(stack)
    BY <1>0, <1>7 DEF Close, Quiet
  <2>2. /\ stack' = Append(stack, Call("finish", parser))
        /\ Framed(Call("finish", parser)) /\ Call("finish", parser).at # "parse"
    BY <1>7, CallIsFramed DEF Close
  <2>3. Shaped(stack') /\ ~IsParsed(stack')
    BY <1>0, <2>1, <2>2, PushShaped
  <2>4. QED
    BY <2>3 DEF ParseInv
<1>8. CASE FinishReturns
  <2>1. stack # << >> /\ Top.at = "finish" /\ Evaluate(Phase("closing"))
    BY <1>8 DEF FinishReturns, At
  <2>2. Shaped(Phase("closing")) /\ ~IsParsed(Phase("closing"))
    BY <2>1, LateIsNotParsed, PhaseKeeps DEF LateCalls
  <2>3. QED
    BY <2>1, <2>2, EvaluateKeeps
<1>9. CASE CloseCompletes
  <2>1. stack # << >> /\ Top.at = "closing" /\ DocumentIsComplete(Phase("closed"))
    BY <1>9 DEF CloseCompletes, At
  <2>2. Shaped(Phase("closed")) /\ ~IsParsed(Phase("closed"))
    BY <2>1, LateIsNotParsed, PhaseKeeps DEF LateCalls
  <2>3. QED
    BY <2>1, <2>2, CompleteKeeps
<1>10. CASE CloseReturns
  <2>1. stack # << >> /\ Top.at \in LateCalls /\ stack' = Below
    BY <1>10 DEF CloseReturns, At, LateCalls
  <2>2. ~IsParsed(Below)
    BY <2>1, PopShaped, LateIsNotParsed
  <2>3. QED
    BY <2>1, <2>2, ReturnKeeps
<1>11. ASSUME NEW n \in Nodes, ScriptRemoves(n) PROVE ParseInv'
  BY <1>0, <1>11, StackKeeps DEF ScriptRemoves, flags, html5
<1>12. ASSUME NEW n \in Nodes, NEW k \in Kinds, ScriptInserts(n, k) PROVE ParseInv'
  BY <1>12, AddKeeps DEF ScriptInserts, flags, html5
<1>13. QED
  BY <1>1, <1>2, <1>3, <1>4, <1>5, <1>6, <1>7, <1>8, <1>9, <1>10, <1>11, <1>12

LEMMA ParseStep == ParseInv /\ [Next]_vars => ParseInv'
<1> SUFFICES ASSUME ParseInv, [Next]_vars PROVE ParseInv'
  OBVIOUS
<1>1. CASE UNCHANGED vars
  BY <1>1 DEF vars, flags, html5, ParseInv, Quiet
<1>2. CASE Next
  BY <1>2, LoadingKeeps, WaitingKeeps, DrainingKeeps, ParsingKeeps, WritingKeeps DEF Next
<1>3. QED
  BY <1>1, <1>2

LEMMA ParseInit == Init => ParseInv
<1> SUFFICES ASSUME Init PROVE ParseInv
  OBVIOUS
<1>1. IsStack(stack)
  BY NestInit DEF NestInv, Nested
<1>2. CASE stack = << >>
  BY <1>1, <1>2 DEF ParseInv, Shaped, IsParsed
<1>3. CASE load = "parsing" /\ stack = <<Call("parse", None)>>
  <2>1. Len(stack) = 1 /\ stack[1].at = "parse"
    BY <1>3, CallIsFramed
  <2>2. Quiet
    BY <1>3 DEF Init, Quiet
  <2>3. QED
    BY <1>1, <2>1, <2>2 DEF ParseInv, Shaped, LateCalls
<1>4. QED
  BY <1>2, <1>3 DEF Init

\* As long as the page is parsed, nothing sets static_scripts_done, moves the
\* load state on or makes a parser for document.open: staticScriptsDone, which
\* asserts that it is called once, is (ScriptManagerBase.zig:396).
THEOREM StaticScriptsDoneOnce == Spec => []StaticOnce
<1>1. ParseInv => StaticOnce
  <2> SUFFICES ASSUME ParseInv, Frames({"parse"}) # {} PROVE Quiet
    BY DEF StaticOnce, Quiet
  <2>1. PICK i \in 1..Len(stack) : stack[i].at = "parse"
    BY DEF Frames
  <2>2. i = 1
    BY <2>1 DEF ParseInv, Shaped
  <2>3. IsParsed(stack)
    BY <2>1, <2>2 DEF IsParsed
  <2>4. QED
    BY <2>3 DEF ParseInv
<1>2. QED
  BY ParseInit, ParseStep, <1>1, PTL DEF Spec
-----------------------------------------------------------------------------
(* Lists of scripts: what Append, Tail and Unlinked do to them. *)

\* The list u is s without some of its members.
Thinned(u, s) ==
  \A a, b \in DOMAIN u : a < b =>
    \E c, d \in DOMAIN s : c < d /\ s[c] = u[a] /\ s[d] = u[b]

LEMMA ListFacts ==
  ASSUME NEW S, NEW s \in Seq(S)
  PROVE  /\ Len(s) \in Nat /\ DOMAIN s = 1..Len(s)
         /\ \A i \in 1..Len(s) : s[i] \in S /\ s[i] \in Range(s)
         /\ \A e \in Range(s) : e \in S /\ \E i \in 1..Len(s) : s[i] = e
  BY DEF Range

LEMMA AppendList ==
  ASSUME NEW S, NEW s \in Seq(S), NEW e \in S
  PROVE  /\ Append(s, e) \in Seq(S)
         /\ DOMAIN Append(s, e) = 1..(Len(s) + 1)
         /\ \A i \in 1..Len(s) : Append(s, e)[i] = s[i]
         /\ Append(s, e)[Len(s) + 1] = e
         /\ Range(Append(s, e)) = Range(s) \union {e}
         /\ e \notin Range(s) /\ IsInjective(s) => IsInjective(Append(s, e))
<1> DEFINE t == Append(s, e)
<1>1. /\ t \in Seq(S) /\ Len(s) \in Nat /\ DOMAIN t = 1..(Len(s) + 1)
      /\ \A i \in 1..Len(s) : t[i] = s[i]
      /\ t[Len(s) + 1] = e
  OBVIOUS
<1>2. DOMAIN s = 1..Len(s)
  OBVIOUS
<1> HIDE DEF t
<1>3. Range(t) = Range(s) \union {e}
  BY <1>1, <1>2 DEF Range
<1>4. e \notin Range(s) /\ IsInjective(s) => IsInjective(t)
  BY <1>1, <1>2 DEF Range, IsInjective
<1>5. QED
  BY <1>1, <1>3, <1>4 DEF t

LEMMA TailList ==
  ASSUME NEW S, NEW s \in Seq(S), s # << >>, IsInjective(s)
  PROVE  /\ Tail(s) \in Seq(S) /\ IsInjective(Tail(s)) /\ Thinned(Tail(s), s)
         /\ Head(s) \in Range(s) /\ Range(Tail(s)) = Range(s) \ {Head(s)}
<1> DEFINE t == Tail(s)
<1>1. /\ Len(s) \in Nat \ {0} /\ DOMAIN s = 1..Len(s) /\ Head(s) = s[1]
      /\ t \in Seq(S) /\ Len(t) = Len(s) - 1 /\ DOMAIN t = 1..(Len(s) - 1)
      /\ \A i \in 1..(Len(s) - 1) : t[i] = s[i + 1]
  OBVIOUS
<1> HIDE DEF t
<1>2. IsInjective(t)
  <2>1. ASSUME NEW a \in DOMAIN t, NEW b \in DOMAIN t, t[a] = t[b]
        PROVE  a = b
    <3>1. a + 1 \in DOMAIN s /\ b + 1 \in DOMAIN s /\ s[a + 1] = s[b + 1]
      BY <1>1, <2>1
    <3>2. a + 1 = b + 1
      BY <3>1 DEF IsInjective
    <3>3. QED
      BY <1>1, <3>2
  <2>2. QED
    BY <2>1 DEF IsInjective
<1>3. Thinned(t, s)
  <2>1. ASSUME NEW a \in DOMAIN t, NEW b \in DOMAIN t, a < b
        PROVE  \E c, d \in DOMAIN s : c < d /\ s[c] = t[a] /\ s[d] = t[b]
    <3>1. a + 1 \in DOMAIN s /\ b + 1 \in DOMAIN s /\ a + 1 < b + 1
      BY <1>1, <2>1
    <3>2. QED
      BY <1>1, <3>1
  <2>2. QED
    BY <2>1 DEF Thinned
<1>4. Head(s) \in Range(s) /\ Range(t) \subseteq Range(s) /\ Head(s) \notin Range(t)
  <2>1. ASSUME NEW i \in DOMAIN t
        PROVE  t[i] \in Range(s) /\ t[i] # Head(s)
    <3>1. i + 1 \in DOMAIN s /\ 1 \in DOMAIN s /\ i + 1 # 1 /\ t[i] = s[i + 1]
      BY <1>1
    <3>2. QED
      BY <1>1, <3>1 DEF Range, IsInjective
  <2>2. QED
    BY <1>1, <2>1 DEF Range
<1>5. ASSUME NEW e \in Range(s), e # Head(s)
      PROVE  e \in Range(t)
  <2>1. PICK i \in 1..Len(s) : s[i] = e
    BY <1>1 DEF Range
  <2>2. i - 1 \in 1..(Len(s) - 1) /\ t[i - 1] = e
    BY <1>1, <1>5, <2>1
  <2>3. QED
    BY <1>1, <2>2 DEF Range
<1>6. QED
  BY <1>1, <1>2, <1>3, <1>4, <1>5 DEF t

LEMMA RemovedAt ==
  ASSUME NEW S, NEW s \in Seq(S), NEW i \in 1..Len(s)
  PROVE  /\ RemoveAt(s, i) \in Seq(S) /\ Len(RemoveAt(s, i)) = Len(s) - 1
         /\ \A j \in 1..(Len(s) - 1) :
              RemoveAt(s, i)[j] = s[IF j < i THEN j ELSE j + 1]
<1> DEFINE u == RemoveAt(s, i)
           at(j) == IF j < i THEN j ELSE j + 1
<1>1. Len(s) \in Nat /\ DOMAIN s = 1..Len(s)
  OBVIOUS
<1>2. i - 1 \in Nat /\ i - 1 <= Len(s)
  BY <1>1
<1>3. /\ SubSeq(s, 1, i - 1) \in Seq(S) /\ Len(SubSeq(s, 1, i - 1)) = i - 1
      /\ \A j \in 1..(i - 1) : SubSeq(s, 1, i - 1)[j] = s[j]
  BY <1>2, PrefixShape
<1>4. /\ SubSeq(s, i + 1, Len(s)) \in Seq(S) /\ Len(SubSeq(s, i + 1, Len(s))) = Len(s) - i
      /\ \A j \in 1..(Len(s) - i) : SubSeq(s, i + 1, Len(s))[j] = s[i + j]
  <2>1. i + 1 \in Int /\ Len(s) \in Int /\ \A j \in (i + 1)..Len(s) : s[j] \in S
    BY <1>1, <1>2
  <2>2. /\ SubSeq(s, i + 1, Len(s)) \in Seq(S)
        /\ Len(SubSeq(s, i + 1, Len(s))) =
             (IF i + 1 <= Len(s) THEN Len(s) - (i + 1) + 1 ELSE 0)
        /\ \A j \in 1..(Len(s) - (i + 1) + 1) :
             SubSeq(s, i + 1, Len(s))[j] = s[i + 1 + j - 1]
    BY ONLY <2>1, SubSeqProperties
  <2>3. i \in Int /\ 1 <= i /\ i <= Len(s)
    BY <1>1, <1>2
  <2>4. Len(SubSeq(s, i + 1, Len(s))) = Len(s) - i
    BY <2>1, <2>2, <2>3
  <2>5. ASSUME NEW j \in 1..(Len(s) - i)
        PROVE  SubSeq(s, i + 1, Len(s))[j] = s[i + j]
    <3>1. j \in 1..(Len(s) - (i + 1) + 1) /\ i + 1 + j - 1 = i + j
      BY <2>1, <2>3
    <3>2. QED
      BY <2>2, <3>1
  <2>6. QED
    BY <2>2, <2>4, <2>5
<1>5. /\ u \in Seq(S) /\ Len(u) = Len(s) - 1
      /\ \A j \in 1..(Len(s) - 1) : u[j] = s[at(j)]
  <2> DEFINE p == SubSeq(s, 1, i - 1)
             q == SubSeq(s, i + 1, Len(s))
  <2>1. u = p \o q
    BY DEF RemoveAt
  <2>2. p \in Seq(S) /\ q \in Seq(S)
    BY <1>3, <1>4
  <2> HIDE DEF p, q
  <2>3. /\ p \o q \in Seq(S) /\ Len(p \o q) = Len(p) + Len(q)
        /\ \A j \in 1..(Len(p) + Len(q)) :
             (p \o q)[j] = IF j <= Len(p) THEN p[j] ELSE q[j - Len(p)]
    BY <2>2
  <2>4. Len(p) = i - 1 /\ Len(q) = Len(s) - i
    BY <1>3, <1>4 DEF p, q
  <2>5. u \in Seq(S) /\ Len(u) = Len(s) - 1
    BY <1>1, <1>2, <2>1, <2>3, <2>4
  <2>6. ASSUME NEW j \in 1..(Len(s) - 1)
        PROVE  u[j] = s[at(j)]
    <3>1. CASE j < i
      <4>1. j \in 1..(i - 1)
        BY <1>2, <3>1
      <4>2. u[j] = p[j]
        BY <1>1, <1>2, <2>1, <2>3, <2>4, <3>1
      <4>3. p[j] = s[j]
        BY <1>3, <4>1 DEF p
      <4>4. QED
        BY <3>1, <4>2, <4>3
    <3>2. CASE ~(j < i)
      <4>1. j - (i - 1) \in 1..(Len(s) - i) /\ ~(j <= i - 1)
        BY <1>1, <1>2, <3>2
      <4>2. u[j] = q[j - (i - 1)]
        BY <1>1, <1>2, <2>1, <2>3, <2>4, <4>1
      <4>3. q[j - (i - 1)] = s[i + (j - (i - 1))]
        BY <1>4, <4>1 DEF q
      <4>4. i + (j - (i - 1)) = j + 1
        BY <1>2
      <4>5. QED
        BY <3>2, <4>2, <4>3, <4>4
    <3>3. QED
      BY <3>1, <3>2
  <2>7. QED
    BY <2>5, <2>6
<1>6. QED
  BY <1>5

LEMMA UnlinkedList ==
  ASSUME NEW S, NEW s \in Seq(S), IsInjective(s), NEW n
  PROVE  /\ Unlinked(s, n) \in Seq(S) /\ IsInjective(Unlinked(s, n))
         /\ Thinned(Unlinked(s, n), s)
         /\ Range(Unlinked(s, n)) = Range(s) \ {n}
         /\ n \notin Range(s) => Unlinked(s, n) = s
         /\ s # << >> /\ n # Head(s) => Unlinked(s, n) # << >> /\ Head(Unlinked(s, n)) = Head(s)
<1>0. Len(s) \in Nat /\ DOMAIN s = 1..Len(s)
  OBVIOUS
<1>1. CASE n \notin Range(s)
  <2>1. Unlinked(s, n) = s
    BY <1>1 DEF Unlinked
  <2>2. Thinned(s, s)
    BY DEF Thinned
  <2>3. QED
    BY <1>1, <2>1, <2>2
<1>2. CASE n \in Range(s)
  <2> DEFINE i == CHOOSE j \in DOMAIN s : s[j] = n
             u == RemoveAt(s, i)
             at(j) == IF j < i THEN j ELSE j + 1
  <2>1. i \in DOMAIN s /\ s[i] = n
    BY <1>2 DEF Range
  <2>2. Unlinked(s, n) = u
    BY <1>2 DEF Unlinked
  <2> HIDE DEF i
  <2>3. i \in 1..Len(s)
    BY <1>0, <2>1
  <2>4. /\ u \in Seq(S) /\ Len(u) = Len(s) - 1
        /\ \A j \in 1..(Len(s) - 1) : u[j] = s[at(j)]
    BY <2>3, RemovedAt
  <2> HIDE DEF u
  <2>5. /\ DOMAIN u = 1..(Len(s) - 1)
        /\ \A j \in 1..(Len(s) - 1) : at(j) \in DOMAIN s /\ at(j) # i
        /\ \A j, k \in 1..(Len(s) - 1) : j < k => at(j) < at(k)
    BY <1>0, <2>3, <2>4
  <2>6. ASSUME NEW k \in DOMAIN s, k # i
        PROVE  \E j \in DOMAIN u : at(j) = k
    <3>1. CASE k < i
      <4>1. k \in DOMAIN u /\ at(k) = k
        BY <1>0, <2>3, <2>5, <3>1
      <4>2. QED
        BY <4>1
    <3>2. CASE ~(k < i)
      <4>1. k - 1 \in DOMAIN u /\ at(k - 1) = k
        BY <1>0, <2>3, <2>5, <2>6, <3>2
      <4>2. QED
        BY <4>1
    <3>3. QED
      BY <3>1, <3>2
  <2> HIDE DEF at
  <2>7. IsInjective(u)
    <3>1. ASSUME NEW j \in DOMAIN u, NEW k \in DOMAIN u, u[j] = u[k]
          PROVE  j = k
      <4>1. s[at(j)] = s[at(k)] /\ at(j) \in DOMAIN s /\ at(k) \in DOMAIN s
        BY <2>4, <2>5, <3>1
      <4>2. at(j) = at(k)
        BY <4>1 DEF IsInjective
      <4>3. ~(j < k) /\ ~(k < j)
        BY <1>0, <2>5, <4>1, <4>2
      <4>4. QED
        BY <2>5, <4>3
    <3>2. QED
      BY <3>1 DEF IsInjective
  <2>8. Thinned(u, s)
    BY <2>4, <2>5 DEF Thinned
  <2>9. Range(u) = Range(s) \ {n}
    <3>1. Range(u) \subseteq Range(s) \ {n}
      BY <2>1, <2>4, <2>5 DEF Range, IsInjective
    <3>2. ASSUME NEW e \in Range(s), e # n
          PROVE  e \in Range(u)
      <4>1. PICK k \in DOMAIN s : s[k] = e
        BY DEF Range
      <4>2. PICK j \in DOMAIN u : at(j) = k
        BY <2>1, <2>6, <3>2, <4>1
      <4>3. QED
        BY <2>4, <2>5, <4>1, <4>2 DEF Range
    <3>3. QED
      BY <3>1, <3>2
  <2>10. ASSUME s # << >>, n # Head(s)
         PROVE  u # << >> /\ Head(u) = Head(s)
    <3>1. i > 1 /\ Len(s) > 1 /\ Head(s) = s[1]
      BY <1>0, <2>1, <2>3, <2>10
    <3>2. at(1) = 1 /\ 1 \in 1..(Len(s) - 1)
      BY <1>0, <3>1 DEF at
    <3>3. u[1] = s[1] /\ Len(u) > 0
      BY <1>0, <2>4, <3>1, <3>2
    <3>4. QED
      BY <2>4, <3>1, <3>3
  <2>11. QED
    BY <1>2, <2>2, <2>4, <2>7, <2>8, <2>9, <2>10
<1>3. QED
  BY <1>1, <1>2
-----------------------------------------------------------------------------
(* The types of the model. *)

Places == Busy \union Parsers \union Code \union {"closing", "closed"}
Optional == Nodes \union {None}

\* A call: about a node, if it is one of these; a parser's handle, if it feeds
\* or finishes one.
Frame ==
  {c \in [at : Places, node : Optional \union 0..MaxMoves, place : 0..MaxDepth,
          cur : Optional, point : Optional, was : BOOLEAN] :
     /\ c.at \in Waiters \union {"constructor", "error", "fragment"} => c.node \in Nodes
     /\ c.at \in {"feed", "finish"} => c.node \in 0..MaxMoves}

Stacked(s) == s \in Seq(Frame) /\ Len(s) <= MaxDepth

NodeTypes ==
  /\ kind \in [Nodes -> Kinds \union {"free"}]
  /\ kids \in [0..MaxDepth -> Seq(Nodes)]
  /\ wrote \in [Nodes -> Seq(Nodes)]

ListTypes ==
  /\ st \in [Nodes -> {"idle", "loading", "loaded", "failed"}]
  /\ asyncs \subseteq Nodes
  /\ defers \in Seq(Nodes) /\ readys \in Seq(Nodes)
  /\ queued \in Seq(Nodes) /\ ran \in Seq(Nodes)

FlagTypes ==
  /\ static \in BOOLEAN /\ evaluating \in BOOLEAN
  /\ current \in Optional /\ point \in Optional

Born == {h \in 1..MaxMoves : handles[h] # "unborn"}

HandleTypes ==
  /\ parser \in {None} \union 0..MaxMoves
  /\ handles \in [1..MaxMoves -> {"unborn", "live", "freed"}]
  /\ moves \in 0..MaxMoves
  /\ \E k \in 0..moves : Born = 1..k

TypeInv ==
  Stacked(stack) /\ NodeTypes /\ ListTypes /\ FlagTypes /\ HandleTypes

LEMMA MakeFrame ==
  ASSUME FlagTypes, NEW at \in Places, NEW n \in Optional \union 0..MaxMoves,
         at \in Waiters \union {"constructor", "error", "fragment"} => n \in Nodes,
         at \in {"feed", "finish"} => n \in 0..MaxMoves
  PROVE  /\ Call(at, n) \in Frame
         /\ Call(at, n).at = at /\ Call(at, n).node = n /\ Call(at, n).cur = current
         /\ Call(at, n).point = point /\ Call(at, n).was = evaluating
<1> DEFINE c == Call(at, n)
<1>1. /\ c.at = at /\ c.node = n /\ c.cur = current /\ c.point = point /\ c.was = evaluating
      /\ c \in [at : Places, node : Optional \union 0..MaxMoves, place : 0..MaxDepth,
                cur : Optional, point : Optional, was : BOOLEAN]
  BY BoundsAssumption DEF Call, FlagTypes
<1>2. QED
  BY <1>1 DEF Frame

LEMMA RelabelFrame ==
  ASSUME NEW c \in Frame, NEW at \in Places,
         at \in Waiters \union {"constructor", "error", "fragment"} => c.node \in Nodes,
         at \in {"feed", "finish"} => c.node \in 0..MaxMoves
  PROVE  LET d == [c EXCEPT !.at = at]
         IN  /\ d \in Frame /\ d.at = at /\ d.node = c.node /\ d.cur = c.cur
             /\ d.point = c.point /\ d.was = c.was
  BY DEF Frame

LEMMA FrameFacts ==
  ASSUME NEW c \in Frame
  PROVE  /\ c.at \in Places /\ c.node \in Optional \union 0..MaxMoves
         /\ c.place \in 0..MaxDepth /\ c.cur \in Optional /\ c.point \in Optional
         /\ c.was \in BOOLEAN
         /\ c.at \in Waiters \union {"constructor", "error", "fragment"} => c.node \in Nodes
         /\ c.at \in {"feed", "finish"} => c.node \in 0..MaxMoves
  BY DEF Frame

LEMMA PushFrame ==
  ASSUME NEW s \in Seq(Frame), NEW c \in Frame
  PROVE  /\ Append(s, c) \in Seq(Frame) /\ Len(s) \in Nat
         /\ Len(Append(s, c)) = Len(s) + 1
         /\ \A i \in 1..Len(s) : Append(s, c)[i] = s[i]
         /\ Append(s, c)[Len(s) + 1] = c
  OBVIOUS

LEMMA PopFrame ==
  ASSUME Stacked(stack), stack # << >>
  PROVE  /\ Stacked(Below) /\ Len(stack) \in Nat \ {0} /\ Len(Below) = Len(stack) - 1
         /\ \A i \in 1..(Len(stack) - 1) : Below[i] = stack[i]
         /\ Top = stack[Len(stack)] /\ Top \in Frame
<1>1. stack \in Seq(Frame) /\ Len(stack) \in Nat \ {0} /\ Len(stack) - 1 \in Nat
      /\ Len(stack) - 1 <= Len(stack)
  BY DEF Stacked
<1>2. /\ SubSeq(stack, 1, Len(stack) - 1) \in Seq(Frame)
      /\ Len(SubSeq(stack, 1, Len(stack) - 1)) = Len(stack) - 1
      /\ \A i \in 1..(Len(stack) - 1) : SubSeq(stack, 1, Len(stack) - 1)[i] = stack[i]
  BY ONLY <1>1, PrefixShape
<1>3. QED
  BY <1>1, <1>2, BoundsAssumption DEF Stacked, Below, Top

LEMMA Stacking ==
  ASSUME NEW s, Stacked(s), Len(s) < MaxDepth, NEW c \in Frame
  PROVE  Stacked(Append(s, c))
  BY PushFrame, BoundsAssumption DEF Stacked

StackTypes == Stacked(stack) /\ FlagTypes

LEMMA EvalTypes ==
  ASSUME FlagTypes, UNCHANGED static, NEW s, Stacked(s), Len(s) < MaxDepth,
         NEW n \in Nodes, Eval(s, n)
  PROVE  StackTypes'
<1>1. Call("script", n) \in Frame
  BY MakeFrame DEF Places, Busy, Waiters, Optional
<1>2. Stacked(stack')
  BY <1>1, Stacking DEF Eval
<1>3. FlagTypes'
  BY DEF FlagTypes, Eval, Optional
<1>4. QED
  BY <1>2, <1>3 DEF StackTypes, Stacked, Eval

LEMMA EvaluateTypes ==
  ASSUME FlagTypes, static' \in BOOLEAN, UNCHANGED <<current, point>>,
         NEW s, Stacked(s), Len(s) < MaxDepth, Evaluate(s)
  PROVE  StackTypes'
<1>1. Call("ready", None) \in Frame
  BY MakeFrame DEF Places, Busy, Drains, Waiters, Optional
<1>2. Stacked(stack')
  BY <1>1, Stacking DEF Evaluate
<1>3. FlagTypes'
  BY DEF FlagTypes, Evaluate, Optional
<1>4. QED
  BY <1>2, <1>3 DEF StackTypes, Stacked

LEMMA FlagsKeepTypes ==
  ASSUME FlagTypes, Stacked(stack'), static' \in BOOLEAN, evaluating' \in BOOLEAN,
         current' \in Optional, point' \in Optional
  PROVE  StackTypes'
  BY DEF StackTypes, FlagTypes, Stacked

\* Calls without a node.
LEMMA PlainFrame ==
  ASSUME FlagTypes, NEW at \in {"ready", "event", "task", "parse"}
  PROVE  Call(at, None) \in Frame
  BY MakeFrame DEF Places, Busy, Drains, Waiters, Optional, Code, Parsers

LEMMA CompleteTypes ==
  ASSUME FlagTypes, UNCHANGED <<static, evaluating, current, point>>,
         NEW s, Stacked(s), Len(s) < MaxDepth, DocumentIsComplete(s)
  PROVE  StackTypes'
<1>1. Stacked(stack')
  BY PlainFrame, Stacking DEF DocumentIsComplete
<1>2. QED
  BY <1>1, FlagsKeepTypes DEF FlagTypes

LEMMA AddTypes ==
  ASSUME StackTypes, Room, UNCHANGED static, NEW fromParser \in BOOLEAN, NEW n \in Nodes,
         NEW k, AddFromElement(fromParser, n, k)
  PROVE  StackTypes'
<1>1. CASE Eval(stack, n)
  BY <1>1, EvalTypes DEF StackTypes, Room
<1>2. CASE UNCHANGED <<stack, current, point>> /\ evaluating' \in BOOLEAN
  BY <1>2, FlagsKeepTypes DEF StackTypes, FlagTypes
<1>3. CASE /\ stack' = Append(stack, Call("sync", n)) /\ evaluating' \in BOOLEAN
           /\ UNCHANGED <<current, point>>
  <2>1. Call("sync", n) \in Frame
    BY MakeFrame DEF Places, Busy, Waiters, Optional, StackTypes
  <2>2. Stacked(stack')
    BY <1>3, <2>1, Stacking DEF StackTypes, Room
  <2>3. QED
    BY <1>3, <2>2, FlagsKeepTypes DEF StackTypes, FlagTypes
<1>4. QED
  BY <1>1, <1>2, <1>3 DEF AddFromElement, Add, StackTypes, FlagTypes

\* The innermost call goes on under another name.
LEMMA PhaseTypes ==
  ASSUME Stacked(stack), stack # << >>,
         NEW at \in {"defers", "tail", "event", "closing", "closed"}
  PROVE  /\ Stacked(Phase(at)) /\ Len(Phase(at)) = Len(stack)
         /\ \A i \in 1..(Len(stack) - 1) : Phase(at)[i] = stack[i]
         /\ Phase(at)[Len(stack)] = [Top EXCEPT !.at = at]
         /\ [Top EXCEPT !.at = at] \in Frame /\ [Top EXCEPT !.at = at].at = at
         /\ Phase(at)[Len(stack)].node = Top.node
<1>1. /\ Stacked(Below) /\ Len(stack) \in Nat \ {0} /\ Len(Below) = Len(stack) - 1
      /\ \A i \in 1..(Len(stack) - 1) : Below[i] = stack[i]
      /\ Top \in Frame
  BY PopFrame
<1> DEFINE d == [Top EXCEPT !.at = at]
<1>2. d \in Frame /\ d.at = at /\ d.node = Top.node
  BY <1>1, RelabelFrame DEF Places, Busy, Drains, Waiters, Code, Parsers
<1> HIDE DEF d
<1>3. /\ Append(Below, d) \in Seq(Frame) /\ Len(Append(Below, d)) = Len(stack)
      /\ \A i \in 1..(Len(stack) - 1) : Append(Below, d)[i] = stack[i]
      /\ Append(Below, d)[Len(stack)] = d
  BY <1>1, <1>2, PushFrame DEF Stacked
<1>4. QED
  BY <1>2, <1>3 DEF Phase, d, Stacked

LEMMA LoadingTypes ==
  ASSUME StackTypes, ListTypes, NEW n \in Nodes, DoneCallback(n) \/ ErrorCallback(n)
  PROVE  StackTypes'
<1>1. CASE DoneCallback(n)
  BY <1>1, EvaluateTypes DEF DoneCallback, StackTypes, FlagTypes, Room, flags, doc
<1>2. CASE ErrorCallback(n)
  <2>1. Call("error", n) \in Frame
    BY MakeFrame DEF Places, Code, Optional, StackTypes, Waiters
  <2>2. Stacked(stack')
    BY <1>2, <2>1, Stacking DEF ErrorCallback, StackTypes, Room
  <2>3. QED
    BY <1>2, <2>2, FlagsKeepTypes DEF ErrorCallback, StackTypes, FlagTypes, flags, doc
<1>3. QED
  BY <1>1, <1>2

LEMMA BelowFits ==
  ASSUME Stacked(stack), stack # << >>
  PROVE  /\ Stacked(Below) /\ Len(Below) < MaxDepth /\ Top \in Frame
         /\ Top.was \in BOOLEAN /\ Top.cur \in Optional /\ Top.point \in Optional
  BY PopFrame, FrameFacts, BoundsAssumption DEF Stacked

\* The call of a blocking script once the request for it is over: the script
\* runs, or listeners are told that it failed.
Loaded == [Top EXCEPT !.at = "script", !.point = point]
Refused == [Top EXCEPT !.at = "event"]

LEMMA SyncEnds ==
  ASSUME Stacked(stack), SyncReturns
  PROVE  /\ stack # << >> /\ Top.at = "sync" /\ Top \in Frame
         /\ stack' \in {Append(Below, Loaded), Append(Below, Refused), Below}
         /\ Loaded.at = "script" /\ Loaded.node = Top.node /\ Loaded.cur = Top.cur
         /\ Loaded.point = point /\ (point \in Optional => Loaded \in Frame)
         /\ Refused.at = "event" /\ Refused.node = Top.node /\ Refused.cur = Top.cur
         /\ Refused.point = Top.point /\ Refused \in Frame
<1>1. stack # << >> /\ Top.at = "sync" /\ Top \in Frame
  BY PopFrame DEF SyncReturns, At
<1>2. stack' \in {Append(Below, Loaded), Append(Below, Refused), Below}
  BY DEF SyncReturns, Loaded, Refused
<1>3. /\ Loaded.at = "script" /\ Loaded.node = Top.node /\ Loaded.cur = Top.cur
      /\ Loaded.point = point /\ (point \in Optional => Loaded \in Frame)
  BY <1>1 DEF Loaded, Frame, Places, Busy, Waiters, Code
<1>4. /\ Refused.at = "event" /\ Refused.node = Top.node /\ Refused.cur = Top.cur
      /\ Refused.point = Top.point /\ Refused \in Frame
  BY <1>1 DEF Refused, Frame, Places, Busy, Waiters, Code
<1>5. QED
  BY <1>1, <1>2, <1>3, <1>4

LEMMA WaitingTypes ==
  ASSUME StackTypes,
         ErrorReturns \/ SyncReturns \/ WaitForImport \/ WaitReturns \/ ScriptReturns
  PROVE  StackTypes'
<1>0. /\ stack # << >> /\ FlagTypes /\ Stacked(stack) /\ UNCHANGED static
      /\ Stacked(Below) /\ Len(Below) < MaxDepth /\ Top \in Frame
      /\ Top.was \in BOOLEAN /\ Top.cur \in Optional /\ Top.point \in Optional
  BY BelowFits DEF StackTypes, ErrorReturns, SyncReturns, WaitForImport, WaitReturns,
     ScriptReturns, At, flags
<1>1. CASE ErrorReturns
  BY <1>0, <1>1, EvaluateTypes DEF ErrorReturns, FlagTypes, doc
<1>2. CASE SyncReturns
  <2>1. Top.at = "sync" /\ Top.node \in Nodes
    BY <1>0, <1>2, FrameFacts DEF SyncReturns, At, Waiters
  <2>2. /\ Loaded \in Frame /\ Refused \in Frame
        /\ stack' \in {Append(Below, Loaded), Append(Below, Refused), Below}
    BY <1>0, <1>2, SyncEnds DEF FlagTypes
  <2>4. Stacked(stack')
    BY <1>0, <2>2, Stacking
  <2>5. evaluating' \in BOOLEAN /\ current' \in Optional /\ point' \in Optional
    BY <1>0, <1>2, <2>1 DEF SyncReturns, FlagTypes, Optional
  <2>6. QED
    BY <1>0, <2>4, <2>5, FlagsKeepTypes DEF FlagTypes
<1>3. CASE WaitForImport
  <2>1. Top.node \in Nodes
    BY <1>0, <1>3, FrameFacts DEF WaitForImport, At, Waiters
  <2>2. Call("wait", Top.node) \in Frame
    BY <1>0, <2>1, MakeFrame DEF Places, Busy, Waiters, Optional
  <2>3. Stacked(stack')
    BY <1>0, <1>3, <2>2, Stacking DEF WaitForImport, Room
  <2>4. QED
    BY <1>0, <1>3, <2>3, FlagsKeepTypes DEF WaitForImport, FlagTypes, doc
<1>4. CASE WaitReturns
  BY <1>0, <1>4, FlagsKeepTypes DEF WaitReturns, FlagTypes, doc
<1>5. CASE ScriptReturns
  BY <1>0, <1>5, FlagsKeepTypes DEF ScriptReturns, FlagTypes
<1>6. QED
  BY <1>1, <1>2, <1>3, <1>4, <1>5

LEMMA DrainingTypes ==
  ASSUME StackTypes, ListTypes, RunReady \/ NotYet \/ RunDeferred \/ NoDeferred \/ TailHook
  PROVE  StackTypes'
<1>0. stack # << >> /\ FlagTypes /\ Stacked(stack) /\ UNCHANGED static
  BY DEF StackTypes, RunReady, NotYet, RunDeferred, NoDeferred, TailHook, AtDefers, At, flags
<1>1. /\ Stacked(Below) /\ Len(Below) < MaxDepth
      /\ Stacked(Phase("defers")) /\ Len(Phase("defers")) = Len(stack) /\ Stacked(Phase("tail"))
  BY <1>0, BelowFits, PhaseTypes
<1>2. CASE RunReady
  <2>1. Head(readys) \in Nodes
    BY <1>2 DEF RunReady, ListTypes
  <2>2. QED
    BY <1>0, <1>2, <2>1, EvalTypes DEF RunReady, Room
<1>3. CASE RunDeferred
  <2>1. Head(defers) \in Nodes
    BY <1>3 DEF RunDeferred, ListTypes
  <2>2. QED
    BY <1>0, <1>1, <1>3, <2>1, EvalTypes DEF RunDeferred, Room
<1>4. CASE NotYet \/ NoDeferred
  BY <1>0, <1>1, <1>4, FlagsKeepTypes DEF NotYet, NoDeferred, EvaluateReturns, FlagTypes, doc
<1>5. CASE TailHook
  <2>1. CASE DocumentIsComplete(stack) /\ UNCHANGED evaluating
    BY <1>0, <1>5, <2>1, CompleteTypes DEF TailHook, Room, doc
  <2>2. CASE stack' = Append(stack, Call("event", None)) /\ UNCHANGED evaluating
    <3>1. Stacked(stack')
      BY <1>0, <1>5, <2>2, PlainFrame, Stacking DEF TailHook, Room
    <3>2. QED
      BY <1>0, <1>5, <2>2, <3>1, FlagsKeepTypes DEF TailHook, FlagTypes, doc
  <2>3. CASE EvaluateReturns
    BY <1>0, <1>1, <1>5, <2>3, FlagsKeepTypes DEF TailHook, EvaluateReturns, FlagTypes, doc
  <2>4. QED
    BY <1>5, <2>1, <2>2, <2>3 DEF TailHook
<1>6. QED
  BY <1>2, <1>3, <1>4, <1>5

LEMMA UnlinkedSeq ==
  ASSUME NEW S, NEW s \in Seq(S), NEW n
  PROVE  Unlinked(s, n) \in Seq(S)
<1>1. CASE n \notin Range(s)
  BY <1>1 DEF Unlinked
<1>2. CASE n \in Range(s)
  <2> DEFINE i == CHOOSE j \in DOMAIN s : s[j] = n
  <2>1. i \in DOMAIN s
    BY <1>2 DEF Range
  <2>2. Unlinked(s, n) = RemoveAt(s, i)
    BY <1>2 DEF Unlinked
  <2> HIDE DEF i
  <2>3. i \in 1..Len(s)
    BY <2>1
  <2>4. QED
    BY <2>2, <2>3, RemovedAt
<1>3. QED
  BY <1>1, <1>2

LEMMA ParsingTypes ==
  ASSUME StackTypes,
         \/ \E n \in Nodes : ParserConstructs(n) \/ (\E k \in Kinds : ParserAdds(n, k))
         \/ CodeReturns \/ Task \/ ConstructorReturns \/ ParseReturns
  PROVE  StackTypes'
<1>0. Stacked(stack) /\ FlagTypes
  BY DEF StackTypes
<1>1. ASSUME NEW n \in Nodes, ParserConstructs(n) PROVE StackTypes'
  <2>1. Call("constructor", n) \in Frame
    BY <1>0, MakeFrame DEF Places, Code, Waiters, Optional
  <2>2. Stacked(stack')
    BY <1>0, <1>1, <2>1, Stacking DEF ParserConstructs, Room
  <2>3. QED
    BY <1>0, <1>1, <2>2, FlagsKeepTypes DEF ParserConstructs, FlagTypes, flags
<1>2. ASSUME NEW n \in Nodes, NEW k \in Kinds, ParserAdds(n, k) PROVE StackTypes'
  BY <1>2, AddTypes DEF ParserAdds, flags
<1>3. CASE CodeReturns
  BY <1>0, <1>3, BelowFits, FlagsKeepTypes DEF CodeReturns, At, FlagTypes, flags, doc
<1>4. CASE Task
  <2>1. stack' = Append(stack, Call("task", None)) /\ Len(stack) < MaxDepth
    BY <1>0, <1>4, BoundsAssumption DEF Task
  <2>2. Stacked(stack')
    BY <1>0, <2>1, PlainFrame, Stacking
  <2>3. QED
    BY <1>0, <1>4, <2>2, FlagsKeepTypes DEF Task, FlagTypes, flags, doc
<1>5. CASE ConstructorReturns
  BY <1>0, <1>5, BelowFits, FlagsKeepTypes DEF ConstructorReturns, At, FlagTypes, flags
<1>6. CASE ParseReturns
  BY <1>0, <1>6, BelowFits, EvaluateTypes DEF ParseReturns, At, doc
<1>7. QED
  BY <1>1, <1>2, <1>3, <1>4, <1>5, <1>6

\* document.open makes the next of the handles.
LEMMA OpenedHandle ==
  ASSUME HandleTypes, Opened
  PROVE  /\ parser' \in 1..MaxMoves /\ handles[parser'] = "unborn"
         /\ HandleTypes'
<1>1. PICK k \in 0..moves : Born = 1..k
  BY DEF HandleTypes
<1>2. {h \in DOMAIN handles : handles[h] # "unborn"} = 1..k /\ moves < MaxMoves
  BY <1>1 DEF HandleTypes, Born, Opened
<1>3. Cardinality(1..k) = k
  BY FS_Interval DEF HandleTypes
<1>4. parser' = k + 1 /\ moves' = moves + 1
  BY <1>2, <1>3 DEF Opened
<1>5. k \in Nat /\ moves \in Nat /\ k <= moves /\ MaxMoves \in Nat /\ k + 1 \in 1..MaxMoves
  BY <1>2, BoundsAssumption DEF HandleTypes
<1>6. handles[k + 1] = "unborn"
  BY <1>2, <1>5 DEF HandleTypes
<1>7. handles' = [handles EXCEPT ![k + 1] = "live"]
  BY <1>4 DEF Opened
<1>8. Born' = 1..(k + 1)
  BY <1>1, <1>5, <1>7 DEF HandleTypes, Born
<1>9. k + 1 \in 0..moves' /\ moves' \in 0..MaxMoves
  BY <1>2, <1>4, <1>5
<1>10. handles' \in [1..MaxMoves -> {"unborn", "live", "freed"}]
  BY <1>7 DEF HandleTypes
<1>11. QED
  BY <1>4, <1>5, <1>6, <1>8, <1>9, <1>10 DEF HandleTypes

\* A handle is freed, or nothing happens to any.
LEMMA FreedHandle ==
  ASSUME HandleTypes, NEW h, handles' = [handles EXCEPT ![h] = "freed"],
         h \in 1..MaxMoves => handles[h] # "unborn", parser' \in {None} \union 0..MaxMoves,
         UNCHANGED moves
  PROVE  HandleTypes'
<1>1. Born' = Born
  BY DEF HandleTypes, Born
<1>2. QED
  BY <1>1 DEF HandleTypes

LEMMA KeptHandles ==
  ASSUME HandleTypes, UNCHANGED handles, parser' \in {None} \union 0..MaxMoves,
         moves' \in moves..MaxMoves
  PROVE  HandleTypes'
<1>1. Born' = Born
  BY DEF Born
<1>2. \A k \in 0..moves : k \in 0..moves'
  BY DEF HandleTypes
<1>3. QED
  BY <1>1, <1>2, BoundsAssumption DEF HandleTypes

LEMMA WritingTypes ==
  ASSUME StackTypes, NodeTypes, HandleTypes,
         \/ Open \/ WriteToParser \/ FeedReturns \/ FeedPanics \/ WriteInline
         \/ FragmentReturns \/ Close \/ FinishReturns \/ CloseCompletes \/ CloseReturns
         \/ \E n \in Nodes : ScriptRemoves(n) \/ (\E k \in Kinds : ScriptInserts(n, k))
  PROVE  StackTypes'
<1>0. Stacked(stack) /\ FlagTypes
  BY DEF StackTypes
<1>1. CASE Open
  BY <1>0, <1>1, FlagsKeepTypes DEF Open, FlagTypes, Stacked, flags, doc
<1>2. CASE WriteToParser
  <2>1. parser' \in 0..MaxMoves
    BY <1>2, OpenedHandle DEF WriteToParser, HandleTypes
  <2>2. Call("feed", parser') \in Frame
    BY <1>0, <2>1, MakeFrame DEF Places, Parsers, Waiters
  <2>3. Stacked(stack')
    BY <1>0, <1>2, <2>2, Stacking DEF WriteToParser, Calls, Room
  <2>4. QED
    BY <1>0, <1>2, <2>3, FlagsKeepTypes DEF WriteToParser, FlagTypes, flags, doc
<1>3. CASE FeedReturns \/ FeedPanics
  BY <1>0, <1>3, BelowFits, FlagsKeepTypes DEF FeedReturns, FeedPanics, At, FlagTypes, flags, doc
<1>4. CASE WriteInline
  <2>1. PICK p \in Homes(current) :
          stack' = Append(stack, [Call("fragment", current) EXCEPT !.place = p])
    BY <1>4 DEF WriteInline
  <2>2. p \in 0..MaxDepth /\ current \in Nodes
    BY <1>0, <1>4, <2>1 DEF NodeTypes, Homes, WriteInline, FlagTypes, Optional
  <2> DEFINE b == Call("fragment", current)
             c == [b EXCEPT !.place = p]
  <2>3. b \in Frame /\ b.at = "fragment" /\ b.node = current
    BY <1>0, <2>2, MakeFrame DEF Places, Parsers, Waiters, Optional
  <2> HIDE DEF b
  <2>4. c \in Frame
    BY <2>2, <2>3 DEF Frame
  <2> HIDE DEF c
  <2>5. stack' = Append(stack, c)
    BY <2>1 DEF b, c
  <2>6. Stacked(stack')
    BY <1>0, <1>4, <2>4, <2>5, Stacking DEF WriteInline, Calls, Room
  <2>7. QED
    BY <1>0, <1>4, <2>6, FlagsKeepTypes DEF WriteInline, FlagTypes, flags, doc
<1>5. CASE FragmentReturns
  <2>1. Len(stack) \in 0..MaxDepth /\ stack # << >>
    BY <1>0, <1>5, BoundsAssumption DEF FragmentReturns, At, Stacked
  <2>2. kids[Len(stack)] \in Seq(Nodes)
    BY <2>1 DEF NodeTypes
  <2>3. kids[Len(stack)] # << >> => Last(kids[Len(stack)]) \in Nodes
    BY <2>2 DEF Last
  <2>4. point' \in Optional
    BY <1>0, <1>5, <2>3 DEF FragmentReturns, FlagTypes, Optional
  <2>5. QED
    BY <1>0, <1>5, <2>1, <2>4, BelowFits, FlagsKeepTypes DEF FragmentReturns, FlagTypes, flags
<1>6. CASE Close
  <2>1. parser \in 0..MaxMoves
    BY <1>6 DEF Close, HandleTypes
  <2>2. Call("finish", parser) \in Frame
    BY <1>0, <2>1, MakeFrame DEF Places, Parsers, Waiters
  <2>3. Stacked(stack')
    BY <1>0, <1>6, <2>2, Stacking DEF Close, Calls, Room
  <2>4. QED
    BY <1>0, <1>6, <2>3, FlagsKeepTypes DEF Close, FlagTypes, flags, doc
<1>7. CASE FinishReturns
  BY <1>0, <1>7, PhaseTypes, EvaluateTypes DEF FinishReturns, At, Room, doc
<1>8. CASE CloseCompletes
  BY <1>0, <1>8, PhaseTypes, CompleteTypes DEF CloseCompletes, At, Room, doc
<1>9. CASE CloseReturns
  BY <1>0, <1>9, BelowFits, FlagsKeepTypes DEF CloseReturns, At, FlagTypes, flags, doc
<1>10. ASSUME NEW n \in Nodes, ScriptRemoves(n) PROVE StackTypes'
  BY <1>0, <1>10, FlagsKeepTypes DEF ScriptRemoves, FlagTypes, Stacked, flags, doc
<1>11. ASSUME NEW n \in Nodes, NEW k \in Kinds, ScriptInserts(n, k) PROVE StackTypes'
  BY <1>11, AddTypes DEF ScriptInserts, flags
<1>12. QED
  BY <1>1, <1>2, <1>3, <1>4, <1>5, <1>6, <1>7, <1>8, <1>9, <1>10, <1>11

LEMMA StackTypesStep ==
  ASSUME TypeInv, [Next]_vars
  PROVE  StackTypes'
<1>0. StackTypes /\ NodeTypes /\ ListTypes /\ HandleTypes
  BY DEF TypeInv, StackTypes
<1>1. CASE UNCHANGED vars
  BY <1>0, <1>1 DEF vars, StackTypes, Stacked, FlagTypes, flags, doc
<1>2. CASE Next
  BY <1>0, <1>2, LoadingTypes, WaitingTypes, DrainingTypes, ParsingTypes, WritingTypes DEF Next
<1>3. QED
  BY <1>1, <1>2
-----------------------------------------------------------------------------
(* Calls that a step leaves alone. *)

\* The calls of the sorts L are the same ones in s and t.
Kept(s, t, L) ==
  /\ \A i \in 1..Len(s) : s[i].at \in L => i \in 1..Len(t) /\ t[i] = s[i]
  /\ \A i \in 1..Len(t) : t[i].at \in L => i \in 1..Len(s) /\ s[i] = t[i]

LEMMA KeptSame ==
  ASSUME NEW s, NEW L
  PROVE  Kept(s, s, L)
  BY DEF Kept

LEMMA KeptTrans ==
  ASSUME NEW s, NEW t, NEW u, NEW L, Kept(s, t, L), Kept(t, u, L)
  PROVE  Kept(s, u, L)
  BY DEF Kept

LEMMA KeptPush ==
  ASSUME NEW s \in Seq(Frame), NEW c, NEW L, c.at \notin L
  PROVE  Kept(s, Append(s, c), L)
<1>1. s \in Seq(Frame \union {c}) /\ c \in Frame \union {c}
  OBVIOUS
<1> DEFINE t == Append(s, c)
<1>2. /\ Len(s) \in Nat /\ Len(t) = Len(s) + 1
      /\ \A i \in 1..Len(s) : t[i] = s[i]
      /\ t[Len(s) + 1] = c
  BY <1>1
<1> HIDE DEF t
<1>3. Kept(s, t, L)
  BY <1>2 DEF Kept
<1>4. QED
  BY <1>3 DEF t

LEMMA KeptPop ==
  ASSUME Stacked(stack), stack # << >>, NEW L, Top.at \notin L
  PROVE  Kept(stack, Below, L)
  BY PopFrame DEF Kept

LEMMA KeptPhase ==
  ASSUME Stacked(stack), stack # << >>, NEW L, Top.at \notin L,
         NEW at \in {"defers", "tail", "event", "closing", "closed"}, at \notin L
  PROVE  Kept(stack, Phase(at), L)
<1>1. Kept(stack, Below, L) /\ Stacked(Below)
  BY KeptPop, PopFrame
<1>2. [Top EXCEPT !.at = at].at = at
  BY PhaseTypes
<1>3. Kept(Below, Phase(at), L)
  BY <1>1, <1>2, KeptPush DEF Phase, Stacked
<1>4. QED
  BY <1>1, <1>3, KeptTrans

LEMMA CallFacts ==
  ASSUME NEW at, NEW n
  PROVE  /\ Call(at, n).at = at /\ Call(at, n).node = n /\ Call(at, n).place = 0
         /\ Call(at, n).cur = current /\ Call(at, n).point = point
         /\ Call(at, n).was = evaluating
  BY DEF Call

LEMMA EvalKept ==
  ASSUME NEW s, Stacked(s), NEW L, "script" \notin L, NEW n, Eval(s, n)
  PROVE  Kept(s, stack', L)
  BY CallFacts, KeptPush DEF Eval, Stacked

LEMMA EvaluateKept ==
  ASSUME NEW s, Stacked(s), NEW L, "ready" \notin L, Evaluate(s)
  PROVE  Kept(s, stack', L)
<1>1. Kept(s, Append(s, Call("ready", None)), L)
  BY CallFacts, KeptPush DEF Stacked
<1>2. QED
  BY <1>1, KeptSame DEF Evaluate

LEMMA CompleteKept ==
  ASSUME NEW s, Stacked(s), NEW L, "event" \notin L, DocumentIsComplete(s)
  PROVE  Kept(s, stack', L)
<1>1. Kept(s, Append(s, Call("event", None)), L)
  BY CallFacts, KeptPush DEF Stacked
<1>2. QED
  BY <1>1, KeptSame DEF DocumentIsComplete

LEMMA AddKept ==
  ASSUME Stacked(stack), NEW L, "script" \notin L,
         NEW fromParser, NEW n, NEW k, AddFromElement(fromParser, n, k),
         "sync" \in L => ~(k = "src" /\ fromParser)
  PROVE  Kept(stack, stack', L)
<1>1. "sync" \notin L => Kept(stack, Append(stack, Call("sync", n)), L)
  BY CallFacts, KeptPush DEF Stacked
<1>2. QED
  BY <1>1, KeptSame, EvalKept DEF AddFromElement, Add

LEMMA CallKept ==
  ASSUME Stacked(stack), NEW L, NEW at, at \notin L, NEW n,
         stack' = Append(stack, Call(at, n))
  PROVE  Kept(stack, stack', L)
  BY CallFacts, KeptPush DEF Stacked

\* What runs and loads scripts leaves the calls of document.write, open and
\* close alone, and the constructors.
RunsScripts ==
  \/ \E n \in Nodes : \/ DoneCallback(n) \/ ErrorCallback(n) \/ ScriptRemoves(n)
                      \/ \E k \in Kinds : ParserAdds(n, k) \/ ScriptInserts(n, k)
  \/ ErrorReturns \/ SyncReturns \/ WaitForImport \/ WaitReturns \/ ScriptReturns
  \/ RunReady \/ NotYet \/ RunDeferred \/ NoDeferred \/ TailHook
  \/ CodeReturns \/ Task \/ ParseReturns

LEMMA RunsScriptsKeeps ==
  ASSUME Stacked(stack), RunsScripts,
         NEW L, L \intersect {"ready", "script", "wait", "parse", "event", "error",
                              "task", "defers"} = {},
         "sync" \in L => ~SyncReturns /\ \A n \in Nodes : ~ParserAdds(n, "src"),
         "tail" \in L => ~NoDeferred /\ ~TailHook
  PROVE  Kept(stack, stack', L)
<1>1. \A at \in {"ready", "script", "wait", "parse", "event", "error", "task", "defers"} :
        at \notin L
  OBVIOUS
<1>2. stack # << >> /\ Top.at \notin L => Stacked(Below) /\ Kept(stack, Below, L)
  BY PopFrame, KeptPop
<1>3. ASSUME NEW n \in Nodes, DoneCallback(n) PROVE Kept(stack, stack', L)
  BY <1>1, <1>3, EvaluateKept DEF DoneCallback
<1>4. ASSUME NEW n \in Nodes, ErrorCallback(n) PROVE Kept(stack, stack', L)
  BY <1>1, <1>4, CallKept DEF ErrorCallback
<1>5. ASSUME NEW n \in Nodes, ScriptRemoves(n) PROVE Kept(stack, stack', L)
  BY <1>5, KeptSame DEF ScriptRemoves
<1>6. ASSUME NEW n \in Nodes, NEW k \in Kinds, ParserAdds(n, k) \/ ScriptInserts(n, k)
      PROVE  Kept(stack, stack', L)
  BY <1>1, <1>6, AddKept DEF ParserAdds, ScriptInserts
<1>7. CASE ErrorReturns \/ ParseReturns
  <2>1. stack # << >> /\ Top.at \notin L /\ Evaluate(Below)
    BY <1>1, <1>7 DEF ErrorReturns, ParseReturns, At
  <2>2. Kept(Below, stack', L)
    BY <1>1, <1>2, <2>1, EvaluateKept
  <2>3. QED
    BY <1>2, <2>1, <2>2, KeptTrans
<1>8. CASE SyncReturns
  <2>1. stack # << >> /\ Top.at \notin L
    BY <1>1, <1>8 DEF SyncReturns, At
  <2>2. CASE stack' = Below
    BY <1>2, <2>1, <2>2
  <2>3. ASSUME NEW c, c.at \in {"script", "event"}, stack' = Append(Below, c)
        PROVE  Kept(stack, stack', L)
    <3>1. Kept(Below, stack', L)
      BY <1>1, <1>2, <2>1, <2>3, KeptPush DEF Stacked
    <3>2. QED
      BY <1>2, <2>1, <3>1, KeptTrans
  <2>4. QED
    BY <1>1, <1>8, <2>2, <2>3, SyncEnds
<1>9. CASE WaitForImport
  BY <1>1, <1>9, CallKept DEF WaitForImport
<1>10. CASE WaitReturns \/ ScriptReturns \/ NotYet \/ CodeReturns
  <2>1. stack # << >> /\ Top.at \notin L /\ stack' = Below
    BY <1>1, <1>10 DEF WaitReturns, ScriptReturns, NotYet, CodeReturns, EvaluateReturns, At
  <2>2. QED
    BY <1>2, <2>1
<1>11. CASE RunReady
  BY <1>1, <1>11, EvalKept DEF RunReady
<1>12. AtDefers => stack # << >> /\ Top.at \notin L
  BY <1>1 DEF AtDefers, At
<1>13. CASE RunDeferred
  <2>1. Kept(stack, Phase("defers"), L) /\ Stacked(Phase("defers"))
    BY <1>1, <1>12, <1>13, KeptPhase, PhaseTypes DEF RunDeferred
  <2>2. Kept(Phase("defers"), stack', L)
    BY <1>1, <1>13, <2>1, EvalKept DEF RunDeferred
  <2>3. QED
    BY <2>1, <2>2, KeptTrans
<1>14. CASE NoDeferred
  <2>1. Kept(stack, Phase("tail"), L) /\ Kept(stack, Below, L)
    BY <1>1, <1>2, <1>12, <1>14, KeptPhase DEF NoDeferred
  <2>2. QED
    BY <1>14, <2>1 DEF NoDeferred, EvaluateReturns
<1>15. CASE TailHook
  <2>1. stack # << >> /\ Top.at \notin L
    BY <1>1, <1>15 DEF TailHook, At
  <2>2. CASE stack' = Append(stack, Call("event", None))
    BY <1>1, <2>2, CallKept
  <2>3. CASE DocumentIsComplete(stack)
    BY <1>1, <2>3, CompleteKept
  <2>4. CASE stack' = Below
    BY <1>2, <2>1, <2>4
  <2>5. QED
    BY <1>15, <2>2, <2>3, <2>4 DEF TailHook, EvaluateReturns
<1>16. CASE Task
  BY <1>1, <1>16, CallKept DEF Task
<1>17. QED
  BY <1>3, <1>4, <1>5, <1>6, <1>7, <1>8, <1>9, <1>10, <1>11, <1>13, <1>14, <1>15, <1>16
  DEF RunsScripts

\* What opens and closes documents, and the constructors of custom elements,
\* leave scripts alone and what is written in the page's parse.
Opening ==
  \/ Open \/ WriteToParser \/ FeedReturns \/ FeedPanics
  \/ Close \/ FinishReturns \/ CloseCompletes \/ CloseReturns
Constructing == (\E n \in Nodes : ParserConstructs(n)) \/ ConstructorReturns

LEMMA OpeningKeeps ==
  ASSUME Stacked(stack), Opening,
         NEW L, L \intersect {"feed", "finish", "closing", "closed", "ready", "event"} = {}
  PROVE  Kept(stack, stack', L)
<1>1. \A at \in {"feed", "finish", "closing", "closed", "ready", "event"} : at \notin L
  OBVIOUS
<1>2. CASE Open
  BY <1>2, KeptSame DEF Open
<1>3. CASE WriteToParser
  BY <1>1, <1>3, CallKept DEF WriteToParser
<1>4. CASE FeedReturns \/ FeedPanics \/ CloseReturns
  BY <1>1, <1>4, KeptPop DEF FeedReturns, FeedPanics, CloseReturns, At
<1>5. CASE Close
  BY <1>1, <1>5, CallKept DEF Close
<1>6. CASE FinishReturns
  <2>1. stack # << >> /\ Top.at \notin L /\ Evaluate(Phase("closing"))
    BY <1>1, <1>6 DEF FinishReturns, At
  <2>2. Kept(stack, Phase("closing"), L) /\ Stacked(Phase("closing"))
    BY <1>1, <2>1, KeptPhase, PhaseTypes
  <2>3. Kept(Phase("closing"), stack', L)
    BY <1>1, <2>1, <2>2, EvaluateKept
  <2>4. QED
    BY <2>2, <2>3, KeptTrans
<1>7. CASE CloseCompletes
  <2>1. stack # << >> /\ Top.at \notin L /\ DocumentIsComplete(Phase("closed"))
    BY <1>1, <1>7 DEF CloseCompletes, At
  <2>2. Kept(stack, Phase("closed"), L) /\ Stacked(Phase("closed"))
    BY <1>1, <2>1, KeptPhase, PhaseTypes
  <2>3. Kept(Phase("closed"), stack', L)
    BY <1>1, <2>1, <2>2, CompleteKept
  <2>4. QED
    BY <2>2, <2>3, KeptTrans
<1>8. QED
  BY <1>2, <1>3, <1>4, <1>5, <1>6, <1>7 DEF Opening

LEMMA ConstructingKeeps ==
  ASSUME Stacked(stack), Constructing, NEW L, "constructor" \notin L
  PROVE  Kept(stack, stack', L)
<1>1. ASSUME NEW n \in Nodes, ParserConstructs(n) PROVE Kept(stack, stack', L)
  BY <1>1, CallKept DEF ParserConstructs
<1>2. CASE ConstructorReturns
  BY <1>2, KeptPop DEF ConstructorReturns, At
<1>3. QED
  BY <1>1, <1>2 DEF Constructing

LEMMA InliningKeeps ==
  ASSUME Stacked(stack), WriteInline \/ FragmentReturns, NEW L, "fragment" \notin L
  PROVE  Kept(stack, stack', L)
<1>1. CASE WriteInline
  <2>1. PICK p : stack' = Append(stack, [Call("fragment", current) EXCEPT !.place = p])
    BY <1>1 DEF WriteInline
  <2> DEFINE c == [Call("fragment", current) EXCEPT !.place = p]
  <2>2. c.at = "fragment"
    BY DEF Call
  <2> HIDE DEF c
  <2>3. stack' = Append(stack, c)
    BY <2>1 DEF c
  <2>4. QED
    BY <2>2, <2>3, KeptPush DEF Stacked
<1>2. CASE FragmentReturns
  BY <1>2, KeptPop DEF FragmentReturns, At
<1>3. QED
  BY <1>1, <1>2

LEMMA StepsAre ==
  ASSUME Next
  PROVE  RunsScripts \/ Opening \/ Constructing \/ WriteInline \/ FragmentReturns
  BY DEF Next, RunsScripts, Opening, Constructing
-----------------------------------------------------------------------------
(* The rest of the types.  A fragment has nodes only while it is parsed, and *)
(* is put into the document or a fragment below it.                          *)

Housed(s, k) ==
  /\ \A i \in 1..Len(s) : s[i].at = "fragment" => s[i].place < i
  /\ \A p \in 1..MaxDepth : k[p] # << >> => p \in 1..Len(s) /\ s[p].at = "fragment"

LEMMA KeptHoused ==
  ASSUME NEW s, NEW t, Kept(s, t, {"fragment"}), NEW k, NEW m, Housed(s, k),
         \A p \in 1..MaxDepth :
           m[p] # << >> => k[p] # << >> \/ (p \in 1..Len(s) /\ s[p].at = "fragment")
  PROVE  Housed(t, m)
  BY DEF Kept, Housed

LEMMA JoinedList ==
  ASSUME NEW S, NEW r \in Seq(S), NEW q \in Seq(S)
  PROVE  /\ r \o q \in Seq(S) /\ Len(r \o q) = Len(r) + Len(q)
         /\ \A j \in 1..Len(r) : (r \o q)[j] = r[j]
         /\ \A j \in 1..Len(q) : (r \o q)[Len(r) + j] = q[j]
  OBVIOUS

\* The list t is s with the nodes new behind its i-th, n.
Inserted(t, s, i, n, new) ==
  /\ i \in 1..Len(s) /\ s[i] = n /\ Len(t) = Len(s) + Len(new)
  /\ \A j \in 1..i : t[j] = s[j]
  /\ \A j \in 1..Len(new) : t[i + j] = new[j]
  /\ \A j \in (i + 1)..Len(s) : t[j + Len(new)] = s[j]

LEMMA InsertedList ==
  ASSUME NEW S, NEW s \in Seq(S), NEW n \in Range(s), NEW new \in Seq(S)
  PROVE  /\ InsertedBehind(s, n, new) \in Seq(S)
         /\ Inserted(InsertedBehind(s, n, new), s, CHOOSE j \in DOMAIN s : s[j] = n, n, new)
<1> DEFINE i == CHOOSE j \in DOMAIN s : s[j] = n
           p == SubSeq(s, 1, i)
           q == SubSeq(s, i + 1, Len(s))
           t == InsertedBehind(s, n, new)
<1>1. i \in DOMAIN s /\ s[i] = n
  BY DEF Range
<1>2. t = p \o new \o q
  BY DEF InsertedBehind
<1> HIDE DEF i, t
<1>3. i \in 1..Len(s) /\ Len(s) \in Nat /\ i \in Nat /\ i <= Len(s) /\ Len(new) \in Nat
  BY <1>1
<1>4. p \in Seq(S) /\ Len(p) = i /\ \A j \in 1..i : p[j] = s[j]
  BY <1>3, PrefixShape
<1>5. q \in Seq(S) /\ Len(q) = Len(s) - i /\ \A j \in 1..(Len(s) - i) : q[j] = s[i + j]
  <2>1. i + 1 \in Int /\ Len(s) \in Int /\ \A j \in (i + 1)..Len(s) : s[j] \in S
    BY <1>3
  <2>2. /\ q \in Seq(S)
        /\ Len(q) = (IF i + 1 <= Len(s) THEN Len(s) - (i + 1) + 1 ELSE 0)
        /\ \A j \in 1..(Len(s) - (i + 1) + 1) : q[j] = s[i + 1 + j - 1]
    BY ONLY <2>1, SubSeqProperties
  <2>3. Len(q) = Len(s) - i
    BY <1>3, <2>2
  <2>4. ASSUME NEW j \in 1..(Len(s) - i)
        PROVE  q[j] = s[i + j]
    <3>1. j \in 1..(Len(s) - (i + 1) + 1) /\ i + 1 + j - 1 = i + j
      BY <1>3
    <3>2. QED
      BY <2>2, <3>1
  <2>5. QED
    BY <2>2, <2>3, <2>4
<1> HIDE DEF p, q
<1>6. /\ p \o new \in Seq(S) /\ Len(p \o new) = i + Len(new)
      /\ \A j \in 1..i : (p \o new)[j] = p[j]
      /\ \A j \in 1..Len(new) : (p \o new)[i + j] = new[j]
  BY <1>3, <1>4
<1> DEFINE r == p \o new
<1>7. t = r \o q /\ Len(r) = i + Len(new) /\ r \in Seq(S)
  BY <1>2, <1>6
<1> HIDE DEF r
<1>8. /\ r \o q \in Seq(S) /\ Len(r \o q) = Len(r) + Len(q)
      /\ \A j \in 1..Len(r) : (r \o q)[j] = r[j]
      /\ \A j \in 1..Len(q) : (r \o q)[Len(r) + j] = q[j]
  <2>1. r \in Seq(S) /\ q \in Seq(S)
    BY <1>5, <1>7
  <2>2. QED
    BY ONLY <2>1, JoinedList
<1>9. Len(t) = Len(s) + Len(new)
  <2>1. Len(t) = (i + Len(new)) + (Len(s) - i)
    BY <1>5, <1>7, <1>8
  <2>2. QED
    BY <1>3, <2>1
<1>10. \A j \in 1..i : t[j] = s[j]
  <2>1. \A j \in 1..i : j \in 1..Len(r)
    BY <1>3, <1>7, <1>8
  <2>2. QED
    BY <1>4, <1>6, <1>7, <1>8, <2>1 DEF r
<1>11. \A j \in 1..Len(new) : t[i + j] = new[j]
  <2>1. \A j \in 1..Len(new) : i + j \in 1..Len(r)
    BY <1>3, <1>7, <1>8
  <2>2. QED
    BY <1>6, <1>7, <1>8, <2>1 DEF r
<1>12. ASSUME NEW j \in (i + 1)..Len(s)
       PROVE  t[j + Len(new)] = s[j]
  <2>1. j - i \in 1..(Len(s) - i) /\ i + (j - i) = j /\ Len(r) + (j - i) = j + Len(new)
    BY <1>3, <1>7, <1>8
  <2>2. q[j - i] = s[j] /\ t[j + Len(new)] = q[j - i]
    BY <1>5, <1>7, <1>8, <2>1
  <2>3. QED
    BY <2>2
<1>13. Inserted(t, s, i, n, new)
  BY <1>1, <1>3, <1>9, <1>10, <1>11, <1>12 DEF Inserted
<1>14. QED
  BY <1>7, <1>8, <1>13 DEF t, i

LEMMA Withdrawn ==
  ASSUME NodeTypes, NEW n
  PROVE  /\ Without(n) \in [0..MaxDepth -> Seq(Nodes)]
         /\ \A p \in 0..MaxDepth :
              /\ Without(n)[p] = Unlinked(kids[p], n)
              /\ kids[p] = << >> => Without(n)[p] = << >>
<1>1. DOMAIN kids = 0..MaxDepth /\ \A p \in 0..MaxDepth : kids[p] \in Seq(Nodes)
  BY DEF NodeTypes
<1>2. \A p \in 0..MaxDepth : Unlinked(kids[p], n) \in Seq(Nodes)
  BY <1>1, UnlinkedSeq
<1>3. Range(<< >>) = {}
  BY DEF Range
<1>4. Unlinked(<< >>, n) = << >>
  BY <1>3 DEF Unlinked
<1>5. QED
  BY <1>1, <1>2, <1>4 DEF Without

LEMMA PutAtEnd ==
  ASSUME NodeTypes, NEW n \in Nodes, NEW p \in 0..MaxDepth
  PROVE  /\ AtEndOf(p, n) \in [0..MaxDepth -> Seq(Nodes)]
         /\ AtEndOf(p, n)[p] = Append(Without(n)[p], n)
         /\ \A q \in 0..MaxDepth : q # p => AtEndOf(p, n)[q] = Without(n)[q]
<1>1. Without(n) \in [0..MaxDepth -> Seq(Nodes)]
  BY Withdrawn
<1>2. Append(Without(n)[p], n) \in Seq(Nodes)
  BY <1>1, AppendList
<1>3. QED
  BY <1>1, <1>2 DEF AtEndOf

LEMMA PlaceOf ==
  ASSUME NEW s, Stacked(s)
  PROVE  /\ ParserPlace(s) \in 0..MaxDepth
         /\ ParserPlace(s) # 0 =>
              ParserPlace(s) \in 1..Len(s) /\ s[ParserPlace(s)].at = "fragment"
<1>1. Len(s) \in Nat /\ Len(s) <= MaxDepth
  BY DEF Stacked
<1>2. QED
  BY <1>1, BoundsAssumption DEF ParserPlace, Last

\* A node at the end of the document or of the fragment that is parsed.
LEMMA PutIsHoused ==
  ASSUME NodeTypes, NEW s, NEW t, Kept(s, t, {"fragment"}), Housed(s, kids),
         NEW n \in Nodes, NEW p \in 0..MaxDepth,
         p # 0 => p \in 1..Len(s) /\ s[p].at = "fragment",
         kids' = AtEndOf(p, n), kind' \in [Nodes -> Kinds \union {"free"}], UNCHANGED wrote
  PROVE  NodeTypes' /\ Housed(t, kids')
<1>1. /\ kids' \in [0..MaxDepth -> Seq(Nodes)]
      /\ \A q \in 0..MaxDepth : q # p /\ kids[q] = << >> => kids'[q] = << >>
  BY PutAtEnd, Withdrawn
<1>2. NodeTypes'
  BY <1>1 DEF NodeTypes
<1>3. \A q \in 1..MaxDepth :
        kids'[q] # << >> => kids[q] # << >> \/ (q \in 1..Len(s) /\ s[q].at = "fragment")
  BY <1>1, BoundsAssumption
<1>4. Housed(t, kids')
  BY <1>3, KeptHoused
<1>5. QED
  BY <1>2, <1>4

\* The document is emptied, or nothing happens to it.
LEMMA EmptiedIsHoused ==
  ASSUME NodeTypes, NEW t, Kept(stack, t, {"fragment"}), Housed(stack, kids),
         kids' \in [0..MaxDepth -> Seq(Nodes)],
         \A q \in 0..MaxDepth : kids[q] = << >> => kids'[q] = << >>,
         UNCHANGED <<kind, wrote>>
  PROVE  NodeTypes' /\ Housed(t, kids')
<1>1. NodeTypes'
  BY DEF NodeTypes
<1>2. \A q \in 1..MaxDepth :
        kids'[q] # << >> => kids[q] # << >> \/ (q \in 1..Len(stack) /\ stack[q].at = "fragment")
  BY BoundsAssumption
<1>3. Housed(t, kids')
  BY <1>2, KeptHoused
<1>4. QED
  BY <1>1, <1>3

LEMMA ScriptsHoused ==
  ASSUME Stacked(stack), NodeTypes, Housed(stack, kids), RunsScripts
  PROVE  NodeTypes' /\ Housed(stack', kids')
<1>0. Kept(stack, stack', {"fragment"})
  BY RunsScriptsKeeps
<1>1. CASE UNCHANGED <<kids, kind, wrote>>
  <2>1. kids' \in [0..MaxDepth -> Seq(Nodes)]
    BY <1>1 DEF NodeTypes
  <2>2. QED
    BY <1>0, <1>1, <2>1, EmptiedIsHoused
<1>2. ASSUME NEW n \in Nodes, ScriptRemoves(n) PROVE NodeTypes' /\ Housed(stack', kids')
  <2>1. kids' = Without(n) /\ UNCHANGED <<kind, wrote>>
    BY <1>2 DEF ScriptRemoves
  <2>2. kids' \in [0..MaxDepth -> Seq(Nodes)]
    BY <2>1, Withdrawn
  <2>3. \A q \in 0..MaxDepth : kids[q] = << >> => kids'[q] = << >>
    BY <2>1, Withdrawn
  <2>4. QED
    BY <1>0, <2>1, <2>2, <2>3, EmptiedIsHoused
<1>3. ASSUME NEW n \in Nodes, NEW k \in Kinds, ParserAdds(n, k) \/ ScriptInserts(n, k)
      PROVE  NodeTypes' /\ Housed(stack', kids')
  <2>1. kind' \in [Nodes -> Kinds \union {"free"}] /\ UNCHANGED wrote
    BY <1>3 DEF ParserAdds, ScriptInserts, NodeTypes
  <2> DEFINE p == IF ParserAdds(n, k) THEN ParserPlace(stack) ELSE 0
  <2>2. /\ p \in 0..MaxDepth
        /\ p # 0 => p \in 1..Len(stack) /\ stack[p].at = "fragment"
    BY PlaceOf, BoundsAssumption
  <2>3. kids' = AtEndOf(p, n)
    BY <1>3 DEF ParserAdds, ScriptInserts
  <2> HIDE DEF p
  <2>4. QED
    BY <1>0, <2>1, <2>2, <2>3, PutIsHoused
<1>4. UNCHANGED <<kids, kind, wrote>>
      \/ \E n \in Nodes : ScriptRemoves(n) \/ (\E k \in Kinds : ParserAdds(n, k) \/ ScriptInserts(n, k))
  <2>1. ASSUME NEW n \in Nodes, DoneCallback(n) \/ ErrorCallback(n)
        PROVE  UNCHANGED <<kids, kind, wrote>>
    BY <2>1 DEF DoneCallback, ErrorCallback, nodes, past
  <2>2. CASE ErrorReturns \/ SyncReturns \/ WaitForImport \/ WaitReturns \/ ScriptReturns
    BY <2>2 DEF ErrorReturns, SyncReturns, WaitForImport, WaitReturns, ScriptReturns, nodes, past
  <2>3. CASE RunReady \/ NotYet \/ RunDeferred \/ NoDeferred \/ TailHook
    BY <2>3 DEF RunReady, NotYet, RunDeferred, NoDeferred, TailHook, nodes, past
  <2>4. CASE CodeReturns \/ Task \/ ParseReturns
    BY <2>4 DEF CodeReturns, Task, ParseReturns, nodes, past
  <2>5. QED
    BY <2>1, <2>2, <2>3, <2>4 DEF RunsScripts
<1>5. QED
  BY <1>1, <1>2, <1>3, <1>4

LEMMA OpeningHoused ==
  ASSUME Stacked(stack), NodeTypes, Housed(stack, kids), Opening
  PROVE  NodeTypes' /\ Housed(stack', kids')
<1>0. Kept(stack, stack', {"fragment"})
  BY OpeningKeeps
<1>1. UNCHANGED <<kind, wrote>>
  BY DEF Opening, Open, WriteToParser, FeedReturns, FeedPanics, Close, FinishReturns,
     CloseCompletes, CloseReturns, nodes, past
<1>2. kids' = kids \/ kids' = [kids EXCEPT ![0] = << >>]
  BY DEF Opening, Open, WriteToParser, FeedReturns, FeedPanics, Close, FinishReturns,
     CloseCompletes, CloseReturns, Opened, nodes, past
<1>3. /\ kids' \in [0..MaxDepth -> Seq(Nodes)]
      /\ \A q \in 0..MaxDepth : kids[q] = << >> => kids'[q] = << >>
  <2>1. 0 \in 0..MaxDepth /\ << >> \in Seq(Nodes)
    BY BoundsAssumption
  <2>2. QED
    BY <1>2, <2>1 DEF NodeTypes
<1>4. QED
  BY <1>0, <1>1, <1>3, EmptiedIsHoused

LEMMA ConstructingHoused ==
  ASSUME Stacked(stack), NodeTypes, Housed(stack, kids), Constructing
  PROVE  NodeTypes' /\ Housed(stack', kids')
<1>0. Kept(stack, stack', {"fragment"})
  BY ConstructingKeeps
<1>1. ASSUME NEW n \in Nodes, ParserConstructs(n) PROVE NodeTypes' /\ Housed(stack', kids')
  <2>1. NodeTypes' /\ kids' = kids
    BY <1>1 DEF ParserConstructs, NodeTypes, past, Kinds
  <2>2. Housed(stack', kids)
    BY <1>0, KeptHoused
  <2>3. QED
    BY <2>1, <2>2
<1>2. CASE ConstructorReturns
  <2>1. stack # << >> /\ Top.at = "constructor" /\ stack' = Below /\ UNCHANGED <<kind, wrote>>
        /\ kids' = AtEndOf(ParserPlace(Below), Top.node)
    BY <1>2 DEF ConstructorReturns, At
  <2>2. Top.node \in Nodes /\ Stacked(Below)
    BY <2>1, PopFrame, FrameFacts
  <2>3. Kept(Below, Below, {"fragment"}) /\ Housed(Below, kids)
    BY <1>0, <2>1, KeptSame, KeptHoused
  <2>4. kind' \in [Nodes -> Kinds \union {"free"}]
    BY <2>1 DEF NodeTypes
  <2>5. QED
    BY <2>1, <2>2, <2>3, <2>4, PlaceOf, PutIsHoused
<1>3. QED
  BY <1>1, <1>2 DEF Constructing

\* A fragment is parsed.
LEMMA WriteInlinePushes ==
  ASSUME StackTypes, NodeTypes, Housed(stack, kids), WriteInline
  PROVE  \E c \in Frame :
           /\ stack' = Append(stack, c) /\ c.at = "fragment" /\ c.node = current
           /\ current \in Nodes /\ c.cur = current /\ c.point = point
           /\ c.place \in Homes(current) /\ c.place <= Len(stack)
<1>0. Stacked(stack) /\ FlagTypes
  BY DEF StackTypes
<1>1. PICK p \in Homes(current) :
        stack' = Append(stack, [Call("fragment", current) EXCEPT !.place = p])
  BY DEF WriteInline
<1>2. p \in 0..MaxDepth /\ current \in Nodes /\ current \in Range(kids[p])
  BY <1>0, <1>1 DEF NodeTypes, Homes, WriteInline, FlagTypes, Optional
<1>3. p <= Len(stack)
  <2>1. kids[p] # << >>
    BY <1>2 DEF Range
  <2>2. CASE p = 0
    BY <1>0, <2>2 DEF Stacked
  <2>3. CASE p # 0
    BY <1>0, <1>2, <2>1, <2>3, BoundsAssumption DEF Housed, Stacked
  <2>4. QED
    BY <2>2, <2>3
<1> DEFINE b == Call("fragment", current)
           c == [b EXCEPT !.place = p]
<1>4. /\ b \in Frame /\ b.at = "fragment" /\ b.node = current
      /\ b.cur = current /\ b.point = point
  BY <1>0, <1>2, MakeFrame DEF Places, Parsers, Waiters, Optional
<1> HIDE DEF b
<1>5. /\ c \in Frame /\ c.at = "fragment" /\ c.node = current /\ c.cur = current
      /\ c.point = point /\ c.place = p
  BY <1>2, <1>4 DEF Frame
<1> HIDE DEF c
<1>6. stack' = Append(stack, c)
  BY <1>1 DEF b, c
<1>7. QED
  BY <1>1, <1>2, <1>3, <1>5, <1>6

\* A fragment is done: its nodes are put behind one that stands where it may.
LEMMA FragmentMoves ==
  ASSUME StackTypes, NodeTypes, Housed(stack, kids), FragmentReturns
  PROVE  LET i == Len(stack)
             new == kids[i]
         IN  /\ stack # << >> /\ Top.at = "fragment" /\ Top \in Frame /\ Top.node \in Nodes
             /\ i \in 1..MaxDepth /\ new \in Seq(Nodes)
             /\ Top.place \in 0..MaxDepth /\ Top.place < i
             /\ \/ /\ kids' = [kids EXCEPT ![i] = << >>] /\ UNCHANGED <<point, wrote>>
                \/ \E n \in InsertAfter(Top) :
                     /\ n \in Range(kids[Top.place]) /\ new # << >>
                     /\ kids' = [kids EXCEPT ![i] = << >>,
                                             ![Top.place] = InsertedBehind(kids[Top.place], n, new)]
                     /\ point' = Last(new)
                     /\ wrote' = [wrote EXCEPT ![Top.node] = @ \o new]
<1> DEFINE i == Len(stack)
           new == kids[i]
<1>0. Stacked(stack)
  BY DEF StackTypes
<1>1. stack # << >> /\ Top.at = "fragment" /\ Top \in Frame /\ Top.node \in Nodes
  BY <1>0, PopFrame, FrameFacts DEF FragmentReturns, At
<1>2. i \in 1..MaxDepth /\ i \in 1..Len(stack) /\ new \in Seq(Nodes)
  BY <1>0, <1>1, BoundsAssumption DEF Stacked, NodeTypes
<1>3. Top.place \in 0..MaxDepth /\ Top.place < i
  BY <1>1, <1>2, FrameFacts DEF Housed, Top
<1>4. ASSUME NEW n \in InsertAfter(Top)
      PROVE  n \in Range(kids[Top.place])
  BY <1>4 DEF InsertAfter
<1>5. ASSUME NEW n \in InsertAfter(Top),
             kids' = [kids EXCEPT ![i] = << >>, ![Top.place] = InsertedBehind(@, n, new)]
      PROVE  kids' = [kids EXCEPT ![i] = << >>,
                                  ![Top.place] = InsertedBehind(kids[Top.place], n, new)]
  <2>1. Top.place # i /\ Top.place \in DOMAIN kids
    BY <1>2, <1>3 DEF NodeTypes
  <2>2. [kids EXCEPT ![i] = << >>][Top.place] = kids[Top.place]
    BY <2>1
  <2>3. QED
    BY <1>5, <2>2
<1>6. CASE new = << >> \/ InsertAfter(Top) = {}
  BY <1>1, <1>2, <1>3, <1>6 DEF FragmentReturns
<1>7. CASE ~(new = << >> \/ InsertAfter(Top) = {})
  <2>1. PICK n \in InsertAfter(Top) :
          /\ kids' = [kids EXCEPT ![i] = << >>, ![Top.place] = InsertedBehind(@, n, new)]
          /\ point' = Last(new)
          /\ wrote' = [wrote EXCEPT ![Top.node] = @ \o new]
    BY <1>7 DEF FragmentReturns
  <2>2. QED
    BY <1>1, <1>2, <1>3, <1>4, <1>5, <1>7, <2>1
<1>8. QED
  BY <1>6, <1>7

LEMMA InliningHoused ==
  ASSUME StackTypes, NodeTypes, Housed(stack, kids), WriteInline \/ FragmentReturns
  PROVE  NodeTypes' /\ Housed(stack', kids')
<1>0. Stacked(stack)
  BY DEF StackTypes
<1>1. CASE WriteInline
  <2>1. PICK c \in Frame :
          stack' = Append(stack, c) /\ c.at = "fragment" /\ c.place <= Len(stack)
    BY <1>1, WriteInlinePushes
  <2>2. /\ Len(stack) \in Nat /\ Len(stack') = Len(stack) + 1
        /\ \A i \in 1..Len(stack) : stack'[i] = stack[i]
        /\ stack'[Len(stack) + 1] = c
    BY <1>0, <2>1, PushFrame DEF Stacked
  <2>3. UNCHANGED <<kids, kind, wrote>>
    BY <1>1 DEF WriteInline, nodes, past
  <2>4. c.place \in 0..MaxDepth
    BY FrameFacts
  <2>5. Housed(stack', kids)
    BY <2>1, <2>2, <2>4, BoundsAssumption DEF Housed
  <2>6. QED
    BY <2>3, <2>5 DEF NodeTypes
<1>2. CASE FragmentReturns
  <2> DEFINE i == Len(stack)
             p == Top.place
             new == kids[i]
  <2>1. /\ stack # << >> /\ Top.at = "fragment" /\ Top.node \in Nodes
        /\ i \in 1..MaxDepth /\ new \in Seq(Nodes) /\ p \in 0..MaxDepth /\ p < i
        /\ \/ kids' = [kids EXCEPT ![i] = << >>] /\ UNCHANGED wrote
           \/ \E n \in InsertAfter(Top) :
                /\ n \in Range(kids[p])
                /\ kids' = [kids EXCEPT ![i] = << >>, ![p] = InsertedBehind(kids[p], n, new)]
                /\ wrote' = [wrote EXCEPT ![Top.node] = @ \o new]
    BY <1>2, FragmentMoves
  <2>2. stack' = Below /\ kind' = kind
    BY <1>2 DEF FragmentReturns
  <2>3. /\ Stacked(Below) /\ Len(Below) = i - 1 /\ i \in Nat
        /\ \A j \in 1..(i - 1) : Below[j] = stack[j]
    BY <1>0, <2>1, PopFrame
  <2> HIDE DEF i, p, new
  <2> DEFINE Moved == /\ kids' \in [0..MaxDepth -> Seq(Nodes)] /\ wrote' \in [Nodes -> Seq(Nodes)]
                      /\ kids'[i] = << >>
                      /\ \A q \in 0..MaxDepth : q # i /\ kids[q] = << >> => kids'[q] = << >>
  <2>4. Moved
    <3>1. CASE kids' = [kids EXCEPT ![i] = << >>] /\ UNCHANGED wrote
      BY <2>1, <3>1 DEF NodeTypes
    <3>2. ASSUME NEW n \in Range(kids[p]),
                 kids' = [kids EXCEPT ![i] = << >>, ![p] = InsertedBehind(kids[p], n, new)],
                 wrote' = [wrote EXCEPT ![Top.node] = @ \o new]
          PROVE  Moved
      <4>0. kids[p] # << >>
        BY DEF Range
      <4>1. kids[p] \in Seq(Nodes) /\ kids \in [0..MaxDepth -> Seq(Nodes)]
        BY <2>1 DEF NodeTypes
      <4>2. InsertedBehind(kids[p], n, new) \in Seq(Nodes)
        BY <2>1, <4>1, InsertedList
      <4>3. wrote[Top.node] \o new \in Seq(Nodes)
        BY <2>1 DEF NodeTypes
      <4>4. wrote' \in [Nodes -> Seq(Nodes)]
        BY <2>1, <3>2, <4>3 DEF NodeTypes
      <4>5. i \in 0..MaxDepth /\ p # i
        BY <2>1, <2>3
      <4>6. kids' \in [0..MaxDepth -> Seq(Nodes)] /\ kids'[i] = << >>
        <5> DEFINE k == [kids EXCEPT ![i] = << >>]
        <5>1. k \in [0..MaxDepth -> Seq(Nodes)] /\ k[i] = << >>
          BY <4>1, <4>5
        <5>2. kids' = [k EXCEPT ![p] = InsertedBehind(kids[p], n, new)]
          BY <3>2
        <5> HIDE DEF k
        <5>3. QED
          BY <2>1, <4>2, <4>5, <5>1, <5>2
      <4>7. \A q \in 0..MaxDepth : q # i /\ kids[q] = << >> => kids'[q] = << >>
        BY <2>1, <3>2, <4>0, <4>1, <4>5
      <4>8. QED
        BY <4>4, <4>6, <4>7
    <3>3. QED
      BY <2>1, <3>1, <3>2
  <2>5. Housed(Below, kids')
    <3>1. \A j \in 1..Len(Below) : j \in 1..Len(stack) /\ Below[j] = stack[j]
      BY <2>3 DEF i
    <3>2. ASSUME NEW q \in 1..MaxDepth, kids'[q] # << >>
          PROVE  q \in 1..Len(Below) /\ Below[q].at = "fragment"
      <4>1. q # i /\ q \in 0..MaxDepth
        BY <2>4, <3>2
      <4>2. q \in 1..Len(stack) /\ stack[q].at = "fragment"
        BY <2>4, <3>2, <4>1 DEF Housed
      <4>3. q \in 1..Len(Below)
        BY <2>3, <4>1, <4>2 DEF i
      <4>4. QED
        BY <3>1, <4>2, <4>3
    <3>3. QED
      BY <3>1, <3>2 DEF Housed
  <2>6. QED
    BY <2>2, <2>4, <2>5 DEF NodeTypes
<1>3. QED
  BY <1>1, <1>2

LEMMA HousedStep ==
  ASSUME StackTypes, NodeTypes, Housed(stack, kids), [Next]_vars
  PROVE  NodeTypes' /\ Housed(stack', kids')
<1>0. Stacked(stack)
  BY DEF StackTypes
<1>1. CASE UNCHANGED vars
  BY <1>1 DEF vars, nodes, past, NodeTypes, Housed
<1>2. CASE Next
  BY <1>0, <1>2, StepsAre, ScriptsHoused, OpeningHoused, ConstructingHoused, InliningHoused
<1>3. QED
  BY <1>1, <1>2

\* While the drain of defer_scripts waits for a script of it, that script is the
\* first one on the list.
Running(s) ==
  \A i \in 1..Len(s) : s[i].at = "defers" /\ i < Len(s) =>
    /\ s[i + 1].at = "script" /\ defers # << >>
    /\ s[i + 1].node = Head(defers) /\ Head(defers) \in Range(ran)

\* The innermost call stands on a drain of defer_scripts.
LEMMA DrainGoesOn ==
  ASSUME Stacked(stack), stack # << >>, Running(stack)
  PROVE  Below # << >> /\ Last(Below).at = "defers" =>
           /\ Top.at = "script" /\ defers # << >>
           /\ Top.node = Head(defers) /\ Head(defers) \in Range(ran)
<1> SUFFICES ASSUME Below # << >>, Last(Below).at = "defers"
             PROVE  /\ Top.at = "script" /\ defers # << >>
                    /\ Top.node = Head(defers) /\ Head(defers) \in Range(ran)
  OBVIOUS
<1>1. /\ Below \in Seq(Frame) /\ Len(stack) \in Nat \ {0} /\ Len(Below) = Len(stack) - 1
      /\ \A i \in 1..(Len(stack) - 1) : Below[i] = stack[i]
      /\ Top = stack[Len(stack)]
  BY PopFrame DEF Stacked
<1> DEFINE i == Len(stack) - 1
<1>2. i \in 1..Len(stack) /\ i < Len(stack) /\ i + 1 = Len(stack) /\ i \in 1..(Len(stack) - 1)
  BY <1>1
<1>3. stack[i].at = "defers"
  BY <1>1, <1>2 DEF Last
<1>4. QED
  BY <1>1, <1>2, <1>3 DEF Running

LEMMA AddListTypes ==
  ASSUME ListTypes, NEW fromParser, NEW n \in Nodes, NEW k, AddFromElement(fromParser, n, k)
  PROVE  ListTypes'
<1>1. CASE k \notin Scripts \/ Started(n)
  BY <1>1 DEF AddFromElement, ListTypes, lists
<1>2. CASE ~(k \notin Scripts \/ Started(n))
  <2>1. Add(fromParser, n, k)
    BY <1>2 DEF AddFromElement
  <2>2. st' \in [Nodes -> {"idle", "loading", "loaded", "failed"}]
    BY <2>1 DEF Add, ListTypes
  <2>3. asyncs' \subseteq Nodes /\ readys' \in Seq(Nodes)
    BY <2>1 DEF Add, Queue, ListTypes
  <2> DEFINE after(s) == {s, Append(s, n)}
  <2>4. defers' \in after(defers) /\ queued' \in after(queued) /\ ran' \in after(ran)
    BY <2>1 DEF Add, Queue, Eval
  <2>5. defers' \in Seq(Nodes) /\ queued' \in Seq(Nodes) /\ ran' \in Seq(Nodes)
    <3>1. \A s \in Seq(Nodes) : after(s) \subseteq Seq(Nodes)
      BY AppendList
    <3>2. QED
      BY <2>4, <3>1 DEF ListTypes
  <2>6. QED
    BY <2>2, <2>3, <2>4, <2>5 DEF ListTypes
<1>3. QED
  BY <1>1, <1>2

LEMMA ListStep ==
  ASSUME TypeInv, Running(stack), [Next]_vars
  PROVE  ListTypes'
<1>0. Stacked(stack) /\ ListTypes /\ FlagTypes
  BY DEF TypeInv
<1>1. CASE UNCHANGED <<st, lists, queued, ran>>
  BY <1>0, <1>1 DEF ListTypes, lists
<1>2. ASSUME NEW n \in Nodes, DoneCallback(n) PROVE ListTypes'
  BY <1>0, <1>2, AppendList DEF DoneCallback, ListTypes, past
<1>3. ASSUME NEW n \in Nodes, ErrorCallback(n) PROVE ListTypes'
  BY <1>0, <1>3, UnlinkedSeq DEF ErrorCallback, ListTypes, past
<1>4. CASE SyncReturns
  <2>1. Top.node \in Nodes
    BY <1>0, <1>4, PopFrame, FrameFacts DEF SyncReturns, At, Waiters
  <2>2. st' \in [Nodes -> {"idle", "loading", "loaded", "failed"}]
    BY <1>0, <1>4, <2>1 DEF SyncReturns, ListTypes
  <2>3. ran' \in {ran, Append(ran, Top.node)}
    BY <1>4 DEF SyncReturns
  <2>4. ran' \in Seq(Nodes)
    <3>1. ran \in Seq(Nodes) /\ Append(ran, Top.node) \in Seq(Nodes)
      BY <1>0, <2>1, AppendList DEF ListTypes
    <3>2. QED
      BY <2>3, <3>1
  <2>5. QED
    BY <1>0, <1>4, <2>2, <2>4 DEF SyncReturns, ListTypes, lists, past
<1>5. CASE ScriptReturns
  <2>1. Below # << >> /\ Last(Below).at = "defers" => defers # << >>
    BY <1>0, <1>5, DrainGoesOn DEF ScriptReturns, At
  <2>2. defers' \in Seq(Nodes)
    BY <1>0, <1>5, <2>1 DEF ScriptReturns, ListTypes
  <2>3. QED
    BY <1>0, <1>5, <2>2 DEF ScriptReturns, ListTypes, past
<1>6. CASE RunReady
  <2>1. Head(readys) \in Nodes /\ Tail(readys) \in Seq(Nodes)
    BY <1>0, <1>6 DEF RunReady, ListTypes
  <2>2. ran' \in Seq(Nodes)
    BY <1>0, <1>6, <2>1, AppendList DEF RunReady, Eval, ListTypes
  <2>3. QED
    BY <1>0, <1>6, <2>1, <2>2 DEF RunReady, ListTypes, past
<1>7. CASE RunDeferred
  <2>1. Head(defers) \in Nodes
    BY <1>0, <1>7 DEF RunDeferred, ListTypes
  <2>2. ran' \in Seq(Nodes)
    BY <1>0, <1>7, <2>1, AppendList DEF RunDeferred, Eval, ListTypes
  <2>3. QED
    BY <1>0, <1>7, <2>2 DEF RunDeferred, ListTypes, lists, past
<1>8. ASSUME NEW n \in Nodes, NEW k \in Kinds, ParserAdds(n, k) \/ ScriptInserts(n, k)
      PROVE  ListTypes'
  BY <1>0, <1>8, AddListTypes DEF ParserAdds, ScriptInserts
<1>9. CASE Next
  <2>1. CASE ErrorReturns \/ WaitForImport \/ WaitReturns \/ NotYet \/ NoDeferred \/ TailHook
             \/ CodeReturns \/ Task \/ ParseReturns
    BY <1>1, <2>1 DEF ErrorReturns, WaitForImport, WaitReturns, NotYet, NoDeferred, TailHook,
       CodeReturns, Task, ParseReturns, past
  <2>2. CASE Opening \/ Constructing \/ WriteInline \/ FragmentReturns
    BY <1>1, <2>2 DEF Opening, Open, WriteToParser, FeedReturns, FeedPanics, Close, FinishReturns,
       CloseCompletes, CloseReturns, Constructing, ParserConstructs, ConstructorReturns,
       WriteInline, FragmentReturns, past
  <2>3. ASSUME NEW n \in Nodes, ScriptRemoves(n) PROVE ListTypes'
    BY <1>1, <2>3 DEF ScriptRemoves
  <2>4. QED
    BY <1>2, <1>3, <1>4, <1>5, <1>6, <1>7, <1>8, <1>9, <2>1, <2>2, <2>3, StepsAre
    DEF RunsScripts
<1>10. CASE UNCHANGED vars
  BY <1>1, <1>10 DEF vars, past
<1>11. QED
  BY <1>9, <1>10
-----------------------------------------------------------------------------
(* The parser of document.open, and html5ever's handles of it. *)

Closers == {"finish", "closing", "closed"}
Users == {"feed"} \union Closers

\* What is fed is the document's parser, of which there is one; a close is in
\* progress exactly while the document has none to give.
Handled(s, p, hs) ==
  /\ \A i \in 1..Len(s) : s[i].at = "feed" => s[i].node = p /\ p \notin {None, Nulled}
  /\ \A i, j \in 1..Len(s) : s[i].at \in Closers /\ s[j].at \in Closers => i = j
  /\ p = Nulled <=> \E i \in 1..Len(s) : s[i].at \in Closers
  /\ \A h \in 1..MaxMoves :
       hs[h] = "live" <=> h = p \/ \E i \in 1..Len(s) : s[i].at = "finish" /\ s[i].node = h
  /\ \A i \in 1..Len(s) : s[i].at = "finish" => s[i].node \in 1..MaxMoves

HandleInv == ~broken => Handled(stack, parser, handles)

LEMMA KeptHandled ==
  ASSUME NEW s, NEW t, Kept(s, t, Users), NEW p, NEW hs, Handled(s, p, hs)
  PROVE  Handled(t, p, hs)
<1>1. ASSUME NEW i \in 1..Len(s), s[i].at = "feed" \/ s[i].at \in Closers
      PROVE  i \in 1..Len(t) /\ t[i] = s[i]
  BY <1>1 DEF Kept, Users
<1>2. ASSUME NEW i \in 1..Len(t), t[i].at = "feed" \/ t[i].at \in Closers
      PROVE  i \in 1..Len(s) /\ t[i] = s[i]
  BY <1>2 DEF Kept, Users
<1>3. "finish" \in Closers
  BY DEF Closers
<1>4. \A i \in 1..Len(t) : t[i].at = "feed" => t[i].node = p /\ p \notin {None, Nulled}
  BY <1>2 DEF Handled
<1>5. \A i, j \in 1..Len(t) : t[i].at \in Closers /\ t[j].at \in Closers => i = j
  BY <1>2 DEF Handled
<1>6. p = Nulled <=> \E i \in 1..Len(t) : t[i].at \in Closers
  BY <1>1, <1>2 DEF Handled
<1>7. \A h \in 1..MaxMoves :
        hs[h] = "live" <=> h = p \/ \E i \in 1..Len(t) : t[i].at = "finish" /\ t[i].node = h
  BY <1>1, <1>2, <1>3 DEF Handled
<1>8. \A i \in 1..Len(t) : t[i].at = "finish" => t[i].node \in 1..MaxMoves
  BY <1>2, <1>3 DEF Handled
<1>9. QED
  BY <1>4, <1>5, <1>6, <1>7, <1>8 DEF Handled

\* Every step that is none of document.open, write and close.
LEMMA OthersHandled ==
  ASSUME Stacked(stack), HandleTypes, HandleInv,
         RunsScripts \/ Constructing \/ WriteInline \/ FragmentReturns
  PROVE  HandleTypes' /\ HandleInv'
<1>1. Kept(stack, stack', Users)
  BY RunsScriptsKeeps, ConstructingKeeps, InliningKeeps DEF Users, Closers
<1>2. UNCHANGED html5 /\ moves' \in moves..MaxMoves
  <2>0. moves \in Nat /\ MaxMoves \in Nat /\ moves <= MaxMoves
    BY BoundsAssumption DEF HandleTypes
  <2>1. ASSUME NEW n \in Nodes, DoneCallback(n) \/ ErrorCallback(n)
        PROVE  UNCHANGED html5 /\ moves' \in moves..MaxMoves
    BY <2>0, <2>1 DEF DoneCallback, ErrorCallback, html5, past
  <2>2. ASSUME NEW n \in Nodes, ScriptRemoves(n) \/ ParserConstructs(n)
        PROVE  UNCHANGED html5 /\ moves' \in moves..MaxMoves
    BY <2>0, <2>2 DEF ScriptRemoves, ParserConstructs, html5, past
  <2>3. ASSUME NEW n \in Nodes, NEW k \in Kinds, ParserAdds(n, k) \/ ScriptInserts(n, k)
        PROVE  UNCHANGED html5 /\ moves' \in moves..MaxMoves
    <3>1. CASE ParserAdds(n, k)
      BY <2>0, <3>1 DEF ParserAdds, html5
    <3>2. CASE ScriptInserts(n, k)
      <4>1. moves' = moves \/ (moves < MaxMoves /\ moves' = moves + 1)
        BY <3>2 DEF ScriptInserts
      <4>2. QED
        BY <2>0, <3>2, <4>1 DEF ScriptInserts, html5
    <3>3. QED
      BY <2>3, <3>1, <3>2
  <2>4. CASE ErrorReturns \/ SyncReturns \/ WaitForImport \/ WaitReturns \/ ScriptReturns
    BY <2>0, <2>4 DEF ErrorReturns, SyncReturns, WaitForImport, WaitReturns, ScriptReturns,
       html5, past
  <2>5. CASE RunReady \/ NotYet \/ RunDeferred \/ NoDeferred \/ TailHook
    BY <2>0, <2>5 DEF RunReady, NotYet, RunDeferred, NoDeferred, TailHook, html5, past
  <2>6. CASE CodeReturns \/ Task \/ ParseReturns \/ WriteInline
    BY <2>0, <2>6 DEF CodeReturns, Task, ParseReturns, WriteInline, html5, past
  <2>7. CASE ConstructorReturns \/ FragmentReturns
    <3>1. UNCHANGED <<html5, moves>>
      BY <2>7 DEF ConstructorReturns, FragmentReturns
    <3>2. QED
      BY <2>0, <3>1
  <2>8. QED
    BY <2>1, <2>2, <2>3, <2>4, <2>5, <2>6, <2>7 DEF RunsScripts, Constructing
<1>3. HandleTypes'
  BY <1>2, KeptHandles DEF HandleTypes, html5
<1>4. HandleInv'
  BY <1>1, <1>2, KeptHandled DEF HandleInv, html5
<1>5. QED
  BY <1>3, <1>4

\* document.open, which happens without a parser.
LEMMA OpenedHandled ==
  ASSUME HandleTypes, Handled(stack, parser, handles), Opens, Opened
  PROVE  Handled(stack, parser', handles') /\ parser' \notin {None, Nulled}
<1>1. /\ parser' \in 1..MaxMoves /\ handles \in [1..MaxMoves -> {"unborn", "live", "freed"}]
      /\ handles' = [handles EXCEPT ![parser'] = "live"]
  BY OpenedHandle DEF HandleTypes, Opened
<1>2. parser' \notin {None, Nulled}
  BY <1>1, BoundsAssumption DEF Nulled
<1>3. parser = None /\ None \notin 0..MaxMoves /\ None # Nulled
  BY BoundsAssumption DEF Opens, Nulled
<1>4. \A i \in 1..Len(stack) : stack[i].at # "feed" /\ stack[i].at \notin Closers
  BY <1>3 DEF Handled
<1>5. \A i \in 1..Len(stack) : stack[i].at # "finish"
  BY <1>4 DEF Closers
<1>6. \A h \in 1..MaxMoves : handles[h] # "live"
  BY <1>3, <1>5 DEF Handled
<1>7. \A h \in 1..MaxMoves : handles'[h] = "live" <=> h = parser'
  BY <1>1, <1>6
<1>8. QED
  BY <1>2, <1>4, <1>5, <1>7 DEF Handled

\* The document's parser is fed.
LEMMA FedHandled ==
  ASSUME Stacked(stack), NEW p, p \notin {None, Nulled}, NEW hs, Handled(stack, p, hs),
         NEW c, c.at = "feed", c.node = p
  PROVE  Handled(Append(stack, c), p, hs)
<1> DEFINE t == Append(stack, c)
<1>1. /\ Len(stack) \in Nat /\ Len(t) = Len(stack) + 1
      /\ \A i \in 1..Len(stack) : t[i] = stack[i]
      /\ t[Len(stack) + 1] = c
  <2>1. stack \in Seq(Frame \union {c}) /\ c \in Frame \union {c}
    BY DEF Stacked
  <2>2. QED
    BY <2>1
<1> HIDE DEF t
<1>2. /\ \A i \in 1..Len(t) : \/ i \in 1..Len(stack) /\ t[i] = stack[i]
                              \/ t[i].at = "feed" /\ t[i].node = p
      /\ \A i \in 1..Len(stack) : i \in 1..Len(t) /\ t[i] = stack[i]
  <2>1. \A i \in 1..Len(t) : i \in 1..Len(stack) \/ i = Len(stack) + 1
    BY <1>1
  <2>2. \A i \in 1..Len(stack) : i \in 1..Len(t)
    BY <1>1
  <2>3. t[Len(stack) + 1].at = "feed" /\ t[Len(stack) + 1].node = p
    BY <1>1
  <2>4. \A i \in 1..Len(stack) : t[i] = stack[i]
    BY <1>1
  <2>5. QED
    BY <2>1, <2>2, <2>3, <2>4
<1>3. "feed" \notin Closers /\ "feed" # "finish"
  BY DEF Closers
<1>4. \A i \in 1..Len(t) : t[i].at = "feed" => t[i].node = p /\ p \notin {None, Nulled}
  BY <1>2 DEF Handled
<1>5. \A i, j \in 1..Len(t) : t[i].at \in Closers /\ t[j].at \in Closers => i = j
  BY <1>2, <1>3 DEF Handled
<1>6. p = Nulled <=> \E i \in 1..Len(t) : t[i].at \in Closers
  BY <1>2, <1>3 DEF Handled
<1>7. \A h \in 1..MaxMoves :
        hs[h] = "live" <=> h = p \/ \E i \in 1..Len(t) : t[i].at = "finish" /\ t[i].node = h
  BY <1>2, <1>3 DEF Handled
<1>8. \A i \in 1..Len(t) : t[i].at = "finish" => t[i].node \in 1..MaxMoves
  BY <1>2, <1>3 DEF Handled
<1>9. QED
  BY <1>4, <1>5, <1>6, <1>7, <1>8 DEF Handled, t

\* A close begins, on a parser that is not fed.
LEMMA FinishHandled ==
  ASSUME Stacked(stack), HandleTypes, Handled(stack, parser, handles),
         parser \notin {None, Nulled}, ~InUse(parser), NEW c, c.at = "finish", c.node = parser
  PROVE  Handled(Append(stack, c), Nulled, handles)
<1> DEFINE t == Append(stack, c)
<1>1. /\ Len(stack) \in Nat /\ Len(t) = Len(stack) + 1
      /\ \A i \in 1..Len(stack) : t[i] = stack[i]
      /\ t[Len(stack) + 1] = c
  <2>1. stack \in Seq(Frame \union {c}) /\ c \in Frame \union {c}
    BY DEF Stacked
  <2>2. QED
    BY <2>1
<1> HIDE DEF t
<1>2. parser \in 1..MaxMoves
  BY BoundsAssumption DEF HandleTypes, Nulled
<1>3. \A i \in 1..Len(stack) : stack[i].at # "feed" /\ stack[i].at \notin Closers
  BY DEF Handled, InUse
<1>4. "finish" \in Closers /\ "finish" # "feed" /\ Nulled \notin 1..MaxMoves
  BY BoundsAssumption DEF Closers, Nulled
<1>5. \A i \in 1..Len(t) : IF i = Len(stack) + 1 THEN t[i].at = "finish" /\ t[i].node = parser
                           ELSE t[i].at # "feed" /\ t[i].at \notin Closers
  BY <1>1, <1>3
<1>6. Len(stack) + 1 \in 1..Len(t)
  BY <1>1
<1>7. \A h \in 1..MaxMoves : handles[h] = "live" <=> h = parser
  BY <1>3, <1>4 DEF Handled
<1>8. \A h \in 1..MaxMoves :
        h = parser <=> \E i \in 1..Len(t) : t[i].at = "finish" /\ t[i].node = h
  BY <1>4, <1>5, <1>6
<1>9. QED
  BY <1>2, <1>4, <1>5, <1>6, <1>7, <1>8 DEF Handled, t

\* What is below the innermost call, when that uses the document's parser.
LEMMA BelowUsers ==
  ASSUME Stacked(stack), stack # << >>, Handled(stack, parser, handles)
  PROVE  /\ \A i \in 1..Len(Below) : i \in 1..Len(stack) /\ Below[i] = stack[i] /\ i # Len(stack)
         /\ Top.at = "feed" =>
              /\ parser = Top.node /\ parser \in 1..MaxMoves
              /\ \A i \in 1..Len(stack) : stack[i].at \notin Closers
         /\ Top.at \in Closers =>
              /\ parser = Nulled
              /\ \A i \in 1..Len(stack) : stack[i].at # "feed"
              /\ \A i \in 1..Len(Below) : Below[i].at \notin Closers
<1>1. /\ Len(stack) \in Nat \ {0} /\ Len(Below) = Len(stack) - 1
      /\ \A i \in 1..(Len(stack) - 1) : Below[i] = stack[i]
      /\ Top = stack[Len(stack)] /\ Top \in Frame
  BY PopFrame
<1>2. \A i \in 1..Len(Below) : i \in 1..Len(stack) /\ Below[i] = stack[i] /\ i # Len(stack)
  BY <1>1
<1>3. Len(stack) \in 1..Len(stack)
  BY <1>1
<1>4. ASSUME Top.at = "feed"
      PROVE  /\ parser = Top.node /\ parser \in 1..MaxMoves
             /\ \A i \in 1..Len(stack) : stack[i].at \notin Closers
  <2>1. parser = Top.node /\ parser \notin {None, Nulled}
    BY <1>1, <1>3, <1>4 DEF Handled
  <2>2. Top.node \in 0..MaxMoves
    BY <1>1, <1>4, FrameFacts
  <2>3. parser \in 1..MaxMoves
    BY <2>1, <2>2, BoundsAssumption DEF Nulled
  <2>4. QED
    BY <2>1, <2>3 DEF Handled
<1>5. ASSUME Top.at \in Closers
      PROVE  /\ parser = Nulled
             /\ \A i \in 1..Len(stack) : stack[i].at # "feed"
             /\ \A i \in 1..Len(Below) : Below[i].at \notin Closers
  <2>1. parser = Nulled
    BY <1>1, <1>3, <1>5 DEF Handled
  <2>2. \A i \in 1..Len(stack) : stack[i].at # "feed"
    BY <2>1 DEF Handled
  <2>3. \A i \in 1..Len(Below) : Below[i].at \notin Closers
    BY <1>1, <1>2, <1>3, <1>5 DEF Handled
  <2>4. QED
    BY <2>1, <2>2, <2>3
<1>6. QED
  BY <1>2, <1>4, <1>5

LEMMA FeedsHandled ==
  ASSUME Stacked(stack), HandleTypes, Handled(stack, parser, handles), FeedReturns \/ FeedPanics
  PROVE  HandleTypes' /\ HandleInv'
<1>1. stack # << >> /\ Top.at = "feed" /\ stack' = Below /\ UNCHANGED moves
  BY DEF FeedReturns, FeedPanics, At, past
<1>2. /\ \A i \in 1..Len(Below) : i \in 1..Len(stack) /\ Below[i] = stack[i]
      /\ parser = Top.node /\ parser \in 1..MaxMoves
      /\ \A i \in 1..Len(stack) : stack[i].at \notin Closers
  BY <1>1, BelowUsers
<1>3. \A i \in 1..Len(Below) : Below[i].at \notin Closers /\ Below[i].at # "finish"
  BY <1>2 DEF Closers
<1>4. \A h \in 1..MaxMoves : handles[h] = "live" <=> h = parser
  BY <1>2 DEF Handled, Closers
<1>5. handles[parser] # "unborn"
  BY <1>2, <1>4
<1>6. parser # Nulled /\ parser # None /\ None # Nulled /\ None \notin 1..MaxMoves
  BY <1>2, BoundsAssumption DEF Nulled
<1>7. CASE FeedReturns
  <2>1. UNCHANGED html5
    BY <1>7 DEF FeedReturns
  <2>2. Handled(Below, parser, handles)
    BY <1>2, <1>3, <1>4, <1>6 DEF Handled
  <2>3. moves' \in moves..MaxMoves
    BY <1>1, BoundsAssumption DEF HandleTypes
  <2>4. HandleTypes'
    BY <2>1, <2>3, KeptHandles DEF html5, HandleTypes
  <2>5. QED
    BY <1>1, <2>1, <2>2, <2>4 DEF HandleInv, html5
<1>8. CASE FeedPanics
  <2>1. /\ handles' = [handles EXCEPT ![parser] = "freed"] /\ parser' = None
        /\ broken' = \E i \in 1..Len(Below) : Below[i].at = "feed" /\ Below[i].node = parser
    BY <1>2, <1>8 DEF FeedPanics
  <2>2. HandleTypes'
    BY <1>1, <1>5, <2>1, FreedHandle
  <2>3. \A h \in 1..MaxMoves : handles'[h] # "live"
    BY <1>2, <1>4, <2>1 DEF HandleTypes
  <2>4. ASSUME ~broken'
        PROVE  Handled(Below, None, handles')
    <3>1. \A i \in 1..Len(Below) : Below[i].at # "feed"
      BY <1>2, <2>1, <2>4 DEF Handled
    <3>2. QED
      BY <1>3, <1>6, <2>3, <3>1 DEF Handled
  <2>5. QED
    BY <1>1, <2>1, <2>2, <2>4 DEF HandleInv
<1>9. QED
  BY <1>7, <1>8

LEMMA PhaseHandled ==
  ASSUME Stacked(stack), stack # << >>, Handled(stack, parser, handles), Top.at \in Closers,
         NEW at \in {"closing", "closed"}, NEW hs, \A h \in 1..MaxMoves : hs[h] # "live"
  PROVE  Handled(Phase(at), parser, hs)
<1> DEFINE t == Phase(at)
<1>1. /\ Len(stack) \in Nat \ {0} /\ Len(t) = Len(stack) /\ Len(Below) = Len(stack) - 1
      /\ \A i \in 1..(Len(stack) - 1) : t[i] = Below[i]
      /\ t[Len(stack)].at = at
  <2>1. /\ Len(t) = Len(stack) /\ t[Len(stack)].at = at
        /\ \A i \in 1..(Len(stack) - 1) : t[i] = stack[i]
    <3> DEFINE d == [Top EXCEPT !.at = at]
    <3>1. at \in {"defers", "tail", "event", "closing", "closed"}
      OBVIOUS
    <3>2. /\ Len(t) = Len(stack) /\ t[Len(stack)] = d /\ d.at = at
          /\ \A i \in 1..(Len(stack) - 1) : t[i] = stack[i]
      BY ONLY <3>1, PhaseTypes, Stacked(stack), stack # << >>
    <3> HIDE DEF d
    <3>3. QED
      BY <3>2
  <2>2. QED
    BY <2>1, PopFrame
<1>2. /\ parser = Nulled
      /\ \A i \in 1..Len(Below) : Below[i].at \notin Closers /\ Below[i].at # "feed"
  BY BelowUsers
<1>3. at \in Closers /\ "finish" \in Closers /\ at # "finish" /\ "feed" \notin Closers
  BY DEF Closers
<1> HIDE DEF t
<1>4. \A i \in 1..Len(t) : IF i = Len(stack) THEN t[i].at = at
                           ELSE t[i].at \notin Closers /\ t[i].at # "feed"
  BY <1>1, <1>2
<1>5. Len(stack) \in 1..Len(t) /\ Nulled \notin 1..MaxMoves
  BY <1>1 DEF Nulled
<1>6. \A i \in 1..Len(t) : t[i].at # "finish" /\ t[i].at # "feed"
  BY <1>3, <1>4
<1>7. \A i, j \in 1..Len(t) : t[i].at \in Closers /\ t[j].at \in Closers => i = j
  BY <1>4
<1>8. \E i \in 1..Len(t) : t[i].at \in Closers
  BY <1>3, <1>4, <1>5
<1>9. QED
  BY <1>2, <1>5, <1>6, <1>7, <1>8 DEF Handled, t

LEMMA ClosesHandled ==
  ASSUME Stacked(stack), HandleTypes, Handled(stack, parser, handles), ~broken,
         FinishReturns \/ CloseCompletes \/ CloseReturns
  PROVE  HandleTypes' /\ HandleInv'
<1>1. stack # << >> /\ Top.at \in Closers /\ UNCHANGED <<moves, broken>>
  BY DEF FinishReturns, CloseCompletes, CloseReturns, At, past, html5, Closers
<1>2. /\ parser = Nulled
      /\ \A i \in 1..Len(stack) : stack[i].at # "feed"
      /\ \A i \in 1..Len(Below) : Below[i].at \notin Closers
      /\ \A i \in 1..Len(Below) : i \in 1..Len(stack) /\ Below[i] = stack[i]
  BY <1>1, BelowUsers
<1>3. Nulled \notin 1..MaxMoves /\ Nulled \in 0..MaxMoves /\ moves' \in moves..MaxMoves
      /\ None # Nulled /\ None \notin 1..MaxMoves
  BY <1>1, BoundsAssumption DEF Nulled, HandleTypes
<1>4. Len(stack) \in 1..Len(stack) /\ Top = stack[Len(stack)]
      /\ \A i \in 1..Len(stack) : stack[i].at \in Closers => i = Len(stack)
  BY <1>1, PopFrame DEF Handled
<1>5. "ready" \notin Users /\ "event" \notin Users /\ "finish" \in Closers
  BY DEF Users, Closers
<1>6. CASE FinishReturns
  <2>1. /\ Top.at = "finish" /\ handles' = [handles EXCEPT ![Top.node] = "freed"]
        /\ UNCHANGED parser /\ Evaluate(Phase("closing"))
    BY <1>6 DEF FinishReturns, At
  <2>2. Top.node \in 1..MaxMoves
    BY <1>4, <2>1 DEF Handled
  <2>3. \A h \in 1..MaxMoves : handles[h] = "live" <=> h = Top.node
    BY <1>2, <1>3, <1>4, <1>5, <2>1 DEF Handled
  <2>4. handles[Top.node] # "unborn" /\ \A h \in 1..MaxMoves : handles'[h] # "live"
    BY <2>1, <2>2, <2>3 DEF HandleTypes
  <2>5. HandleTypes'
    BY <1>1, <1>2, <1>3, <2>1, <2>2, <2>4, FreedHandle
  <2>6. Handled(Phase("closing"), parser, handles') /\ Stacked(Phase("closing"))
    BY <1>1, <2>4, PhaseHandled, PhaseTypes
  <2>7. Kept(Phase("closing"), stack', Users)
    BY <1>5, <2>1, <2>6, EvaluateKept
  <2>8. QED
    BY <2>1, <2>5, <2>6, <2>7, KeptHandled DEF HandleInv
<1>7. ASSUME Top.at # "finish"
      PROVE  \A h \in 1..MaxMoves : handles[h] # "live"
  BY <1>2, <1>3, <1>4, <1>5, <1>7 DEF Handled
<1>8. CASE CloseCompletes
  <2>1. Top.at = "closing" /\ UNCHANGED html5 /\ DocumentIsComplete(Phase("closed"))
    BY <1>8 DEF CloseCompletes, At
  <2>2. HandleTypes'
    BY <1>2, <1>3, <2>1, KeptHandles DEF html5
  <2>3. Handled(Phase("closed"), parser, handles) /\ Stacked(Phase("closed"))
    BY <1>1, <1>7, <2>1, PhaseHandled, PhaseTypes
  <2>4. Kept(Phase("closed"), stack', Users)
    BY <1>5, <2>1, <2>3, CompleteKept
  <2>5. QED
    BY <2>1, <2>2, <2>3, <2>4, KeptHandled DEF HandleInv, html5
<1>9. CASE CloseReturns
  <2>1. Top.at = "closed" /\ stack' = Below /\ parser' = None /\ UNCHANGED handles
    BY <1>9 DEF CloseReturns, At
  <2>2. HandleTypes'
    BY <1>3, <2>1, KeptHandles
  <2>3. \A h \in 1..MaxMoves : handles[h] # "live"
    BY <1>7, <2>1
  <2>4. \A i \in 1..Len(Below) : Below[i].at # "feed" /\ Below[i].at # "finish"
    BY <1>2, <1>5
  <2>5. Handled(Below, None, handles)
    BY <1>2, <1>3, <2>3, <2>4 DEF Handled
  <2>6. QED
    BY <2>1, <2>2, <2>5 DEF HandleInv
<1>10. QED
  BY <1>6, <1>8, <1>9

LEMMA OpeningHandled ==
  ASSUME StackTypes, HandleTypes, HandleInv, Opening
  PROVE  HandleTypes' /\ HandleInv'
<1>0. Stacked(stack) /\ FlagTypes
  BY DEF StackTypes
<1>1. ~broken
  BY DEF Opening, Open, WriteToParser, FeedReturns, FeedPanics, Close, FinishReturns,
     CloseCompletes, CloseReturns, Calls, At
<1>2. Handled(stack, parser, handles)
  BY <1>1 DEF HandleInv
<1>3. CASE Open
  BY <1>2, <1>3, OpenedHandled, OpenedHandle DEF Open, HandleInv
<1>4. CASE WriteToParser
  <2>1. stack' = Append(stack, Call("feed", parser'))
    BY <1>4 DEF WriteToParser
  <2>2. Call("feed", parser').at = "feed" /\ Call("feed", parser').node = parser'
    BY DEF Call
  <2>3. CASE Opens /\ Opened
    <3>1. HandleTypes' /\ Handled(stack, parser', handles') /\ parser' \notin {None, Nulled}
      BY <1>2, <2>3, OpenedHandled, OpenedHandle
    <3>2. Handled(stack', parser', handles')
      BY <1>0, <2>1, <2>2, <3>1, FedHandled
    <3>3. QED
      BY <3>1, <3>2 DEF HandleInv
  <2>4. CASE /\ parser # None /\ broken' = (parser = Nulled)
             /\ UNCHANGED <<kids, disturbed, moves, parser, handles>>
    <3>1. HandleTypes'
      BY <2>4, KeptHandles, BoundsAssumption DEF HandleTypes
    <3>2. ASSUME ~broken'
          PROVE  Handled(stack', parser', handles')
      BY <1>0, <1>2, <2>1, <2>2, <2>4, <3>2, FedHandled
    <3>3. QED
      BY <3>1, <3>2 DEF HandleInv
  <2>5. QED
    BY <1>4, <2>3, <2>4 DEF WriteToParser
<1>5. CASE FeedReturns \/ FeedPanics
  BY <1>0, <1>2, <1>5, FeedsHandled
<1>6. CASE Close
  <2>1. /\ parser # None /\ parser' = Nulled /\ UNCHANGED <<handles, moves>>
        /\ broken' = (parser = Nulled \/ InUse(parser))
        /\ stack' = Append(stack, Call("finish", parser))
    BY <1>6 DEF Close, past
  <2>2. Call("finish", parser).at = "finish" /\ Call("finish", parser).node = parser
    BY DEF Call
  <2>3. HandleTypes'
    BY <2>1, KeptHandles, BoundsAssumption DEF HandleTypes, Nulled
  <2>4. ASSUME ~broken'
        PROVE  Handled(stack', parser', handles')
    BY <1>0, <1>2, <2>1, <2>2, <2>4, FinishHandled
  <2>5. QED
    BY <2>3, <2>4 DEF HandleInv
<1>7. CASE FinishReturns \/ CloseCompletes \/ CloseReturns
  BY <1>0, <1>1, <1>2, <1>7, ClosesHandled
<1>8. QED
  BY <1>3, <1>4, <1>5, <1>6, <1>7 DEF Opening

LEMMA HandleStep ==
  ASSUME StackTypes, HandleTypes, HandleInv, [Next]_vars
  PROVE  HandleTypes' /\ HandleInv'
<1>0. Stacked(stack)
  BY DEF StackTypes
<1>1. CASE UNCHANGED vars
  BY <1>1 DEF vars, html5, past, HandleTypes, Born, HandleInv, Handled
<1>2. CASE Next
  BY <1>0, <1>2, StepsAre, OthersHandled, OpeningHandled
<1>3. QED
  BY <1>1, <1>2
===============================================================================
