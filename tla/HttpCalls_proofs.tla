-------------------------- MODULE HttpCalls_proofs --------------------------
(***************************************************************************)
(* What the calls of the HTTP client's stack, the transfers they are about *)
(* and what the makers were told have to do with each other, at any depth  *)
(* of nested callbacks.                                                    *)
(*                                                                         *)
(* That a call never goes on with a freed transfer is not inductive: it is *)
(* one line of Right, which relates the calls on behalf of a transfer to   *)
(* its state, its latches and the ends it told.  Settled orders the calls  *)
(* about one transfer, and keeps what is being aborted off the lists that  *)
(* a nested tick works on.                                                 *)
(***************************************************************************)
EXTENDS HttpTransfer_proofs

\* The calls of s on behalf of transfer t.
CallsOf(s, t) == {f.at : f \in {g \in Elements(s) : g.t = t}}

Err(d) == \E i \in DOMAIN d : d[i] = "error"
Once(d) == \A i, j \in DOMAIN d : d[i] = "error" /\ d[j] = "error" => i = j

\* The calls that one on behalf of the same transfer may stand on.
Above(a, b) == (b = "sync" /\ a # "sync") \/ (a = "abort" /\ b = "deliver")

\* No transfer of Z is being aborted.
NoneIn(s, Z) == \A u \in Transfers : u \in Z => "abort" \notin CallsOf(s, u)

\* The calls that stay inside the error callback of an abort.
Inner == {"script", "abort", "make"}

\* Of the transfers that are aborted below another call none is in the list K,
\* and none that can still start, complete or be answered, X, is below a tick.
Settled(s, K, X) ==
  /\ \A f, g : Over(s, f, g) /\ f.t = g.t /\ g.t \in Transfers => Above(f.at, g.at)
  /\ \A f, g : Over(s, f, g) /\ g.at = "abort" /\ g.t \in Transfers => g.t \notin K /\ (g.t \in X => f.at \in Inner)

LEMMA CallsIn ==
  ASSUME NEW s, NEW u, NEW a
  PROVE  a \in CallsOf(s, u) <=> \E g \in Elements(s) : g.t = u /\ g.at = a
<1> DEFINE E == Elements(s)
<1> HIDE DEF E
<1>1. a \in {f.at : f \in {g \in E : g.t = u}} <=> \E g \in E : g.t = u /\ g.at = a
  OBVIOUS
<1>2. QED
  BY <1>1 DEF CallsOf, E

LEMMA CallsPush ==
  ASSUME NEW s \in Seq(Call), NEW c \in Call, NEW u
  PROVE  /\ c.t = u => CallsOf(<<c>> \o s, u) = CallsOf(s, u) \union {c.at}
         /\ c.t # u => CallsOf(<<c>> \o s, u) = CallsOf(s, u)
<1>1. Elements(<<c>> \o s) = {c} \union Elements(s)
  BY Pushed
<1>2. QED
  BY <1>1 DEF CallsOf

LEMMA SettledEmpty == \A K, X : Settled(<< >>, K, X)
  BY Emptied DEF Settled

LEMMA SettledPush ==
  ASSUME NEW s \in Seq(Call), NEW c \in Call, NEW K, NEW X, Settled(s, K, X),
         c.t \in Transfers => \A a \in CallsOf(s, c.t) : Above(c.at, a),
         NoneIn(s, K), c.at \in Inner \/ NoneIn(s, X)
  PROVE  Settled(<<c>> \o s, K, X)
<1> DEFINE p == <<c>> \o s
<1>1. \A f, g : Over(p, f, g) <=> (f = c /\ g \in Elements(s)) \/ Over(s, f, g)
  BY Pushed
<1> HIDE DEF p
<1>2. \A g \in Elements(s) : g.at \in CallsOf(s, g.t)
  BY DEF CallsOf
<1>3. ASSUME NEW f, NEW g, Over(p, f, g), f.t = g.t, g.t \in Transfers PROVE Above(f.at, g.at)
  BY <1>1, <1>2, <1>3 DEF Settled
<1>4. ASSUME NEW f, NEW g, Over(p, f, g), g.at = "abort", g.t \in Transfers
      PROVE  g.t \notin K /\ (g.t \in X => f.at \in Inner)
  <2>1. CASE Over(s, f, g)
    BY <2>1, <1>4 DEF Settled
  <2>2. CASE f = c /\ g \in Elements(s)
    BY <2>2, <1>2, <1>4 DEF NoneIn
  <2>3. QED
    BY <1>1, <1>4, <2>1, <2>2
<1>5. QED
  BY <1>3, <1>4 DEF Settled, p

LEMMA SettledPop ==
  ASSUME NEW s \in Seq(Call), s # << >>, NEW K, NEW X, Settled(s, K, X)
  PROVE  LET h == Head(s)
             t == Tail(s)
         IN  /\ Settled(t, K, X) /\ NoneIn(t, K) /\ (h.at \in Inner \/ NoneIn(t, X))
             /\ h.at # "abort" => NoneIn(s, K) /\ (h.at \in Inner \/ NoneIn(s, X))
             /\ \A u : u # h.t => CallsOf(s, u) = CallsOf(t, u)
             /\ CallsOf(s, h.t) = CallsOf(t, h.t) \union {h.at}
             /\ h.t \in Transfers => \A a \in CallsOf(t, h.t) : Above(h.at, a)
<1> DEFINE h == Head(s)
           t == Tail(s)
<1>1. /\ h \in Call /\ t \in Seq(Call) /\ s = <<h>> \o t
      /\ \A f, g : Over(s, f, g) <=> (f = h /\ g \in Elements(t)) \/ Over(t, f, g)
  BY Popped
<1> HIDE DEF h, t
<1>2. Settled(t, K, X)
  BY <1>1 DEF Settled
<1>3. \A u : /\ h.t = u => CallsOf(s, u) = CallsOf(t, u) \union {h.at}
             /\ h.t # u => CallsOf(s, u) = CallsOf(t, u)
  BY <1>1, CallsPush
<1>4. \A u, a : a \in CallsOf(t, u) => \E g \in Elements(t) : g.t = u /\ g.at = a
  BY CallsIn
<1>9. ASSUME NEW u, NEW a \in CallsOf(t, u)
      PROVE  \E g \in Elements(t) : g.t = u /\ g.at = a /\ Over(s, h, g)
  BY <1>1, <1>4
<1>10. ASSUME NEW f, NEW g, Over(s, f, g), g.t \in Transfers
       PROVE  /\ f.t = g.t => Above(f.at, g.at)
              /\ g.at = "abort" => g.t \notin K /\ (g.t \in X => f.at \in Inner)
  BY <1>10 DEF Settled
<1>5. NoneIn(t, K) /\ (h.at \in Inner \/ NoneIn(t, X))
  <2>1. ASSUME NEW u \in Transfers, "abort" \in CallsOf(t, u) PROVE u \notin K /\ (u \in X => h.at \in Inner)
    <3>1. PICK g \in Elements(t) : g.t = u /\ g.at = "abort" /\ Over(s, h, g)
      BY <1>9, <2>1
    <3>2. QED
      BY <1>10, <3>1
  <2>2. QED
    BY <2>1 DEF NoneIn
<1>6. ASSUME h.t \in Transfers, NEW a \in CallsOf(t, h.t) PROVE Above(h.at, a)
  <2>1. PICK g \in Elements(t) : g.t = h.t /\ g.at = a /\ Over(s, h, g)
    BY <1>9
  <2>2. QED
    BY <1>6, <1>10, <2>1
<1>7. h.at # "abort" => NoneIn(s, K) /\ (h.at \in Inner \/ NoneIn(s, X))
  BY <1>3, <1>5 DEF NoneIn
<1>8. QED
  BY <1>2, <1>3, <1>5, <1>6, <1>7 DEF h, t

\* The sets may lose members, and gain transfers that are not being aborted.
LEMMA SettledMore ==
  ASSUME NEW s, NEW K, NEW X, NEW L, NEW Y,
         \A u \in Transfers : "abort" \in CallsOf(s, u) => (u \in L => u \in K) /\ (u \in Y => u \in X)
  PROVE  /\ s \in Seq(Call) /\ Settled(s, K, X) => Settled(s, L, Y)
         /\ NoneIn(s, K) => NoneIn(s, L)
         /\ NoneIn(s, X) => NoneIn(s, Y)
<1>1. ASSUME s \in Seq(Call), Settled(s, K, X) PROVE Settled(s, L, Y)
  <2>1. \A f, g : Over(s, f, g) => g \in Elements(s)
    BY <1>1, Inside
  <2>2. \A g \in Elements(s) : g.at \in CallsOf(s, g.t)
    BY DEF CallsOf
  <2>3. QED
    BY <1>1, <2>1, <2>2 DEF Settled
<1>2. QED
  BY <1>1 DEF NoneIn

\* u with the callback of r on top of it, or without.
Calling(st, r, u) == st = u \/ (r.page /\ ~r.muted /\ st = <<At("script", None)>> \o u)

LEMMA CallingIs ==
  ASSUME NEW r, NEW c \in Call, NEW s \in Seq(Call)
  PROVE  /\ Calling(Callback(r) \o <<c>> \o s, r, <<c>> \o s)
         /\ Calling(Callback(r) \o (<<c>> \o s), r, <<c>> \o s)
         /\ Calling(<<c>> \o s, r, <<c>> \o s)
<1>1. <<c>> \o s \in Seq(Call)
  BY Pushed
<1>2. Callback(r) = << >> \/ (r.page /\ ~r.muted /\ Callback(r) = <<At("script", None)>>)
  BY DEF Callback
<1>3. << >> \o (<<c>> \o s) = <<c>> \o s
  BY <1>1
<1>4. QED
  BY <1>2, <1>3, CalledBack DEF Calling

\* A call on behalf of no transfer goes on top of s.
LEMMA SettledBare ==
  ASSUME NEW s \in Seq(Call), NEW c \in Call, c.t = None,
         NEW K, NEW X, Settled(s, K, X), NoneIn(s, K), c.at \in Inner \/ NoneIn(s, X)
  PROVE  /\ Settled(<<c>> \o s, K, X) /\ <<c>> \o s \in Seq(Call)
         /\ \A u \in Transfers : CallsOf(<<c>> \o s, u) = CallsOf(s, u)
         /\ NoneIn(<<c>> \o s, K) /\ (NoneIn(s, X) => NoneIn(<<c>> \o s, X))
<1>1. Settled(<<c>> \o s, K, X)
  BY SettledPush, SetsAssumption
<1>2. \A u : u # None => CallsOf(<<c>> \o s, u) = CallsOf(s, u)
  BY CallsPush
<1>3. \A u \in Transfers : CallsOf(<<c>> \o s, u) = CallsOf(s, u)
  BY <1>2, SetsAssumption
<1>4. QED
  BY <1>1, <1>2, <1>3, Pushed DEF NoneIn

-----------------------------------------------------------------------------
\* curl works for the connection of transfer r, or has a message of it.
Working(r) == r.conn \in net.running \union net.finished

\* The transfers that can still start, complete or be answered.
Pending == {t \in Transfers : t \in paused \/ tr[t].state \in {"queued", "inflight"}}

\* What a transfer r tells of itself, on the next-tick list when k, with a
\* connection at work when b.
Plain(r, k, b) ==
  /\ b => r.state = "inflight"
  /\ r.state = "aborted" => r.muted
  /\ r.muted => r.state \in {"aborted", "freed"}
  /\ r.handle => r.page /\ r.state \notin {"none", "aborted", "freed"}
  /\ r.owner # None => r.page /\ r.state \notin {"none", "aborted", "freed"}
  /\ k => r.state = "created" /\ ~r.handle

\* What the calls P on behalf of transfer r and what its maker was told, d, say
\* of it, that a command may name when p.
Right(P, r, d, p, k, b) ==
  /\ "sync" \in P => ~r.page
  /\ "deliver" \in P \/ "done" \in P => r.state \in {"completing", "aborted"}
  /\ "done" \in P => ~r.handle
  /\ "failed" \in P => r.state \in {"inflight", "completing", "aborted"} /\ r.notified /\ ~b
  /\ "serving" \in P \/ "served" \in P => r.state \in {"created", "parked"} /\ ~p /\ ~k
  /\ "abort" \in P => r.state \in {"created", "queued", "parked", "inflight", "completing"}
  /\ "abort" \in P /\ r.state = "completing" => r.notified
  /\ "done" \in P \/ "failed" \in P \/ "served" \in P \/ "abort" \in P => d # << >>
  /\ r.state \in {"completing", "aborted"} => "deliver" \in P \/ "done" \in P \/ "failed" \in P
  /\ r.notified \/ r.muted \/ r.state = "freed" => d # << >>
  /\ r.state = "none" => d = << >> /\ P = {}
  /\ Err(d) => r.notified \/ r.state = "freed" \/ "abort" \in P
  /\ r.notified => r.state \in {"completing", "aborted", "freed"} \/ "abort" \in P \/ "failed" \in P
  /\ Once(d) /\ "detached" \notin P

Fit(P, r, d, p, k, b) == Plain(r, k, b) /\ Right(P, r, d, p, k, b)

Fits(t) == Fit(CallsOf(stack, t), tr[t], told[t], t \in paused, t \in Elements(nextTick), Working(tr[t]))

Calm ==
  /\ Distinct(nextTick)
  /\ net.running \intersect net.finished = {}
  /\ \A t \in Transfers : Fits(t)
  /\ Settled(stack, Elements(nextTick), Pending)

\* A step is about the transfers of S, and leaves s of the stack.
Others(S, s) ==
  \A u \in Transfers \ S :
    /\ tr'[u] = tr[u] /\ told'[u] = told[u]
    /\ CallsOf(s, u) = CallsOf(stack, u)
    /\ u \in paused' => u \in paused
    /\ u \in Elements(nextTick') => u \in Elements(nextTick)
    /\ tr[u].conn \in net'.running \union net'.finished => tr[u].conn \in net.running \union net.finished

LEMMA CalmFrame ==
  ASSUME Calm, NEW S \in SUBSET Transfers, Others(S, stack'),
         Distinct(nextTick'), net'.running \intersect net'.finished = {},
         \A t \in S : Fits(t)', Settled(stack', Elements(nextTick'), Pending')
  PROVE  Calm'
<1>1. ASSUME NEW u \in Transfers \ S PROVE Fits(u)'
  <2>1. Fits(u)
    BY DEF Calm
  <2>2. /\ tr'[u] = tr[u] /\ told'[u] = told[u]
        /\ CallsOf(stack', u) = CallsOf(stack, u)
        /\ u \in paused' => u \in paused
        /\ u \in Elements(nextTick') => u \in Elements(nextTick)
        /\ tr[u].conn \in net'.running \union net'.finished => tr[u].conn \in net.running \union net.finished
    BY DEF Others
  <2>3. Plain(tr'[u], u \in Elements(nextTick'), tr'[u].conn \in net'.running \union net'.finished)
    BY <2>1, <2>2 DEF Fits, Fit, Plain, Working
  <2>4. Right(CallsOf(stack', u), tr'[u], told'[u], u \in paused', u \in Elements(nextTick'),
              tr'[u].conn \in net'.running \union net'.finished)
    BY <2>1, <2>2 DEF Fits, Fit, Right, Working
  <2>5. QED
    BY <2>3, <2>4 DEF Fits, Fit, Plain, Right, Working, CallsOf, Elements
<1>2. \A t \in Transfers : Fits(t)'
  BY <1>1
<1>3. QED
  BY <1>2 DEF Calm, Distinct, Settled, Over, Elements, Pending

-----------------------------------------------------------------------------
\* The lists may lose transfers, and gain those that are not being aborted.
LEMMA Pended ==
  ASSUME NEW S \in SUBSET Transfers, NEW s, Others(S, s),
         \A t \in S : "abort" \in CallsOf(s, t) =>
                        /\ t \in Elements(nextTick') => t \in Elements(nextTick)
                        /\ t \in Pending' => t \in Pending
  PROVE  /\ s \in Seq(Call) /\ Settled(s, Elements(nextTick), Pending) => Settled(s, Elements(nextTick'), Pending')
         /\ NoneIn(s, Elements(nextTick)) => NoneIn(s, Elements(nextTick'))
         /\ NoneIn(s, Pending) => NoneIn(s, Pending')
<1> DEFINE K == Elements(nextTick)
           L == Elements(nextTick')
           X == Pending
           Y == Pending'
<1>1. ASSUME NEW u \in Transfers \ S PROVE (u \in L => u \in K) /\ (u \in Y => u \in X)
  BY DEF Others, Pending
<1>2. \A u \in Transfers : "abort" \in CallsOf(s, u) => (u \in L => u \in K) /\ (u \in Y => u \in X)
  BY <1>1
<1> HIDE DEF K, L, X, Y
<1>3. /\ s \in Seq(Call) /\ Settled(s, K, X) => Settled(s, L, Y)
      /\ NoneIn(s, K) => NoneIn(s, L)
      /\ NoneIn(s, X) => NoneIn(s, Y)
  BY <1>2, SettledMore
<1>4. QED
  BY <1>3 DEF K, L, X, Y

\* The calls of the stack that act on a transfer.
LEMMA CallsActing ==
  ASSUME Sane, Calm, NEW t \in Transfers
  PROVE  CallsOf(stack, t) \subseteq {"sync", "deliver", "done", "failed", "serving", "served", "abort"}
<1> SUFFICES ASSUME NEW a \in CallsOf(stack, t)
             PROVE  a \in {"sync", "deliver", "done", "failed", "serving", "served", "abort"}
  OBVIOUS
<1>1. PICK g \in Elements(stack) : g.t = t /\ g.at = a
  BY CallsIn
<1>2. Framed(g)
  BY DEF Sane, Shaped
<1>3. g.at \in Places /\ g.at \notin Bare /\ g.at # "detached"
  <2>1. "detached" \notin CallsOf(stack, t)
    BY DEF Calm, Fits, Fit, Right
  <2>2. QED
    BY <1>1, <1>2, <2>1, SetsAssumption DEF Framed, Call
<1>4. QED
  BY <1>1, <1>3, InPlaces

LEMMA NoneDetached ==
  ASSUME Sane, Calm, NEW t \in Transfers
  PROVE  ~FailedDetached(t)
<1> SUFFICES ASSUME stack # << >>, Head(stack).at = "detached", Head(stack).t = t PROVE FALSE
  BY DEF FailedDetached, Resumed, Top
<1>1. Head(stack) \in Elements(stack)
  BY DEF Sane, TypeOK, Elements
<1>2. "detached" \in CallsOf(stack, t)
  BY <1>1, CallsIn
<1>3. QED
  BY <1>2 DEF Calm, Fits, Fit, Right

\* A transfer that the tick takes up: only syncRequest waits for it.
LEMMA Taken ==
  ASSUME Sane, Calm, NEW q, Top(q), q \notin Inner, NEW t \in Transfers,
         \/ t \in Elements(nextTick)
         \/ tr[t].state = "queued"
         \/ t \in paused /\ tr[t].state = "parked"
         \/ tr[t].state = "inflight" /\ Working(tr[t])
  PROVE  /\ CallsOf(stack, t) \subseteq {"sync"}
         /\ NoneIn(stack, Elements(nextTick)) /\ NoneIn(stack, Pending)
         /\ ~tr[t].notified /\ ~Err(told[t]) /\ Once(told[t]) /\ ~tr[t].muted
         /\ tr[t].state \in {"created", "queued", "parked", "inflight"}
<1>1. stack \in Seq(Call) /\ stack # << >> /\ Head(stack).at = q
  BY DEF Sane, TypeOK, Top
<1>2. Settled(stack, Elements(nextTick), Pending) /\ Fits(t)
  BY DEF Calm
<1> DEFINE K == Elements(nextTick)
           X == Pending
<1> HIDE DEF K, X
<1>3. NoneIn(stack, K) /\ NoneIn(stack, X)
  <2>1. Settled(stack, K, X)
    BY <1>2 DEF K, X
  <2>2. QED
    BY <1>1, <2>1, SettledPop DEF Inner
<1>4. "abort" \notin CallsOf(stack, t)
  BY <1>3 DEF NoneIn, K, X, Pending
<1>5. /\ Plain(tr[t], t \in Elements(nextTick), Working(tr[t]))
      /\ Right(CallsOf(stack, t), tr[t], told[t], t \in paused, t \in Elements(nextTick), Working(tr[t]))
  BY <1>2 DEF Fits, Fit
<1>6. tr[t].state \in {"created", "queued", "parked", "inflight"} /\ ~tr[t].muted
  BY <1>5 DEF Plain
<1>7. \A a \in {"deliver", "done", "failed", "serving", "served"} : a \notin CallsOf(stack, t)
  BY <1>5, <1>6 DEF Right, Plain
<1>8. CallsOf(stack, t) \subseteq {"sync"}
  BY <1>4, <1>7, CallsActing
<1>9. ~tr[t].notified
  BY <1>4, <1>5, <1>6, <1>7 DEF Right
<1>10. ~Err(told[t]) /\ Once(told[t])
  BY <1>4, <1>5, <1>6, <1>9 DEF Right
<1>11. QED
  BY <1>3, <1>6, <1>8, <1>9, <1>10 DEF K, X

\* A call on behalf of t goes on: what is under it.
LEMMA Resuming ==
  ASSUME Sane, Calm, NEW p \in {"deliver", "done", "failed", "serving", "served"}, NEW t \in Transfers,
         Resumed(p, t)
  PROVE  /\ Tail(stack) \in Seq(Call)
         /\ Settled(Tail(stack), Elements(nextTick), Pending)
         /\ NoneIn(Tail(stack), Elements(nextTick)) /\ NoneIn(Tail(stack), Pending)
         /\ CallsOf(stack, t) = CallsOf(Tail(stack), t) \union {p}
         /\ CallsOf(Tail(stack), t) \subseteq {"sync"}
         /\ \A u \in Transfers \ {t} : CallsOf(Tail(stack), u) = CallsOf(stack, u)
         /\ Fits(t)
<1>1. stack \in Seq(Call) /\ stack # << >> /\ Head(stack).at = p /\ Head(stack).t = t
  BY DEF Sane, TypeOK, Resumed, Top
<1> DEFINE K == Elements(nextTick)
           X == Pending
<1>2. Settled(stack, K, X) /\ Fits(t)
  BY DEF Calm
<1> HIDE DEF K, X
<1>3. /\ Settled(Tail(stack), K, X) /\ NoneIn(Tail(stack), K) /\ (p \in Inner \/ NoneIn(Tail(stack), X))
      /\ \A u : u # t => CallsOf(stack, u) = CallsOf(Tail(stack), u)
      /\ CallsOf(stack, t) = CallsOf(Tail(stack), t) \union {p}
      /\ \A a \in CallsOf(Tail(stack), t) : Above(p, a)
  BY <1>1, <1>2, SettledPop
<1>4. p \notin Inner /\ \A a : Above(p, a) => a = "sync"
  BY DEF Inner, Above
<1>5. QED
  BY <1>1, <1>2, <1>3, <1>4 DEF K, X

LEMMA Appending ==
  ASSUME NEW d \in Seq(Ends), NEW e \in Ends
  PROVE  /\ Append(d, e) # << >>
         /\ e # "error" => (Err(Append(d, e)) <=> Err(d)) /\ (Once(d) => Once(Append(d, e)))
         /\ ~Err(d) => Once(Append(d, e))
<1> DEFINE a == Append(d, e)
<1>1. /\ DOMAIN a = 1..(Len(d) + 1) /\ DOMAIN d = 1..Len(d) /\ Len(d) \in Nat
      /\ a[Len(d) + 1] = e /\ \A i \in 1..Len(d) : a[i] = d[i]
  OBVIOUS
<1>2. a # << >>
  <2>1. a \in Seq(Ends) /\ Len(a) = Len(d) + 1
    OBVIOUS
  <2>2. Len(<< >>) = 0 /\ Len(d) + 1 # 0
    BY <1>1
  <2>3. QED
    BY <2>1, <2>2
<1> HIDE DEF a
<1>3. \A i \in DOMAIN a : i \in DOMAIN d \/ i = Len(d) + 1
  BY <1>1
<1>4. DOMAIN d \subseteq DOMAIN a
  BY <1>1
<1>5. \A i \in DOMAIN d : a[i] = d[i]
  BY <1>1
<1>6. QED
  BY <1>1, <1>2, <1>3, <1>4, <1>5 DEF a, Err, Once

\* The maker of t is told of its end, and of a failure for the first time.
LEMMA Telling ==
  ASSUME Sane, NEW t \in Transfers, Fits(t), NEW S \in SUBSET Transfers, t \in S, NEW e \in Ends, Tell(S, e),
         e = "error" => ~Err(told[t])
  PROVE  /\ told'[t] # << >> /\ Once(told'[t])
         /\ e # "error" => (Err(told'[t]) => Err(told[t]))
<1>1. told[t] \in Seq(Ends) /\ told'[t] = (IF ~tr[t].muted THEN Append(told[t], e) ELSE told[t])
  BY DEF Tell, Sane, Base, Typed
<1>2. Once(told[t]) /\ (tr[t].muted => told[t] # << >>)
  BY DEF Fits, Fit, Right
<1>3. CASE tr[t].muted
  BY <1>1, <1>2, <1>3
<1>4. CASE ~tr[t].muted
  BY <1>1, <1>2, <1>4, Appending
<1>5. QED
  BY <1>3, <1>4

LEMMA ToldOthers ==
  ASSUME NEW S, NEW e, Tell(S, e)
  PROVE  \A u \in Transfers \ S : told'[u] = told[u]
  BY DEF Tell

-----------------------------------------------------------------------------
LEMMA EndedFields ==
  ASSUME NEW r \in Transfer
  PROVE  /\ Freed(r).state = "freed" /\ Freed(r).conn = None /\ Freed(r).owner = None /\ ~Freed(r).handle
         /\ Freed(r).page = r.page /\ Freed(r).notified = r.notified
         /\ Detached(r).state = "aborted" /\ Detached(r).conn = r.conn /\ Detached(r).owner = None
         /\ ~Detached(r).handle /\ Detached(r).page = r.page /\ Detached(r).muted
         /\ Detached(r).notified = r.notified
  BY DEF Freed, Detached, Transfer

\* Transfers go, and others that a callback is under way for lose their owner.
LEMMA CalmEnding ==
  ASSUME Sane, Calm, NEW now \in SUBSET Transfers, NEW later \in SUBSET Transfers, now \intersect later = {},
         tr' = [t \in Transfers |-> IF t \in now THEN Freed(tr[t])
                                    ELSE IF t \in later THEN Detached(tr[t])
                                    ELSE tr[t]],
         net' = RemoveConns(Held(now)), nextTick' = Without(nextTick, now), paused' \subseteq paused,
         stack' \in Seq(Call), Settled(stack', Elements(nextTick), Pending),
         \A u \in Transfers : CallsOf(stack', u) \subseteq CallsOf(stack, u),
         \A u \in Transfers \ (now \union later) : told'[u] = told[u] /\ CallsOf(stack', u) = CallsOf(stack, u),
         \A u \in now \union later : told'[u] # << >> /\ Once(told'[u]) /\ (Err(told'[u]) => Err(told[u])),
         \A u \in now : CallsOf(stack', u) \subseteq {"sync"},
         \A u \in later : /\ tr[u].state = "completing" /\ "abort" \notin CallsOf(stack', u)
                          /\ \/ "deliver" \in CallsOf(stack', u) \/ "done" \in CallsOf(stack', u)
                             \/ "failed" \in CallsOf(stack', u)
  PROVE  Calm'
<1> DEFINE S == now \union later
<1>1. /\ tr \in [Transfers -> Transfer] /\ net \in Net /\ S \in SUBSET Transfers
      /\ Distinct(nextTick') /\ Elements(nextTick') = Elements(nextTick) \ now
  BY Unlisted DEF Sane, Base, Typed, Calm
<1>2. /\ \A u \in now : tr'[u] = Freed(tr[u])
      /\ \A u \in later : tr'[u] = Detached(tr[u])
      /\ \A u \in Transfers \ S : tr'[u] = tr[u]
  BY <1>1
<1>9. \A u \in Transfers : tr[u] \in Transfer
  BY <1>1
<1>3. /\ net'.running \subseteq net.running /\ net'.finished \subseteq net.finished
      /\ net'.running \intersect net'.finished = {} /\ net'.running \subseteq Conns /\ net'.finished \subseteq Conns
  <2>1. \E back : net'.running = net.running \ back /\ net'.finished = net.finished \ back
    BY DEF RemoveConns
  <2>2. QED
    BY <1>1, <2>1 DEF Calm, Net
<1>4. Others(S, stack')
  BY <1>1, <1>2, <1>3 DEF Others
<1>5. ASSUME NEW u \in now PROVE Fits(u)'
  <2>1. /\ tr'[u].state = "freed" /\ tr'[u].conn = None /\ tr'[u].owner = None /\ ~tr'[u].handle
        /\ tr'[u].page = tr[u].page /\ tr[u] \in Transfer
    BY <1>2, <1>9, EndedFields
  <2>2. ~Working(tr[u])' /\ ~(u \in Elements(nextTick'))
    BY <1>1, <1>3, <2>1, SetsAssumption DEF Working
  <2>3. "sync" \in CallsOf(stack', u) => ~tr[u].page
    BY DEF Calm, Fits, Fit, Right
  <2>4. Plain(tr'[u], u \in Elements(nextTick'), Working(tr[u])')
    BY <2>1, <2>2 DEF Plain
  <2>5. CallsOf(stack', u) \subseteq {"sync"} /\ told'[u] # << >> /\ Once(told'[u])
    OBVIOUS
  <2>6. Right(CallsOf(stack', u), tr'[u], told'[u], u \in paused', u \in Elements(nextTick'), Working(tr[u])')
    BY <2>1, <2>3, <2>5 DEF Right
  <2>7. QED
    BY <2>4, <2>6 DEF Fits, Fit, Plain, Right, Working, CallsOf, Elements
<1>6. ASSUME NEW u \in later PROVE Fits(u)'
  <2>1. /\ tr'[u].state = "aborted" /\ tr'[u].conn = tr[u].conn /\ tr'[u].owner = None /\ ~tr'[u].handle
        /\ tr'[u].page = tr[u].page /\ tr'[u].muted /\ tr'[u].notified = tr[u].notified
    BY <1>2, <1>9, EndedFields
  <2>2. Fit(CallsOf(stack, u), tr[u], told[u], u \in paused, u \in Elements(nextTick), Working(tr[u]))
    BY DEF Calm, Fits
  <2>3. ~Working(tr[u])' /\ ~(u \in Elements(nextTick'))
    BY <1>1, <1>3, <2>1, <2>2 DEF Working, Fit, Plain
  <2>4. Plain(tr'[u], u \in Elements(nextTick'), Working(tr[u])')
    BY <2>1, <2>3 DEF Plain
  <2>5. /\ CallsOf(stack', u) \subseteq CallsOf(stack, u) /\ told'[u] # << >> /\ Once(told'[u])
        /\ Err(told'[u]) => Err(told[u])
        /\ tr[u].state = "completing" /\ "abort" \notin CallsOf(stack', u)
        /\ \/ "deliver" \in CallsOf(stack', u) \/ "done" \in CallsOf(stack', u)
           \/ "failed" \in CallsOf(stack', u)
    OBVIOUS
  <2>6. Right(CallsOf(stack', u), tr'[u], told'[u], u \in paused', u \in Elements(nextTick'), Working(tr[u])')
    BY <2>1, <2>2, <2>3, <2>5 DEF Right, Fit
  <2>7. QED
    BY <2>4, <2>6 DEF Fits, Fit, Plain, Right, Working, CallsOf, Elements
<1>7. Settled(stack', Elements(nextTick'), Pending')
  <2>1. ASSUME NEW u \in S
        PROVE  (u \in Elements(nextTick') => u \in Elements(nextTick)) /\ (u \in Pending' => u \in Pending)
    <3>1. tr'[u].state \in {"freed", "aborted"}
      BY <1>2, <1>9, EndedFields
    <3>2. QED
      BY <1>1, <3>1 DEF Pending
  <2>2. QED
    BY <1>1, <1>4, <2>1, Pended
<1>8. QED
  <2>1. \A u \in S : Fits(u)'
    BY <1>5, <1>6
  <2>2. QED
    BY <1>1, <1>3, <1>4, <1>7, <2>1, CalmFrame

\* The same with every transfer freed that no callback is under way for.
LEMMA CalmDetaching ==
  ASSUME Sane, Calm, ~performing, NEW S \in SUBSET Transfers, DetachOrDeinit(S), paused' \subseteq paused,
         stack' \in Seq(Call), Settled(stack', Elements(nextTick), Pending),
         \A u \in Transfers : CallsOf(stack', u) \subseteq CallsOf(stack, u),
         \A u \in Transfers \ S : told'[u] = told[u] /\ CallsOf(stack', u) = CallsOf(stack, u),
         \A u \in S : told'[u] # << >> /\ Once(told'[u]) /\ (Err(told'[u]) => Err(told[u])),
         \A u \in S : tr[u].state # "completing" => CallsOf(stack', u) \subseteq {"sync"},
         \A u \in S : tr[u].state = "completing" =>
                        /\ "abort" \notin CallsOf(stack', u)
                        /\ \/ "deliver" \in CallsOf(stack', u) \/ "done" \in CallsOf(stack', u)
                           \/ "failed" \in CallsOf(stack', u)
  PROVE  Calm'
<1> DEFINE later == {t \in S : MustDefer(t)}
           now == S \ later
<1>1. /\ tr' = [t \in Transfers |-> IF t \in now THEN Freed(tr[t])
                                    ELSE IF t \in later THEN Detached(tr[t])
                                    ELSE tr[t]]
      /\ net' = RemoveConns(Held(now)) /\ nextTick' = Without(nextTick, now)
  BY DEF DetachOrDeinit
<1>2. /\ now \in SUBSET Transfers /\ later \in SUBSET Transfers /\ now \intersect later = {}
      /\ now \union later = S
  OBVIOUS
<1>3. /\ \A u \in later : tr[u].state = "completing"
      /\ \A u \in now : tr[u].state # "completing"
  BY DEF MustDefer
<1> HIDE DEF now, later
<1>4. /\ \A u \in now : u \in S /\ CallsOf(stack', u) \subseteq {"sync"}
      /\ \A u \in later : /\ tr[u].state = "completing" /\ "abort" \notin CallsOf(stack', u)
                          /\ \/ "deliver" \in CallsOf(stack', u) \/ "done" \in CallsOf(stack', u)
                             \/ "failed" \in CallsOf(stack', u)
  BY <1>2, <1>3
<1>5. QED
  BY <1>1, <1>2, <1>4, CalmEnding

\* Transfer.deinit of a transfer that only syncRequest still waits for.
LEMMA CalmDeiniting ==
  ASSUME Sane, Calm, NEW t \in Transfers, Deinit({t}), UNCHANGED <<told, pauses>>,
         stack' \in Seq(Call), Settled(stack', Elements(nextTick), Pending),
         \A u \in Transfers \ {t} : CallsOf(stack', u) = CallsOf(stack, u),
         CallsOf(stack', t) \subseteq CallsOf(stack, t), CallsOf(stack', t) \subseteq {"sync"},
         told[t] # << >>
  PROVE  Calm'
<1> DEFINE now == {t}
           later == {}
<1>1. tr' = [u \in Transfers |-> IF u \in now THEN Freed(tr[u])
                                 ELSE IF u \in later THEN Detached(tr[u])
                                 ELSE tr[u]]
  BY DEF Deinit
<1>2. net' = RemoveConns(Held(now)) /\ nextTick' = Without(nextTick, now) /\ paused' \subseteq paused /\ told' = told
  BY DEF Deinit, pauses
<1>3. now \in SUBSET Transfers /\ later \in SUBSET Transfers /\ now \intersect later = {} /\ now \union later = {t}
  OBVIOUS
<1>4. Once(told[t])
  BY DEF Calm, Fits, Fit, Right
<1>5. /\ \A u \in Transfers : CallsOf(stack', u) \subseteq CallsOf(stack, u)
      /\ \A u \in now : CallsOf(stack', u) \subseteq {"sync"}
      /\ \A u \in now \union later : told'[u] # << >> /\ Once(told'[u]) /\ (Err(told'[u]) => Err(told[u]))
      /\ \A u \in Transfers \ (now \union later) : told'[u] = told[u] /\ CallsOf(stack', u) = CallsOf(stack, u)
      /\ \A u \in later : FALSE
  BY <1>2, <1>4
<1> HIDE DEF now, later
<1>6. QED
  BY <1>1, <1>2, <1>3, <1>5, CalmEnding

-----------------------------------------------------------------------------
\* A step that moves one transfer, t, to q.
LEMMA CalmMoving ==
  ASSUME Sane, Calm, NEW t \in Transfers, NEW q, tr' = [tr EXCEPT ![t] = q],
         Distinct(nextTick'), net'.running \intersect net'.finished = {},
         \A u \in Transfers \ {t} :
           /\ told'[u] = told[u] /\ CallsOf(stack', u) = CallsOf(stack, u)
           /\ u \in paused' => u \in paused
           /\ u \in Elements(nextTick') => u \in Elements(nextTick)
           /\ tr[u].conn \in net'.running \union net'.finished => tr[u].conn \in net.running \union net.finished,
         Fit(CallsOf(stack', t), q, told'[t], t \in paused', t \in Elements(nextTick'),
             q.conn \in net'.running \union net'.finished),
         stack' \in Seq(Call), Settled(stack', Elements(nextTick'), Pending),
         "abort" \in CallsOf(stack', t) /\ t \in Pending' => t \in Pending
  PROVE  Calm'
<1>1. tr'[t] = q /\ \A u \in Transfers \ {t} : tr'[u] = tr[u]
  BY DEF Sane, Base, Typed
<1>2. Others({t}, stack')
  BY <1>1 DEF Others
<1>3. Fits(t)'
  <2>1. Plain(tr'[t], t \in Elements(nextTick'), tr'[t].conn \in net'.running \union net'.finished)
    BY <1>1 DEF Fit
  <2>2. Right(CallsOf(stack', t), tr'[t], told'[t], t \in paused', t \in Elements(nextTick'),
              tr'[t].conn \in net'.running \union net'.finished)
    BY <1>1 DEF Fit
  <2>3. QED
    BY <2>1, <2>2 DEF Fits, Fit, Plain, Right, Working, CallsOf, Elements
<1>4. Settled(stack', Elements(nextTick'), Pending')
  <2> DEFINE L == Elements(nextTick')
             X == Pending
             Y == Pending'
  <2>1. \A u \in Transfers \ {t} : u \in Y => u \in X
    BY <1>1 DEF Pending
  <2>2. \A u \in Transfers : "abort" \in CallsOf(stack', u) => (u \in L => u \in L) /\ (u \in Y => u \in X)
    BY <2>1
  <2>3. Settled(stack', L, X)
    OBVIOUS
  <2> HIDE DEF L, X, Y
  <2>4. Settled(stack', L, Y)
    BY <2>2, <2>3, SettledMore
  <2>5. QED
    BY <2>4 DEF L, Y
<1>5. QED
  BY <1>2, <1>3, <1>4, CalmFrame

\* A step that moves no transfer.
LEMMA CalmQuiet ==
  ASSUME Sane, Calm, UNCHANGED <<tr, told, nextTick>>, paused' \subseteq paused,
         net'.running \intersect net'.finished = {},
         net'.running \union net'.finished \subseteq net.running \union net.finished,
         stack' \in Seq(Call), Settled(stack', Elements(nextTick), Pending),
         \A u \in Transfers : CallsOf(stack', u) = CallsOf(stack, u)
  PROVE  Calm'
<1>1. Others({}, stack')
  BY DEF Others
<1>2. Settled(stack', Elements(nextTick'), Pending')
  BY <1>1, Pended
<1>3. Distinct(nextTick')
  BY DEF Calm
<1>4. QED
  BY <1>1, <1>2, <1>3, CalmFrame

\* The stack s can take a call on behalf of t that starts, or ends, it.
Ready(s, t) ==
  /\ s \in Seq(Call) /\ Settled(s, Elements(nextTick), Pending) /\ NoneIn(s, Elements(nextTick))
  /\ \A u \in Transfers \ {t} : CallsOf(s, u) = CallsOf(stack, u)

\* A transfer r that can be started: nothing was told of it yet.
Fresh(r) == Startable(r) /\ ~r.muted /\ ~r.notified /\ (r.handle => r.page) /\ (r.owner # None => r.page)

LEMMA FreshFields ==
  ASSUME NEW r, Fresh(r), NEW c \in Conns
  PROVE  LET g == [Reset(r) EXCEPT !.notified = TRUE]
             d == Committed(r, c)
             w == [r EXCEPT !.state = "queued"]
         IN  /\ g.state = "created" /\ g.conn = None /\ g.notified
             /\ d.state = "inflight" /\ d.conn = c /\ ~d.notified /\ (d.handle => d.page)
             /\ w.state = "queued" /\ w.conn = None /\ ~w.notified
             /\ \A x \in {g, d, w} : /\ x.page = r.page /\ ~x.muted /\ (x.handle => x.page)
                                     /\ (x.owner # None => x.page)
  BY DEF Fresh, Startable, Reset, Committed, Transfer

\* st is s with a call on behalf of t on top, and perhaps a callback of it.
Called(st, r, p, t, s) ==
  \/ st = Callback(r) \o <<At(p, t)>> \o s
  \/ st = Callback(r) \o (<<At(p, t)>> \o s)
  \/ st = <<At(p, t)>> \o s

LEMMA SettledOn ==
  ASSUME NEW s \in Seq(Call), NEW p \in Places, NEW t \in Transfers, NEW K, NEW X,
         Settled(s, K, X), NoneIn(s, K), p = "abort" \/ NoneIn(s, X),
         \A a \in CallsOf(s, t) : Above(p, a),
         NEW r, p = "abort" /\ r.page => t \notin K, NEW st, Called(st, r, p, t, s)
  PROVE  /\ Settled(st, K, X)
         /\ CallsOf(st, t) = CallsOf(s, t) \union {p}
         /\ \A u \in Transfers \ {t} : CallsOf(st, u) = CallsOf(s, u)
<1> DEFINE c == At(p, t)
<1>1. c \in Call /\ c.at = p /\ c.t = t
  BY DEF At, Call
<1>2. st = Callback(r) \o <<c>> \o s \/ st = Callback(r) \o (<<c>> \o s) \/ st = <<c>> \o s
  BY DEF Called
<1> HIDE DEF c
<1>3. Calling(st, r, <<c>> \o s)
  BY <1>1, <1>2, CallingIs
<1> DEFINE w == <<c>> \o s
<1>4. /\ w \in Seq(Call) /\ Settled(w, K, X)
      /\ CallsOf(w, t) = CallsOf(s, t) \union {p}
      /\ \A u \in Transfers \ {t} : CallsOf(w, u) = CallsOf(s, u)
  <2>1. w \in Seq(Call)
    BY <1>1, Pushed
  <2>2. Settled(w, K, X)
    BY <1>1, SettledPush DEF Inner
  <2>3. \A u : /\ c.t = u => CallsOf(w, u) = CallsOf(s, u) \union {c.at}
               /\ c.t # u => CallsOf(w, u) = CallsOf(s, u)
    BY <1>1, CallsPush
  <2>4. QED
    BY <1>1, <2>1, <2>2, <2>3
<1> HIDE DEF w
<1>5. CASE st = w
  BY <1>4, <1>5
<1>6. CASE r.page /\ st = <<At("script", None)>> \o w
  <2>1. At("script", None) \in Call /\ At("script", None).at = "script" /\ At("script", None).t = None
    BY DEF At, Call, Places
  <2>2. NoneIn(w, K)
    BY <1>4, <1>6 DEF NoneIn
  <2>3. Settled(st, K, X) /\ \A u \in Transfers : CallsOf(st, u) = CallsOf(w, u)
    BY <1>4, <1>6, <2>1, <2>2, SettledBare DEF Inner
  <2>4. QED
    BY <1>4, <2>3
<1>7. QED
  BY <1>3, <1>5, <1>6 DEF Calling, w

LEMMA SettledAt ==
  ASSUME NEW s, NEW p \in Places, NEW t \in Transfers, Ready(s, t), p = "abort" \/ NoneIn(s, Pending),
         \A a \in CallsOf(s, t) : Above(p, a),
         NEW r, p = "abort" /\ r.page => t \notin Elements(nextTick),
         \/ stack' = Callback(r) \o <<At(p, t)>> \o s
         \/ stack' = Callback(r) \o (<<At(p, t)>> \o s)
         \/ stack' = <<At(p, t)>> \o s
  PROVE  /\ Settled(stack', Elements(nextTick), Pending)
         /\ CallsOf(stack', t) = CallsOf(s, t) \union {p}
         /\ \A u \in Transfers \ {t} : CallsOf(stack', u) = CallsOf(stack, u)
<1> DEFINE K == Elements(nextTick)
           X == Pending
           st == stack'
<1>1. /\ s \in Seq(Call) /\ Settled(s, K, X) /\ NoneIn(s, K) /\ (p = "abort" \/ NoneIn(s, X))
      /\ p = "abort" /\ r.page => t \notin K
      /\ \A u \in Transfers \ {t} : CallsOf(s, u) = CallsOf(stack, u)
  BY DEF Ready
<1>2. Called(st, r, p, t, s)
  BY DEF Called
<1> HIDE DEF K, X, st
<1>3. /\ Settled(st, K, X)
      /\ CallsOf(st, t) = CallsOf(s, t) \union {p}
      /\ \A u \in Transfers \ {t} : CallsOf(st, u) = CallsOf(s, u)
  BY <1>1, <1>2, SettledOn
<1>4. QED
  BY <1>1, <1>3 DEF K, X, st

\* What a transfer that starts, waits or is given up is like.
LEMMA FitStarting ==
  ASSUME NEW P, NEW q, NEW d, NEW b,
         P \subseteq {"sync", "abort"}, "sync" \in P => ~q.page,
         q.state \in {"created", "queued", "parked", "inflight"}, b => q.state = "inflight",
         ~q.muted, q.handle => q.page, q.owner # None => q.page,
         Once(d), "abort" \in P => d # << >>, "abort" \notin P => ~q.notified /\ ~Err(d),
         NEW p, NEW k, k => q.state = "created" /\ ~q.handle
  PROVE  Fit(P, q, d, p, k, b)
<1>1. Plain(q, k, b)
  BY DEF Plain
<1>2. \A a \in {"deliver", "done", "failed", "serving", "served"} : a \notin P
  OBVIOUS
<1>3. Right(P, q, d, p, k, b)
  BY <1>2 DEF Right
<1>4. QED
  BY <1>1, <1>3 DEF Fit

\* makeRequest
LEMMA CalmMaking ==
  ASSUME Sane, Calm, Wired, ~performing, ~InCurl, NEW t \in Transfers, NEW r, Fresh(r), NEW c \in Available,
         NEW good, NEW bad, Ready(good, t), Ready(bad, t),
         CallsOf(good, t) \subseteq {"sync"}, CallsOf(bad, t) \subseteq {"sync"},
         "sync" \in CallsOf(good, t) \union CallsOf(bad, t) => ~r.page,
         ~Err(told[t]), t \notin Elements(nextTick), UNCHANGED nextTick,
         paused' \subseteq paused, t \notin paused', stack' \in Seq(Call),
         MakeRequest(t, r, c, good, bad)
  PROVE  Calm'
<1>0. /\ c \in Conns /\ net.available[c] > 0 /\ Fits(t) /\ Once(told[t])
      /\ Distinct(nextTick) /\ net.running \intersect net.finished = {} /\ net \in Net
      /\ \A u \in Transfers : tr[u] \in Transfer
  BY DEF Available, Calm, Fits, Fit, Right, Sane, Base, Typed
<1> DEFINE g == [Reset(r) EXCEPT !.notified = TRUE]
           d == Committed(r, c)
<1>1. /\ g.state = "created" /\ g.conn = None /\ g.notified
      /\ d.state = "inflight" /\ d.conn = c /\ ~d.notified
      /\ g.page = r.page /\ ~g.muted /\ (g.handle => g.page) /\ (g.owner # None => g.page)
      /\ d.page = r.page /\ ~d.muted /\ (d.handle => d.page) /\ (d.owner # None => d.page)
  BY <1>0, FreshFields
<1>2. ASSUME GiveUp(t, r, bad), UNCHANGED net PROVE Calm'
  <2>1. /\ tr' = [tr EXCEPT ![t] = g] /\ Tell({t}, "error")
        /\ stack' = Callback(r) \o <<At("abort", t)>> \o bad
    BY <1>2 DEF GiveUp
  <2> HIDE DEF g, d
  <2>4. /\ Settled(stack', Elements(nextTick), Pending)
        /\ CallsOf(stack', t) = CallsOf(bad, t) \union {"abort"}
        /\ \A u \in Transfers \ {t} : CallsOf(stack', u) = CallsOf(stack, u)
    <3>1. (\A a \in CallsOf(bad, t) : Above("abort", a)) /\ "abort" \in Places
      BY DEF Above, Places, Unshielded
    <3>2. QED
      BY <2>1, <3>1, SettledAt
  <2>5. told'[t] # << >> /\ Once(told'[t]) /\ \A u \in Transfers \ {t} : told'[u] = told[u]
    BY <2>1, <1>0, Telling, ToldOthers DEF Ends
  <2>6. ~(g.conn \in net'.running \union net'.finished)
    BY <1>0, <1>1, <1>2, SetsAssumption DEF Net
  <2>7. Fit(CallsOf(stack', t), g, told'[t], t \in paused', t \in Elements(nextTick'),
            g.conn \in net'.running \union net'.finished)
    BY <1>1, <2>4, <2>5, <2>6, FitStarting
  <2>8. t \notin Pending'
    BY <1>1, <2>1 DEF Pending, Sane, Base, Typed
  <2>9. \A u \in Transfers \ {t} :
           /\ told'[u] = told[u] /\ CallsOf(stack', u) = CallsOf(stack, u)
           /\ u \in paused' => u \in paused
           /\ u \in Elements(nextTick') => u \in Elements(nextTick)
           /\ tr[u].conn \in net'.running \union net'.finished => tr[u].conn \in net.running \union net.finished
    BY <1>2, <2>4, <2>5 DEF Ready
  <2>10. QED
    BY <1>0, <1>2, <2>1, <2>4, <2>7, <2>8, <2>9, CalmMoving
<1>3. ASSUME tr' = [tr EXCEPT ![t] = d],
             net' = [net EXCEPT !.available[c] = @ - 1,
                                !.inUse = @ \union {c}, !.running = @ \union {c},
                                !.active = @ + 1],
             stack' = <<At("make", None)>> \o good,
             UNCHANGED told
      PROVE  Calm'
  <2> HIDE DEF g, d
  <2>1. net'.running = net.running \union {c} /\ net'.finished = net.finished
    BY <1>0, <1>3 DEF Net
  <2>2. c \notin net.inUse /\ c # None
    BY <1>0, SetsAssumption DEF Wired
  <2>3. c \notin net.finished /\ \A u \in Transfers : tr[u].conn # c
    BY <2>2 DEF Wired, Held
  <2>4. At("make", None) \in Call /\ At("make", None).at = "make" /\ At("make", None).t = None
    BY DEF At, Call, Places
  <2>5. /\ Settled(stack', Elements(nextTick), Pending)
        /\ \A u \in Transfers : CallsOf(stack', u) = CallsOf(good, u)
    BY <1>3, <2>4, SettledBare DEF Ready, Inner
  <2>6. Fit(CallsOf(stack', t), d, told'[t], t \in paused', t \in Elements(nextTick'),
            d.conn \in net'.running \union net'.finished)
    BY <1>0, <1>1, <1>3, <2>5, FitStarting
  <2>7. \A u \in Transfers \ {t} :
           /\ told'[u] = told[u] /\ CallsOf(stack', u) = CallsOf(stack, u)
           /\ u \in paused' => u \in paused
           /\ u \in Elements(nextTick') => u \in Elements(nextTick)
           /\ tr[u].conn \in net'.running \union net'.finished => tr[u].conn \in net.running \union net.finished
    BY <1>3, <2>1, <2>3, <2>5 DEF Ready
  <2>8. "abort" \notin CallsOf(stack', t) /\ net'.running \intersect net'.finished = {}
    BY <1>0, <2>1, <2>3, <2>5
  <2>9. QED
    BY <1>0, <1>3, <2>5, <2>6, <2>7, <2>8, CalmMoving
<1>4. \/ GiveUp(t, r, bad) /\ UNCHANGED net
      \/ /\ tr' = [tr EXCEPT ![t] = d]
         /\ net' = [net EXCEPT !.available[c] = @ - 1,
                               !.inUse = @ \union {c}, !.running = @ \union {c},
                               !.active = @ + 1]
         /\ stack' = <<At("make", None)>> \o good
         /\ UNCHANGED told
  BY DEF MakeRequest
<1>5. QED
  BY <1>2, <1>3, <1>4

\* process
LEMMA CalmProcessing ==
  ASSUME Sane, Calm, Wired, ~performing, ~InCurl, NEW t \in Transfers, NEW r, Fresh(r),
         NEW s, Ready(s, t), CallsOf(s, t) \subseteq {"sync"}, "sync" \in CallsOf(s, t) => ~r.page,
         ~Err(told[t]), t \notin Elements(nextTick), UNCHANGED nextTick,
         paused' \subseteq paused, t \notin paused', stack' \in Seq(Call),
         Process(t, r, s)
  PROVE  Calm'
<1>1. CASE \E c \in Available : MakeRequest(t, r, c, s, s)
  <2>1. PICK c \in Available : MakeRequest(t, r, c, s, s)
    BY <1>1
  <2>2. QED
    BY <2>1, CalmMaking
<1>2. ASSUME tr' = [tr EXCEPT ![t] = [r EXCEPT !.state = "queued"]], stack' = s, UNCHANGED <<told, net>>
      PROVE  Calm'
  <2> DEFINE w == [r EXCEPT !.state = "queued"]
  <2>1. /\ w.state = "queued" /\ w.conn = None /\ ~w.notified
        /\ w.page = r.page /\ ~w.muted /\ (w.handle => w.page) /\ (w.owner # None => w.page)
    BY DEF Fresh, Startable, Transfer
  <2>2. Once(told[t]) /\ Distinct(nextTick) /\ net.running \intersect net.finished = {} /\ net \in Net
    BY DEF Calm, Fits, Fit, Right, Sane, Base, Typed
  <2> HIDE DEF w
  <2>3. ~(w.conn \in net'.running \union net'.finished)
    BY <1>2, <2>1, <2>2, SetsAssumption DEF Net
  <2>4. Fit(CallsOf(stack', t), w, told'[t], t \in paused', t \in Elements(nextTick'),
            w.conn \in net'.running \union net'.finished)
    BY <1>2, <2>1, <2>2, <2>3, FitStarting
  <2>5. \A u \in Transfers \ {t} :
           /\ told'[u] = told[u] /\ CallsOf(stack', u) = CallsOf(stack, u)
           /\ u \in paused' => u \in paused
           /\ u \in Elements(nextTick') => u \in Elements(nextTick)
           /\ tr[u].conn \in net'.running \union net'.finished => tr[u].conn \in net.running \union net.finished
    BY <1>2 DEF Ready
  <2>6. "abort" \notin CallsOf(stack', t) /\ Settled(stack', Elements(nextTick'), Pending)
    BY <1>2 DEF Ready
  <2>7. tr' = [tr EXCEPT ![t] = w]
    BY <1>2 DEF w
  <2>8. QED
    BY <1>2, <2>2, <2>4, <2>5, <2>6, <2>7, CalmMoving
<1>3. QED
  BY <1>1, <1>2 DEF Process

-----------------------------------------------------------------------------
\* requestT
LEMMA CalmRequesting ==
  ASSUME Sane, Calm, Wired, ~performing, ~InCurl, NEW t \in Transfers, NEW page \in BOOLEAN,
         NEW o \in Owners \union {None}, page => o \in alive, o # None => page,
         NEW s, Ready(s, t), CallsOf(s, t) \subseteq {"sync"}, "sync" \in CallsOf(s, t) => ~page,
         stack' \in Seq(Call), Request(t, Created(page, o), s)
  PROVE  Calm'
<1> DEFINE r == Created(page, o)
<1>1. Fresh(r) /\ r.page = page /\ ~r.handle /\ r.state = "created" /\ r.conn = None
  BY DEF Fresh, Startable, Created, New, Transfer, States
<1>2. tr[t].state = "none" /\ Fits(t) /\ Distinct(nextTick) /\ net.running \intersect net.finished = {}
  BY DEF Request, Calm
<1>3. /\ nextTick \in Seq(Transfers) /\ net \in Net
      /\ t \notin paused
  BY <1>2 DEF Sane, Base, Typed, Sound
<1>4. t \notin Elements(nextTick) /\ told[t] = << >> /\ Once(told[t]) /\ ~Err(told[t])
  <2>1. told[t] = << >> /\ Once(told[t]) /\ t \notin Elements(nextTick)
    BY <1>2 DEF Fits, Fit, Plain, Right
  <2>2. DOMAIN << >> = {}
    OBVIOUS
  <2>3. QED
    BY <2>1, <2>2 DEF Err
<1>5. "abort" \notin CallsOf(s, t)
  OBVIOUS
<1>6. ASSUME tr' = [tr EXCEPT ![t] = r], nextTick' = Append(nextTick, t), stack' = s, UNCHANGED <<told, pauses, net>>
      PROVE  Calm'
  <2> HIDE DEF r
  <2>1. Elements(nextTick') = Elements(nextTick) \union {t} /\ Distinct(nextTick')
    BY <1>2, <1>3, <1>4, <1>6, Queued
  <2>2. ~(r.conn \in net'.running \union net'.finished) /\ paused' = paused
    BY <1>1, <1>3, <1>6, SetsAssumption DEF Net, pauses
  <2>3. Fit(CallsOf(stack', t), r, told'[t], t \in paused', t \in Elements(nextTick'),
            r.conn \in net'.running \union net'.finished)
    BY <1>1, <1>4, <1>6, <2>2, FitStarting DEF Fresh
  <2>4. Settled(stack', Elements(nextTick'), Pending)
    <3> DEFINE K == Elements(nextTick)
               L == Elements(nextTick')
               X == Pending
    <3>1. s \in Seq(Call) /\ Settled(s, K, X)
      BY DEF Ready
    <3>2. \A u \in Transfers : "abort" \in CallsOf(s, u) => (u \in L => u \in K) /\ (u \in X => u \in X)
      BY <1>5, <2>1
    <3> HIDE DEF K, L, X
    <3>3. Settled(s, L, X)
      BY <3>1, <3>2, SettledMore
    <3>4. QED
      BY <1>6, <3>3 DEF L, X
  <2>5. \A u \in Transfers \ {t} :
           /\ told'[u] = told[u] /\ CallsOf(stack', u) = CallsOf(stack, u)
           /\ u \in paused' => u \in paused
           /\ u \in Elements(nextTick') => u \in Elements(nextTick)
           /\ tr[u].conn \in net'.running \union net'.finished => tr[u].conn \in net.running \union net.finished
    BY <1>6, <2>1, <2>2 DEF Ready
  <2>6. QED
    BY <1>2, <1>5, <1>6, <2>1, <2>3, <2>4, <2>5, CalmMoving
<1>7. ASSUME tr' = [tr EXCEPT ![t] = [r EXCEPT !.state = "parked"]], Pause(t), stack' = s,
             UNCHANGED <<told, nextTick, net>>
      PROVE  Calm'
  <2> DEFINE w == [r EXCEPT !.state = "parked"]
  <2>1. /\ w.state = "parked" /\ w.conn = None /\ ~w.notified
        /\ w.page = r.page /\ ~w.muted /\ (w.handle => w.page) /\ (w.owner # None => w.page)
    BY <1>1 DEF Created, New
  <2> HIDE DEF r, w
  <2>2. ~(w.conn \in net'.running \union net'.finished)
    BY <1>3, <1>7, <2>1, SetsAssumption DEF Net
  <2>3. Fit(CallsOf(stack', t), w, told'[t], t \in paused', t \in Elements(nextTick'),
            w.conn \in net'.running \union net'.finished)
    BY <1>1, <1>4, <1>7, <2>1, <2>2, FitStarting
  <2>4. \A u \in Transfers \ {t} :
           /\ told'[u] = told[u] /\ CallsOf(stack', u) = CallsOf(stack, u)
           /\ u \in paused' => u \in paused
           /\ u \in Elements(nextTick') => u \in Elements(nextTick)
           /\ tr[u].conn \in net'.running \union net'.finished => tr[u].conn \in net.running \union net.finished
    BY <1>7 DEF Ready, Pause
  <2>5. Settled(stack', Elements(nextTick'), Pending)
    BY <1>7 DEF Ready
  <2>6. tr' = [tr EXCEPT ![t] = w]
    BY <1>7 DEF w
  <2>7. QED
    BY <1>2, <1>5, <1>7, <2>3, <2>4, <2>5, <2>6, CalmMoving
<1>8. CASE Process(t, r, s) /\ UNCHANGED <<nextTick, pauses>>
  <2>1. paused' = paused /\ nextTick' = nextTick
    BY <1>8 DEF pauses
  <2> HIDE DEF r
  <2>2. QED
    BY <1>1, <1>3, <1>4, <1>8, <2>1, CalmProcessing
<1>9. QED
  BY <1>6, <1>7, <1>8 DEF Request

\* A failure is told, latched, and a call that frees the transfer is pushed.
LEMMA CalmAborting ==
  ASSUME Sane, Calm, NEW t \in Transfers, ~tr[t].notified, NEW s, Ready(s, t), Abort(t, s),
         paused' \subseteq paused, stack' \in Seq(Call),
         CallsOf(s, t) \subseteq {"sync", "deliver"}, CallsOf(s, t) \subseteq CallsOf(stack, t),
         tr[t].state \in {"created", "queued", "parked", "inflight", "completing"},
         tr[t].state = "completing" => "deliver" \in CallsOf(s, t),
         ~Err(told[t]), tr[t].page => t \notin Elements(nextTick)
  PROVE  Calm'
<1> DEFINE q == [tr[t] EXCEPT !.notified = TRUE]
<1>1. /\ tr' = [tr EXCEPT ![t] = q] /\ Tell({t}, "error")
      /\ stack' = Callback(tr[t]) \o <<At("abort", t)>> \o s
      /\ UNCHANGED <<queue, nextTick, net>>
  <2>1. tr' = [tr EXCEPT ![t].notified = TRUE]
    BY DEF Abort
  <2>2. QED
    BY <2>1 DEF Abort, Sane, Base, Typed
<1>2. tr[t] \in Transfer /\ Fits(t) /\ Distinct(nextTick) /\ net.running \intersect net.finished = {}
  BY DEF Calm, Sane, Base, Typed
<1>3. /\ q.state = tr[t].state /\ q.conn = tr[t].conn /\ q.notified /\ q.page = tr[t].page /\ q.muted = tr[t].muted
      /\ q.handle = tr[t].handle /\ q.owner = tr[t].owner
  BY <1>2 DEF Transfer
<1> HIDE DEF q
<1>4. /\ Settled(stack', Elements(nextTick), Pending)
      /\ CallsOf(stack', t) = CallsOf(s, t) \union {"abort"}
      /\ \A u \in Transfers \ {t} : CallsOf(stack', u) = CallsOf(stack, u)
  <2>1. (\A a \in CallsOf(s, t) : Above("abort", a)) /\ "abort" \in Places
    BY DEF Above, Places, Unshielded
  <2>2. QED
    BY <1>1, <2>1, SettledAt
<1>5. told'[t] # << >> /\ Once(told'[t]) /\ \A u \in Transfers \ {t} : told'[u] = told[u]
  BY <1>1, <1>2, Telling, ToldOthers DEF Ends
<1>6. Fit(CallsOf(stack', t), q, told'[t], t \in paused', t \in Elements(nextTick'),
          q.conn \in net'.running \union net'.finished)
  <2> DEFINE P == CallsOf(stack', t)
             Q == CallsOf(stack, t)
             k == t \in Elements(nextTick)
             b == tr[t].conn \in net.running \union net.finished
  <2>1. Plain(tr[t], k, b) /\ Right(Q, tr[t], told[t], t \in paused, k, b)
    BY <1>2 DEF Fits, Fit, Working
  <2>2. Plain(q, k, b)
    BY <1>3, <2>1 DEF Plain
  <2>3. /\ P \subseteq {"sync", "deliver", "abort"} /\ "abort" \in P
        /\ "sync" \in P => "sync" \in Q
        /\ "deliver" \in P => "deliver" \in Q
        /\ tr[t].state = "completing" => "deliver" \in P
    BY <1>4
  <2> HIDE DEF P, Q, k, b
  <2>4. Right(P, q, told'[t], t \in paused', k, b)
    <3>1. \A a \in {"done", "failed", "serving", "served"} : a \notin P
      BY <2>3
    <3>2. "sync" \in Q => ~tr[t].page
      BY <2>1 DEF Right
    <3>3. "deliver" \in Q => tr[t].state \in {"completing", "aborted"}
      BY <2>1 DEF Right
    <3>4. QED
      BY <1>3, <1>5, <2>3, <3>1, <3>2, <3>3 DEF Right
  <2>5. QED
    BY <1>1, <1>3, <2>2, <2>4 DEF Fit, P, k, b
<1>7. t \in Pending' => t \in Pending
  BY <1>1, <1>3 DEF Pending, Sane, Base, Typed
<1>8. \A u \in Transfers \ {t} :
         /\ told'[u] = told[u] /\ CallsOf(stack', u) = CallsOf(stack, u)
         /\ u \in paused' => u \in paused
         /\ u \in Elements(nextTick') => u \in Elements(nextTick)
         /\ tr[u].conn \in net'.running \union net'.finished => tr[u].conn \in net.running \union net.finished
  BY <1>1, <1>4, <1>5
<1>9. Distinct(nextTick') /\ net'.running \intersect net'.finished = {} /\ Settled(stack', Elements(nextTick'), Pending)
  BY <1>1, <1>2, <1>4
<1>10. QED
  BY <1>1, <1>6, <1>7, <1>8, <1>9, CalmMoving

\* A call other than an abort goes on top of what only syncRequest may wait for.
LEMMA SettledUnder ==
  ASSUME NEW s, NEW p \in {"deliver", "done", "failed", "serving", "served"}, NEW t \in Transfers,
         Ready(s, t), NoneIn(s, Pending), CallsOf(s, t) \subseteq {"sync"}, NEW r,
         \/ stack' = Callback(r) \o <<At(p, t)>> \o s
         \/ stack' = Callback(r) \o (<<At(p, t)>> \o s)
         \/ stack' = <<At(p, t)>> \o s
  PROVE  /\ Settled(stack', Elements(nextTick), Pending)
         /\ CallsOf(stack', t) = CallsOf(s, t) \union {p}
         /\ \A u \in Transfers \ {t} : CallsOf(stack', u) = CallsOf(stack, u)
<1>1. p \in Places /\ p # "abort" /\ \A a \in CallsOf(s, t) : Above(p, a)
  BY DEF Above, Places, Unshielded
<1>2. QED
  BY <1>1, SettledAt

LEMMA FailingCalls ==
  ASSUME NEW t \in Transfers, NEW r, NEW s, Ready(s, t), NoneIn(s, Pending), CallsOf(s, t) \subseteq {"sync"},
         Fail(t, r, <<At("failed", t)>> \o s)
  PROVE  /\ Settled(stack', Elements(nextTick), Pending)
         /\ CallsOf(stack', t) = CallsOf(s, t) \union {"failed"}
         /\ \A u \in Transfers \ {t} : CallsOf(stack', u) = CallsOf(stack, u)
<1>1. CASE stack' = <<At("failed", t)>> \o s
  BY <1>1, SettledUnder
<1>2. CASE stack' = Callback(tr[t]) \o (<<At("failed", t)>> \o s)
  BY <1>2, SettledUnder
<1>3. QED
  BY <1>1, <1>2 DEF Fail

\* requestFailed on the way to Transfer.deinit.
LEMMA CalmFailing ==
  ASSUME Sane, Calm, NEW t \in Transfers, NEW r, NEW s, Ready(s, t), NoneIn(s, Pending),
         Fail(t, r, <<At("failed", t)>> \o s), UNCHANGED lists, stack' \in Seq(Call),
         NEW at \in {"inflight", "completing", "aborted"}, r = [tr[t] EXCEPT !.state = at],
         at = tr[t].state \/ (at = "completing" /\ tr[t].state = "inflight"),
         CallsOf(s, t) \subseteq {"sync"}, CallsOf(s, t) \subseteq CallsOf(stack, t), "abort" \notin CallsOf(stack, t),
         net'.running \intersect net'.finished = {},
         net'.running \union net'.finished \subseteq net.running \union net.finished,
         tr[t].conn \notin net'.running \union net'.finished
  PROVE  Calm'
<1> DEFINE q == [r EXCEPT !.notified = TRUE]
           k == t \in Elements(nextTick)
           b == tr[t].conn \in net.running \union net.finished
<1>1. tr[t] \in Transfer /\ Fits(t) /\ Distinct(nextTick) /\ nextTick' = nextTick /\ paused' = paused
  BY DEF Calm, Sane, Base, Typed, lists, pauses
<1>2. /\ q.state = at /\ q.conn = tr[t].conn /\ q.notified /\ q.page = tr[t].page /\ q.muted = tr[t].muted
      /\ q.handle = tr[t].handle /\ q.owner = tr[t].owner /\ r.notified = tr[t].notified
  BY <1>1 DEF Transfer
<1>3. /\ tr' = [tr EXCEPT ![t] = q]
      /\ \/ /\ tr[t].notified /\ told' = told
            /\ stack' = <<At("failed", t)>> \o s
         \/ /\ ~tr[t].notified /\ Tell({t}, "error")
            /\ stack' = Callback(tr[t]) \o (<<At("failed", t)>> \o s)
  BY <1>2 DEF Fail
<1> HIDE DEF q, k, b
<1>4. Plain(tr[t], k, b) /\ Right(CallsOf(stack, t), tr[t], told[t], t \in paused, k, b)
  BY <1>1 DEF Fits, Fit, Working, k, b
<1>5. /\ Settled(stack', Elements(nextTick), Pending)
      /\ CallsOf(stack', t) = CallsOf(s, t) \union {"failed"}
      /\ \A u \in Transfers \ {t} : CallsOf(stack', u) = CallsOf(stack, u)
  BY FailingCalls
<1>6. told'[t] # << >> /\ Once(told'[t]) /\ \A u \in Transfers \ {t} : told'[u] = told[u]
  <2>1. CASE tr[t].notified /\ told' = told
    BY <1>4, <2>1 DEF Right
  <2>2. CASE ~tr[t].notified /\ Tell({t}, "error")
    <3>1. tr[t].state # "freed"
      OBVIOUS
    <3>2. ~Err(told[t])
      BY <1>4, <2>2, <3>1 DEF Right
    <3>3. QED
      BY <1>1, <2>2, <3>2, Telling, ToldOthers DEF Ends
  <2>3. QED
    BY <1>3, <2>1, <2>2
<1>7. Fit(CallsOf(stack', t), q, told'[t], t \in paused', t \in Elements(nextTick'),
          q.conn \in net'.running \union net'.finished)
  <2> DEFINE P == CallsOf(stack', t)
             e == q.conn \in net'.running \union net'.finished
  <2>1. ~k /\ ~e
    BY <1>2, <1>4 DEF Plain
  <2> HIDE DEF e
  <2>2. Plain(q, k, e)
    BY <1>2, <1>4, <2>1 DEF Plain
  <2>3. /\ P \subseteq {"sync", "failed"} /\ "failed" \in P
        /\ "sync" \in P => ~tr[t].page
    BY <1>4, <1>5 DEF Right
  <2> HIDE DEF P
  <2>4. Right(P, q, told'[t], t \in paused', k, e)
    <3>1. \A a \in {"deliver", "done", "abort", "serving", "served"} : a \notin P
      BY <2>3
    <3>2. QED
      BY <1>2, <1>6, <2>1, <2>3, <3>1 DEF Right
  <2>5. QED
    BY <1>1, <2>2, <2>4 DEF Fit, P, k, e
<1>8. \A u \in Transfers \ {t} :
         /\ told'[u] = told[u] /\ CallsOf(stack', u) = CallsOf(stack, u)
         /\ u \in paused' => u \in paused
         /\ u \in Elements(nextTick') => u \in Elements(nextTick)
         /\ tr[u].conn \in net'.running \union net'.finished => tr[u].conn \in net.running \union net.finished
  BY <1>1, <1>5, <1>6
<1>9. "abort" \notin CallsOf(stack', t) /\ Distinct(nextTick') /\ Settled(stack', Elements(nextTick'), Pending)
  BY <1>1, <1>5
<1>10. QED
  BY <1>3, <1>7, <1>8, <1>9, CalmMoving

-----------------------------------------------------------------------------
\* A call on behalf of no transfer is on top.
LEMMA BareTop ==
  ASSUME Sane, Calm, NEW q \in Bare, Top(q)
  PROVE  /\ Tail(stack) \in Seq(Call) /\ Settled(Tail(stack), Elements(nextTick), Pending)
         /\ NoneIn(Tail(stack), Elements(nextTick)) /\ (q \notin Inner => NoneIn(Tail(stack), Pending))
         /\ \A u \in Transfers : CallsOf(Tail(stack), u) = CallsOf(stack, u)
<1> DEFINE K == Elements(nextTick)
           X == Pending
<1>1. stack \in Seq(Call) /\ stack # << >> /\ Settled(stack, K, X)
  BY DEF Sane, TypeOK, Top, Calm
<1>2. Head(stack).at = q /\ Head(stack).t = None
  BY <1>1, TopShape DEF Sane, Top, Framed
<1> HIDE DEF K, X
<1>3. /\ Tail(stack) \in Seq(Call) /\ Settled(Tail(stack), K, X) /\ NoneIn(Tail(stack), K)
      /\ q \notin Inner => NoneIn(Tail(stack), X)
      /\ \A u : u # None => CallsOf(stack, u) = CallsOf(Tail(stack), u)
  BY <1>1, <1>2, SettledPop
<1>4. QED
  BY <1>3, SetsAssumption DEF K, X

\* A call that is not on behalf of a transfer returns.
LEMMA CalmReturning ==
  ASSUME Sane, Calm, NEW q \in Bare, Top(q), stack' = Tail(stack), UNCHANGED <<tr, told, lists, net>>
  PROVE  Calm'
<1>1. UNCHANGED <<nextTick, paused>> /\ net.running \intersect net.finished = {}
  BY DEF lists, pauses, Calm
<1>2. QED
  BY <1>1, BareTop, CalmQuiet

\* Such a call is made instead of another one.
LEMMA CalmGoing ==
  ASSUME Sane, Calm, NEW q \in Bare \ Inner, Top(q), NEW p \in Bare, Goto(p), UNCHANGED <<tr, told, lists>>,
         net'.running \intersect net'.finished = {},
         net'.running \union net'.finished \subseteq net.running \union net.finished
  PROVE  Calm'
<1> DEFINE K == Elements(nextTick)
           X == Pending
           c == At(p, None)
           s == Tail(stack)
<1>1. UNCHANGED <<nextTick, paused>> /\ stack' = <<c>> \o s
  BY DEF lists, pauses, Goto
<1>2. c \in Call /\ c.at = p /\ c.t = None
  BY FramedAt DEF At, Call
<1>3. /\ s \in Seq(Call) /\ Settled(s, K, X) /\ NoneIn(s, K) /\ NoneIn(s, X)
      /\ \A u \in Transfers : CallsOf(s, u) = CallsOf(stack, u)
  BY BareTop
<1> HIDE DEF K, X, c, s
<1>4. /\ Settled(stack', K, X) /\ stack' \in Seq(Call)
      /\ \A u \in Transfers : CallsOf(stack', u) = CallsOf(stack, u)
  BY <1>1, <1>2, <1>3, SettledBare
<1>5. QED
  BY <1>1, <1>4, CalmQuiet DEF K, X

\* A call on behalf of no transfer is made by another one, which is no callback
\* of an abort, or by the loop.
LEMMA CalmCalling ==
  ASSUME Sane, Calm, NEW c \in Call, c.t = None, stack = << >> \/ \E q : Top(q) /\ q \notin Inner,
         stack' = <<c>> \o stack, UNCHANGED <<tr, told, lists, net>>
  PROVE  Calm'
<1> DEFINE K == Elements(nextTick)
           X == Pending
<1>1. UNCHANGED <<nextTick, paused>> /\ net.running \intersect net.finished = {} /\ stack \in Seq(Call)
  BY DEF lists, pauses, Calm, Sane, TypeOK
<1>2. Settled(stack, K, X)
  BY DEF Calm
<1> HIDE DEF K, X
<1>3. NoneIn(stack, K) /\ NoneIn(stack, X)
  <2>1. CASE stack = << >>
    <3>1. \A u, a : a \notin CallsOf(stack, u)
      BY <2>1, Emptied, CallsIn
    <3>2. QED
      BY <3>1 DEF NoneIn
  <2>2. CASE \E q : Top(q) /\ q \notin Inner
    <3>1. PICK q : Top(q) /\ q \notin Inner
      BY <2>2
    <3>2. stack # << >> /\ Head(stack).at = q
      BY <3>1 DEF Top
    <3>3. QED
      BY <1>1, <1>2, <3>1, <3>2, SettledPop DEF Inner
  <2>3. QED
    BY <2>1, <2>2
<1>4. /\ Settled(stack', K, X) /\ stack' \in Seq(Call)
      /\ \A u \in Transfers : CallsOf(stack', u) = CallsOf(stack, u)
  BY <1>1, <1>2, <1>3, SettledBare
<1>5. QED
  BY <1>1, <1>4, CalmQuiet DEF K, X

LEMMA InBare ==
  /\ {"script", "read", "make", "curl", "next", "queue1", "perform", "queue2", "inbox", "tickFailed"} \subseteq Bare
  /\ {"read", "curl", "next", "queue1", "perform", "queue2", "inbox", "tickFailed"} \intersect Inner = {}
  BY DEF Bare, Stages, Inner

\* The steps that move no transfer.
LEMMA CalmReturns ==
  ASSUME Sane, Calm,
         \/ ScriptReturn \/ MakeReturn \/ ReadDone \/ InboxDone \/ LoopTickFailed
         \/ NextTickDone \/ DrainQueueDone \/ CdpDisconnect
  PROVE  Calm'
<1>1. CASE ScriptReturn
  BY <1>1, InBare, CalmReturning DEF ScriptReturn
<1>2. CASE MakeReturn
  BY <1>2, InBare, CalmReturning DEF MakeReturn
<1>3. CASE ReadDone
  BY <1>3, InBare, CalmReturning DEF ReadDone
<1>4. CASE InboxDone
  BY <1>4, InBare, CalmReturning DEF InboxDone
<1>5. CASE LoopTickFailed
  BY <1>5, InBare, CalmReturning DEF LoopTickFailed
<1>6. net.running \intersect net.finished = {}
  BY DEF Calm
<1>7. CASE NextTickDone
  BY <1>6, <1>7, InBare, CalmGoing DEF NextTickDone
<1>8. CASE DrainQueueDone
  <2>1. PICK q \in {"queue1", "queue2"} : Top(q)
    BY <1>8 DEF DrainQueueDone, InDrainQueue
  <2>2. PICK p \in {"perform", "inbox"} : Goto(p)
    BY <1>8 DEF DrainQueueDone
  <2>3. q \in Bare \ Inner /\ p \in Bare
    BY InBare
  <2>4. QED
    BY <1>6, <1>8, <2>1, <2>2, <2>3, CalmGoing DEF DrainQueueDone
<1>9. CASE CdpDisconnect
  BY <1>6, <1>9, InBare, CalmGoing DEF CdpDisconnect
<1>10. QED
  BY <1>1, <1>2, <1>3, <1>4, <1>5, <1>7, <1>8, <1>9

LEMMA CalmPerforming ==
  ASSUME Sane, Calm, Wired, TickPerform \/ PerformReturn
  PROVE  Calm'
<1>1. ASSUME TickPerform PROVE Calm'
  <2>1. Top("perform") /\ UNCHANGED <<tr, told, lists, net>> /\ net.running \intersect net.finished = {}
    BY <1>1 DEF TickPerform, Calm
  <2>2. CASE Goto("tickFailed")
    BY <2>1, <2>2, InBare, CalmGoing
  <2>3. CASE stack' = <<At("curl", None), At("queue2", None)>> \o Tail(stack)
    <3> DEFINE K == Elements(nextTick)
               X == Pending
               s == Tail(stack)
               c == At("curl", None)
               d == At("queue2", None)
    <3>1. UNCHANGED <<nextTick, paused>> /\ stack' = <<c, d>> \o s
      BY <2>1, <2>3 DEF lists, pauses
    <3>2. c \in Call /\ c.t = None /\ d \in Call /\ d.t = None
      BY DEF At, Call, Places
    <3>3. /\ s \in Seq(Call) /\ Settled(s, K, X) /\ NoneIn(s, K) /\ NoneIn(s, X)
          /\ \A u \in Transfers : CallsOf(s, u) = CallsOf(stack, u)
      BY <2>1, BareTop, InBare
    <3> HIDE DEF K, X, c, d, s
    <3>4. stack' = <<c>> \o (<<d>> \o s)
      BY <3>1, <3>2, <3>3, TwoCalls
    <3> DEFINE w == <<d>> \o s
    <3>5. /\ w \in Seq(Call) /\ Settled(w, K, X) /\ NoneIn(w, K) /\ NoneIn(w, X)
          /\ \A u \in Transfers : CallsOf(w, u) = CallsOf(s, u)
      BY <3>2, <3>3, SettledBare
    <3>6. stack' = <<c>> \o w
      BY <3>4
    <3> HIDE DEF w
    <3>7. /\ stack' \in Seq(Call) /\ Settled(stack', K, X)
          /\ \A u \in Transfers : CallsOf(stack', u) = CallsOf(w, u)
      BY <3>2, <3>5, <3>6, SettledBare
    <3>8. \A u \in Transfers : CallsOf(stack', u) = CallsOf(stack, u)
      BY <3>3, <3>5, <3>7
    <3>9. QED
      BY <2>1, <3>1, <3>7, <3>8, CalmQuiet DEF K, X
  <2>4. QED
    BY <1>1, <2>2, <2>3 DEF TickPerform
<1>2. ASSUME PerformReturn PROVE Calm'
  <2>1. net.ready = {} /\ net.dirty = {} /\ net.running \intersect net.finished = {}
    BY DEF Wired, Calm
  <2>2. net'.running = net.running /\ net'.finished = net.finished
    BY <1>2, <2>1 DEF PerformReturn
  <2>3. QED
    BY <1>2, <2>1, <2>2, InBare, CalmGoing DEF PerformReturn
<1>3. QED
  BY <1>1, <1>2

LEMMA CalmLooping ==
  ASSUME Sane, Calm, LoopScript \/ LoopTick \/ \E t \in Transfers : SyncTick(t)
  PROVE  Calm'
<1>1. Tick \in Call /\ Tick.t = None
  BY TickFramed DEF Sane, Framed, Tick
<1>2. /\ At("script", None) \in Call /\ At("script", None).t = None
      /\ At("tickFailed", None) \in Call /\ At("tickFailed", None).t = None
  BY DEF At, Call, Places
<1>3. ASSUME NEW c \in Call PROVE <<c>> \o << >> = <<c>>
  OBVIOUS
<1>4. CASE LoopScript
  BY <1>2, <1>3, <1>4, CalmCalling DEF LoopScript, Idle
<1>5. CASE LoopTick
  <2>1. stack' = <<Tick>> \o stack
    BY <1>1, <1>3, <1>5 DEF LoopTick, Idle
  <2> HIDE DEF Tick
  <2>2. QED
    BY <1>1, <1>5, <2>1, CalmCalling DEF LoopTick, Idle
<1>6. ASSUME NEW t \in Transfers, SyncTick(t) PROVE Calm'
  <2>1. Top("sync") /\ "sync" \notin Inner
    BY <1>6 DEF SyncTick, Inner
  <2>2. PICK c \in {Tick, At("tickFailed", None)} : stack' = <<c>> \o stack
    BY <1>6 DEF SyncTick
  <2>3. c \in Call /\ c.t = None
    BY <1>1, <1>2
  <2>4. QED
    BY <1>6, <2>1, <2>2, <2>3, CalmCalling DEF SyncTick
<1>7. QED
  BY <1>4, <1>5, <1>6

LEMMA CalmInside ==
  ASSUME Sane, Calm, \/ \E c \in Conns : CurlFinish(c)
                     \/ \E t \in Transfers : CdpStray(t)
  PROVE  Calm'
<1>1. stack \in Seq(Call) /\ Settled(stack, Elements(nextTick), Pending) /\ net \in Net
      /\ net.running \intersect net.finished = {}
  BY DEF Sane, TypeOK, Calm, Base, Typed
<1>2. ASSUME NEW c \in Conns, CurlFinish(c) PROVE Calm'
  <2>1. net'.running = net.running \ {c} /\ net'.finished = net.finished \union {c} /\ c \in net.running
    BY <1>1, <1>2 DEF CurlFinish, Net
  <2>2. UNCHANGED <<tr, told, nextTick, paused, stack>>
    BY <1>2 DEF CurlFinish, lists, pauses
  <2>3. /\ net'.running \intersect net'.finished = {}
        /\ net'.running \union net'.finished \subseteq net.running \union net.finished
    BY <1>1, <2>1
  <2>4. QED
    BY <1>1, <2>2, <2>3, CalmQuiet
<1>3. ASSUME NEW t \in Transfers, CdpStray(t) PROVE Calm'
  <2>1. UNCHANGED <<tr, told, nextTick, net, stack>> /\ paused' \subseteq paused
    BY <1>3 DEF CdpStray, Command
  <2>2. QED
    BY <1>1, <2>1, CalmQuiet
<1>4. QED
  BY <1>2, <1>3

\* header_callback returned: the same call is still there.
LEMMA CalmData ==
  ASSUME Sane, Calm, NEW t \in Transfers, DeliverData(t), stack' \in Seq(Call)
  PROVE  Calm'
<1> DEFINE K == Elements(nextTick)
           X == Pending
           s == Tail(stack)
           c == [Head(stack) EXCEPT !.n = 1]
           w == <<c>> \o s
<1>1. /\ Resumed("deliver", t) /\ stack' = Callback(tr[t]) \o <<c>> \o s
      /\ UNCHANGED <<tr, told, nextTick, paused, net>>
  BY DEF DeliverData, lists, pauses
<1>2. /\ s \in Seq(Call) /\ Settled(s, K, X) /\ NoneIn(s, K) /\ NoneIn(s, X)
      /\ CallsOf(stack, t) = CallsOf(s, t) \union {"deliver"}
      /\ CallsOf(s, t) \subseteq {"sync"}
      /\ \A u \in Transfers \ {t} : CallsOf(s, u) = CallsOf(stack, u)
  BY <1>1, Resuming
<1>3. c \in Call /\ c.at = "deliver" /\ c.t = t
  <2>1. Head(stack) \in Call /\ Head(stack).at = "deliver" /\ Head(stack).t = t
    BY <1>1, TopShape DEF Resumed, Top, Sane
  <2>2. QED
    BY <2>1 DEF Call
<1> HIDE DEF K, X, s, c
<1>4. /\ w \in Seq(Call) /\ Settled(w, K, X)
      /\ CallsOf(w, t) = CallsOf(stack, t) /\ \A u \in Transfers \ {t} : CallsOf(w, u) = CallsOf(stack, u)
  <2>1. Settled(w, K, X)
    <3>1. \A a \in CallsOf(s, t) : Above("deliver", a)
      BY <1>2 DEF Above
    <3>2. QED
      BY <1>2, <1>3, <3>1, SettledPush
  <2>2. \A u : /\ c.t = u => CallsOf(w, u) = CallsOf(s, u) \union {c.at}
               /\ c.t # u => CallsOf(w, u) = CallsOf(s, u)
    BY <1>2, <1>3, CallsPush
  <2>3. w \in Seq(Call)
    BY <1>2, <1>3, Pushed
  <2>4. QED
    BY <1>2, <1>3, <2>1, <2>2, <2>3
<1>5. NoneIn(w, K)
  <2>1. "abort" \notin CallsOf(stack, t)
    BY <1>2
  <2>2. QED
    BY <1>2, <1>4, <2>1 DEF NoneIn
<1>6. Calling(stack', tr[t], w)
  BY <1>1, <1>2, <1>3, CallingIs
<1> HIDE DEF w
<1>7. Settled(stack', K, X) /\ \A u \in Transfers : CallsOf(stack', u) = CallsOf(stack, u)
  <2>1. \A u \in Transfers : CallsOf(w, u) = CallsOf(stack, u)
    BY <1>4
  <2>2. CASE stack' = w
    BY <1>4, <2>1, <2>2
  <2>3. CASE stack' = <<At("script", None)>> \o w
    <3>1. At("script", None) \in Call /\ At("script", None).at = "script" /\ At("script", None).t = None
      BY DEF At, Call, Places
    <3>2. QED
      BY <1>4, <1>5, <2>1, <2>3, <3>1, SettledBare DEF Inner
  <2>4. QED
    BY <1>6, <2>2, <2>3 DEF Calling
<1>8. net'.running \intersect net'.finished = {} /\ net' = net
  BY <1>1 DEF Calm
<1>9. QED
  BY <1>1, <1>7, <1>8, CalmQuiet DEF K, X

-----------------------------------------------------------------------------
\* The transfer of a message.
LEMMA ReadTaken ==
  ASSUME Sane, Calm, NEW t \in Transfers, Reading(t)
  PROVE  /\ tr[t] \in Transfer /\ tr[t].state = "inflight" /\ ~tr[t].muted /\ ~tr[t].notified
         /\ Ready(stack, t) /\ NoneIn(stack, Pending) /\ CallsOf(stack, t) \subseteq {"sync"}
         /\ "sync" \in CallsOf(stack, t) => ~tr[t].page
         /\ ~Err(told[t]) /\ Once(told[t]) /\ Fits(t)
         /\ tr[t].conn \in net.finished /\ tr[t].conn \notin net.running
         /\ t \notin Elements(nextTick) /\ net \in Net /\ Distinct(nextTick)
         /\ (tr[t].handle => tr[t].page) /\ (tr[t].owner # None => tr[t].page)
<1>1. Top("read") /\ tr[t].conn \in net.finished
  BY DEF Reading
<1>2. /\ tr[t] \in Transfer /\ Fits(t) /\ net \in Net /\ Distinct(nextTick) /\ stack \in Seq(Call)
      /\ Settled(stack, Elements(nextTick), Pending) /\ net.running \intersect net.finished = {}
  BY DEF Sane, TypeOK, Base, Typed, Calm
<1>3. Working(tr[t])
  BY <1>1 DEF Working
<1>4. /\ tr[t].state = "inflight" /\ t \notin Elements(nextTick)
      /\ (tr[t].handle => tr[t].page) /\ (tr[t].owner # None => tr[t].page)
      /\ "sync" \in CallsOf(stack, t) => ~tr[t].page
  BY <1>2, <1>3 DEF Fits, Fit, Plain, Right
<1>5. /\ CallsOf(stack, t) \subseteq {"sync"}
      /\ NoneIn(stack, Elements(nextTick)) /\ NoneIn(stack, Pending)
      /\ ~tr[t].notified /\ ~Err(told[t]) /\ Once(told[t]) /\ ~tr[t].muted
  BY <1>1, <1>3, <1>4, Taken, InBare
<1>6. QED
  BY <1>1, <1>2, <1>4, <1>5 DEF Ready

LEMMA CalmReadAuth ==
  ASSUME Sane, Calm, NEW t \in Transfers, ReadAuth(t), stack' \in Seq(Call)
  PROVE  Calm'
<1> DEFINE q == [tr[t] EXCEPT !.conn = None, !.state = "parked"]
<1>1. Reading(t) /\ net' = RemoveConns(Held({t})) /\ Pause(t) /\ UNCHANGED <<told, nextTick, stack>>
  BY DEF ReadAuth
<1>2. tr' = [tr EXCEPT ![t] = q]
  BY DEF ReadAuth, Sane, Base, Typed
<1>3. /\ tr[t] \in Transfer /\ ~tr[t].muted /\ ~tr[t].notified
      /\ Ready(stack, t) /\ CallsOf(stack, t) \subseteq {"sync"}
      /\ "sync" \in CallsOf(stack, t) => ~tr[t].page
      /\ ~Err(told[t]) /\ Once(told[t])
      /\ t \notin Elements(nextTick) /\ net \in Net /\ Distinct(nextTick)
      /\ (tr[t].handle => tr[t].page) /\ (tr[t].owner # None => tr[t].page)
  BY <1>1, ReadTaken
<1>4. /\ q.state = "parked" /\ q.conn = None /\ ~q.notified /\ ~q.muted /\ q.page = tr[t].page
      /\ q.handle = tr[t].handle /\ q.owner = tr[t].owner
  BY <1>3 DEF Transfer
<1> HIDE DEF q
<1>5. /\ net'.running \intersect net'.finished = {}
      /\ net'.running \union net'.finished \subseteq net.running \union net.finished
      /\ net'.running \union net'.finished \subseteq Conns
  <2>1. \E back : net'.running = net.running \ back /\ net'.finished = net.finished \ back
    BY <1>1 DEF RemoveConns
  <2>2. QED
    BY <1>3, <2>1 DEF Calm, Net
<1>6. ~(q.conn \in net'.running \union net'.finished)
  BY <1>4, <1>5, SetsAssumption
<1>7. Fit(CallsOf(stack', t), q, told'[t], t \in paused', t \in Elements(nextTick'),
          q.conn \in net'.running \union net'.finished)
  BY <1>1, <1>3, <1>4, <1>6, FitStarting
<1>8. \A u \in Transfers \ {t} :
         /\ told'[u] = told[u] /\ CallsOf(stack', u) = CallsOf(stack, u)
         /\ u \in paused' => u \in paused
         /\ u \in Elements(nextTick') => u \in Elements(nextTick)
         /\ tr[u].conn \in net'.running \union net'.finished => tr[u].conn \in net.running \union net.finished
  BY <1>1, <1>5 DEF Pause
<1>9. "abort" \notin CallsOf(stack', t) /\ Settled(stack', Elements(nextTick'), Pending) /\ Distinct(nextTick')
  BY <1>1, <1>3 DEF Ready
<1>10. QED
  BY <1>2, <1>5, <1>7, <1>8, <1>9, CalmMoving

LEMMA CalmReadRedirect ==
  ASSUME Sane, Calm, NEW t \in Transfers, ReadRedirect(t), stack' \in Seq(Call)
  PROVE  Calm'
<1> DEFINE q == [Reset(tr[t]) EXCEPT !.redirects = @ + 1]
           c == At("curl", None)
<1>1. /\ Reading(t) /\ UNCHANGED <<told, nextTick, paused>> /\ stack' = <<c>> \o stack
      /\ net' = [Consumed(tr[t].conn) EXCEPT !.running = @ \union {tr[t].conn}]
      /\ tr' = [tr EXCEPT ![t] = q]
  BY DEF ReadRedirect, lists, pauses
<1>3. /\ tr[t] \in Transfer /\ ~tr[t].muted /\ tr[t].state = "inflight"
      /\ Ready(stack, t) /\ NoneIn(stack, Pending) /\ CallsOf(stack, t) \subseteq {"sync"}
      /\ "sync" \in CallsOf(stack, t) => ~tr[t].page
      /\ ~Err(told[t]) /\ Once(told[t])
      /\ t \notin Elements(nextTick) /\ net \in Net /\ Distinct(nextTick)
      /\ tr[t].conn \in net.finished /\ tr[t].conn \notin net.running
      /\ (tr[t].handle => tr[t].page) /\ (tr[t].owner # None => tr[t].page)
  BY <1>1, ReadTaken
<1>4. /\ q.state = "inflight" /\ q.conn = tr[t].conn /\ ~q.notified /\ ~q.muted /\ q.page = tr[t].page
      /\ q.handle = tr[t].handle /\ q.owner = tr[t].owner
  BY <1>3 DEF Transfer, Reset
<1>5. net'.running = net.running \union {tr[t].conn} /\ net'.finished = net.finished \ {tr[t].conn}
  BY <1>1, <1>3 DEF Consumed, Net
<1>6. /\ net'.running \intersect net'.finished = {}
      /\ net'.running \union net'.finished \subseteq net.running \union net.finished
  BY <1>3, <1>5 DEF Calm
<1>2. c \in Call /\ c.at = "curl" /\ c.t = None
  BY DEF At, Call, Places
<1> HIDE DEF q, c
<1>7. Settled(stack', Elements(nextTick), Pending) /\ \A u \in Transfers : CallsOf(stack', u) = CallsOf(stack, u)
  BY <1>1, <1>2, <1>3, SettledBare DEF Ready
<1>8. Fit(CallsOf(stack', t), q, told'[t], t \in paused', t \in Elements(nextTick'),
          q.conn \in net'.running \union net'.finished)
  BY <1>1, <1>3, <1>4, <1>7, FitStarting
<1>9. \A u \in Transfers \ {t} :
         /\ told'[u] = told[u] /\ CallsOf(stack', u) = CallsOf(stack, u)
         /\ u \in paused' => u \in paused
         /\ u \in Elements(nextTick') => u \in Elements(nextTick)
         /\ tr[u].conn \in net'.running \union net'.finished => tr[u].conn \in net.running \union net.finished
  BY <1>1, <1>6, <1>7
<1>10. "abort" \notin CallsOf(stack', t) /\ Settled(stack', Elements(nextTick'), Pending) /\ Distinct(nextTick')
  BY <1>1, <1>3, <1>7
<1>11. QED
  BY <1>1, <1>6, <1>8, <1>9, <1>10, CalmMoving

LEMMA CalmReadFail ==
  ASSUME Sane, Calm, NEW t \in Transfers, ReadBadRedirect(t) \/ ReadError(t), stack' \in Seq(Call)
  PROVE  Calm'
<1>1. Reading(t) /\ net' = Consumed(tr[t].conn) /\ UNCHANGED lists
  BY DEF ReadBadRedirect, ReadError
<1>2. PICK at \in {"inflight", "completing"} :
        Fail(t, [tr[t] EXCEPT !.state = at], <<At("failed", t)>> \o stack)
  <2>1. CASE ReadBadRedirect(t)
    <3>1. tr[t] = [tr[t] EXCEPT !.state = "inflight"]
      BY <1>1, ReadTaken DEF Transfer
    <3>2. Fail(t, tr[t], <<At("failed", t)>> \o stack)
      BY <2>1 DEF ReadBadRedirect
    <3> WITNESS "inflight" \in {"inflight", "completing"}
    <3>3. QED
      BY <3>1, <3>2
  <2>2. CASE ReadError(t)
    <3> WITNESS "completing" \in {"inflight", "completing"}
    <3>1. QED
      BY <2>2 DEF ReadError, Completing
  <2>3. QED
    BY <2>1, <2>2
<1>3. /\ tr[t].state = "inflight" /\ Ready(stack, t) /\ NoneIn(stack, Pending) /\ CallsOf(stack, t) \subseteq {"sync"}
      /\ net \in Net /\ tr[t].conn \in net.finished /\ tr[t].conn \notin net.running
  BY <1>1, ReadTaken
<1>4. net'.running = net.running /\ net'.finished = net.finished \ {tr[t].conn}
  BY <1>1, <1>3 DEF Consumed, Net
<1>5. /\ net'.running \intersect net'.finished = {}
      /\ net'.running \union net'.finished \subseteq net.running \union net.finished
      /\ tr[t].conn \notin net'.running \union net'.finished
  BY <1>3, <1>4 DEF Calm
<1>6. at \in {"inflight", "completing", "aborted"} /\ (at = tr[t].state \/ (at = "completing" /\ tr[t].state = "inflight"))
      /\ "abort" \notin CallsOf(stack, t)
  BY <1>3
<1>7. QED
  BY <1>1, <1>2, <1>3, <1>5, <1>6, CalmFailing

LEMMA CalmReadResponse ==
  ASSUME Sane, Calm, NEW t \in Transfers, ReadResponse(t), stack' \in Seq(Call)
  PROVE  Calm'
<1> DEFINE q == Completing(t)
<1>1. /\ Reading(t) /\ UNCHANGED <<told, nextTick, paused>>
      /\ net' = Consumed(tr[t].conn)
      /\ tr' = [tr EXCEPT ![t] = q]
      /\ stack' = Callback(tr[t]) \o <<At("deliver", t)>> \o stack
  BY DEF ReadResponse, lists, pauses
<1>3. /\ tr[t] \in Transfer /\ ~tr[t].muted /\ ~tr[t].notified
      /\ Ready(stack, t) /\ NoneIn(stack, Pending) /\ CallsOf(stack, t) \subseteq {"sync"}
      /\ "sync" \in CallsOf(stack, t) => ~tr[t].page
      /\ ~Err(told[t]) /\ Once(told[t])
      /\ t \notin Elements(nextTick) /\ net \in Net /\ Distinct(nextTick)
      /\ tr[t].conn \in net.finished /\ tr[t].conn \notin net.running
      /\ (tr[t].handle => tr[t].page) /\ (tr[t].owner # None => tr[t].page)
  BY <1>1, ReadTaken
<1>4. /\ q.state = "completing" /\ q.conn = tr[t].conn /\ ~q.notified /\ ~q.muted /\ q.page = tr[t].page
      /\ q.handle = tr[t].handle /\ q.owner = tr[t].owner
  BY <1>3 DEF Transfer, Completing
<1>5. net'.running = net.running /\ net'.finished = net.finished \ {tr[t].conn}
  BY <1>1, <1>3 DEF Consumed, Net
<1>6. /\ net'.running \intersect net'.finished = {}
      /\ net'.running \union net'.finished \subseteq net.running \union net.finished
      /\ ~(tr[t].conn \in net'.running \union net'.finished)
  BY <1>3, <1>5 DEF Calm
<1> HIDE DEF q
<1>7. /\ Settled(stack', Elements(nextTick), Pending)
      /\ CallsOf(stack', t) = CallsOf(stack, t) \union {"deliver"}
      /\ \A u \in Transfers \ {t} : CallsOf(stack', u) = CallsOf(stack, u)
  BY <1>1, <1>3, SettledUnder
<1>8. Fit(CallsOf(stack', t), q, told'[t], t \in paused', t \in Elements(nextTick'),
          q.conn \in net'.running \union net'.finished)
  <2> DEFINE P == CallsOf(stack', t)
             k == t \in Elements(nextTick')
             b == q.conn \in net'.running \union net'.finished
  <2>1. ~k /\ ~b
    BY <1>1, <1>3, <1>4, <1>6
  <2>2. P \subseteq {"sync", "deliver"} /\ "deliver" \in P /\ ("sync" \in P => ~q.page)
    BY <1>3, <1>4, <1>7
  <2> HIDE DEF P, k, b
  <2>3. Plain(q, k, b)
    BY <1>3, <1>4, <2>1 DEF Plain
  <2>4. \A a \in {"done", "failed", "abort", "serving", "served"} : a \notin P
    BY <2>2
  <2>5. Right(P, q, told'[t], t \in paused', k, b)
    BY <1>1, <1>3, <1>4, <2>1, <2>2, <2>4 DEF Right
  <2>6. QED
    BY <2>3, <2>5 DEF Fit, P, k, b
<1>9. \A u \in Transfers \ {t} :
         /\ told'[u] = told[u] /\ CallsOf(stack', u) = CallsOf(stack, u)
         /\ u \in paused' => u \in paused
         /\ u \in Elements(nextTick') => u \in Elements(nextTick)
         /\ tr[u].conn \in net'.running \union net'.finished => tr[u].conn \in net.running \union net.finished
  BY <1>1, <1>6, <1>7
<1>10. "abort" \notin CallsOf(stack', t) /\ Settled(stack', Elements(nextTick'), Pending) /\ Distinct(nextTick')
  BY <1>1, <1>3, <1>7
<1>11. QED
  BY <1>1, <1>6, <1>8, <1>9, <1>10, CalmMoving

LEMMA CalmRead ==
  ASSUME Sane, Calm, NEW t \in Transfers, Read(t), ~ReadDetached(t), stack' \in Seq(Call)
  PROVE  Calm'
<1>1. QED
  BY CalmReadAuth, CalmReadRedirect, CalmReadFail, CalmReadResponse DEF Read

-----------------------------------------------------------------------------
\* A call on behalf of t goes on: the transfer, and what is under the call.
LEMMA ResumeReady ==
  ASSUME Sane, Calm, NEW p \in {"deliver", "done", "failed", "serving", "served"}, NEW t \in Transfers,
         Resumed(p, t)
  PROVE  /\ Ready(Tail(stack), t) /\ NoneIn(Tail(stack), Pending)
         /\ CallsOf(Tail(stack), t) \subseteq {"sync"} /\ CallsOf(Tail(stack), t) \subseteq CallsOf(stack, t)
         /\ CallsOf(stack, t) = CallsOf(Tail(stack), t) \union {p} /\ "abort" \notin CallsOf(stack, t)
         /\ "sync" \in CallsOf(stack, t) => ~tr[t].page
         /\ tr[t] \in Transfer /\ Fits(t) /\ Distinct(nextTick) /\ net \in Net
         /\ net.running \intersect net.finished = {}
<1>1. /\ Tail(stack) \in Seq(Call)
      /\ Settled(Tail(stack), Elements(nextTick), Pending)
      /\ NoneIn(Tail(stack), Elements(nextTick)) /\ NoneIn(Tail(stack), Pending)
      /\ CallsOf(stack, t) = CallsOf(Tail(stack), t) \union {p}
      /\ CallsOf(Tail(stack), t) \subseteq {"sync"}
      /\ \A u \in Transfers \ {t} : CallsOf(Tail(stack), u) = CallsOf(stack, u)
      /\ Fits(t)
  BY Resuming
<1>2. /\ tr[t] \in Transfer /\ Distinct(nextTick) /\ net \in Net
      /\ net.running \intersect net.finished = {}
  BY DEF Sane, Base, Typed, Calm
<1>3. "sync" \in CallsOf(stack, t) => ~tr[t].page
  BY <1>1 DEF Fits, Fit, Right
<1>4. QED
  BY <1>1, <1>2, <1>3 DEF Ready

\* What the calls on the stack say of a transfer.
LEMMA Standing ==
  ASSUME NEW t \in Transfers, Fits(t)
  PROVE  LET r == tr[t]
             P == CallsOf(stack, t)
             k == t \in Elements(nextTick)
         IN  /\ "deliver" \in P \/ "done" \in P => r.state \in {"completing", "aborted"} /\ ~Working(r) /\ ~k
             /\ "done" \in P => ~r.handle
             /\ "failed" \in P => r.state \in {"inflight", "completing", "aborted"} /\ r.notified /\ ~Working(r) /\ ~k
             /\ "serving" \in P \/ "served" \in P => r.state \in {"created", "parked"} /\ t \notin paused /\ ~k /\ ~Working(r)
             /\ "done" \in P \/ "failed" \in P \/ "served" \in P \/ "abort" \in P => told[t] # << >>
             /\ r.state = "aborted" => r.muted
             /\ r.muted => r.state \in {"aborted", "freed"}
             /\ r.handle => r.page /\ r.state \notin {"none", "aborted", "freed"}
             /\ r.owner # None => r.page /\ r.state \notin {"none", "aborted", "freed"}
             /\ Err(told[t]) => r.notified \/ r.state = "freed" \/ "abort" \in P
             /\ r.notified => r.state \in {"completing", "aborted", "freed"} \/ "abort" \in P \/ "failed" \in P
             /\ r.notified => told[t] # << >>
             /\ Once(told[t])
<1>1. /\ Plain(tr[t], t \in Elements(nextTick), Working(tr[t]))
      /\ Right(CallsOf(stack, t), tr[t], told[t], t \in paused, t \in Elements(nextTick), Working(tr[t]))
  BY DEF Fits, Fit
<1>2. QED
  BY <1>1 DEF Plain, Right

LEMMA CalmResumeFail ==
  ASSUME Sane, Calm, NEW t \in Transfers, DeliverFail(t) \/ DoneFail(t), stack' \in Seq(Call)
  PROVE  Calm'
<1> DEFINE at == tr[t].state
           s == Tail(stack)
<1>1. PICK p \in {"deliver", "done"} : Resumed(p, t)
  BY DEF DeliverFail, DoneFail
<1>2. Fail(t, tr[t], <<At("failed", t)>> \o s) /\ UNCHANGED lists /\ UNCHANGED net
  BY DEF DeliverFail, DoneFail
<1>3. /\ Ready(s, t) /\ NoneIn(s, Pending) /\ CallsOf(s, t) \subseteq {"sync"}
      /\ CallsOf(s, t) \subseteq CallsOf(stack, t) /\ "abort" \notin CallsOf(stack, t)
      /\ p \in CallsOf(stack, t)
      /\ tr[t] \in Transfer /\ Fits(t) /\ net.running \intersect net.finished = {}
  BY <1>1, ResumeReady
<1>4. tr[t].state \in {"completing", "aborted"} /\ ~Working(tr[t])
  BY <1>3, Standing
<1>5. tr[t] = [tr[t] EXCEPT !.state = at]
  BY <1>3 DEF Transfer
<1>6. /\ net'.running \intersect net'.finished = {}
      /\ net'.running \union net'.finished \subseteq net.running \union net.finished
      /\ tr[t].conn \notin net'.running \union net'.finished
  BY <1>2, <1>3, <1>4 DEF Working
<1>7. at \in {"inflight", "completing", "aborted"} /\ at = tr[t].state
  BY <1>4
<1> HIDE DEF at, s
<1>8. QED
  BY <1>2, <1>3, <1>5, <1>6, <1>7, CalmFailing

LEMMA CalmDeliverDone ==
  ASSUME Sane, Calm, NEW t \in Transfers, DeliverDone(t), stack' \in Seq(Call)
  PROVE  Calm'
<1> DEFINE q == [tr[t] EXCEPT !.conn = None, !.handle = FALSE]
           s == Tail(stack)
<1>1. /\ Resumed("deliver", t) /\ tr[t].state # "aborted"
      /\ net' = RemoveConns(Held({t})) /\ Tell({t}, "done")
      /\ stack' = Callback(tr[t]) \o <<At("done", t)>> \o s
      /\ UNCHANGED <<nextTick, paused>>
      /\ tr' = [tr EXCEPT ![t] = q]
  BY DEF DeliverDone, lists, pauses, Sane, Base, Typed
<1>3. /\ Ready(s, t) /\ NoneIn(s, Pending) /\ CallsOf(s, t) \subseteq {"sync"}
      /\ CallsOf(stack, t) = CallsOf(s, t) \union {"deliver"} /\ "abort" \notin CallsOf(stack, t)
      /\ "sync" \in CallsOf(stack, t) => ~tr[t].page
      /\ tr[t] \in Transfer /\ Fits(t) /\ net.running \intersect net.finished = {} /\ Distinct(nextTick) /\ net \in Net
  BY <1>1, ResumeReady
<1>4. /\ tr[t].state = "completing" /\ t \notin Elements(nextTick) /\ ~tr[t].muted
      /\ tr[t].owner # None => tr[t].page
      /\ Err(told[t]) => tr[t].notified
  <2>1. "deliver" \in CallsOf(stack, t)
    BY <1>3
  <2>2. QED
    BY <1>1, <1>3, <2>1, Standing
<1>5. /\ q.state = "completing" /\ q.conn = None /\ q.notified = tr[t].notified /\ ~q.muted /\ q.page = tr[t].page
      /\ ~q.handle /\ q.owner = tr[t].owner
  BY <1>3, <1>4 DEF Transfer
<1> HIDE DEF q, s
<1>6. /\ net'.running \intersect net'.finished = {}
      /\ net'.running \union net'.finished \subseteq net.running \union net.finished
      /\ net'.running \union net'.finished \subseteq Conns
  <2>1. \E back : net'.running = net.running \ back /\ net'.finished = net.finished \ back
    BY <1>1 DEF RemoveConns
  <2>2. QED
    BY <1>3, <2>1 DEF Net
<1>7. ~(q.conn \in net'.running \union net'.finished)
  BY <1>5, <1>6, SetsAssumption
<1>8. /\ Settled(stack', Elements(nextTick), Pending)
      /\ CallsOf(stack', t) = CallsOf(s, t) \union {"done"}
      /\ \A u \in Transfers \ {t} : CallsOf(stack', u) = CallsOf(stack, u)
  BY <1>1, <1>3, SettledUnder
<1>9. /\ told'[t] # << >> /\ Once(told'[t]) /\ (Err(told'[t]) => tr[t].notified)
      /\ \A u \in Transfers \ {t} : told'[u] = told[u]
  BY <1>1, <1>3, <1>4, Telling, ToldOthers DEF Ends
<1>10. Fit(CallsOf(stack', t), q, told'[t], t \in paused', t \in Elements(nextTick'),
          q.conn \in net'.running \union net'.finished)
  <2> DEFINE P == CallsOf(stack', t)
             k == t \in Elements(nextTick')
             b == q.conn \in net'.running \union net'.finished
  <2>1. ~k /\ ~b
    BY <1>1, <1>4, <1>7
  <2>2. P \subseteq {"sync", "done"} /\ "done" \in P /\ ("sync" \in P => ~q.page)
    BY <1>3, <1>5, <1>8
  <2> HIDE DEF P, k, b
  <2>3. Plain(q, k, b)
    BY <1>4, <1>5, <2>1 DEF Plain
  <2>4. \A a \in {"deliver", "failed", "abort", "serving", "served"} : a \notin P
    BY <2>2
  <2>5. Right(P, q, told'[t], t \in paused', k, b)
    BY <1>5, <1>9, <2>1, <2>2, <2>4 DEF Right
  <2>6. QED
    BY <2>3, <2>5 DEF Fit, P, k, b
<1>11. \A u \in Transfers \ {t} :
         /\ told'[u] = told[u] /\ CallsOf(stack', u) = CallsOf(stack, u)
         /\ u \in paused' => u \in paused
         /\ u \in Elements(nextTick') => u \in Elements(nextTick)
         /\ tr[u].conn \in net'.running \union net'.finished => tr[u].conn \in net.running \union net.finished
  BY <1>1, <1>6, <1>8, <1>9
<1>12. "abort" \notin CallsOf(stack', t) /\ Settled(stack', Elements(nextTick'), Pending) /\ Distinct(nextTick')
  BY <1>1, <1>3, <1>8
<1>13. QED
  BY <1>1, <1>6, <1>10, <1>11, <1>12, CalmMoving

LEMMA CalmGone ==
  ASSUME Sane, Calm, NEW t \in Transfers, Done(t) \/ Failed(t) \/ Served(t), stack' \in Seq(Call)
  PROVE  Calm'
<1>1. PICK p \in {"done", "failed", "served"} : Resumed(p, t)
  BY DEF Done, Failed, Served
<1>2. Deinit({t}) /\ UNCHANGED <<told, pauses>> /\ stack' = Tail(stack)
  BY DEF Done, Failed, Served
<1>3. /\ Ready(Tail(stack), t) /\ CallsOf(Tail(stack), t) \subseteq {"sync"}
      /\ CallsOf(Tail(stack), t) \subseteq CallsOf(stack, t) /\ p \in CallsOf(stack, t) /\ Fits(t)
  BY <1>1, ResumeReady
<1>4. told[t] # << >>
  BY <1>3, Standing
<1>5. /\ Settled(stack', Elements(nextTick), Pending)
      /\ \A u \in Transfers \ {t} : CallsOf(stack', u) = CallsOf(stack, u)
      /\ CallsOf(stack', t) \subseteq CallsOf(stack, t) /\ CallsOf(stack', t) \subseteq {"sync"}
  BY <1>2, <1>3 DEF Ready
<1>6. QED
  BY <1>2, <1>4, <1>5, CalmDeiniting

\* An abort goes on top of what only syncRequest may wait for.
LEMMA SettledAbort ==
  ASSUME NEW s, NEW t \in Transfers, Ready(s, t), CallsOf(s, t) \subseteq {"sync"}, t \notin Elements(nextTick), NEW r,
         stack' = Callback(r) \o <<At("abort", t)>> \o s
  PROVE  /\ Settled(stack', Elements(nextTick), Pending)
         /\ CallsOf(stack', t) = CallsOf(s, t) \union {"abort"}
         /\ \A u \in Transfers \ {t} : CallsOf(stack', u) = CallsOf(stack, u)
<1>1. "abort" \in Places /\ \A a \in CallsOf(s, t) : Above("abort", a)
  BY DEF Above, Places, Unshielded
<1>2. QED
  BY <1>1, SettledAt

\* A response that is not from the network goes on, and its transfer stays.
LEMMA CalmServing ==
  ASSUME Sane, Calm, NEW t \in Transfers, NEW p \in {"serving", "served", "abort"},
         CallsOf(stack', t) \subseteq {"sync", p}, p \in CallsOf(stack', t),
         "sync" \in CallsOf(stack', t) => ~tr[t].page,
         \A u \in Transfers \ {t} : CallsOf(stack', u) = CallsOf(stack, u),
         stack' \in Seq(Call), Settled(stack', Elements(nextTick'), Pending),
         tr[t].state \in {"created", "parked"}, ~tr[t].notified, ~Err(told[t]),
         Elements(nextTick') \subseteq Elements(nextTick), Distinct(nextTick'), t \notin Elements(nextTick'),
         t \notin paused', paused' \subseteq paused, UNCHANGED <<tr, net>>,
         \/ p = "serving" /\ UNCHANGED told
         \/ p = "served" /\ Tell({t}, "done")
         \/ p = "abort" /\ Tell({t}, "error")
  PROVE  Calm'
<1>1. /\ tr[t] \in Transfer /\ Fits(t) /\ net.running \intersect net.finished = {}
  BY DEF Calm, Sane, Base, Typed
<1>2. tr' = [tr EXCEPT ![t] = tr[t]]
  BY DEF Sane, Base, Typed
<1>3. Once(told[t]) /\ ~tr[t].muted /\ (tr[t].handle => tr[t].page) /\ (tr[t].owner # None => tr[t].page)
      /\ ~Working(tr[t])
  BY <1>1, Standing DEF Fits, Fit, Plain
<1>4. /\ Once(told'[t]) /\ (p # "serving" => told'[t] # << >>) /\ (p # "abort" => ~Err(told'[t]))
      /\ \A u \in Transfers \ {t} : told'[u] = told[u]
  <2>1. CASE p = "serving" /\ UNCHANGED told
    BY <1>3, <2>1
  <2>2. CASE p = "served" /\ Tell({t}, "done")
    BY <1>1, <2>2, Telling, ToldOthers DEF Ends
  <2>3. CASE p = "abort" /\ Tell({t}, "error")
    BY <1>1, <2>3, Telling, ToldOthers DEF Ends
  <2>4. QED
    BY <2>1, <2>2, <2>3
<1>5. Fit(CallsOf(stack', t), tr[t], told'[t], t \in paused', t \in Elements(nextTick'),
          tr[t].conn \in net'.running \union net'.finished)
  <2> DEFINE P == CallsOf(stack', t)
             k == t \in Elements(nextTick')
             b == tr[t].conn \in net'.running \union net'.finished
             g == t \in paused'
  <2>1. ~k /\ ~b /\ ~g
    BY <1>3 DEF Working
  <2>2. P \subseteq {"sync", p} /\ p \in P /\ ("sync" \in P => ~tr[t].page)
    OBVIOUS
  <2> HIDE DEF P, k, b, g
  <2>3. Plain(tr[t], k, b)
    BY <1>3, <2>1 DEF Plain
  <2>4. \A a \in {"deliver", "done", "failed"} : a \notin P
    BY <2>2
  <2>5. \A a \in {"serving", "served", "abort"} : a \in P => a = p
    BY <2>2
  <2>6. Right(P, tr[t], told'[t], g, k, b)
    BY <1>3, <1>4, <2>1, <2>2, <2>4, <2>5 DEF Right
  <2>7. QED
    BY <2>3, <2>6 DEF Fit, P, k, b, g
<1>6. \A u \in Transfers \ {t} :
         /\ told'[u] = told[u] /\ CallsOf(stack', u) = CallsOf(stack, u)
         /\ u \in paused' => u \in paused
         /\ u \in Elements(nextTick') => u \in Elements(nextTick)
         /\ tr[u].conn \in net'.running \union net'.finished => tr[u].conn \in net.running \union net.finished
  BY <1>4
<1>7. net'.running \intersect net'.finished = {} /\ t \notin Pending'
  BY <1>1 DEF Pending
<1>8. QED
  BY <1>2, <1>5, <1>6, <1>7, CalmMoving

LEMMA CalmServe ==
  ASSUME Sane, Calm, NEW t \in Transfers, ServeFail(t) \/ ServeDone(t) \/ ServedFail(t), stack' \in Seq(Call)
  PROVE  Calm'
<1> DEFINE s == Tail(stack)
<1>1. PICK p \in {"serving", "served"} : Resumed(p, t)
  BY DEF ServeFail, ServeDone, ServedFail
<1>2. /\ Ready(s, t) /\ NoneIn(s, Pending) /\ CallsOf(s, t) \subseteq {"sync"}
      /\ CallsOf(s, t) \subseteq CallsOf(stack, t) /\ "abort" \notin CallsOf(stack, t) /\ "failed" \notin CallsOf(stack, t)
      /\ p \in CallsOf(stack, t)
      /\ "sync" \in CallsOf(stack, t) => ~tr[t].page
      /\ Fits(t)
  BY <1>1, ResumeReady
<1>3. /\ tr[t].state \in {"created", "parked"} /\ t \notin paused /\ t \notin Elements(nextTick)
      /\ Distinct(nextTick)
      /\ ~tr[t].notified /\ ~Err(told[t])
  BY <1>2, Standing DEF Calm
<1>4. "sync" \in CallsOf(s, t) => ~tr[t].page
  BY <1>2
<1>5. CASE ServeFail(t)
  <2>1. Abort(t, s) /\ paused' = paused
    BY <1>5 DEF ServeFail, pauses
  <2> HIDE DEF s
  <2>2. CallsOf(s, t) \subseteq {"sync", "deliver"}
    BY <1>2
  <2>3. QED
    BY <1>2, <1>3, <2>1, <2>2, CalmAborting
<1>6. CASE ServeDone(t)
  <2>1. /\ Tell({t}, "done") /\ stack' = Callback(tr[t]) \o <<At("served", t)>> \o s
        /\ UNCHANGED <<tr, nextTick, paused, net>>
    BY <1>6 DEF ServeDone, lists, pauses
  <2> HIDE DEF s
  <2>2. /\ Settled(stack', Elements(nextTick), Pending)
        /\ CallsOf(stack', t) = CallsOf(s, t) \union {"served"}
        /\ \A u \in Transfers \ {t} : CallsOf(stack', u) = CallsOf(stack, u)
    BY <1>2, <1>3, <2>1, SettledUnder
  <2>3. QED
    BY <1>2, <1>3, <1>4, <2>1, <2>2, CalmServing
<1>7. CASE ServedFail(t)
  <2>1. /\ Tell({t}, "error") /\ stack' = Callback(tr[t]) \o <<At("abort", t)>> \o s
        /\ UNCHANGED <<tr, nextTick, paused, net>>
    BY <1>7 DEF ServedFail, lists, pauses
  <2> HIDE DEF s
  <2>2. /\ Settled(stack', Elements(nextTick), Pending)
        /\ CallsOf(stack', t) = CallsOf(s, t) \union {"abort"}
        /\ \A u \in Transfers \ {t} : CallsOf(stack', u) = CallsOf(stack, u)
    BY <1>2, <1>3, <2>1, SettledAbort
  <2>3. QED
    BY <1>2, <1>3, <1>4, <2>1, <2>2, CalmServing
<1>8. QED
  BY <1>5, <1>6, <1>7

LEMMA CalmResume ==
  ASSUME Sane, Calm, NEW t \in Transfers, Resume(t), stack' \in Seq(Call)
  PROVE  Calm'
<1>1. ~FailedDetached(t)
  BY NoneDetached
<1>2. QED
  BY <1>1, CalmResumeFail, CalmDeliverDone, CalmGone, CalmServe DEF Resume

-----------------------------------------------------------------------------
\* The same with the next-tick list that the transfer is taken from.
LEMMA SettledNext ==
  ASSUME NEW s, NEW p \in {"serving", "abort"}, NEW t \in Transfers, Ready(s, t), NoneIn(s, Pending),
         CallsOf(s, t) \subseteq {"sync"},
         Elements(nextTick') \subseteq Elements(nextTick), t \notin Elements(nextTick'),
         NEW r, Called(stack', r, p, t, s)
  PROVE  /\ Settled(stack', Elements(nextTick'), Pending)
         /\ CallsOf(stack', t) = CallsOf(s, t) \union {p}
         /\ \A u \in Transfers \ {t} : CallsOf(stack', u) = CallsOf(stack, u)
<1> DEFINE K == Elements(nextTick)
           L == Elements(nextTick')
           X == Pending
           st == stack'
<1>1. /\ s \in Seq(Call) /\ Settled(s, K, X) /\ NoneIn(s, K)
      /\ \A u \in Transfers \ {t} : CallsOf(s, u) = CallsOf(stack, u)
  BY DEF Ready
<1>2. L \subseteq K
  OBVIOUS
<1>3. p \in Places /\ \A a \in CallsOf(s, t) : Above(p, a)
  BY DEF Above, Places, Unshielded
<1>4. (p = "abort" \/ NoneIn(s, X)) /\ (p = "abort" /\ r.page => t \notin L) /\ Called(st, r, p, t, s)
  OBVIOUS
<1> HIDE DEF K, L, X, st
<1>5. Settled(s, L, X) /\ NoneIn(s, L)
  BY <1>1, <1>2, SettledMore
<1>6. /\ Settled(st, L, X)
      /\ CallsOf(st, t) = CallsOf(s, t) \union {p}
      /\ \A u \in Transfers \ {t} : CallsOf(st, u) = CallsOf(s, u)
  BY <1>1, <1>3, <1>4, <1>5, SettledOn
<1>7. QED
  BY <1>1, <1>6 DEF L, X, st

\* The first transfer of the next-tick queue is run.
LEMMA CalmNextTick ==
  ASSUME Sane, Calm, NextTickRun, stack' \in Seq(Call)
  PROVE  Calm'
<1> DEFINE t == Head(nextTick)
           c == [Head(stack) EXCEPT !.n = @ - 1]
           s == Tail(stack)
           w == <<c>> \o s
           K == Elements(nextTick)
           L == Elements(nextTick')
           X == Pending
<1>1. /\ Top("next") /\ Head(stack).n > 0 /\ nextTick # << >> /\ nextTick' = Tail(nextTick)
      /\ UNCHANGED <<tr, paused, net>>
      /\ \/ stack' = Callback(tr[t]) \o <<At("serving", t)>> \o w /\ UNCHANGED told
         \/ stack' = Callback(tr[t]) \o <<At("abort", t)>> \o w /\ Tell({t}, "error")
  BY DEF NextTickRun, pauses
<1>2. nextTick \in Seq(Transfers) /\ Distinct(nextTick)
  BY DEF Sane, Base, Typed, Calm
<1>3. L = K \ {t} /\ Distinct(nextTick') /\ t \in K
  BY <1>1, <1>2, Unqueued
<1>4. t \in Transfers
  BY <1>2, <1>3 DEF Elements
<1>5. c \in Call /\ c.at = "next" /\ c.t = None
  <2>1. Head(stack) \in Call /\ Head(stack).at = "next" /\ Head(stack).t = None
    BY <1>1, TopShape, InBare DEF Top, Sane, Framed
  <2>2. QED
    BY <1>1, <2>1 DEF Call
<1>6. /\ s \in Seq(Call) /\ Settled(s, K, X) /\ NoneIn(s, K) /\ NoneIn(s, X)
      /\ \A u \in Transfers : CallsOf(s, u) = CallsOf(stack, u)
  BY <1>1, BareTop, InBare
<1>7. /\ CallsOf(stack, t) \subseteq {"sync"} /\ ~tr[t].notified /\ ~Err(told[t])
  BY <1>1, <1>3, <1>4, Taken, InBare
<1>8. tr[t].state = "created" /\ ("sync" \in CallsOf(stack, t) => ~tr[t].page) /\ t \notin paused
  <2>1. Fits(t) /\ Sound(tr[t], t \in paused)
    BY <1>4 DEF Calm, Sane, Base
  <2>2. tr[t].state = "created" /\ ("sync" \in CallsOf(stack, t) => ~tr[t].page)
    BY <1>3, <2>1 DEF Fits, Fit, Plain, Right
  <2>3. QED
    BY <2>1, <2>2 DEF Sound
<1> HIDE DEF t, c, s, K, L, X
<1>9. /\ w \in Seq(Call) /\ Settled(w, K, X) /\ NoneIn(w, K) /\ NoneIn(w, X)
      /\ \A u \in Transfers : CallsOf(w, u) = CallsOf(stack, u)
  <2>1. /\ Settled(w, K, X) /\ w \in Seq(Call)
        /\ \A u \in Transfers : CallsOf(w, u) = CallsOf(s, u)
        /\ NoneIn(w, K) /\ NoneIn(w, X)
    BY <1>5, <1>6, SettledBare
  <2>2. QED
    BY <1>6, <2>1
<1> HIDE DEF w
<1>10. Ready(w, t) /\ NoneIn(w, Pending) /\ CallsOf(w, t) \subseteq {"sync"}
  BY <1>4, <1>7, <1>9 DEF Ready, K, X
<1>11. ASSUME NEW p \in {"serving", "abort"}, Called(stack', tr[t], p, t, w)
       PROVE  /\ Settled(stack', Elements(nextTick'), Pending)
              /\ CallsOf(stack', t) = CallsOf(stack, t) \union {p}
              /\ \A u \in Transfers \ {t} : CallsOf(stack', u) = CallsOf(stack, u)
  <2>1. Elements(nextTick') \subseteq Elements(nextTick) /\ t \notin Elements(nextTick')
    BY <1>3 DEF K, L
  <2>2. /\ Settled(stack', Elements(nextTick'), Pending)
        /\ CallsOf(stack', t) = CallsOf(w, t) \union {p}
        /\ \A u \in Transfers \ {t} : CallsOf(stack', u) = CallsOf(stack, u)
    BY <1>4, <1>10, <1>11, <2>1, SettledNext
  <2>3. QED
    BY <1>4, <1>9, <2>2
<1>12. ASSUME NEW p \in {"serving", "abort"}, Called(stack', tr[t], p, t, w),
              (p = "serving" /\ UNCHANGED told) \/ (p = "abort" /\ Tell({t}, "error"))
       PROVE  Calm'
  <2>1. /\ Settled(stack', Elements(nextTick'), Pending)
        /\ CallsOf(stack', t) \subseteq {"sync", p} /\ p \in CallsOf(stack', t)
        /\ "sync" \in CallsOf(stack', t) => ~tr[t].page
        /\ \A u \in Transfers \ {t} : CallsOf(stack', u) = CallsOf(stack, u)
    BY <1>7, <1>8, <1>11, <1>12
  <2>2. Elements(nextTick') \subseteq Elements(nextTick) /\ t \notin Elements(nextTick')
    BY <1>3 DEF K, L
  <2>3. t \notin paused' /\ paused' \subseteq paused
    BY <1>1, <1>8
  <2>4. tr[t].state \in {"created", "parked"} /\ ~tr[t].notified /\ ~Err(told[t])
    BY <1>7, <1>8
  <2>5. p \in {"serving", "served", "abort"}
    OBVIOUS
  <2>6. QED
    BY <1>1, <1>3, <1>4, <1>12, <2>1, <2>2, <2>3, <2>4, <2>5, CalmServing
<1>13. CASE stack' = Callback(tr[t]) \o <<At("serving", t)>> \o w /\ UNCHANGED told
  BY <1>12, <1>13 DEF Called
<1>14. CASE stack' = Callback(tr[t]) \o <<At("abort", t)>> \o w /\ Tell({t}, "error")
  BY <1>12, <1>14 DEF Called
<1>15. QED
  BY <1>1, <1>13, <1>14

\* A transfer that the tick takes up, and that a command or the queue starts.
LEMMA TakenFresh ==
  ASSUME Sane, Calm, NEW q \in Bare \ Inner, Top(q), NEW t \in Transfers,
         tr[t].state = "queued" \/ (t \in paused /\ tr[t].state = "parked")
  PROVE  /\ Fresh([tr[t] EXCEPT !.state = "created"]) /\ [tr[t] EXCEPT !.state = "created"].page = tr[t].page
         /\ CallsOf(stack, t) \subseteq {"sync"} /\ ("sync" \in CallsOf(stack, t) => ~tr[t].page)
         /\ ~Err(told[t]) /\ ~tr[t].notified /\ t \notin Elements(nextTick)
         /\ Ready(stack, t) /\ NoneIn(stack, Pending)
<1>1. /\ CallsOf(stack, t) \subseteq {"sync"}
      /\ NoneIn(stack, Elements(nextTick)) /\ NoneIn(stack, Pending)
      /\ ~tr[t].notified /\ ~Err(told[t]) /\ ~tr[t].muted
  BY Taken
<1>2. /\ tr[t] \in Transfer /\ Fits(t) /\ Sound(tr[t], t \in paused)
      /\ stack \in Seq(Call) /\ Settled(stack, Elements(nextTick), Pending)
  BY DEF Sane, TypeOK, Base, Typed, Calm
<1>3. /\ (tr[t].handle => tr[t].page) /\ (tr[t].owner # None => tr[t].page) /\ t \notin Elements(nextTick)
      /\ ("sync" \in CallsOf(stack, t) => ~tr[t].page)
  BY <1>2 DEF Fits, Fit, Plain, Right
<1>4. tr[t].conn = None /\ (tr[t].page /\ ~tr[t].muted => tr[t].owner \in alive)
  BY <1>2 DEF Sound, Loose
<1> DEFINE r == [tr[t] EXCEPT !.state = "created"]
<1>5. /\ r \in Transfer /\ r.state = "created" /\ r.conn = tr[t].conn /\ r.page = tr[t].page /\ r.muted = tr[t].muted
      /\ r.owner = tr[t].owner /\ r.notified = tr[t].notified /\ r.handle = tr[t].handle
  BY <1>2 DEF Transfer, States
<1> HIDE DEF r
<1>6. Fresh(r) /\ r.page = tr[t].page
  BY <1>1, <1>3, <1>4, <1>5 DEF Fresh, Startable
<1>7. QED
  BY <1>1, <1>2, <1>3, <1>6 DEF Ready, r

LEMMA CalmDraining ==
  ASSUME Sane, Entered({}), Wired, Calm, DrainQueue, stack' \in Seq(Call)
  PROVE  Calm'
<1> DEFINE t == Head(queue)
           r == [tr[t] EXCEPT !.state = "created"]
           bad == <<At("tickFailed", None)>> \o Tail(stack)
<1>1. PICK q \in {"queue1", "queue2"} : Top(q)
  BY DEF DrainQueue, InDrainQueue
<1>2. PICK c \in Available : MakeRequest(t, r, c, stack, bad)
  BY DEF DrainQueue
<1>3. queue # << >> /\ UNCHANGED <<nextTick, paused>>
  BY DEF DrainQueue, pauses
<1>4. t \in Transfers /\ tr[t].state = "queued"
  <2>1. queue \in Seq(Transfers) /\ Distinct(queue) /\ Elements(queue) = {u \in Transfers : tr[u].state = "queued"}
    BY DEF Sane, Base, Typed, Listed
  <2>2. t \in Elements(queue)
    BY <1>3, <2>1, Unqueued
  <2>3. QED
    BY <2>1, <2>2
<1>5. q \in Bare \ Inner /\ q \notin Curls
  BY InBare DEF Curls
<1>6. ~InCurl /\ ~performing
  BY <1>1, <1>5, CurlAlone
<1> HIDE DEF t
<1>7. /\ Fresh(r) /\ r.page = tr[t].page
      /\ CallsOf(stack, t) \subseteq {"sync"} /\ ("sync" \in CallsOf(stack, t) => ~tr[t].page)
      /\ ~Err(told[t]) /\ t \notin Elements(nextTick)
      /\ Ready(stack, t)
  BY <1>1, <1>4, <1>5, TakenFresh
<1>8. t \notin paused
  BY <1>4 DEF Sane, Base, Sound
<1>9. Ready(bad, t) /\ CallsOf(bad, t) = CallsOf(stack, t)
  <2> DEFINE s == Tail(stack)
             K == Elements(nextTick)
             X == Pending
             f == At("tickFailed", None)
  <2>1. /\ s \in Seq(Call) /\ Settled(s, K, X) /\ NoneIn(s, K) /\ NoneIn(s, X)
        /\ \A u \in Transfers : CallsOf(s, u) = CallsOf(stack, u)
    BY <1>1, <1>5, BareTop
  <2>2. f \in Call /\ f.t = None
    BY DEF At, Call, Places
  <2> HIDE DEF s, K, X, f
  <2> DEFINE w == <<f>> \o s
  <2>3. /\ Settled(w, K, X) /\ w \in Seq(Call) /\ NoneIn(w, K)
        /\ \A u \in Transfers : CallsOf(w, u) = CallsOf(s, u)
    BY <2>1, <2>2, SettledBare
  <2>4. bad = w
    BY DEF w, f, s
  <2> HIDE DEF w, bad
  <2>5. QED
    BY <1>4, <2>1, <2>3, <2>4 DEF Ready, K, X
<1> HIDE DEF r, bad
<1>10. "sync" \in CallsOf(stack, t) \union CallsOf(bad, t) => ~r.page
  BY <1>7, <1>9
<1>11. CallsOf(bad, t) \subseteq {"sync"} /\ paused' \subseteq paused /\ t \notin paused'
  BY <1>3, <1>7, <1>8, <1>9
<1>12. QED
  BY <1>2, <1>3, <1>4, <1>6, <1>7, <1>9, <1>10, <1>11, CalmMaking

\* A command of the Fetch domain names a transfer that waits for it.
LEMMA Answering ==
  ASSUME Sane, Entered({}), Calm, NEW t \in Transfers, Answer(t)
  PROVE  /\ Fresh(Unpark(t)) /\ Unpark(t).page = tr[t].page /\ tr[t].state = "parked"
         /\ CallsOf(stack, t) \subseteq {"sync"} /\ ("sync" \in CallsOf(stack, t) => ~tr[t].page)
         /\ ~Err(told[t]) /\ ~tr[t].notified /\ t \notin Elements(nextTick)
         /\ Ready(stack, t) /\ NoneIn(stack, Pending)
         /\ ~InCurl /\ ~performing /\ paused' \subseteq paused /\ t \notin paused'
<1>1. Top("inbox") /\ t \in paused /\ paused' = paused \ {t} /\ tr[t].state \notin {"none", "freed"}
  BY DEF Answer, Command
<1>2. tr[t].state = "parked"
  BY <1>1 DEF Sane, Base, Sound
<1>3. "inbox" \in Bare \ Inner /\ "inbox" \notin Curls
  BY InBare DEF Curls
<1>4. ~InCurl /\ ~performing
  BY <1>1, <1>3, CurlAlone
<1>5. QED
  BY <1>1, <1>2, <1>3, <1>4, TakenFresh DEF Unpark

LEMMA CalmCommanding ==
  ASSUME Sane, Entered({}), Wired, Calm, NEW t \in Transfers,
         CdpContinue(t) \/ CdpContinueWithAuth(t) \/ CdpFail(t) \/ CdpFulfill(t), stack' \in Seq(Call)
  PROVE  Calm'
<1>1. Answer(t)
  BY DEF CdpContinue, CdpContinueWithAuth, CdpFail, CdpFulfill
<1> DEFINE r == Unpark(t)
<1>2. /\ Fresh(r) /\ r.page = tr[t].page /\ tr[t].state = "parked"
      /\ CallsOf(stack, t) \subseteq {"sync"} /\ ("sync" \in CallsOf(stack, t) => ~tr[t].page)
      /\ ~Err(told[t]) /\ ~tr[t].notified /\ t \notin Elements(nextTick)
      /\ Ready(stack, t) /\ NoneIn(stack, Pending)
      /\ ~InCurl /\ ~performing /\ paused' \subseteq paused /\ t \notin paused'
  BY <1>1, Answering
<1> HIDE DEF r
<1>3. CASE CdpContinue(t) \/ CdpContinueWithAuth(t)
  <2>1. Process(t, r, stack) /\ UNCHANGED nextTick
    BY <1>3 DEF CdpContinue, CdpContinueWithAuth, r
  <2>2. "sync" \in CallsOf(stack, t) => ~r.page
    BY <1>2
  <2>3. QED
    BY <1>2, <2>1, <2>2, CalmProcessing
<1>4. CASE CdpFail(t)
  <2>1. Abort(t, stack)
    BY <1>4 DEF CdpFail
  <2>2. CallsOf(stack, t) \subseteq {"sync", "deliver"}
    BY <1>2
  <2>3. QED
    BY <1>2, <2>1, <2>2, CalmAborting
<1>5. CASE CdpFulfill(t)
  <2>1. /\ stack' = Callback(tr[t]) \o <<At("serving", t)>> \o stack
        /\ UNCHANGED <<tr, told, nextTick, net>>
    BY <1>5 DEF CdpFulfill
  <2>2. /\ Settled(stack', Elements(nextTick), Pending)
        /\ CallsOf(stack', t) = CallsOf(stack, t) \union {"serving"}
        /\ \A u \in Transfers \ {t} : CallsOf(stack', u) = CallsOf(stack, u)
    BY <1>2, <2>1, SettledUnder
  <2>3. Distinct(nextTick)
    BY DEF Calm
  <2>4. QED
    BY <1>2, <2>1, <2>2, <2>3, CalmServing
<1>6. QED
  BY <1>3, <1>4, <1>5

-----------------------------------------------------------------------------
\* A script that may end the transfers of S is not called back by one of them,
\* unless that one is completing.
LEMMA Unendangered ==
  ASSUME NEW S, Endangered(S) = {}, NEW t \in S
  PROVE  /\ "abort" \notin CallsOf(stack, t)
         /\ tr[t].state # "completing" => \A a \in CallsOf(stack, t) : a \notin Unshielded
<1>1. \A i \in DOMAIN stack :
        stack[i].t = t => stack[i].at # "abort" /\ (stack[i].at \in Unshielded => tr[t].state = "completing")
  BY DEF Endangered
<1>2. \A g \in Elements(stack) :
        g.t = t => g.at # "abort" /\ (g.at \in Unshielded => tr[t].state = "completing")
  BY <1>1 DEF Elements
<1>3. QED
  BY <1>2, CallsIn

\* Transfer.kill of transfers that no call goes on with, completing ones aside.
LEMMA CalmKilling ==
  ASSUME Sane, Calm, ~performing, NEW S \in SUBSET Transfers, Kill(S), UNCHANGED <<paused, stack>>,
         \A t \in S : /\ "abort" \notin CallsOf(stack, t)
                      /\ tr[t].state # "completing" => CallsOf(stack, t) \subseteq {"sync"}
  PROVE  Calm'
<1>1. Tell(S, "shutdown") /\ DetachOrDeinit(S) /\ "shutdown" \in Ends
  BY DEF Kill, Ends
<1>2. stack \in Seq(Call) /\ Settled(stack, Elements(nextTick), Pending) /\ \A t \in Transfers : Fits(t)
  BY DEF Sane, TypeOK, Calm
<1>3. ASSUME NEW t \in S
      PROVE  told'[t] # << >> /\ Once(told'[t]) /\ (Err(told'[t]) => Err(told[t]))
  BY <1>1, <1>2, Telling
<1>4. ASSUME NEW t \in S, tr[t].state = "completing"
      PROVE  \/ "deliver" \in CallsOf(stack, t) \/ "done" \in CallsOf(stack, t)
             \/ "failed" \in CallsOf(stack, t)
  <2>1. Fits(t)
    BY <1>2
  <2>2. QED
    BY <1>4, <2>1 DEF Fits, Fit, Right
<1>5. \A t \in Transfers \ S : told'[t] = told[t]
  BY <1>1, ToldOthers
<1>6. /\ \A t \in S : told'[t] # << >> /\ Once(told'[t]) /\ (Err(told'[t]) => Err(told[t]))
      /\ \A t \in S : tr[t].state # "completing" => CallsOf(stack', t) \subseteq {"sync"}
      /\ \A t \in S : tr[t].state = "completing" =>
                        /\ "abort" \notin CallsOf(stack', t)
                        /\ \/ "deliver" \in CallsOf(stack', t) \/ "done" \in CallsOf(stack', t)
                           \/ "failed" \in CallsOf(stack', t)
  BY <1>3, <1>4
<1>7. /\ stack' \in Seq(Call) /\ Settled(stack', Elements(nextTick), Pending) /\ paused' \subseteq paused
      /\ \A u \in Transfers : CallsOf(stack', u) = CallsOf(stack, u)
  BY <1>2
<1>8. QED
  BY <1>1, <1>5, <1>6, <1>7, CalmDetaching

LEMMA CalmNavigate ==
  ASSUME Sane, Entered({}), Calm, NEW o \in Owners, ScriptNavigate(o),
         Endangered({t \in Transfers : tr[t].owner = o}) = {}
  PROVE  Calm'
<1> DEFINE S == {t \in Transfers : tr[t].owner = o}
<1>1. Top("script") /\ Endangered(S) = {} /\ Kill(S) /\ UNCHANGED <<paused, stack>>
  BY DEF ScriptNavigate, pauses
<1>2. ~performing
  BY <1>1, CurlAlone DEF Curls
<1>3. ASSUME NEW t \in S
      PROVE  /\ "abort" \notin CallsOf(stack, t)
             /\ tr[t].state # "completing" => CallsOf(stack, t) \subseteq {"sync"}
  <2>1. t \in Transfers /\ tr[t].owner # None /\ Fits(t)
    BY SetsAssumption DEF Calm
  <2>2. tr[t].state \notin {"none", "aborted", "freed"}
    BY <2>1, Standing
  <2>3. "abort" \notin CallsOf(stack, t) /\ (tr[t].state # "completing" => \A a \in CallsOf(stack, t) : a \notin Unshielded)
    BY <1>1, Unendangered
  <2>4. tr[t].state # "completing" => "deliver" \notin CallsOf(stack, t) /\ "done" \notin CallsOf(stack, t)
    BY <2>1, <2>2, Standing
  <2>5. CallsOf(stack, t) \subseteq {"sync", "deliver", "done", "failed", "serving", "served", "abort"}
    BY <2>1, CallsActing
  <2>6. QED
    BY <2>3, <2>4, <2>5 DEF Unshielded
<1> HIDE DEF S
<1>4. S \in SUBSET Transfers
  BY DEF S
<1>5. QED
  BY <1>1, <1>2, <1>3, <1>4, CalmKilling

\* A page is left, or the client ends, when no call is under way.
LEMMA CalmLeaving ==
  ASSUME Sane, Entered({}), Calm, ClientDeinit \/ \E o \in Owners : TearDown(o)
  PROVE  Calm'
<1>1. PICK S \in SUBSET Transfers : Kill(S)
  BY DEF ClientDeinit, TearDown
<1>2. UNCHANGED <<paused, stack>>
  BY DEF ClientDeinit, TearDown, pauses
<1>3. stack = << >> \/ (Top("inbox") /\ Len(stack) = 1)
  BY DEF ClientDeinit, TearDown, Idle
<1>4. ~performing
  BY <1>3, CurlAlone DEF Curls
<1>5. ASSUME NEW t \in Transfers PROVE CallsOf(stack, t) = {}
  <2>1. CASE stack = << >>
    <3>1. \A a : a \notin CallsOf(stack, t)
      BY <2>1, Emptied, CallsIn
    <3>2. QED
      BY <3>1
  <2>2. CASE Top("inbox") /\ Len(stack) = 1
    <3>1. Tail(stack) = << >>
      <4>1. stack \in Seq(Call) /\ stack # << >>
        BY <2>2 DEF Sane, TypeOK, Top
      <4>2. Tail(stack) \in Seq(Call) /\ Len(Tail(stack)) = 0
        BY <2>2, <4>1
      <4>3. QED
        BY <4>2, EmptySeq
    <3>2. CallsOf(Tail(stack), t) = CallsOf(stack, t)
      BY <2>2, BareTop, InBare
    <3>3. \A a : a \notin CallsOf(Tail(stack), t)
      BY <3>1, Emptied, CallsIn
    <3>4. QED
      BY <3>2, <3>3
  <2>3. QED
    BY <1>3, <2>1, <2>2
<1>6. \A t \in S : /\ "abort" \notin CallsOf(stack, t)
                   /\ tr[t].state # "completing" => CallsOf(stack, t) \subseteq {"sync"}
  BY <1>5
<1>7. QED
  BY <1>1, <1>2, <1>4, <1>6, CalmKilling

\* requestT from a page, and from syncRequest.
LEMMA ScriptReady ==
  ASSUME Sane, Entered({}), Calm, Top("script"), NEW t \in Transfers
  PROVE  /\ Ready(stack, t) /\ ~performing /\ ~InCurl
         /\ tr[t].state = "none" => CallsOf(stack, t) = {}
<1>1. ~performing /\ ~InCurl
  BY CurlAlone DEF Curls
<1>2. stack \in Seq(Call) /\ Settled(stack, Elements(nextTick), Pending) /\ Fits(t) /\ stack # << >> /\ Head(stack).at = "script"
  BY DEF Sane, TypeOK, Calm, Top
<1>3. NoneIn(stack, Elements(nextTick))
  <2> DEFINE K == Elements(nextTick)
             X == Pending
  <2>1. Settled(stack, K, X)
    BY <1>2
  <2> HIDE DEF K, X
  <2>2. NoneIn(stack, K)
    BY <1>2, <2>1, SettledPop
  <2>3. QED
    BY <2>2 DEF K
<1>4. tr[t].state = "none" => CallsOf(stack, t) = {}
  BY <1>2 DEF Fits, Fit, Right
<1>5. QED
  BY <1>1, <1>2, <1>3, <1>4 DEF Ready

LEMMA CalmScriptRequest ==
  ASSUME Sane, Entered({}), Wired, Calm, NEW t \in Transfers, NEW o \in Owners, ScriptRequest(t, o),
         stack' \in Seq(Call)
  PROVE  Calm'
<1>1. Top("script") /\ o \in alive /\ Request(t, Created(TRUE, o), stack)
  BY DEF ScriptRequest
<1>2. tr[t].state = "none"
  BY <1>1 DEF Request
<1>3. Ready(stack, t) /\ ~performing /\ ~InCurl /\ CallsOf(stack, t) = {}
  BY <1>1, <1>2, ScriptReady
<1>4. o \in Owners \union {None} /\ TRUE \in BOOLEAN /\ "sync" \notin CallsOf(stack, t)
  BY <1>3
<1>5. QED
  BY <1>1, <1>3, <1>4, CalmRequesting

LEMMA CalmScriptSync ==
  ASSUME Sane, Entered({}), Wired, Calm, NEW t \in Transfers, ScriptSync(t), ~Exposed, stack' \in Seq(Call)
  PROVE  Calm'
<1> DEFINE c == At("sync", t)
           s == <<c>> \o stack
           K == Elements(nextTick)
           X == Pending
<1>1. Top("script") /\ ~Exposed /\ Request(t, Created(FALSE, None), s)
  BY DEF ScriptSync
<1>2. tr[t].state = "none"
  BY <1>1 DEF Request
<1>3. /\ Ready(stack, t) /\ ~performing /\ ~InCurl /\ CallsOf(stack, t) = {}
      /\ stack \in Seq(Call) /\ Settled(stack, K, X) /\ NoneIn(stack, K)
  BY <1>1, <1>2, ScriptReady DEF Ready
<1>4. NoneIn(stack, X)
  <2>1. SUFFICES ASSUME NEW u \in Transfers, u \in Pending, "abort" \in CallsOf(stack, u) PROVE FALSE
    BY DEF NoneIn
  <2>2. PICK g \in Elements(stack) : g.t = u /\ g.at = "abort"
    BY <2>1, CallsIn
  <2>3. PICK i \in DOMAIN stack : stack[i] = g
    BY <2>2 DEF Elements
  <2>4. stack[i].at = "abort" /\ (stack[i].t \in paused \/ tr[stack[i].t].state \in {"queued", "inflight"})
    BY <2>1, <2>2, <2>3 DEF Pending
  <2>5. QED
    BY <1>1, <2>4 DEF Exposed
<1>5. c \in Call /\ c.at = "sync" /\ c.t = t
  BY DEF At, Call, Places
<1> HIDE DEF c, K, X
<1>6. /\ s \in Seq(Call) /\ Settled(s, K, X)
      /\ \A u \in Transfers \ {t} : CallsOf(s, u) = CallsOf(stack, u)
      /\ CallsOf(s, t) = {"sync"}
  <2>1. s \in Seq(Call)
    BY <1>3, <1>5, Pushed
  <2>2. Settled(s, K, X)
    BY <1>3, <1>4, <1>5, SettledPush
  <2>3. \A u : /\ c.t = u => CallsOf(s, u) = CallsOf(stack, u) \union {c.at}
               /\ c.t # u => CallsOf(s, u) = CallsOf(stack, u)
    BY <1>3, <1>5, CallsPush
  <2>4. QED
    BY <1>3, <1>5, <2>1, <2>2, <2>3
<1>7. NoneIn(s, K)
  BY <1>3, <1>6 DEF NoneIn
<1> HIDE DEF s
<1>8. Ready(s, t)
  BY <1>6, <1>7 DEF Ready, K, X
<1>9. CallsOf(s, t) \subseteq {"sync"} /\ None \in Owners \union {None} /\ FALSE \in BOOLEAN
  BY <1>6
<1>10. QED
  BY <1>1, <1>3, <1>8, <1>9, CalmRequesting

LEMMA CalmScriptAbort ==
  ASSUME Sane, Entered({}), Calm, NEW t \in Transfers, ScriptAbort(t), Endangered({t}) = {}, stack' \in Seq(Call)
  PROVE  Calm'
<1> DEFINE P == CallsOf(stack, t)
<1>1. Top("script") /\ tr[t].handle /\ Endangered({t}) = {} /\ Abort(t, stack) /\ paused' = paused
  BY DEF ScriptAbort, pauses
<1>2. Ready(stack, t) /\ ~performing /\ stack \in Seq(Call) /\ Settled(stack, Elements(nextTick), Pending)
  BY <1>1, ScriptReady DEF Ready
<1>3. "abort" \notin P /\ (tr[t].state # "completing" => \A a \in P : a \notin Unshielded)
  BY <1>1, Unendangered
<1>4. /\ tr[t].state \in {"created", "queued", "parked", "inflight", "completing"}
      /\ tr[t].page => t \notin Elements(nextTick)
      /\ "sync" \notin P /\ "done" \notin P
      /\ "deliver" \in P => tr[t].state = "completing"
      /\ "serving" \in P \/ "served" \in P => tr[t].state # "completing"
      /\ "failed" \in P => tr[t].notified
      /\ tr[t].state = "completing" => "deliver" \in P \/ "done" \in P \/ "failed" \in P
      /\ Once(told[t]) /\ (tr[t].notified => told[t] # << >> /\ (tr[t].state = "completing" \/ "failed" \in P))
      /\ Err(told[t]) => tr[t].notified
  <2>1. Plain(tr[t], t \in Elements(nextTick), Working(tr[t])) /\ tr[t] \in Transfer
    BY DEF Calm, Fits, Fit, Sane, Base, Typed
  <2>2. Right(P, tr[t], told[t], t \in paused, t \in Elements(nextTick), Working(tr[t]))
    BY DEF Calm, Fits, Fit
  <2> HIDE DEF P
  <2>3. tr[t].page /\ tr[t].state \notin {"none", "aborted", "freed"} /\ t \notin Elements(nextTick)
    BY <1>1, <2>1 DEF Plain
  <2>4. tr[t].state \in {"created", "queued", "parked", "inflight", "completing"}
    BY <2>1, <2>3 DEF Transfer, States
  <2>5. QED
    BY <1>1, <1>3, <2>2, <2>3, <2>4 DEF Right
<1>5. P \subseteq {"sync", "deliver", "done", "failed", "serving", "served", "abort"}
  BY CallsActing
<1> HIDE DEF P
<1>6. CASE ~tr[t].notified
  <2>1. CallsOf(stack, t) \subseteq {"sync", "deliver"} /\ (tr[t].state = "completing" => "deliver" \in CallsOf(stack, t))
    BY <1>3, <1>4, <1>5, <1>6 DEF P, Unshielded
  <2>2. ~Err(told[t])
    BY <1>4, <1>6
  <2>3. QED
    BY <1>1, <1>2, <1>4, <1>6, <2>1, <2>2, CalmAborting
<1>7. CASE tr[t].notified
  <2> DEFINE S == {t}
  <2>1. DetachOrDeinit(S) /\ stack' = stack /\ told' = told
    BY <1>1, <1>7 DEF Abort
  <2>2. tr[t].state = "completing"
    BY <1>3, <1>4, <1>7 DEF Unshielded
  <2>3. /\ \A u \in S : told'[u] # << >> /\ Once(told'[u]) /\ (Err(told'[u]) => Err(told[u]))
        /\ \A u \in S : tr[u].state = "completing"
        /\ \A u \in S : /\ "abort" \notin CallsOf(stack', u)
                        /\ \/ "deliver" \in CallsOf(stack', u) \/ "done" \in CallsOf(stack', u)
                           \/ "failed" \in CallsOf(stack', u)
    BY <1>3, <1>4, <1>7, <2>1, <2>2 DEF P
  <2>4. /\ stack' \in Seq(Call) /\ Settled(stack', Elements(nextTick), Pending) /\ paused' \subseteq paused
        /\ \A u \in Transfers : CallsOf(stack', u) = CallsOf(stack, u) /\ told'[u] = told[u]
        /\ S \in SUBSET Transfers
    BY <1>1, <1>2, <2>1
  <2> HIDE DEF S
  <2>5. QED
    BY <1>2, <2>1, <2>3, <2>4, CalmDetaching
<1>8. QED
  BY <1>6, <1>7

-----------------------------------------------------------------------------
\* Back in Transfer.abort: what is left are syncRequest and a response.
LEMMA CalmAbortReturn ==
  ASSUME Sane, Entered({}), Calm, AbortReturn, stack' \in Seq(Call)
  PROVE  Calm'
<1> DEFINE t == Head(stack).t
           s == Tail(stack)
           K == Elements(nextTick)
           X == Pending
           Q == {t}
<1>1. /\ Top("abort") /\ DetachOrDeinit(Q) /\ stack' = s /\ told' = told /\ paused' = paused
  BY DEF AbortReturn, pauses
<1>2. /\ stack \in Seq(Call) /\ stack # << >> /\ Head(stack).at = "abort" /\ t \in Transfers
      /\ Settled(stack, K, X) /\ Fits(t)
  <2>1. stack # << >> /\ Head(stack).at = "abort" /\ "abort" \notin Bare
    BY <1>1 DEF Top, Bare, Stages
  <2>2. t \in Transfers
    BY <2>1, TopShape DEF Sane
  <2>3. QED
    BY <2>1, <2>2 DEF Sane, TypeOK, Calm
<1>3. ~performing
  BY <1>1, CurlAlone DEF Curls
<1> HIDE DEF t, s, K, X
<1>4. /\ s \in Seq(Call) /\ Settled(s, K, X)
      /\ \A u : u # t => CallsOf(stack, u) = CallsOf(s, u)
      /\ CallsOf(stack, t) = CallsOf(s, t) \union {"abort"}
      /\ \A a \in CallsOf(s, t) : Above("abort", a)
  <2>1. /\ Settled(Tail(stack), K, X)
        /\ \A u : u # Head(stack).t => CallsOf(stack, u) = CallsOf(Tail(stack), u)
        /\ CallsOf(stack, Head(stack).t) = CallsOf(Tail(stack), Head(stack).t) \union {Head(stack).at}
        /\ Head(stack).t \in Transfers =>
             \A a \in CallsOf(Tail(stack), Head(stack).t) : Above(Head(stack).at, a)
    BY <1>2, SettledPop
  <2>2. Tail(stack) \in Seq(Call)
    BY <1>2
  <2>3. QED
    BY <1>2, <2>1, <2>2 DEF t, s
<1>5. CallsOf(s, t) \subseteq {"sync", "deliver"}
  BY <1>4 DEF Above
<1>6. /\ told[t] # << >> /\ Once(told[t])
      /\ tr[t].state # "aborted"
      /\ "deliver" \in CallsOf(stack, t) => tr[t].state = "completing"
      /\ tr[t].state = "completing" =>
           "deliver" \in CallsOf(stack, t) \/ "done" \in CallsOf(stack, t) \/ "failed" \in CallsOf(stack, t)
  <2>1. "abort" \in CallsOf(stack, t)
    BY <1>4
  <2>2. QED
    BY <1>2, <2>1 DEF Fits, Fit, Right
<1>7. /\ \A u \in Q : told'[u] # << >> /\ Once(told'[u]) /\ (Err(told'[u]) => Err(told[u]))
      /\ \A u \in Q : tr[u].state # "completing" => CallsOf(stack', u) \subseteq {"sync"}
      /\ \A u \in Q : tr[u].state = "completing" =>
                        /\ "abort" \notin CallsOf(stack', u)
                        /\ \/ "deliver" \in CallsOf(stack', u) \/ "done" \in CallsOf(stack', u)
                           \/ "failed" \in CallsOf(stack', u)
  BY <1>1, <1>4, <1>5, <1>6
<1>8. /\ Settled(stack', Elements(nextTick), Pending) /\ paused' \subseteq paused /\ Q \in SUBSET Transfers
      /\ \A u \in Transfers : CallsOf(stack', u) \subseteq CallsOf(stack, u)
      /\ \A u \in Transfers \ Q : told'[u] = told[u] /\ CallsOf(stack', u) = CallsOf(stack, u)
  BY <1>1, <1>2, <1>4 DEF K, X
<1> HIDE DEF Q
<1>9. QED
  BY <1>1, <1>3, <1>7, <1>8, CalmDetaching

\* syncRequest is on top of the stack, or right under it.
LEMMA SyncTop ==
  ASSUME NEW s \in Seq(Call), s # << >>, Head(s).at = "sync", NEW K, NEW X, Settled(s, K, X),
         Head(s).t \in Transfers
  PROVE  /\ Tail(s) \in Seq(Call) /\ Settled(Tail(s), K, X) /\ NoneIn(Tail(s), K)
         /\ CallsOf(s, Head(s).t) = {"sync"} /\ CallsOf(Tail(s), Head(s).t) = {}
         /\ \A u \in Transfers \ {Head(s).t} : CallsOf(s, u) = CallsOf(Tail(s), u)
<1>1. /\ Settled(Tail(s), K, X) /\ NoneIn(Tail(s), K) /\ Tail(s) \in Seq(Call)
      /\ \A u : u # Head(s).t => CallsOf(s, u) = CallsOf(Tail(s), u)
      /\ CallsOf(s, Head(s).t) = CallsOf(Tail(s), Head(s).t) \union {"sync"}
      /\ \A a \in CallsOf(Tail(s), Head(s).t) : Above("sync", a)
  <2>1. /\ Settled(Tail(s), K, X) /\ NoneIn(Tail(s), K)
        /\ \A u : u # Head(s).t => CallsOf(s, u) = CallsOf(Tail(s), u)
        /\ CallsOf(s, Head(s).t) = CallsOf(Tail(s), Head(s).t) \union {Head(s).at}
        /\ Head(s).t \in Transfers => \A a \in CallsOf(Tail(s), Head(s).t) : Above(Head(s).at, a)
    BY SettledPop
  <2>2. Tail(s) \in Seq(Call)
    OBVIOUS
  <2>3. QED
    BY <2>1, <2>2
<1>2. CallsOf(Tail(s), Head(s).t) = {}
  BY <1>1 DEF Above
<1>3. QED
  BY <1>1, <1>2

LEMMA CalmSyncReturn ==
  ASSUME Sane, Calm, NEW t \in Transfers, SyncReturn(t)
  PROVE  Calm'
<1> DEFINE s == Tail(stack)
           K == Elements(nextTick)
           X == Pending
<1>1. /\ stack # << >> /\ Head(stack).at = "sync" /\ Head(stack).t = t /\ told[t] # << >> /\ stack' = s
      /\ UNCHANGED <<tr, told, nextTick, paused, net>>
  BY DEF SyncReturn, Top, lists, pauses
<1>2. /\ stack \in Seq(Call) /\ Settled(stack, K, X) /\ Fits(t) /\ Distinct(nextTick)
      /\ net.running \intersect net.finished = {}
  BY DEF Sane, TypeOK, Calm
<1> HIDE DEF K, X
<1>3. /\ s \in Seq(Call) /\ Settled(s, K, X) /\ CallsOf(stack, t) = {"sync"} /\ CallsOf(s, t) = {}
      /\ \A u \in Transfers \ {t} : CallsOf(stack, u) = CallsOf(s, u)
  BY <1>1, <1>2, SyncTop
<1>4. tr' = [tr EXCEPT ![t] = tr[t]]
  BY <1>1 DEF Sane, Base, Typed
<1>5. Fit(CallsOf(stack', t), tr[t], told'[t], t \in paused', t \in Elements(nextTick'),
          tr[t].conn \in net'.running \union net'.finished)
  <2> DEFINE P == CallsOf(stack', t)
             k == t \in Elements(nextTick)
             b == tr[t].conn \in net.running \union net.finished
             g == t \in paused
  <2>1. Plain(tr[t], k, b) /\ Right(CallsOf(stack, t), tr[t], told[t], g, k, b)
    BY <1>2 DEF Fits, Fit, Working
  <2>2. P = {}
    BY <1>1, <1>3
  <2> HIDE DEF P, k, b, g
  <2>3. \A a \in {"deliver", "done", "failed", "abort", "serving", "served"} : a \notin CallsOf(stack, t)
    BY <1>3
  <2>4. Right(P, tr[t], told[t], g, k, b)
    BY <2>1, <2>2, <2>3 DEF Right
  <2>5. QED
    BY <1>1, <2>1, <2>4 DEF Fit, P, k, b, g
<1>6. \A u \in Transfers \ {t} :
         /\ told'[u] = told[u] /\ CallsOf(stack', u) = CallsOf(stack, u)
         /\ u \in paused' => u \in paused
         /\ u \in Elements(nextTick') => u \in Elements(nextTick)
         /\ tr[u].conn \in net'.running \union net'.finished => tr[u].conn \in net.running \union net.finished
  BY <1>1, <1>3
<1>7. /\ "abort" \notin CallsOf(stack', t) /\ Settled(stack', Elements(nextTick'), Pending) /\ Distinct(nextTick')
      /\ net'.running \intersect net'.finished = {} /\ stack' \in Seq(Call)
  BY <1>1, <1>2, <1>3 DEF K, X
<1>8. QED
  BY <1>4, <1>5, <1>6, <1>7, CalmMoving

\* A tick under syncRequest failed: it aborts what has not ended.
LEMMA CalmSyncFailed ==
  ASSUME Sane, Entered({}), Calm, SyncFailed, stack' \in Seq(Call)
  PROVE  Calm'
<1> DEFINE m == Tail(stack)
           t == Head(m).t
           s == Tail(m)
           K == Elements(nextTick)
           X == Pending
<1>1. /\ Top("tickFailed") /\ m # << >> /\ UNCHANGED <<pauses, paused>>
      /\ \/ told[t] = << >> /\ Abort(t, s)
         \/ told[t] # << >> /\ stack' = s /\ UNCHANGED <<tr, told, queue, nextTick, net>>
  BY DEF SyncFailed, pauses
<1>2. Head(m).at = "sync" /\ t \in Transfers
  <2>1. stack # << >> /\ Shaped(stack) /\ Head(stack).at = "tickFailed"
    BY <1>1 DEF Sane, Top
  <2>2. Shaped(m) /\ Stands(Head(stack), m)
    BY <2>1, TopShape
  <2>3. Head(m).at = "sync"
    BY <1>1, <2>1, <2>2 DEF Stands, Stages
  <2>4. "sync" \notin Bare
    BY DEF Bare, Stages
  <2>5. Framed(Head(m))
    BY <1>1, <2>2, ShapedPop
  <2>6. QED
    BY <2>3, <2>4, <2>5 DEF Framed, Call
<1>3. /\ m \in Seq(Call) /\ Settled(m, K, X) /\ NoneIn(m, X)
      /\ \A u \in Transfers : CallsOf(m, u) = CallsOf(stack, u)
  BY <1>1, BareTop, InBare
<1>4. Fits(t) /\ Distinct(nextTick) /\ net.running \intersect net.finished = {} /\ tr[t] \in Transfer
  BY <1>2 DEF Calm, Sane, Base, Typed
<1> HIDE DEF m, K, X
<1>5. /\ s \in Seq(Call) /\ Settled(s, K, X) /\ NoneIn(s, K)
      /\ CallsOf(m, t) = {"sync"} /\ CallsOf(s, t) = {}
      /\ \A u \in Transfers \ {t} : CallsOf(m, u) = CallsOf(s, u)
  BY <1>1, <1>2, <1>3, SyncTop
<1> HIDE DEF s, t
<1>6. CallsOf(stack, t) = {"sync"} /\ \A u \in Transfers \ {t} : CallsOf(s, u) = CallsOf(stack, u)
  BY <1>2, <1>3, <1>5
<1>7. ASSUME told[t] = << >>, Abort(t, s) PROVE Calm'
  <2>1. ~tr[t].notified /\ ~tr[t].page /\ ~Err(told[t])
        /\ tr[t].state \in {"created", "queued", "parked", "inflight"}
    <3>1. DOMAIN << >> = {}
      OBVIOUS
    <3>2. ~Err(told[t])
      BY <1>7, <3>1 DEF Err
    <3>3. Plain(tr[t], t \in Elements(nextTick), Working(tr[t]))
      BY <1>4 DEF Fits, Fit
    <3>4. Right(CallsOf(stack, t), tr[t], told[t], t \in paused, t \in Elements(nextTick), Working(tr[t]))
      BY <1>4 DEF Fits, Fit
    <3>5. ~tr[t].notified /\ ~tr[t].page /\ tr[t].state \notin {"none", "freed", "completing", "aborted"}
      BY <1>6, <1>7, <3>4 DEF Right
    <3>6. QED
      BY <1>4, <3>2, <3>5 DEF Transfer, States
  <2>2. Ready(s, t)
    BY <1>5, <1>6 DEF Ready, K, X
  <2>3. CallsOf(s, t) \subseteq {"sync", "deliver"} /\ CallsOf(s, t) \subseteq CallsOf(stack, t) /\ paused' \subseteq paused
    BY <1>1, <1>5
  <2>4. tr[t].state # "completing" /\ tr[t].state \in {"created", "queued", "parked", "inflight", "completing"}
    BY <2>1
  <2>5. QED
    BY <1>2, <1>7, <2>1, <2>2, <2>3, <2>4, CalmAborting
<1>8. ASSUME told[t] # << >>, stack' = s, UNCHANGED <<tr, told, nextTick, net>> PROVE Calm'
  <2>1. tr' = [tr EXCEPT ![t] = tr[t]]
    BY <1>8 DEF Sane, Base, Typed
  <2>2. Fit(CallsOf(stack', t), tr[t], told'[t], t \in paused', t \in Elements(nextTick'),
            tr[t].conn \in net'.running \union net'.finished)
    <3> DEFINE P == CallsOf(stack', t)
               k == t \in Elements(nextTick)
               b == tr[t].conn \in net.running \union net.finished
               g == t \in paused
    <3>1. Plain(tr[t], k, b) /\ Right(CallsOf(stack, t), tr[t], told[t], g, k, b)
      BY <1>4 DEF Fits, Fit, Working
    <3>2. P = {}
      BY <1>5, <1>8
    <3> HIDE DEF P, k, b, g
    <3>3. \A a \in {"deliver", "done", "failed", "abort", "serving", "served"} : a \notin CallsOf(stack, t)
      BY <1>6
    <3>4. Right(P, tr[t], told[t], g, k, b)
      BY <1>8, <3>1, <3>2, <3>3 DEF Right
    <3>5. QED
      BY <1>1, <1>8, <3>1, <3>4 DEF Fit, P, k, b, g
  <2>3. \A u \in Transfers \ {t} :
           /\ told'[u] = told[u] /\ CallsOf(stack', u) = CallsOf(stack, u)
           /\ u \in paused' => u \in paused
           /\ u \in Elements(nextTick') => u \in Elements(nextTick)
           /\ tr[u].conn \in net'.running \union net'.finished => tr[u].conn \in net.running \union net.finished
    BY <1>1, <1>6, <1>8
  <2>4. "abort" \notin CallsOf(stack', t) /\ Settled(stack', Elements(nextTick'), Pending) /\ Distinct(nextTick')
        /\ net'.running \intersect net'.finished = {}
    BY <1>4, <1>5, <1>8 DEF K, X
  <2>5. QED
    BY <1>2, <2>1, <2>2, <2>3, <2>4, CalmMoving
<1>9. QED
  BY <1>1, <1>7, <1>8

-----------------------------------------------------------------------------
\* What the client does without anybody's choice keeps Calm.
LEMMA CalmClient ==
  ASSUME Sane, Entered({}), Wired, Calm, Client, \A t \in Transfers : ~ReadDetached(t), stack' \in Seq(Call)
  PROVE  Calm'
<1>1. CASE NextTickDone \/ DrainQueueDone \/ ReadDone \/ LoopTickFailed
  BY <1>1, CalmReturns
<1>2. CASE AbortReturn \/ SyncFailed
  BY <1>2, CalmAbortReturn, CalmSyncFailed
<1>3. CASE NextTickRun \/ DrainQueue
  BY <1>3, CalmNextTick, CalmDraining
<1>4. CASE TickPerform
  BY <1>4, CalmPerforming
<1>5. ASSUME NEW t \in Transfers, Read(t) \/ Resume(t) PROVE Calm'
  BY <1>5, CalmRead, CalmResume
<1>6. ASSUME NEW t \in Transfers, SyncTick(t) PROVE Calm'
  BY <1>6, CalmLooping
<1>7. ASSUME NEW t \in Transfers, SyncReturn(t) PROVE Calm'
  BY <1>7, CalmSyncReturn
<1>8. QED
  BY <1>1, <1>2, <1>3, <1>4, <1>5, <1>6, <1>7 DEF Client

LEMMA CalmStep ==
  ASSUME Sane, Entered({}), Wired, Calm, Next, Careful, stack' \in Seq(Call)
  PROVE  Calm'
<1>1. CASE Client
  BY <1>1, CalmClient DEF Careful
<1>2. CASE ScriptReturn \/ MakeReturn \/ CdpDisconnect \/ InboxDone
  BY <1>2, CalmReturns
<1>3. CASE PerformReturn
  BY <1>3, CalmPerforming
<1>4. CASE LoopScript \/ LoopTick
  BY <1>4, CalmLooping
<1>5. CASE SocketEvent
  BY <1>5 DEF Careful
<1>6. CASE \E c \in Conns : CurlFinish(c)
  BY <1>6, CalmInside
<1>7. ASSUME NEW t \in Transfers, DeliverData(t) PROVE Calm'
  BY <1>7, CalmData
<1>8. CASE ClientDeinit \/ \E o \in Owners : TearDown(o)
  BY <1>8, CalmLeaving
<1>9. CASE Script
  <2>1. ASSUME NEW t \in Transfers, NEW o \in Owners, ScriptRequest(t, o) PROVE Calm'
    BY <2>1, CalmScriptRequest
  <2>2. ASSUME NEW t \in Transfers, ScriptSync(t) \/ ScriptAbort(t) PROVE Calm'
    BY <2>2, CalmScriptSync, CalmScriptAbort DEF Careful
  <2>3. ASSUME NEW o \in Owners, ScriptNavigate(o) PROVE Calm'
    BY <2>3, CalmNavigate DEF Careful
  <2>4. QED
    BY <1>9, <2>1, <2>2, <2>3 DEF Script
<1>10. CASE Cdp
  <2>1. ASSUME NEW t \in Transfers, CdpContinue(t) \/ CdpContinueWithAuth(t) \/ CdpFail(t) \/ CdpFulfill(t)
        PROVE  Calm'
    BY <2>1, CalmCommanding
  <2>2. ASSUME NEW t \in Transfers, CdpStray(t) PROVE Calm'
    BY <2>2, CalmInside
  <2>3. QED
    BY <1>10, <2>1, <2>2 DEF Cdp
<1>11. QED
  BY <1>1, <1>2, <1>3, <1>4, <1>5, <1>6, <1>7, <1>8, <1>9, <1>10 DEF Next

LEMMA CalmSame == Sane /\ Calm /\ UNCHANGED vars => Calm'
<1> SUFFICES ASSUME Sane, Calm, UNCHANGED vars PROVE Calm'
  OBVIOUS
<1>1. /\ UNCHANGED <<tr, told, nextTick, net>> /\ paused' \subseteq paused /\ stack' = stack
      /\ net'.running \intersect net'.finished = {}
      /\ net'.running \union net'.finished \subseteq net.running \union net.finished
  BY DEF vars, lists, pauses, Calm
<1>2. stack \in Seq(Call) /\ Settled(stack, Elements(nextTick), Pending)
  BY DEF Sane, TypeOK, Calm
<1>3. \A u \in Transfers : CallsOf(stack', u) = CallsOf(stack, u)
  BY <1>1
<1>4. stack' \in Seq(Call) /\ Settled(stack', Elements(nextTick), Pending)
  BY <1>1, <1>2
<1>5. QED
  BY <1>1, <1>3, <1>4, CalmQuiet

LEMMA CalmInit == Init => Calm
<1> SUFFICES ASSUME Init PROVE Calm
  OBVIOUS
<1>1. /\ stack = << >> /\ nextTick = << >> /\ paused = {} /\ net.running = {} /\ net.finished = {}
      /\ \A t \in Transfers : tr[t] = New /\ told[t] = << >>
  BY DEF Init
<1>2. Elements(nextTick) = {} /\ Distinct(nextTick)
  <2>1. DOMAIN << >> = {}
    OBVIOUS
  <2>2. QED
    BY <1>1, <2>1 DEF Elements, Distinct
<1>3. ASSUME NEW t \in Transfers PROVE CallsOf(stack, t) = {}
  <2>1. \A a : a \notin CallsOf(stack, t)
    BY <1>1, Emptied, CallsIn
  <2>2. QED
    BY <2>1
<1>4. ASSUME NEW t \in Transfers PROVE Fits(t)
  <2>1. Plain(tr[t], t \in Elements(nextTick), Working(tr[t]))
    BY <1>1, <1>2 DEF Plain, New, Working
  <2>2. ~Err(told[t]) /\ Once(told[t])
    <3>1. DOMAIN << >> = {}
      OBVIOUS
    <3>2. QED
      BY <1>1, <3>1 DEF Err, Once
  <2>3. Right(CallsOf(stack, t), tr[t], told[t], t \in paused, t \in Elements(nextTick), Working(tr[t]))
    BY <1>1, <1>3, <2>2 DEF Right, New
  <2>4. QED
    BY <2>1, <2>3 DEF Fits, Fit
<1>5. QED
  BY <1>1, <1>2, <1>4, SettledEmpty DEF Calm

\* After Client.deinit no call goes on, and every transfer is gone.
Ended == ended => stack = << >> /\ \A t \in Transfers : tr[t].state \in {"none", "freed"}

\* Nothing happens any more once the client is gone.
LEMMA StepBeforeEnd ==
  ASSUME Next
  PROVE  ClientDeinit \/ (ended' = ended /\ (ended => stack # << >>))
<1>1. CASE \/ AbortReturn \/ NextTickRun \/ NextTickDone \/ DrainQueueDone \/ ReadDone \/ SyncFailed
           \/ LoopTickFailed \/ ScriptReturn \/ SocketEvent \/ InboxDone \/ LoopScript \/ LoopTick
           \/ MakeReturn \/ PerformReturn \/ TickPerform \/ CdpDisconnect
           \/ \E c \in Conns : CurlFinish(c)
           \/ \E t \in Transfers : DeliverData(t) \/ SyncTick(t) \/ SyncReturn(t) \/ ScriptAbort(t)
           \/ \E o \in Owners : ScriptNavigate(o) \/ TearDown(o)
  BY <1>1 DEF AbortReturn, NextTickRun, NextTickDone, DrainQueueDone, ReadDone, SyncFailed,
              LoopTickFailed, ScriptReturn, SocketEvent, InboxDone, LoopScript, LoopTick, CurlFinish,
              DeliverData, Resumed, SyncTick, SyncReturn, ScriptAbort, ScriptNavigate, TearDown,
              MakeReturn, PerformReturn, TickPerform, CdpDisconnect,
              Top, Idle, InDrainQueue, InsideCurl
<1>2. ASSUME NEW t \in Transfers, Read(t) PROVE ended' = ended /\ stack # << >>
  BY <1>2 DEF Read, ReadAuth, ReadRedirect, ReadBadRedirect, ReadDetached, ReadError, ReadResponse,
              Reading, Top
<1>3. ASSUME NEW t \in Transfers, Resume(t) PROVE ended' = ended /\ stack # << >>
  BY <1>3 DEF Resume, DeliverFail, DeliverDone, Done, DoneFail, Failed, FailedDetached, ServeFail,
              ServeDone, Served, ServedFail, Resumed, Top
<1>4. CASE DrainQueue
  BY <1>4 DEF DrainQueue, InDrainQueue, Top
<1>5. ASSUME NEW t \in Transfers, (\E o \in Owners : ScriptRequest(t, o)) \/ ScriptSync(t)
      PROVE  ended' = ended /\ stack # << >>
  BY <1>5 DEF ScriptRequest, ScriptSync, Top
<1>6. CASE Cdp
  BY <1>6 DEF Cdp, CdpContinue, CdpContinueWithAuth, CdpFail, CdpFulfill, CdpStray, Answer, Command, Top
<1>7. QED
  BY <1>1, <1>2, <1>3, <1>4, <1>5, <1>6 DEF Next, Client, Script

LEMMA EndedStep ==
  ASSUME Sane, Entered({}), Calm, Ended, Next
  PROVE  Ended'
<1>1. ASSUME ~ClientDeinit PROVE Ended'
  BY <1>1, StepBeforeEnd DEF Ended
<1>2. ASSUME ClientDeinit PROVE Ended'
  <2> DEFINE S == {t \in Transfers : tr[t].state \notin {"none", "freed"}}
  <2>1. stack = << >> /\ stack' = << >> /\ DetachOrDeinit(S)
    BY <1>2 DEF ClientDeinit, Idle, Kill
  <2>2. ~performing
    BY <2>1, CurlAlone
  <2>3. ASSUME NEW t \in Transfers PROVE tr[t].state # "completing"
    <3>1. \A a : a \notin CallsOf(stack, t)
      BY <2>1, Emptied, CallsIn
    <3>2. Right(CallsOf(stack, t), tr[t], told[t], t \in paused, t \in Elements(nextTick), Working(tr[t]))
      BY DEF Calm, Fits, Fit
    <3>3. QED
      BY <3>1, <3>2 DEF Right
  <2>4. \A t \in Transfers : ~MustDefer(t) /\ tr[t] \in Transfer
    BY <2>2, <2>3 DEF MustDefer, Sane, Base, Typed
  <2>5. ASSUME NEW t \in Transfers PROVE tr'[t].state \in {"none", "freed"}
    <3>1. tr'[t] = IF t \in S THEN Freed(tr[t]) ELSE tr[t]
      BY <2>1, <2>4 DEF DetachOrDeinit
    <3>2. Freed(tr[t]).state = "freed"
      BY <2>4 DEF Freed, Transfer
    <3>3. QED
      BY <3>1, <3>2
  <2>6. QED
    BY <2>1, <2>5 DEF Ended
<1>3. QED
  BY <1>1, <1>2

LEMMA CalmAlways == Spec /\ [][Careful]_vars => [](Sane /\ Wired /\ Calm /\ Ended)
<1> DEFINE Inv == Sane /\ Entered({}) /\ Wired /\ Calm /\ Ended
<1>1. Inv /\ [Next]_vars /\ [Careful]_vars => Inv'
  <2>1. ASSUME Inv, Next, Careful PROVE Inv'
    <3>1. Sane' /\ stack' \in Seq(Call)
      BY <2>1, SaneStep DEF Sane, TypeOK
    <3>2. ~SocketEvent /\ \A t \in Transfers : ~ReadDetached(t) /\ ~FailedDetached(t)
      BY <2>1, NoneDetached DEF Careful
    <3>3. Entered({})'
      BY <2>1, <3>2, EnteredStep DEF Nested
    <3>4. Wired'
      BY <2>1, <3>2, WiredStep
    <3>5. QED
      BY <2>1, <3>1, <3>3, <3>4, CalmStep, EndedStep
  <2>2. ASSUME Inv, UNCHANGED vars PROVE Inv'
    <3>1. Ended' /\ Entered({})'
      BY <2>2 DEF Ended, Entered, vars
    <3>2. QED
      BY <2>2, <3>1, SaneStep, WiredStutter, CalmSame
  <2>3. QED
    BY <2>1, <2>2
<1>2. Init => Inv
  BY SaneInit, EnteredInit, WiredInit, CalmInit DEF Init, Ended
<1>3. Inv => Sane /\ Wired /\ Calm /\ Ended
  OBVIOUS
<1> HIDE DEF Inv
<1>4. QED
  BY <1>1, <1>2, <1>3, PTL DEF Spec

\* A call of browser/HttpClient.zig that goes on after a callback finds its
\* transfer alive (Transfer.detachOrDeinit leaves what is referenced to
\* processMessages): the first use of a freed one needs an earlier step that
\* Careful rules out, a web socket's message, a redirect whose set-up fails, a
\* page that waits in the error callback of an abort, or a callback that ends
\* its own transfer where nothing shields it.
THEOREM StackHolds == Spec /\ [][Careful]_vars => []StackHoldsLive
<1>1. Sane /\ Calm => StackHoldsLive
  <2> SUFFICES ASSUME Sane, Calm, NEW i \in DOMAIN stack, stack[i].t # None
               PROVE  \/ stack[i].t \in Live
                      \/ stack[i].at = "sync" /\ told[stack[i].t] # << >>
    BY DEF StackHoldsLive
  <2> DEFINE f == stack[i]
  <2>1. f \in Call /\ f \in Elements(stack)
    BY DEF Sane, TypeOK, Elements
  <2>2. f.t \in Transfers
    BY <2>1 DEF Call
  <2> DEFINE P == CallsOf(stack, f.t)
  <2>3. f.at \in P
    BY <2>1, CallsIn
  <2>4. P \subseteq {"sync", "deliver", "done", "failed", "serving", "served", "abort"}
    BY <2>2, CallsActing
  <2>5. Right(P, tr[f.t], told[f.t], f.t \in paused, f.t \in Elements(nextTick), Working(tr[f.t]))
    BY <2>2 DEF Calm, Fits, Fit
  <2> HIDE DEF f, P
  <2>6. tr[f.t].state # "none"
    BY <2>3, <2>5 DEF Right
  <2>7. CASE tr[f.t].state = "freed"
    <3>1. told[f.t] # << >>
      BY <2>5, <2>7 DEF Right
    <3>2. \A a \in {"deliver", "done", "failed", "serving", "served", "abort"} : a \notin P
      BY <2>5, <2>7 DEF Right
    <3>3. QED
      BY <2>3, <2>4, <3>1, <3>2 DEF f
  <2>8. QED
    BY <2>2, <2>6, <2>7 DEF Live, f
<1>2. QED
  BY <1>1, CalmAlways, PTL

\* Whoever made a request hears of its end: a transfer that was freed has told
\* its maker, and of a failure at most once (Transfer._notified_fail), as long
\* as no step has been one that Careful rules out.
THEOREM EndHolds == Spec /\ [][Careful]_vars => []EndIsTold
<1>1. Calm => EndIsTold
  <2> SUFFICES ASSUME Calm, NEW t \in Transfers
               PROVE  /\ tr[t].state = "freed" => told[t] # << >>
                      /\ Cardinality({i \in DOMAIN told[t] : told[t][i] = "error"}) <= 1
    BY DEF EndIsTold
  <2> DEFINE E == {i \in DOMAIN told[t] : told[t][i] = "error"}
  <2>1. Right(CallsOf(stack, t), tr[t], told[t], t \in paused, t \in Elements(nextTick), Working(tr[t]))
    BY DEF Calm, Fits, Fit
  <2>2. (tr[t].state = "freed" => told[t] # << >>) /\ Once(told[t])
    BY <2>1 DEF Right
  <2>3. \A i, j \in E : i = j
    BY <2>2 DEF Once
  <2> HIDE DEF E
  <2>4. ASSUME E = {} PROVE Cardinality(E) = 0
    BY <2>4, FS_EmptySet
  <2>5. ASSUME NEW i \in E PROVE Cardinality(E) = 1
    <3>1. E = {i}
      BY <2>3
    <3>2. QED
      BY <3>1, FS_Singleton
  <2>6. Cardinality(E) <= 1
    BY <2>4, <2>5
  <2>7. QED
    BY <2>2, <2>6 DEF E
<1>2. QED
  BY <1>1, CalmAlways, PTL

LEMMA NoElements ==
  ASSUME NEW A, NEW s \in Seq(A), Elements(s) = {}
  PROVE  s = << >>
<1>1. DOMAIN s = 1..Len(s) /\ Len(s) \in Nat /\ DOMAIN s = {}
  BY DEF Elements
<1>2. Len(s) = 0
  BY <1>1
<1>3. QED
  BY <1>2, EmptySeq

\* Client.abort, as Client.deinit calls it, drains every list and gives every
\* connection back, as its assertions say, as long as no step before it has
\* been one that Careful rules out.
THEOREM DrainHolds == Spec /\ [][Careful]_vars => []AbortDrains
<1>1. Sane /\ Wired /\ Calm /\ Ended => AbortDrains
  <2> SUFFICES ASSUME Sane, Wired, Calm, Ended, ended PROVE AbortDrains
    BY DEF AbortDrains
  <2>1. \A t \in Transfers : tr[t].state \in {"none", "freed"}
    BY DEF Ended
  <2>2. Live = {}
    BY <2>1 DEF Live
  <2>3. queue = << >>
    <3>1. queue \in Seq(Transfers) /\ Elements(queue) = {}
      BY <2>1 DEF Sane, Base, Typed, Listed
    <3>2. QED
      BY <3>1, NoElements
  <2>4. nextTick = << >>
    <3>1. \A t \in Transfers : t \notin Elements(nextTick)
      BY <2>1 DEF Calm, Fits, Fit, Plain
    <3>2. nextTick \in Seq(Transfers)
      BY DEF Sane, Base, Typed
    <3>3. Elements(nextTick) = {}
      BY <3>1, <3>2 DEF Elements
    <3>4. QED
      BY <3>2, <3>3, NoElements
  <2>5. \A t \in Transfers : tr[t].conn = None
    BY <2>1 DEF Sane, Base, Sound, Loose
  <2>6. net.inUse = {}
    BY <2>5 DEF Wired, Held
  <2>7. /\ net.ready = {} /\ net.dirty = {} /\ net.running = {}
        /\ \A c \in Conns : net.available[c] = 1
    BY <2>6 DEF Wired
  <2>8. QED
    BY <2>2, <2>3, <2>4, <2>6, <2>7 DEF AbortDrains
<1>2. QED
  BY <1>1, CalmAlways, PTL

=============================================================================
