---------------------------- MODULE HttpTransfer ----------------------------
(***************************************************************************)
(* The life of an HTTP transfer and of the connection it holds: the worker *)
(* thread inside browser/HttpClient.zig, libcurl's multi handle under it   *)
(* and the page's callbacks above it.                                      *)
(*                                                                         *)
(* There is one thread.  What makes it hard is its call stack: a callback  *)
(* runs script, the script starts, aborts or waits for other transfers,    *)
(* and the client is entered again below itself.  The variable stack holds *)
(* the calls that still have something to do, innermost first; a step is   *)
(* what the code does between two points at which script can run.          *)
(***************************************************************************)
EXTENDS Integers, Sequences, FiniteSets

CONSTANTS
  Transfers,    \* transfers ever made (bound)
  Conns,        \* easy handles of the pool (httpMaxConcurrent)
  Owners,       \* frames and workers that own transfers
  None,         \* no transfer, connection or owner
  MaxScripts,   \* scripts on the stack at once (bound)
  MaxRedirects, \* httpMaxRedirects
  MaxTries,     \* tries up to which an auth challenge is shown (10)
  Features,     \* what the pages, servers and clients of a run do
  SelfEnd       \* calls under which a callback may end its own transfer

AllFeatures == {"ws",          \* pages use web sockets
                "sync",        \* pages load scripts synchronously
                "intercept",   \* Fetch.enable
                "auth",        \* servers challenge, handleAuthRequests is set
                "synthetic",   \* pages fetch data: and blob: URLs
                "fails",       \* configureConn and done callbacks may fail
                "reconfigure", \* so may the set-up of a redirect
                "stray",       \* clients answer too late, or malformed
                "crossed"}     \* pages wait in the error callback of an abort

\* Calls whose own transfer is not shielded by state .completing.
Unshielded == {"failed", "detached", "serving", "served", "abort"}

ASSUME SetsAssumption ==
  /\ IsFiniteSet(Transfers) /\ IsFiniteSet(Conns)
  /\ None \notin Transfers \union Conns \union Owners
ASSUME BoundsAssumption ==
  /\ MaxScripts \in Nat /\ MaxRedirects \in Nat /\ MaxTries \in Nat
  /\ Features \subseteq AllFeatures /\ SelfEnd \subseteq Unshielded

VARIABLES
  tr,         \* Transfer objects
  told,       \* how the maker of a transfer was told of its end
  queue,      \* Client.queue
  nextTick,   \* Client.next_tick_queue
  paused,     \* intercept_state of the client: what Fetch commands may name
  intercepted,\* InterceptionLayer.intercepted
  net,        \* connections: the pool and the client's lists
  performing, \* Client.performing
  alive,      \* owners that were not torn down
  terminated, \* inbox.terminated
  ended,      \* Client.deinit ran
  stack       \* calls that go on when the one above them returns

pauses == <<paused, intercepted>>
lists == <<queue, nextTick, pauses>>
vars == <<tr, told, lists, net, performing, alive, terminated, ended, stack>>

States == {"none", "created", "queued", "inflight", "completing",
           "parked", "aborted", "freed"}

Ends == {"done", "error", "shutdown"}

Transfer == [state: States,
             conn: Conns \union {None},     \* _conn
             owner: Owners \union {None},
             page: BOOLEAN,                 \* callbacks run script
             muted: BOOLEAN,                \* callbacks are Noop
             notified: BOOLEAN,             \* _notified_fail
             handle: BOOLEAN,               \* the page holds _http_response
             tries: Nat, redirects: Nat]

\* Where a call stands: a script, syncRequest, the stages of tick and of
\* perform, makeRequest and perform inside libcurl, a completion whose
\* callbacks run, a response that is not from the network, Transfer.abort.
Places == {"script", "sync",
           "next", "queue1", "perform", "queue2", "inbox", "tickFailed",
           "read", "make", "curl",
           "deliver", "done"} \union Unshielded

Call == [at: Places, t: Transfers \union {None}, n: Nat]

TypeOK ==
  /\ tr \in [Transfers -> Transfer]
  /\ told \in [Transfers -> Seq(Ends)]
  /\ queue \in Seq(Transfers)
  /\ nextTick \in Seq(Transfers)
  /\ paused \subseteq Transfers /\ intercepted \in Int
  /\ net \in [available: [Conns -> Nat],   \* entries in Network.available
              inUse: SUBSET Conns, ready: SUBSET Conns, dirty: SUBSET Conns,
              running: SUBSET Conns,       \* under way inside libcurl
              finished: SUBSET Conns,      \* its messages not yet read
              active: Int]                 \* http_active
  /\ performing \in BOOLEAN
  /\ alive \subseteq Owners
  /\ terminated \in BOOLEAN /\ ended \in BOOLEAN
  /\ stack \in Seq(Call)

New == [state |-> "none", conn |-> None, owner |-> None, page |-> FALSE,
        muted |-> FALSE, notified |-> FALSE, handle |-> FALSE, tries |-> 0,
        redirects |-> 0]

Init ==
  /\ tr = [t \in Transfers |-> New]
  /\ told = [t \in Transfers |-> << >>]
  /\ queue = << >> /\ nextTick = << >>
  /\ paused = {} /\ intercepted = 0
  /\ net = [available |-> [c \in Conns |-> 1], inUse |-> {}, ready |-> {},
            dirty |-> {}, running |-> {}, finished |-> {}, active |-> 0]
  /\ performing = FALSE
  /\ alive = Owners
  /\ terminated = FALSE /\ ended = FALSE
  /\ stack = << >>

-----------------------------------------------------------------------------
(* The call stack.                                                         *)

At(place, t) == [at |-> place, t |-> t, n |-> 0]

Top(place) == stack # << >> /\ Head(stack).at = place

Scripts == Cardinality({i \in DOMAIN stack : stack[i].at = "script"})

\* A callback of transfer r: one script, or nothing when r is muted, was made
\* by syncRequest, or the run's bound on scripts is reached.
Callback(r) ==
  IF r.page /\ ~r.muted /\ Scripts < MaxScripts
    THEN <<At("script", None)>> ELSE << >>

\* libcurl is on the stack: it refuses to be entered again.
InCurl == \E i \in DOMAIN stack : stack[i].at \in {"curl", "make"}

\* The calls that end S would pull their transfer from under.
Endangered(S) ==
  {stack[i].at : i \in {j \in DOMAIN stack :
     /\ stack[j].t \in S
     /\ \/ stack[j].at = "abort"
        \/ stack[j].at \in Unshielded /\ tr[stack[j].t].state # "completing"}}

\* A transfer whose abort waits for its error callback can still be started,
\* complete, or be answered by a command.
Exposed ==
  \E i \in DOMAIN stack :
    /\ stack[i].at = "abort"
    /\ stack[i].t \in paused \/ tr[stack[i].t].state \in {"queued", "inflight"}

Tell(S, end) ==
  told' = [t \in Transfers |->
             IF t \in S /\ ~tr[t].muted THEN Append(told[t], end) ELSE told[t]]

-----------------------------------------------------------------------------
(* Connections and the end of a transfer.                                  *)

\* Mutant: http_active is not decremented.
FaultRemoveConns(C) ==
  [net EXCEPT !.available = [c \in Conns |-> @[c] + (IF c \in C THEN 1 ELSE 0)],
              !.inUse = @ \ C, !.running = @ \ C, !.finished = @ \ C]

\* removeConn for every connection of C.
RemoveConns(C) ==
  LET used == C \ net.ready
      back == IF InCurl THEN C \intersect net.ready ELSE C
  IN  [available |-> [c \in Conns |->
                        net.available[c] + (IF c \in back THEN 1 ELSE 0)],
       inUse     |-> net.inUse \ used,
       ready     |-> net.ready \ C,
       dirty     |-> IF InCurl THEN net.dirty \union used ELSE net.dirty,
       running   |-> net.running \ back,
       finished  |-> net.finished \ back,
       active    |-> net.active - Cardinality(used)]

\* The connections that transfers of S hold.
Held(S) == {tr[t].conn : t \in S} \ {None}

\* The list s once the transfers of S are unlinked.
Without(s, S) ==
  LET kept == {i \in DOMAIN s : s[i] \notin S}
      place(i) == Cardinality({j \in kept : j <= i})
  IN  [k \in 1 .. Cardinality(kept) |-> s[CHOOSE i \in kept : place(i) = k]]

Freed(r) == [r EXCEPT !.state = "freed", !.conn = None, !.owner = None,
                      !.handle = FALSE]

\* Mutant: the callbacks are not replaced.
FaultDetached(r) == [r EXCEPT !.state = "aborted", !.owner = None, !.handle = FALSE]

\* detachInPerform
Detached(r) == [r EXCEPT !.state = "aborted", !.muted = TRUE, !.owner = None,
                         !.handle = FALSE]

\* Transfer.deinit
Deinit(S) ==
  /\ tr' = [t \in Transfers |-> IF t \in S THEN Freed(tr[t]) ELSE tr[t]]
  /\ net' = RemoveConns(Held(S))
  /\ queue' = Without(queue, S)
  /\ nextTick' = Without(nextTick, S)

\* Mutant: a completing transfer is not shielded.
FaultCompleting(t) == tr[t].state = "inflight" /\ performing

MustDefer(t) ==
  tr[t].state = "completing" \/ (tr[t].state = "inflight" /\ performing)

\* Mutant: a transfer that goes stays linked in the queues.
FaultDetachOrDeinit(S) ==
  LET later == {t \in S : MustDefer(t)}
      now   == S \ later
  IN  /\ tr' = [t \in Transfers |-> IF t \in now THEN Freed(tr[t])
                                    ELSE IF t \in later THEN Detached(tr[t])
                                    ELSE tr[t]]
      /\ net' = RemoveConns(Held(now))
      /\ UNCHANGED <<queue, nextTick>>

\* detachOrDeinit
DetachOrDeinit(S) ==
  LET later == {t \in S : MustDefer(t)}
      now   == S \ later
  IN  /\ tr' = [t \in Transfers |-> IF t \in now THEN Freed(tr[t])
                                    ELSE IF t \in later THEN Detached(tr[t])
                                    ELSE tr[t]]
      /\ net' = RemoveConns(Held(now))
      /\ queue' = Without(queue, now)
      /\ nextTick' = Without(nextTick, now)

\* Transfer.kill for every transfer of S: shutdown_callback runs no script.
Kill(S) ==
  /\ Tell(S, "shutdown")
  /\ DetachOrDeinit(S)

\* Transfer.abort, called with rest as the calls under it: requestFailed is
\* latched, and its callback runs before the transfer goes.
Abort(t, rest) ==
  IF tr[t].notified
    THEN /\ DetachOrDeinit({t})
         /\ stack' = rest
         /\ UNCHANGED told
    ELSE /\ tr' = [tr EXCEPT ![t].notified = TRUE]
         /\ Tell({t}, "error")
         /\ stack' = Callback(tr[t]) \o <<At("abort", t)>> \o rest
         /\ UNCHANGED <<queue, nextTick, net>>

\* Back in Transfer.abort.
AbortReturn ==
  /\ Top("abort")
  /\ DetachOrDeinit({Head(stack).t})
  /\ stack' = Tail(stack)
  /\ UNCHANGED <<told, pauses, performing, alive, terminated, ended>>

-----------------------------------------------------------------------------
(* Making a request.                                                       *)

\* Mutant: getConnection does not look whether the pool is empty.
FaultAvailable == Conns

Available == {c \in Conns : net.available[c] > 0}

\* Transfer.reset
Reset(r) == [r EXCEPT !.notified = FALSE, !.tries = @ + 1]

\* makeRequest failed before the transfer was committed; its callers abort
\* what is still .created.
GiveUp(t, r, rest) ==
  /\ tr' = [tr EXCEPT ![t] = [Reset(r) EXCEPT !.notified = TRUE]]
  /\ Tell({t}, "error")
  /\ stack' = Callback(r) \o <<At("abort", t)>> \o rest
  /\ UNCHANGED performing

Committed(r, c) ==
  [Reset(r) EXCEPT !.state = "inflight", !.conn = c,
                    !.handle = r.page /\ ~r.muted]

\* makeRequest with a connection c from the pool, r being the transfer in
\* state .created.  The calls under it are good when it succeeds, else bad.
MakeRequest(t, r, c, good, bad) ==
  \/ \* configureConn failed
     /\ "fails" \in Features
     /\ GiveUp(t, r, bad)
     /\ UNCHANGED net
  \/ \* trackConn and perform
     /\ ~performing /\ ~InCurl
     /\ tr' = [tr EXCEPT ![t] = Committed(r, c)]
     /\ net' = [net EXCEPT !.available[c] = @ - 1,
                           !.inUse = @ \union {c}, !.running = @ \union {c},
                           !.active = @ + 1]
     /\ performing' = TRUE
     /\ stack' = <<At("make", None)>> \o good
     /\ UNCHANGED told
  \/ \* trackConn only remembers the connection, and perform is refused
     /\ performing
     /\ tr' = [tr EXCEPT ![t] = Committed(r, c)]
     /\ net' = [net EXCEPT !.available[c] = @ - 1, !.ready = @ \union {c}]
     /\ performing' = FALSE
     /\ stack' = bad
     /\ UNCHANGED told
  \/ \* trackConn is refused and releases the connection, as its caller does
     /\ ~performing /\ InCurl
     /\ GiveUp(t, r, bad)
     /\ net' = [net EXCEPT !.available[c] = @ + 1]

\* process: what cannot start now waits in the queue.
Process(t, r, rest) ==
  IF ~performing /\ Available # {}
    THEN /\ \E c \in Available : MakeRequest(t, r, c, rest, rest)
         /\ UNCHANGED queue
    ELSE /\ tr' = [tr EXCEPT ![t] = [r EXCEPT !.state = "queued"]]
         /\ queue' = Append(queue, t)
         /\ stack' = rest
         /\ UNCHANGED <<told, net, performing>>

Pause(t) ==
  /\ paused' = paused \union {t}
  /\ intercepted' = intercepted + 1

\* requestT: the synthetic schemes wait for the next tick, the Fetch domain
\* may pause the request, or it goes on to process.
Request(t, r, rest) ==
  /\ tr[t].state = "none"
  /\ \/ /\ "synthetic" \in Features
        /\ tr' = [tr EXCEPT ![t] = r]
        /\ nextTick' = Append(nextTick, t)
        /\ stack' = rest
        /\ UNCHANGED <<told, queue, pauses, net, performing>>
     \/ /\ "intercept" \in Features
        /\ tr' = [tr EXCEPT ![t] = [r EXCEPT !.state = "parked"]]
        /\ Pause(t)
        /\ stack' = rest
        /\ UNCHANGED <<told, queue, nextTick, net, performing>>
     \/ /\ Process(t, r, rest)
        /\ UNCHANGED <<nextTick, pauses>>

Created(page, o) == [New EXCEPT !.state = "created", !.page = page, !.owner = o]

-----------------------------------------------------------------------------
(* Script: what a page does while it is on the stack.                      *)

ScriptRequest(t, o) ==
  /\ Top("script")
  /\ o \in alive
  /\ Request(t, Created(TRUE, o), stack)
  /\ UNCHANGED <<alive, terminated, ended>>

\* A classic script, a style sheet or importScripts: syncRequest.
ScriptSync(t) ==
  /\ Top("script")
  /\ "sync" \in Features /\ ~terminated
  /\ "crossed" \in Features \/ ~Exposed
  /\ Request(t, Created(FALSE, None), <<At("sync", t)>> \o stack)
  /\ UNCHANGED <<alive, terminated, ended>>

\* XMLHttpRequest.abort and open.
ScriptAbort(t) ==
  /\ Top("script")
  /\ tr[t].handle
  /\ Endangered({t}) \subseteq SelfEnd
  /\ Abort(t, stack)
  /\ UNCHANGED <<pauses, performing, alive, terminated, ended>>

\* The page of o navigates: abortRequests.
ScriptNavigate(o) ==
  LET owned == {t \in Transfers : tr[t].owner = o}
  IN  /\ Top("script")
      /\ owned # {}
      /\ Endangered(owned) \subseteq SelfEnd
      /\ Kill(owned)
      /\ UNCHANGED <<pauses, performing, alive, terminated, ended, stack>>

ScriptReturn ==
  /\ Top("script")
  /\ stack' = Tail(stack)
  /\ UNCHANGED <<tr, told, lists, net, performing, alive, terminated, ended>>

-----------------------------------------------------------------------------
(* tick                                                                    *)

Goto(place) == stack' = <<At(place, None)>> \o Tail(stack)

\* Mutant: nothing of the next-tick queue is run.
FaultTick == [at |-> "next", t |-> None, n |-> 0]

\* tick is called: next_tick_count also counts the transfers being run.
Tick == [at |-> "next", t |-> None,
         n |-> Len(nextTick)
                 + Cardinality({i \in DOMAIN stack : stack[i].at = "next"})]

\* drainNextTickQueue runs what was queued before the tick.
\* Synthetic.run: build may fail; otherwise the callbacks follow.
NextTickRun ==
  LET t == Head(nextTick)
      rest == <<[Head(stack) EXCEPT !.n = @ - 1]>> \o Tail(stack)
  IN  /\ Top("next")
      /\ Head(stack).n > 0 /\ nextTick # << >>
      /\ nextTick' = Tail(nextTick)
      /\ \/ /\ stack' = Callback(tr[t]) \o <<At("serving", t)>> \o rest
            /\ UNCHANGED told
         \/ /\ stack' = Callback(tr[t]) \o <<At("abort", t)>> \o rest
            /\ Tell({t}, "error")
      /\ UNCHANGED <<tr, queue, pauses, net, performing, alive, terminated, ended>>

NextTickDone ==
  /\ Top("next")
  /\ Head(stack).n = 0 \/ nextTick = << >>
  /\ Goto("queue1")
  /\ UNCHANGED <<tr, told, lists, net, performing, alive, terminated, ended>>

InDrainQueue == Top("queue1") \/ Top("queue2")

DrainQueue ==
  LET t == Head(queue)
  IN  /\ InDrainQueue
      /\ queue # << >>
      /\ queue' = Tail(queue)
      /\ \E c \in Available :
           MakeRequest(t, [tr[t] EXCEPT !.state = "created"], c, stack,
                       <<At("tickFailed", None)>> \o Tail(stack))
      /\ UNCHANGED <<nextTick, pauses, alive, terminated, ended>>

DrainQueueDone ==
  /\ InDrainQueue
  /\ queue = << >> \/ Available = {}
  /\ Goto(IF Top("queue1") THEN "perform" ELSE "inbox")
  /\ UNCHANGED <<tr, told, lists, net, performing, alive, terminated, ended>>

\* perform starts, or libcurl refuses to be entered again.
TickPerform ==
  /\ Top("perform")
  /\ IF InCurl
       THEN performing' = FALSE /\ Goto("tickFailed")
       ELSE /\ performing' = TRUE
            /\ stack' = <<At("curl", None), At("queue2", None)>> \o Tail(stack)
  /\ UNCHANGED <<tr, told, lists, net, alive, terminated, ended>>

-----------------------------------------------------------------------------
(* Inside libcurl, and back in perform or makeRequest.                     *)

InsideCurl == Top("curl") \/ Top("make")

\* A response is complete, or has failed.
CurlFinish(c) ==
  /\ InsideCurl
  /\ c \in net.running
  /\ net' = [net EXCEPT !.running = @ \ {c}, !.finished = @ \union {c}]
  /\ UNCHANGED <<tr, told, lists, performing, alive, terminated, ended, stack>>

\* A web socket's message is dispatched to the page from curl's callback; its
\* end, when processMessages reads it.
SocketEvent ==
  /\ InsideCurl \/ Top("read")
  /\ "ws" \in Features /\ Scripts < MaxScripts
  /\ stack' = <<At("script", None)>> \o stack
  /\ UNCHANGED <<tr, told, lists, net, performing, alive, terminated, ended>>

\* Mutant: performing is not reset.
FaultMakeReturn ==
  /\ Top("make")
  /\ stack' = Tail(stack)
  /\ UNCHANGED <<tr, told, lists, net, performing, alive, terminated, ended>>

MakeReturn ==
  /\ Top("make")
  /\ performing' = FALSE
  /\ stack' = Tail(stack)
  /\ UNCHANGED <<tr, told, lists, net, alive, terminated, ended>>

\* perform drains dirty and ready_queue, and goes on to processMessages.
PerformReturn ==
  /\ Top("curl")
  /\ performing' = FALSE
  /\ net' = [available |-> [c \in Conns |->
                              net.available[c] + (IF c \in net.dirty THEN 1 ELSE 0)],
             inUse     |-> net.inUse \union net.ready,
             ready     |-> {},
             dirty     |-> {},
             running   |-> (net.running \ net.dirty) \union net.ready,
             finished  |-> net.finished \ net.dirty,
             active    |-> net.active + Cardinality(net.ready)]
  /\ Goto("read")
  /\ UNCHANGED <<tr, told, lists, alive, terminated, ended>>

-----------------------------------------------------------------------------
(* processMessages and processOneMessage                                   *)

\* The transfer of a message, and the message itself, read.
Reading(t) ==
  /\ Top("read")
  /\ tr[t].conn \in net.finished
  /\ UNCHANGED <<alive, terminated, ended>>

Consumed(c) == [net EXCEPT !.finished = @ \ {c}]

\* A challenge the client wants to answer: the connection goes back to the
\* pool and the transfer waits for continueWithAuth.
ReadAuth(t) ==
  /\ Reading(t)
  /\ "auth" \in Features /\ tr[t].tries < MaxTries
  /\ tr' = [tr EXCEPT ![t].conn = None, ![t].state = "parked"]
  /\ net' = RemoveConns(Held({t}))
  /\ Pause(t)
  /\ UNCHANGED <<told, queue, nextTick, performing, stack>>

\* A redirect keeps the connection and starts it again at once: perform runs
\* below processOneMessage.
ReadRedirect(t) ==
  /\ Reading(t)
  /\ tr[t].redirects < MaxRedirects
  /\ tr' = [tr EXCEPT ![t] = [Reset(tr[t]) EXCEPT !.redirects = @ + 1]]
  /\ net' = [Consumed(tr[t].conn) EXCEPT !.running = @ \union {tr[t].conn}]
  /\ performing' = TRUE
  /\ stack' = <<At("curl", None)>> \o stack
  /\ UNCHANGED <<told, lists>>

\* Mutant: the failure is not latched.
FaultFail(t, r, rest) ==
  /\ tr' = [tr EXCEPT ![t] = r]
  /\ Tell({t}, "error")
  /\ stack' = Callback(tr[t]) \o rest

\* requestFailed in processMessages or processOneMessage, with the calls of
\* rest under it.
Fail(t, r, rest) ==
  /\ tr' = [tr EXCEPT ![t] = [r EXCEPT !.notified = TRUE]]
  /\ IF r.notified
       THEN UNCHANGED told /\ stack' = rest
       ELSE Tell({t}, "error") /\ stack' = Callback(tr[t]) \o rest

\* handleRedirect failed: too many redirects, no location.  The transfer is
\* still .inflight when its error callback runs.
ReadBadRedirect(t) ==
  /\ Reading(t)
  /\ net' = Consumed(tr[t].conn)
  /\ Fail(t, tr[t], <<At("failed", t)>> \o stack)
  /\ UNCHANGED <<lists, performing>>

\* The connection could not be set up again for the redirect.
ReadDetached(t) ==
  /\ Reading(t)
  /\ "reconfigure" \in Features /\ tr[t].redirects < MaxRedirects
  /\ net' = Consumed(tr[t].conn)
  /\ Fail(t, Reset(tr[t]), <<At("detached", t)>> \o stack)
  /\ UNCHANGED <<lists, performing>>

Completing(t) == [tr[t] EXCEPT !.state = "completing"]

\* The transfer failed.
ReadError(t) ==
  /\ Reading(t)
  /\ net' = Consumed(tr[t].conn)
  /\ Fail(t, Completing(t), <<At("failed", t)>> \o stack)
  /\ UNCHANGED <<lists, performing>>

\* A response: header_callback runs first.
ReadResponse(t) ==
  /\ Reading(t)
  /\ net' = Consumed(tr[t].conn)
  /\ tr' = [tr EXCEPT ![t] = Completing(t)]
  /\ stack' = Callback(tr[t]) \o <<At("deliver", t)>> \o stack
  /\ UNCHANGED <<told, lists, performing>>

ReadDone ==
  /\ Top("read")
  /\ net.finished = {}
  /\ stack' = Tail(stack)
  /\ UNCHANGED <<tr, told, lists, net, performing, alive, terminated, ended>>

\* A call on behalf of transfer t goes on; what happens when t is gone is
\* undefined and not modelled any further.
Resumed(place, t) ==
  /\ Top(place)
  /\ t = Head(stack).t
  /\ tr[t].state # "freed"
  /\ UNCHANGED <<performing, alive, terminated, ended>>

\* header_callback returned, and the body follows, in one call.
DeliverData(t) ==
  /\ Resumed("deliver", t)
  /\ tr[t].state # "aborted" /\ Head(stack).n = 0
  /\ stack' = Callback(tr[t]) \o <<[Head(stack) EXCEPT !.n = 1]>> \o Tail(stack)
  /\ UNCHANGED <<tr, told, lists, net>>

\* A callback refused the response, or the transfer was aborted in it.
DeliverFail(t) ==
  /\ Resumed("deliver", t)
  /\ Fail(t, tr[t], <<At("failed", t)>> \o Tail(stack))
  /\ UNCHANGED <<lists, net>>

\* Mutant: the transfer still points at the connection it released.
FaultDeliverDone(t) ==
  /\ Resumed("deliver", t)
  /\ tr[t].state # "aborted"
  /\ net' = RemoveConns(Held({t}))
  /\ tr' = [tr EXCEPT ![t].handle = FALSE]
  /\ Tell({t}, "done")
  /\ stack' = Callback(tr[t]) \o <<At("done", t)>> \o Tail(stack)
  /\ UNCHANGED lists

\* The connection is released before done_callback.
DeliverDone(t) ==
  /\ Resumed("deliver", t)
  /\ tr[t].state # "aborted"
  /\ net' = RemoveConns(Held({t}))
  /\ tr' = [tr EXCEPT ![t].conn = None, ![t].handle = FALSE]
  /\ Tell({t}, "done")
  /\ stack' = Callback(tr[t]) \o <<At("done", t)>> \o Tail(stack)
  /\ UNCHANGED lists

\* done_callback returned.
Done(t) ==
  /\ Resumed("done", t)
  /\ Deinit({t})
  /\ stack' = Tail(stack)
  /\ UNCHANGED <<told, pauses>>

DoneFail(t) ==
  /\ Resumed("done", t)
  /\ "fails" \in Features /\ tr[t].state # "aborted"
  /\ Fail(t, tr[t], <<At("failed", t)>> \o Tail(stack))
  /\ UNCHANGED <<lists, net>>

\* error_callback returned to processMessages.
Failed(t) ==
  /\ Resumed("failed", t)
  /\ Deinit({t})
  /\ stack' = Tail(stack)
  /\ UNCHANGED <<told, pauses>>

\* error_callback returned, and the detached connection is released first.
FailedDetached(t) ==
  LET c == tr[t].conn
  IN  /\ Resumed("detached", t)
      /\ net' = [net EXCEPT !.inUse = @ \ {c}, !.active = @ - 1,
                            !.available[c] = @ + 1]
      /\ stack' = <<At("failed", t)>> \o Tail(stack)
      /\ UNCHANGED <<tr, told, lists>>

-----------------------------------------------------------------------------
(* A response that is not from the network: fulfillRequest, Synthetic.run. *)

ServeFail(t) ==
  /\ Resumed("serving", t)
  /\ Abort(t, Tail(stack))
  /\ UNCHANGED pauses

ServeDone(t) ==
  /\ Resumed("serving", t)
  /\ Tell({t}, "done")
  /\ stack' = Callback(tr[t]) \o <<At("served", t)>> \o Tail(stack)
  /\ UNCHANGED <<tr, lists, net>>

Served(t) ==
  /\ Resumed("served", t)
  /\ Deinit({t})
  /\ stack' = Tail(stack)
  /\ UNCHANGED <<told, pauses>>

\* done_callback of a synthetic response failed.
ServedFail(t) ==
  /\ Resumed("served", t)
  /\ "fails" \in Features /\ tr[t].state = "created"
  /\ Tell({t}, "error")
  /\ stack' = Callback(tr[t]) \o <<At("abort", t)>> \o Tail(stack)
  /\ UNCHANGED <<tr, lists, net>>

-----------------------------------------------------------------------------
(* drainInbox, as far as it concerns transfers: the commands of the Fetch   *)
(* domain.  Each forgets the id first, so a second one finds nothing.      *)

\* Mutant: the id stays in intercept_state.
FaultCommand(t) ==
  /\ Top("inbox")
  /\ t \in paused
  /\ UNCHANGED <<paused, alive, terminated, ended>>

Command(t) ==
  /\ Top("inbox")
  /\ t \in paused
  /\ paused' = paused \ {t}
  /\ UNCHANGED <<alive, terminated, ended>>

\* A command whose transfer is live.
Answer(t) ==
  /\ Command(t)
  /\ tr[t].state \notin {"none", "freed"}

Unpark(t) == [tr[t] EXCEPT !.state = "created"]

\* Fetch.continueRequest
CdpContinue(t) ==
  /\ Answer(t)
  /\ intercepted' = intercepted - 1
  /\ Process(t, Unpark(t), stack)
  /\ UNCHANGED nextTick

\* Fetch.continueWithAuth with credentials: when process fails, errdefer
\* aborts the challenge, which counts it once more.
CdpContinueWithAuth(t) ==
  /\ Answer(t)
  /\ Process(t, Unpark(t), stack)
  /\ intercepted' = intercepted - (IF tr'[t].state = "created" THEN 2 ELSE 1)
  /\ UNCHANGED nextTick

\* Mutant: the pause is not counted off.
FaultCdpFail(t) ==
  /\ Answer(t)
  /\ Abort(t, stack)
  /\ UNCHANGED <<intercepted, performing>>

\* Fetch.failRequest, and continueWithAuth that cancels.
CdpFail(t) ==
  /\ Answer(t)
  /\ intercepted' = intercepted - 1
  /\ Abort(t, stack)
  /\ UNCHANGED performing

\* Fetch.fulfillRequest
CdpFulfill(t) ==
  /\ Answer(t)
  /\ intercepted' = intercepted - 1
  /\ stack' = Callback(tr[t]) \o <<At("serving", t)>> \o stack
  /\ UNCHANGED <<tr, told, queue, nextTick, net, performing>>

\* A command that comes after its transfer is gone, or that fails on its own
\* parameters (a method or a body that does not decode).
CdpStray(t) ==
  /\ Command(t)
  /\ "stray" \in Features
  /\ UNCHANGED <<tr, told, queue, nextTick, intercepted, net, performing, stack>>

\* A close or a disconnect message.
CdpDisconnect ==
  /\ Top("inbox")
  /\ terminated' = TRUE
  /\ Goto("tickFailed")
  /\ UNCHANGED <<tr, told, lists, net, performing, alive, ended>>

InboxDone ==
  /\ Top("inbox")
  /\ stack' = Tail(stack)
  /\ UNCHANGED <<tr, told, lists, net, performing, alive, terminated, ended>>

-----------------------------------------------------------------------------
(* syncRequest: it ticks until its transfer has ended, and aborts it when  *)
(* a tick fails.                                                           *)

SyncTick(t) ==
  /\ Top("sync") /\ t = Head(stack).t
  /\ told[t] = << >>
  /\ stack' = (IF terminated THEN <<At("tickFailed", None)>> ELSE <<Tick>>)
              \o stack
  /\ UNCHANGED <<tr, told, lists, net, performing, alive, terminated, ended>>

SyncReturn(t) ==
  /\ Top("sync") /\ t = Head(stack).t
  /\ told[t] # << >>
  /\ stack' = Tail(stack)
  /\ UNCHANGED <<tr, told, lists, net, performing, alive, terminated, ended>>

SyncFailed ==
  LET rest == Tail(stack)
  IN  /\ Top("tickFailed")
      /\ rest # << >>
      /\ IF told[Head(rest).t] = << >>
           THEN Abort(Head(rest).t, Tail(rest))
           ELSE stack' = Tail(rest) /\ UNCHANGED <<tr, told, queue, nextTick, net>>
      /\ UNCHANGED <<pauses, performing, alive, terminated, ended>>

-----------------------------------------------------------------------------
(* The event loop under everything.                                        *)

Idle == stack = << >> /\ ~ended

LoopScript ==
  /\ Idle /\ MaxScripts > 0
  /\ stack' = <<At("script", None)>>
  /\ UNCHANGED <<tr, told, lists, net, performing, alive, terminated, ended>>

LoopTick ==
  /\ Idle /\ ~terminated
  /\ stack' = <<Tick>>
  /\ UNCHANGED <<tr, told, lists, net, performing, alive, terminated, ended>>

LoopTickFailed ==
  /\ Top("tickFailed") /\ Tail(stack) = << >>
  /\ stack' = << >>
  /\ UNCHANGED <<tr, told, lists, net, performing, alive, terminated, ended>>

\* Frame.deinit, WorkerGlobalScope.deinit: abortOwner, when no script runs.
TearDown(o) ==
  /\ Idle \/ (Top("inbox") /\ Len(stack) = 1)
  /\ o \in alive
  /\ alive' = alive \ {o}
  /\ Kill({t \in Transfers : tr[t].owner = o})
  /\ UNCHANGED <<pauses, performing, terminated, ended, stack>>

\* Client.deinit: every transfer is killed.
ClientDeinit ==
  /\ Idle
  /\ ended' = TRUE
  /\ Kill({t \in Transfers : tr[t].state \notin {"none", "freed"}})
  /\ UNCHANGED <<pauses, performing, alive, terminated, stack>>

-----------------------------------------------------------------------------

Script ==
  \/ \E t \in Transfers :
       \/ \E o \in Owners : ScriptRequest(t, o)
       \/ ScriptSync(t) \/ ScriptAbort(t)
  \/ \E o \in Owners : ScriptNavigate(o)

Read(t) ==
  \/ ReadAuth(t) \/ ReadRedirect(t) \/ ReadBadRedirect(t) \/ ReadDetached(t)
  \/ ReadError(t) \/ ReadResponse(t)

Resume(t) ==
  \/ DeliverFail(t) \/ DeliverDone(t) \/ Done(t) \/ DoneFail(t)
  \/ Failed(t) \/ FailedDetached(t)
  \/ ServeFail(t) \/ ServeDone(t) \/ Served(t) \/ ServedFail(t)

\* What the client does without anybody's choice.
Client ==
  \/ AbortReturn
  \/ NextTickRun \/ NextTickDone \/ DrainQueue \/ DrainQueueDone \/ TickPerform
  \/ ReadDone
  \/ \E t \in Transfers : Read(t) \/ Resume(t) \/ SyncTick(t) \/ SyncReturn(t)
  \/ SyncFailed \/ LoopTickFailed

Cdp ==
  \E t \in Transfers :
    \/ CdpContinue(t) \/ CdpContinueWithAuth(t)
    \/ CdpFail(t) \/ CdpFulfill(t) \/ CdpStray(t)

Next ==
  \/ Client
  \/ Script \/ ScriptReturn
  \/ \E c \in Conns : CurlFinish(c)
  \/ SocketEvent \/ MakeReturn \/ PerformReturn
  \/ \E t \in Transfers : DeliverData(t)
  \/ Cdp \/ CdpDisconnect \/ InboxDone
  \/ LoopScript \/ LoopTick
  \/ \E o \in Owners : TearDown(o)
  \/ ClientDeinit

Spec == Init /\ [][Next]_vars

\* The worker runs: scripts return, and so does libcurl.  A response ends or
\* times out (http_timeout), and ticks go on between the messages of a client.
Fairness ==
  /\ WF_vars(Client)
  /\ SF_vars(ScriptReturn)
  /\ SF_vars(MakeReturn) /\ SF_vars(PerformReturn)
  /\ \A c \in Conns : SF_vars(CurlFinish(c))
  /\ SF_vars(InboxDone)

FairSpec == Spec /\ Fairness
=============================================================================
