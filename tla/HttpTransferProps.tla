------------------------- MODULE HttpTransferProps -------------------------
(***************************************************************************)
(* What browser/HttpClient.zig has to guarantee of its transfers.          *)
(***************************************************************************)
EXTENDS HttpTransfer

Live == {t \in Transfers : tr[t].state \notin {"none", "freed"}}

\* A call on the stack never goes on with a transfer that was freed in the
\* meantime: "there is nothing left referencing this transfer and we can
\* safely deinit inline" (detachOrDeinit).
StackHoldsLive ==
  \A i \in DOMAIN stack :
    LET f == stack[i]
    IN  f.t # None => f.t \in Live \/ (f.at = "sync" /\ told[f.t] # << >>)

\* Every connection is in one place: the pool, or exactly one transfer's, and
\* what a transfer holds is in the multi handle, or waits to get there.
Holders(c) == {t \in Live : tr[t].conn = c}
ConnsAccounted ==
  \A c \in Conns :
    /\ net.available[c] + Cardinality(Holders(c)) = 1
    /\ c \in net.inUse <=> Holders(c) # {}
    /\ net.ready = {} /\ net.dirty = {}
    /\ net.running \union net.finished \subseteq net.inUse

\* http_active counts the handles in use, and what waits for a connection or
\* holds one is what the states say.
CountsMatch ==
  /\ net.active = Cardinality(net.inUse)
  /\ \A t \in Live :
       tr[t].state \in {"created", "queued", "parked"} => tr[t].conn = None

\* The queue holds the transfers that wait for a connection, each once, and
\* none that was freed (Transfer.deinit unlinks its node).
QueueMatches ==
  /\ {queue[i] : i \in DOMAIN queue} = {t \in Transfers : tr[t].state = "queued"}
  /\ \A i, j \in DOMAIN queue : queue[i] = queue[j] => i = j

\* Nothing ends in silence: a transfer that is gone has told its maker, once
\* about a failure at most.
EndIsTold ==
  \A t \in Transfers :
    /\ tr[t].state = "freed" => told[t] # << >>
    /\ Cardinality({i \in DOMAIN told[t] : told[t][i] = "error"}) <= 1

\* After an owner was torn down, none of its transfers calls back.
DeadOwnerIsSilent ==
  \A t \in Live :
    tr[t].page /\ ~tr[t].muted => tr[t].owner \in alive

\* "Whether we're currently inside a curl_multi_perform call" (Client).
PerformingIsInCurl == performing <=> InCurl

\* Client.abort leaves every list empty (its assertions).
AbortDrains ==
  ended =>
    /\ Live = {} /\ queue = << >> /\ nextTick = << >>
    /\ net.inUse = {} /\ net.ready = {} /\ net.dirty = {} /\ net.running = {}
    /\ \A c \in Conns : net.available[c] = 1

\* What a Fetch command may name is parked, if it lives ("Transfer.unpark"
\* asserts it).
PausedIsParked == \A t \in paused \intersect Live : tr[t].state = "parked"

\* The requests that hold back network idle are those a command may still
\* resolve: "the intercepted counter still needs decrementing because we
\* incremented it on pause" (BrowserContext.deinit).
InterceptedMatches == intercepted = Cardinality(paused)

\* A step that does none of what the client has no answer to: script inside
\* libcurl or below processMessages (a web socket's message), a redirect whose
\* connection cannot be set up again, a synchronous load in the error callback
\* of an abort whose transfer can still start, complete or be answered, and a
\* callback that ends its own transfer where no state shields it.
Careful ==
  /\ ~SocketEvent
  /\ \A t \in Transfers :
       /\ ~ReadDetached(t)
       /\ ScriptSync(t) => ~Exposed
       /\ ScriptAbort(t) => Endangered({t}) = {}
  /\ \A o \in Owners :
       ScriptNavigate(o) => Endangered({t \in Transfers : tr[t].owner = o}) = {}

Waits(t) == \E i \in DOMAIN stack : stack[i].at = "sync" /\ stack[i].t = t

\* syncRequest returns.
SyncReturns == \A t \in Transfers : Waits(t) ~> ~Waits(t)
=============================================================================
