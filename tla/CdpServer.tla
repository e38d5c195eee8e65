----------------------------- MODULE CdpServer -----------------------------
(***************************************************************************)
(* The life of a CDP connection: the Network thread that accepts sockets   *)
(* and reads CDP frames (network/Network.zig), one worker thread per       *)
(* connection (Server.zig, handleConnection), the signal handler and the   *)
(* main thread that stop the server.                                       *)
(*                                                                         *)
(* A step is what one thread does between two points at which another      *)
(* thread can see it.  Network.cdp_mutex is held by the Network thread     *)
(* through the whole of processCdpEvents (netPc = "scan"); every other     *)
(* critical section is one action.  Server.cdp_mutex only guards sections  *)
(* of one action each, so it needs no variable.                            *)
(***************************************************************************)
EXTENDS Integers, Sequences, FiniteSets

CONSTANTS
  Conns,          \* connections a peer may open; each gets one socket
  NoConn,         \* no link is being read
  MaxConnections, \* Config.maxConnections
  MaxFrames,      \* frames a peer sends on one connection (bound)
  Kinds,          \* kinds of WebSocket frame the peers send
  MaxHangs,       \* scripts of one connection that never return (bound)
  MaxFlush        \* loop rounds telemetry requests outlive a stop (bound)

FrameKinds == {"cmd", "fetch", "ping", "pong", "close", "badjson", "badframe"}

ASSUME ConnsAssumption == IsFiniteSet(Conns) /\ NoConn \notin Conns
ASSUME BoundsAssumption ==
  /\ MaxConnections \in Nat \ {0}
  /\ MaxFrames \in Nat
  /\ MaxHangs \in Nat
  /\ MaxFlush \in Nat
  /\ Kinds \subseteq FrameKinds

VARIABLES
  \* the kernel's side of a connection
  backlog,       \* connections waiting in the listener's queue
  fd,            \* worker's socket
  eof,           \* peer gone, or Connection.shutdown was called
  budget,        \* frames the peer may still send
  \* Network
  listener, accept, shutdown,
  links,         \* cdp_links
  link,          \* CdpLink.state, "none" before CDP.init
  dirty,         \* cdp_dirty
  snapshot,      \* cdp_poll_snapshot and its poll fds
  ready,         \* poll fds with a non-zero revents not handled yet
  cur, verdict,  \* link being read by onData, and how that went so far
  anyRemoved,    \* any_removed of processCdpEvents
  flush,         \* rounds until running_handles is zero
  netPc,
  \* Server and its workers
  activeThreads, \* active_threads
  cdps,          \* tracked connections
  connLive,      \* conn.state == .live
  mem,           \* the CDP of the connection and all it owns
  inbox, terminated,
  js,            \* script on the worker's stack
  kill,          \* a pending Env.terminate
  hangs,         \* scripts that never return still to come
  pc,            \* worker threads
  sigPc, mainPc

kernelVars == <<backlog, fd, eof, budget>>
netVars    == <<listener, accept, shutdown, links, link, dirty, snapshot,
                ready, cur, verdict, anyRemoved, flush, netPc>>
workerVars == <<activeThreads, cdps, connLive, mem, inbox, terminated, js,
                kill, hangs, pc>>
vars == <<kernelVars, netVars, workerVars, sigPc, mainPc>>

Messages == {"cmd", "fetch", "ping", "close", "disconnect"}

\* Inbox messages after which drainInbox tears the connection down.
Terminal == {"close", "disconnect"}

\* allowDuringSyncWait
AllowDuringSyncWait(m) == m # "cmd"

WorkerPcs == {"absent", "refused", "init", "track", "handshake", "golive",
              "register", "check", "tick", "drain", "js", "sync",
              "unregister", "waiting", "woken", "untrack", "deinit", "close",
              "leave", "done"}

\* Places of a worker that runs cdp.tick.
Ticking == {"tick", "drain", "js", "sync"}

\* Places of a worker that counts in active_threads.
Running == WorkerPcs \ {"absent", "refused", "done"}

TypeOK ==
  /\ backlog \subseteq Conns
  /\ fd \in [Conns -> {"none", "open", "closed"}]
  /\ eof \in [Conns -> BOOLEAN]
  /\ budget \in [Conns -> 0 .. MaxFrames]
  /\ listener \in BOOLEAN /\ accept \in BOOLEAN /\ shutdown \in BOOLEAN
  /\ links \subseteq Conns
  /\ link \in [Conns -> {"none", "live", "unregistering", "removed"}]
  /\ dirty \in BOOLEAN
  /\ snapshot \subseteq Conns
  /\ ready \subseteq Conns
  /\ cur \in Conns \union {NoConn}
  /\ verdict \in {"none", "keep", "closed", "failed"}
  /\ anyRemoved \in BOOLEAN
  /\ flush \in 0 .. MaxFlush
  /\ netPc \in {"top", "poll", "accept1", "events", "scan", "accept2",
                "check", "exited"}
  /\ activeThreads \in Nat
  /\ cdps \subseteq Conns
  /\ connLive \in [Conns -> BOOLEAN]
  /\ mem \in [Conns -> {"none", "alive", "freed"}]
  /\ inbox \in [Conns -> Seq(Messages)]
  /\ terminated \in [Conns -> BOOLEAN]
  /\ js \in [Conns -> {"idle", "finite", "nested", "endless"}]
  /\ kill \in [Conns -> BOOLEAN]
  /\ hangs \in [Conns -> 0 .. MaxHangs]
  /\ pc \in [Conns -> WorkerPcs]
  /\ sigPc \in {"idle", "stopping", "done"}
  /\ mainPc \in {"run", "draining", "freed"}

Init ==
  /\ backlog = {}
  /\ fd = [c \in Conns |-> "none"]
  /\ eof = [c \in Conns |-> FALSE]
  /\ budget = [c \in Conns |-> MaxFrames]
  /\ listener = TRUE /\ accept = TRUE /\ shutdown = FALSE
  /\ links = {}
  /\ link = [c \in Conns |-> "none"]
  /\ dirty = FALSE
  /\ snapshot = {} /\ ready = {}
  /\ cur = NoConn /\ verdict = "none" /\ anyRemoved = FALSE
  /\ flush \in 0 .. MaxFlush
  /\ netPc = "top"
  /\ activeThreads = 0
  /\ cdps = {}
  /\ connLive = [c \in Conns |-> FALSE]
  /\ mem = [c \in Conns |-> "none"]
  /\ inbox = [c \in Conns |-> << >>]
  /\ terminated = [c \in Conns |-> FALSE]
  /\ js = [c \in Conns |-> "idle"]
  /\ kill = [c \in Conns |-> FALSE]
  /\ hangs = [c \in Conns |-> MaxHangs]
  /\ pc = [c \in Conns |-> "absent"]
  /\ sigPc = "idle" /\ mainPc = "run"

-----------------------------------------------------------------------------
(* The peer.                                                               *)

PeerConnect(c) ==
  /\ listener
  /\ pc[c] = "absent" /\ c \notin backlog
  /\ backlog' = backlog \union {c}
  /\ UNCHANGED <<fd, eof, budget, netVars, workerVars, sigPc, mainPc>>

\* EOF, a reset, or keepalive giving up.
PeerClose(c) ==
  /\ fd[c] = "open" /\ ~eof[c]
  /\ eof' = [eof EXCEPT ![c] = TRUE]
  /\ UNCHANGED <<backlog, fd, budget, netVars, workerVars, sigPc, mainPc>>

-----------------------------------------------------------------------------
(* The Network thread: one round of run() per pass through netPc.          *)

\* prepareCdpPollFds rebuilds the snapshot only when the links changed.
NetTop ==
  /\ netPc = "top"
  /\ listener' = (listener /\ accept)
  /\ backlog' = IF accept THEN backlog ELSE {}
  /\ snapshot' = IF dirty THEN {c \in links : link[c] = "live"} ELSE snapshot
  /\ dirty' = FALSE
  /\ netPc' = "poll"
  /\ UNCHANGED <<fd, eof, budget, accept, shutdown, links, link, ready, cur,
                 verdict, anyRemoved, flush, workerVars, sigPc, mainPc>>

\* A peer that is gone is always reported; one that has frames to send may
\* or may not have sent them.
NetPoll ==
  /\ netPc = "poll"
  /\ \E R \in SUBSET snapshot :
       /\ \A c \in snapshot : eof[c] => c \in R
       /\ \A c \in R : eof[c] \/ budget[c] > 0
       /\ ready' = R
  /\ netPc' = "accept1"
  /\ UNCHANGED <<kernelVars, listener, accept, shutdown, links, link, dirty,
                 snapshot, cur, verdict, anyRemoved, flush, workerVars, sigPc,
                 mainPc>>

Accepting(c) ==
  /\ netPc \in {"accept1", "accept2"}
  /\ listener
  /\ c \in backlog
  /\ backlog' = backlog \ {c}
  /\ UNCHANGED <<eof, budget, netVars, cdps, connLive, mem, inbox, terminated,
                 js, kill, hangs, sigPc, mainPc>>

\* acceptConnections, onAccept, spawnWorker.
NetAccept(c) ==
  /\ Accepting(c)
  /\ ~shutdown /\ activeThreads < MaxConnections
  /\ activeThreads' = activeThreads + 1
  /\ fd' = [fd EXCEPT ![c] = "open"]
  /\ pc' = [pc EXCEPT ![c] = "init"]

\* Fault: the count is not given back.
FaultRefuseLeaks(c) ==
  /\ Accepting(c)
  /\ fd' = [fd EXCEPT ![c] = "closed"]
  /\ pc' = [pc EXCEPT ![c] = "refused"]
  /\ activeThreads' = activeThreads + 1

\* configureSocket or the spawn failed, active_threads is at its limit, or a
\* stop came while acceptConnections was in its loop: the socket is closed
\* and the count is what it was.
NetRefuse(c) ==
  /\ Accepting(c)
  /\ fd' = [fd EXCEPT ![c] = "closed"]
  /\ pc' = [pc EXCEPT ![c] = "refused"]
  /\ UNCHANGED activeThreads

\* The first accept only runs when poll reported the listener.
NetAcceptDone ==
  /\ netPc \in {"accept1", "accept2"}
  /\ netPc = "accept2" => (shutdown \/ ~listener \/ backlog = {})
  /\ netPc' = IF netPc = "accept1" THEN "events" ELSE "check"
  /\ UNCHANGED <<kernelVars, listener, accept, shutdown, links, link, dirty,
                 snapshot, ready, cur, verdict, anyRemoved, flush, workerVars,
                 sigPc, mainPc>>

\* Fault: dropCdp does not mark the poll set dirty.
FaultDropNotDirty(S) ==
  /\ links' = links \ S
  /\ link' = [c \in Conns |-> IF c \in S THEN "removed" ELSE link[c]]
  /\ dirty' = dirty

\* dropCdp for every link of S.
DropLinks(S) ==
  /\ links' = links \ S
  /\ link' = [c \in Conns |-> IF c \in S THEN "removed" ELSE link[c]]
  /\ dirty' = (dirty \/ S # {})

\* Faults: dropCdp's notify forgets the message, or the running script.
FaultNotifySilent(S) ==
  /\ kill' = [c \in Conns |-> kill[c] \/ c \in S]
  /\ UNCHANGED inbox

FaultNotifyNoKill(S) ==
  /\ inbox' = [c \in Conns |-> IF c \in S THEN Append(inbox[c], "disconnect")
                                          ELSE inbox[c]]
  /\ UNCHANGED kill

\* dropCdp's notify: terminateFromNetwork, then onLinkDisconnect.
Notify(S) ==
  /\ kill' = [c \in Conns |-> kill[c] \/ c \in S]
  /\ inbox' = [c \in Conns |-> IF c \in S THEN Append(inbox[c], "disconnect")
                                          ELSE inbox[c]]

NoNotify == UNCHANGED <<kill, inbox>>

\* processCdpEvents, first pass: pending unregister requests.
NetUnregisterPass ==
  /\ netPc = "events"
  /\ LET asked == {c \in links : link[c] = "unregistering"}
     IN  /\ DropLinks(asked)
         /\ anyRemoved' = (asked # {})
  /\ netPc' = "scan"
  /\ UNCHANGED <<kernelVars, listener, accept, shutdown, snapshot, ready, cur,
                 verdict, flush, workerVars, sigPc, mainPc>>

\* Second pass, on a link the first pass left live.
Scanning(c) ==
  /\ netPc = "scan" /\ cur = NoConn
  /\ c \in ready /\ link[c] = "live"
  /\ ready' = ready \ {c}
  /\ UNCHANGED <<kernelVars, listener, accept, shutdown, snapshot, verdict,
                 flush, netPc, activeThreads, cdps, connLive, mem, terminated,
                 js, hangs, pc, sigPc, mainPc>>

\* HUP, a read error or EOF.
NetHangup(c) ==
  /\ Scanning(c)
  /\ eof[c]
  /\ DropLinks({c}) /\ Notify({c})
  /\ anyRemoved' = TRUE
  /\ UNCHANGED cur

\* read returned WouldBlock, or only a part of a frame.
NetWouldBlock(c) ==
  /\ Scanning(c)
  /\ ~eof[c]
  /\ NoNotify
  /\ UNCHANGED <<links, link, dirty, anyRemoved, cur>>

\* read returned the end of a frame at least: CDP.onData runs on the bytes.
NetRead(c) ==
  /\ Scanning(c)
  /\ budget[c] > 0
  /\ cur' = c
  /\ NoNotify
  /\ UNCHANGED <<links, link, dirty, anyRemoved>>

\* What handleMessage and pushCdp make of a frame: bad JSON is pushed as a
\* disconnect.
Verdict(k) ==
  IF k \in {"close", "badjson"} THEN "closed"
  ELSE IF k = "badframe" THEN "failed" ELSE "keep"

Pushed(k) == IF k = "badjson" THEN "disconnect" ELSE k

\* Connection.processMessages extracts one frame; handleMessage and pushCdp
\* push what the worker has to see.
NetFrame(c, k) ==
  /\ cur = c /\ verdict \in {"none", "keep"}
  /\ budget[c] > 0
  /\ budget' = [budget EXCEPT ![c] = @ - 1]
  /\ verdict' = Verdict(k)
  /\ IF k \in {"pong", "badframe"}
       THEN UNCHANGED inbox
       ELSE inbox' = [inbox EXCEPT ![c] = Append(@, Pushed(k))]
  /\ UNCHANGED <<backlog, fd, eof, listener, accept, shutdown, links, link,
                 dirty, snapshot, ready, cur, anyRemoved, flush, netPc,
                 activeThreads, cdps, connLive, mem, terminated, js, kill,
                 hangs, pc, sigPc, mainPc>>

\* Fault: every drop is notified.
FaultReadEndNotifies(c) ==
  /\ cur = c /\ verdict # "none"
  /\ cur' = NoConn /\ verdict' = "none"
  /\ IF verdict = "keep"
       THEN UNCHANGED <<links, link, dirty, anyRemoved>> /\ NoNotify
       ELSE DropLinks({c}) /\ anyRemoved' = TRUE /\ Notify({c})
  /\ UNCHANGED <<kernelVars, listener, accept, shutdown, snapshot, ready,
                 flush, netPc, activeThreads, cdps, connLive, mem, terminated,
                 js, hangs, pc, sigPc, mainPc>>

\* onData returned.  Only a failure is notified: after a close frame or bad
\* JSON the inbox already holds the message that ends the worker.
NetReadEnd(c) ==
  /\ cur = c /\ verdict # "none"
  /\ cur' = NoConn /\ verdict' = "none"
  /\ IF verdict = "keep"
       THEN UNCHANGED <<links, link, dirty, anyRemoved>>
       ELSE DropLinks({c}) /\ anyRemoved' = TRUE
  /\ IF verdict = "failed" THEN Notify({c}) ELSE NoNotify
  /\ UNCHANGED <<kernelVars, listener, accept, shutdown, snapshot, ready,
                 flush, netPc, activeThreads, cdps, connLive, mem, terminated,
                 js, hangs, pc, sigPc, mainPc>>

\* Fault: the waiting workers are not told.
FaultNoBroadcast == UNCHANGED pc

\* cdp_unregister.broadcast
Broadcast ==
  pc' = [c \in Conns |-> IF pc[c] = "waiting" THEN "woken" ELSE pc[c]]

NetEventsDone ==
  /\ netPc = "scan" /\ cur = NoConn
  /\ \A c \in ready : link[c] # "live"
  /\ ready' = {} /\ anyRemoved' = FALSE
  /\ IF anyRemoved THEN Broadcast ELSE UNCHANGED pc
  /\ netPc' = "accept2"
  /\ UNCHANGED <<kernelVars, listener, accept, shutdown, links, link, dirty,
                 snapshot, cur, verdict, flush, activeThreads, cdps, connLive,
                 mem, inbox, terminated, js, kill, hangs, sigPc, mainPc>>

\* The end of a round.  Once stop() was called, shutdownCdpLinks drops the
\* links that are still live, and the loop ends when telemetry is flushed.
NetContinue ==
  /\ netPc = "check" /\ ~shutdown
  /\ netPc' = "top"
  /\ UNCHANGED <<kernelVars, listener, accept, shutdown, links, link, dirty,
                 snapshot, ready, cur, verdict, anyRemoved, flush, workerVars,
                 sigPc, mainPc>>

\* Fault: the loop ends without shutdownCdpLinks (issue #2510).
FaultNoShutdownLinks ==
  /\ netPc = "check" /\ shutdown
  /\ IF flush = 0 THEN netPc' = "exited" /\ UNCHANGED flush
                  ELSE netPc' = "top" /\ flush' = flush - 1
  /\ UNCHANGED <<kernelVars, listener, accept, shutdown, links, link, dirty,
                 snapshot, ready, cur, verdict, anyRemoved, workerVars, sigPc,
                 mainPc>>

NetShutdown ==
  /\ netPc = "check" /\ shutdown
  /\ LET live == {c \in links : link[c] = "live"}
     IN  DropLinks(live) /\ Notify(live)
  /\ Broadcast
  /\ IF flush = 0 THEN netPc' = "exited" /\ UNCHANGED flush
                  ELSE netPc' = "top" /\ flush' = flush - 1
  /\ UNCHANGED <<kernelVars, listener, accept, shutdown, snapshot, ready, cur,
                 verdict, anyRemoved, activeThreads, cdps, connLive, mem,
                 terminated, js, hangs, sigPc, mainPc>>

Network ==
  \/ NetTop \/ NetPoll \/ NetAcceptDone \/ NetUnregisterPass
  \/ NetEventsDone \/ NetContinue \/ NetShutdown
  \/ \E c \in Conns :
       \/ NetAccept(c) \/ NetRefuse(c)
       \/ NetHangup(c) \/ NetWouldBlock(c) \/ NetRead(c) \/ NetReadEnd(c)
       \/ \E k \in Kinds : NetFrame(c, k)

-----------------------------------------------------------------------------
(* The worker of connection c: Server.handleConnection.                    *)

Go(c, from, to) ==
  /\ pc[c] = from
  /\ pc' = [pc EXCEPT ![c] = to]
  /\ UNCHANGED <<sigPc, mainPc>>

\* Fault: the worker does not take Network.cdp_mutex.
FaultNoMutex == TRUE

MutexFree == netPc # "scan"

InitCdp(c) ==
  /\ Go(c, "init", "track")
  /\ mem' = [mem EXCEPT ![c] = "alive"]
  /\ link' = [link EXCEPT ![c] = "live"]
  /\ UNCHANGED <<kernelVars, listener, accept, shutdown, links, dirty,
                 snapshot, ready, cur, verdict, anyRemoved, flush, netPc,
                 activeThreads, cdps, connLive, inbox, terminated, js, kill,
                 hangs>>

\* CDP.init failed: no browser to be had, say.
InitFails(c) ==
  /\ Go(c, "init", "close")
  /\ mem' = [mem EXCEPT ![c] = "freed"]
  /\ UNCHANGED <<kernelVars, netVars, activeThreads, cdps, connLive, inbox,
                 terminated, js, kill, hangs>>

Track(c) ==
  /\ Go(c, "track", "handshake")
  /\ cdps' = cdps \union {c}
  /\ UNCHANGED <<kernelVars, netVars, activeThreads, connLive, mem, inbox,
                 terminated, js, kill, hangs>>

\* Connection.handshake: upgraded, or a timeout, EOF, an error, a plain GET.
Handshake(c) ==
  /\ \E to \in {"golive", "untrack"} : Go(c, "handshake", to)
  /\ UNCHANGED <<kernelVars, netVars, activeThreads, cdps, connLive, mem,
                 inbox, terminated, js, kill, hangs>>

GoLive(c) ==
  /\ Go(c, "golive", "register")
  /\ connLive' = [connLive EXCEPT ![c] = TRUE]
  /\ UNCHANGED <<kernelVars, netVars, activeThreads, cdps, mem, inbox,
                 terminated, js, kill, hangs>>

RegisterCdp(c) ==
  /\ MutexFree
  /\ Go(c, "register", "check")
  /\ links' = links \union {c}
  /\ dirty' = TRUE
  /\ UNCHANGED <<kernelVars, listener, accept, shutdown, link, snapshot,
                 ready, cur, verdict, anyRemoved, flush, netPc, activeThreads,
                 cdps, connLive, mem, inbox, terminated, js, kill, hangs>>

\* Server.handleConnection looks at app.shutdown() once it is registered.
CheckShutdown(c) ==
  /\ Go(c, "check", IF shutdown THEN "unregister" ELSE "tick")
  /\ UNCHANGED <<kernelVars, netVars, activeThreads, cdps, connLive, mem,
                 inbox, terminated, js, kill, hangs>>

\* HttpClient.tick: the latch first, then the poll, which always times out.
\* A tick may fail (curl, memory), and that ends the worker as well.
Tick(c) ==
  /\ \E to \in (IF terminated[c] THEN {"unregister"}
                                   ELSE {"drain", "unregister"}) :
       Go(c, "tick", to)
  /\ UNCHANGED <<kernelVars, netVars, activeThreads, cdps, connLive, mem,
                 inbox, terminated, js, kill, hangs>>

\* A script starts: finite, or one that only Env.terminate ends.
StartJs(c) ==
  \/ js' = [js EXCEPT ![c] = "finite"] /\ UNCHANGED hangs
  \/ /\ hangs[c] > 0
     /\ js' = [js EXCEPT ![c] = "endless"]
     /\ hangs' = [hangs EXCEPT ![c] = @ - 1]

\* drainInbox(.all)
DrainEmpty(c) ==
  /\ inbox[c] = << >>
  /\ Go(c, "drain", "tick")
  /\ UNCHANGED <<kernelVars, netVars, activeThreads, cdps, connLive, mem,
                 inbox, terminated, js, kill, hangs>>

Popped(c) ==
  /\ inbox[c] # << >>
  /\ inbox' = [inbox EXCEPT ![c] = Tail(@)]
  /\ UNCHANGED <<kernelVars, netVars, activeThreads, cdps, connLive, mem,
                 kill>>

DrainCommand(c) ==
  /\ Popped(c)
  /\ Head(inbox[c]) = "cmd"
  /\ Go(c, "drain", "js")
  /\ StartJs(c)
  /\ UNCHANGED terminated

DrainOther(c) ==
  /\ Popped(c)
  /\ Head(inbox[c]) \in {"fetch", "ping"}
  /\ Go(c, "drain", "drain")
  /\ UNCHANGED <<terminated, js, hangs>>

DrainTerminal(c) ==
  /\ Popped(c)
  /\ Head(inbox[c]) \in Terminal
  /\ Go(c, "drain", "unregister")
  /\ terminated' = [terminated EXCEPT ![c] = TRUE]
  /\ UNCHANGED <<js, hangs>>

\* The script returns, or a pending terminate unwinds it.
JsReturn(c) ==
  /\ Go(c, "js", "drain")
  /\ js[c] # "endless" \/ kill[c]
  /\ js' = [js EXCEPT ![c] = "idle"]
  /\ kill' = [kill EXCEPT ![c] = FALSE]
  /\ UNCHANGED <<kernelVars, netVars, activeThreads, cdps, connLive, mem,
                 inbox, terminated, hangs>>

\* The script makes a blocking request: HttpClient.syncRequest ticks the
\* client from inside it (one such request per script).
SyncRequest(c) ==
  /\ js[c] = "finite" /\ ~terminated[c]
  /\ Go(c, "js", "sync")
  /\ js' = [js EXCEPT ![c] = "nested"]
  /\ UNCHANGED <<kernelVars, netVars, activeThreads, cdps, connLive, mem,
                 inbox, terminated, kill, hangs>>

SyncResponse(c) ==
  /\ Go(c, "sync", "js")
  /\ UNCHANGED <<kernelVars, netVars, activeThreads, cdps, connLive, mem,
                 inbox, terminated, js, kill, hangs>>

\* Fault: the nested drain does not latch terminated.
FaultSyncDrain(c) ==
  \E i \in 1 .. Len(inbox[c]) :
    /\ AllowDuringSyncWait(inbox[c][i])
    /\ \A j \in 1 .. i - 1 : ~AllowDuringSyncWait(inbox[c][j])
    /\ inbox' = [inbox EXCEPT ![c] = SubSeq(@, 1, i - 1)
                                       \o SubSeq(@, i + 1, Len(@))]
    /\ Go(c, "sync", IF inbox[c][i] \in Terminal THEN "js" ELSE "sync")
    /\ UNCHANGED <<kernelVars, netVars, activeThreads, cdps, connLive, mem,
                   terminated, js, kill, hangs>>

\* drainInbox(.sync_wait): Inbox.popIf takes the first message that
\* allowDuringSyncWait lets through and leaves the others where they are.
SyncDrain(c) ==
  \E i \in 1 .. Len(inbox[c]) :
    LET m == inbox[c][i]
    IN  /\ AllowDuringSyncWait(m)
        /\ \A j \in 1 .. i - 1 : ~AllowDuringSyncWait(inbox[c][j])
        /\ inbox' = [inbox EXCEPT ![c] = SubSeq(@, 1, i - 1)
                                           \o SubSeq(@, i + 1, Len(@))]
        /\ terminated' = [terminated EXCEPT ![c] = @ \/ m \in Terminal]
        /\ Go(c, "sync", IF m \in Terminal THEN "js" ELSE "sync")
        /\ UNCHANGED <<kernelVars, netVars, activeThreads, cdps, connLive,
                       mem, js, kill, hangs>>

\* Fault: unregisterCdp does not wait for the Network thread.
FaultUnregisterNoWait(c) ==
  /\ MutexFree
  /\ Go(c, "unregister", "untrack")
  /\ link' = [link EXCEPT ![c] = IF @ = "live" THEN "unregistering" ELSE @]
  /\ dirty' = (dirty \/ link[c] = "live")
  /\ UNCHANGED <<kernelVars, listener, accept, shutdown, links, snapshot,
                 ready, cur, verdict, anyRemoved, flush, netPc, activeThreads,
                 cdps, connLive, mem, inbox, terminated, js, kill, hangs>>

\* unregisterCdp up to the point where it returns or waits.
UnregisterCdp(c) ==
  /\ MutexFree
  /\ Go(c, "unregister", IF link[c] = "removed" THEN "untrack" ELSE "waiting")
  /\ link' = [link EXCEPT ![c] = IF @ = "live" THEN "unregistering" ELSE @]
  /\ dirty' = (dirty \/ link[c] = "live")
  /\ UNCHANGED <<kernelVars, listener, accept, shutdown, links, snapshot,
                 ready, cur, verdict, anyRemoved, flush, netPc, activeThreads,
                 cdps, connLive, mem, inbox, terminated, js, kill, hangs>>

\* unregisterCdp after cdp_unregister.wait returned.
Recheck(c) ==
  /\ MutexFree
  /\ Go(c, "woken", IF link[c] = "removed" THEN "untrack" ELSE "waiting")
  /\ UNCHANGED <<kernelVars, netVars, activeThreads, cdps, connLive, mem,
                 inbox, terminated, js, kill, hangs>>

\* Fault: the connection stays in cdps.
FaultNotUntracked(c) ==
  /\ Go(c, "untrack", "deinit")
  /\ UNCHANGED <<kernelVars, netVars, activeThreads, cdps, connLive, mem,
                 inbox, terminated, js, kill, hangs>>

Untrack(c) ==
  /\ Go(c, "untrack", "deinit")
  /\ cdps' = cdps \ {c}
  /\ UNCHANGED <<kernelVars, netVars, activeThreads, connLive, mem, inbox,
                 terminated, js, kill, hangs>>

\* CDP.deinit and cdp_pool.destroy
Deinit(c) ==
  /\ Go(c, "deinit", "close")
  /\ mem' = [mem EXCEPT ![c] = "freed"]
  /\ UNCHANGED <<kernelVars, netVars, activeThreads, cdps, connLive, inbox,
                 terminated, js, kill, hangs>>

CloseSocket(c) ==
  /\ Go(c, "close", "leave")
  /\ fd' = [fd EXCEPT ![c] = "closed"]
  /\ UNCHANGED <<backlog, eof, budget, netVars, activeThreads, cdps, connLive,
                 mem, inbox, terminated, js, kill, hangs>>

Leave(c) ==
  /\ Go(c, "leave", "done")
  /\ activeThreads' = activeThreads - 1
  /\ UNCHANGED <<kernelVars, netVars, cdps, connLive, mem, inbox, terminated,
                 js, kill, hangs>>

\* The steps a scheduled worker takes by itself; SyncResponse waits for the
\* other end of a request and SyncRequest is the script's choice.
WorkerStep(c) ==
  \/ InitCdp(c) \/ InitFails(c) \/ Track(c) \/ Handshake(c) \/ GoLive(c)
  \/ RegisterCdp(c) \/ CheckShutdown(c) \/ Tick(c)
  \/ DrainEmpty(c) \/ DrainCommand(c) \/ DrainOther(c) \/ DrainTerminal(c)
  \/ JsReturn(c) \/ SyncDrain(c)
  \/ UnregisterCdp(c) \/ Recheck(c)
  \/ Untrack(c) \/ Deinit(c) \/ CloseSocket(c) \/ Leave(c)

-----------------------------------------------------------------------------
(* The signal handler and the main thread.                                 *)

\* Server.shutdown: unbind, then every tracked connection.
ServerShutdown ==
  /\ accept' = FALSE
  /\ kill' = [c \in Conns |-> kill[c] \/ (c \in cdps /\ connLive[c])]
  /\ eof' = [c \in Conns |-> eof[c] \/ c \in cdps]
  /\ UNCHANGED <<backlog, fd, budget, listener, shutdown, links, link, dirty,
                 snapshot, ready, cur, verdict, anyRemoved, flush, netPc,
                 activeThreads, cdps, connLive, mem, inbox, terminated, js,
                 hangs, pc>>

\* The first listener, Network.stop.
SigStop ==
  /\ sigPc = "idle"
  /\ sigPc' = "stopping"
  /\ shutdown' = TRUE
  /\ UNCHANGED <<kernelVars, listener, accept, links, link, dirty, snapshot,
                 ready, cur, verdict, anyRemoved, flush, netPc, workerVars,
                 mainPc>>

\* The second listener.
SigShutdown ==
  /\ sigPc = "stopping"
  /\ sigPc' = "done"
  /\ ServerShutdown
  /\ UNCHANGED mainPc

\* Network.run returned: Server.deinit shuts down again and waits.
MainDeinit ==
  /\ mainPc = "run" /\ netPc = "exited"
  /\ mainPc' = "draining"
  /\ ServerShutdown
  /\ UNCHANGED sigPc

\* Fault: Server.deinit does not wait for the workers.
FaultFreeAtOnce ==
  /\ mainPc = "draining"
  /\ mainPc' = "freed"
  /\ UNCHANGED <<kernelVars, netVars, workerVars, sigPc>>

MainFree ==
  /\ mainPc = "draining" /\ activeThreads = 0
  /\ mainPc' = "freed"
  /\ UNCHANGED <<kernelVars, netVars, workerVars, sigPc>>

Next ==
  \/ Network
  \/ \E c \in Conns :
       \/ PeerConnect(c) \/ PeerClose(c)
       \/ WorkerStep(c) \/ SyncRequest(c) \/ SyncResponse(c)
  \/ SigStop \/ SigShutdown \/ MainDeinit \/ MainFree

Spec == Init /\ [][Next]_vars

\* Every thread keeps running, and a worker that waits for cdp_mutex gets it
\* one day: the Network thread releases it in every round.  Nothing is
\* assumed of the peer, of the signal, of a request's answer, or of a script
\* that never returns.
Fairness ==
  /\ WF_vars(Network)
  /\ \A c \in Conns :
       /\ WF_vars(WorkerStep(c))
       /\ SF_vars(RegisterCdp(c) \/ UnregisterCdp(c) \/ Recheck(c))
  /\ WF_vars(SigShutdown) /\ WF_vars(MainDeinit) /\ WF_vars(MainFree)

FairSpec == Spec /\ Fairness
=============================================================================
