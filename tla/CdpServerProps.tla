--------------------------- MODULE CdpServerProps ---------------------------
(***************************************************************************)
(* What the handling of CDP connections has to guarantee.                  *)
(***************************************************************************)
EXTENDS CdpServer

-----------------------------------------------------------------------------
(* Safety.                                                                 *)

\* The Network thread never touches a CDP its worker has freed: the links it
\* holds, the snapshot entries processCdpEvents dereferences and the link it
\* is reading are all alive (CdpLink and unregisterCdp, network/Network.zig).
NetworkTouchesLive ==
  /\ \A c \in links : mem[c] = "alive"
  /\ netPc = "scan" => \A c \in snapshot : mem[c] = "alive"
  /\ cur # NoConn => link[cur] = "live" /\ cur \in links

\* poll() is never given the descriptor of a socket its worker has closed,
\* which the kernel may have given to somebody else by then.
PolledFdsOpen ==
  netPc = "poll" => \A c \in snapshot : fd[c] = "open"

\* Server.shutdown walks cdps from the signal handler's thread: whatever it
\* finds there is alive and its socket is not closed yet.
TrackedIsUsable ==
  \A c \in cdps : mem[c] = "alive" /\ fd[c] = "open"

\* active_threads counts the workers that still use the server, never more
\* than max_connections, and so the poll snapshot, sized for that many links,
\* cannot overflow (the assertion of prepareCdpPollFds).
SlotsAccounted ==
  /\ activeThreads = Cardinality({c \in Conns : pc[c] \in Running})
  /\ activeThreads <= MaxConnections
  /\ Cardinality(links) <= MaxConnections

Announced(s) == \E i \in 1 .. Len(s) : s[i] \in Terminal

HasTerminal(c) == Announced(inbox[c])

\* A worker whose link the Network thread dropped is told: as long as it
\* ticks, the message that ends it is in its inbox or was already seen.
DropIsAnnounced ==
  \A c \in Conns :
    link[c] = "removed" /\ pc[c] \in Ticking => terminated[c] \/ HasTerminal(c)

NothingFollows(s) == \A i \in 1 .. Len(s) - 1 : s[i] \notin Terminal

\* Nothing follows the message that ends the worker, and so there is at most
\* one such message: the disconnect is "no more messages will arrive on this
\* inbox" (Inbox.zig, Message.Payload).
TerminalIsLast == \A c \in Conns : NothingFollows(inbox[c])

\* Server.deinit frees the server only when no worker uses it any more.
FreedLast ==
  mainPc = "freed" =>
    /\ \A c \in Conns : pc[c] \in {"absent", "refused", "done"}
    /\ links = {} /\ cdps = {}

-----------------------------------------------------------------------------
(* Liveness.                                                               *)

\* A worker whose peer is gone ends, if the network loop keeps running: the
\* drop ends the script that runs and the message in the inbox the loop.
GoneWorkerEnds ==
  \A c \in Conns :
    (eof[c] /\ pc[c] \in Running) ~> (pc[c] = "done" \/ netPc = "exited")

\* A worker left behind by the network loop: it waits in unregisterCdp and no
\* thread is left to drop its link.
Stranded(c) == netPc = "exited" /\ c \in links /\ pc[c] = "waiting"

\* Once stop() was called, the server is freed; the only worker that can keep
\* it from that is one stranded in unregisterCdp, never one that still ticks.
StopEndsOrStrands ==
  shutdown ~> (mainPc = "freed" \/ \E c \in Conns : Stranded(c))

\* Once stop() was called, the server is freed (shutdownCdpLinks and the
\* shutdown check of handleConnection are there for it).
StopEnds == shutdown ~> (mainPc = "freed")

\* The close message in the inbox is enough to end the worker (dropCdp).
CloseEndsWorker ==
  \A c \in Conns :
    (\E i \in 1 .. Len(inbox[c]) : inbox[c][i] = "close")
      ~> (pc[c] = "done" \/ netPc = "exited")

-----------------------------------------------------------------------------
(* Refinement: the server implements the promise of CdpReadSide.           *)

\* The owner of the read side of a worker whose link is not in cdp_links.
Owner(place) ==
  IF place \in {"absent", "refused"} THEN "none"
  ELSE IF place \in {"init", "track", "handshake", "golive", "register"}
    THEN "worker" ELSE "nobody"

Reader(c) ==
  IF mem[c] = "freed" THEN "released"
  ELSE IF c \in links THEN "network" ELSE Owner(pc[c])

ReadSide == INSTANCE CdpReadSide WITH
  reader <- [c \in Conns |-> Reader(c)],
  taken  <- [c \in Conns |-> MaxFrames - budget[c]]

\* One reader at a time, and nothing freed under the Network thread.
ImplementsReadSide == ReadSide!Spec
=============================================================================
