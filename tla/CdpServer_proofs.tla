-------------------------- MODULE CdpServer_proofs --------------------------
(***************************************************************************)
(* Proofs of the safety properties of CdpServerProps for every set of      *)
(* connections and every bound, and that the server implements the         *)
(* abstract hand-over of CdpReadSide.                                      *)
(*                                                                         *)
(* The properties are not inductive.  Who may touch what is decided by     *)
(* where the worker is in handleConnection, what state its link is in and  *)
(* where the Network thread is in its round; WorkerInv, LinkInv, RoundInv  *)
(* and InboxInv say how these go together.                                 *)
(***************************************************************************)
EXTENDS CdpServerProps, FiniteSetTheorems, SequenceTheorems, TLAPS

USE DEF vars, kernelVars, netVars, workerVars

-----------------------------------------------------------------------------
(* The inductive invariant.                                                *)

Counting == {c \in Conns : pc[c] \in Running}

\* active_threads counts the running workers, and the server is only freed
\* when there are none left and the network loop is over.
CountInv ==
  /\ activeThreads = Cardinality(Counting)
  /\ activeThreads <= MaxConnections
  /\ mainPc # "run" => netPc = "exited"
  /\ mainPc = "freed" => activeThreads = 0

\* Where a worker is when its link may be in cdp_links.
Held == {"check", "tick", "drain", "js", "sync", "unregister", "waiting",
         "woken"}

Before == {"track", "handshake", "golive", "register"}

Tracked == (Before \ {"track"}) \union Held \union {"untrack"}

HasMem == Before \union Held \union {"untrack", "deinit"}

HasFd == HasMem \union {"init", "close"}

\* What a worker owns is decided by where it is; there is none before the
\* connection is accepted.
WorkerInv ==
  \A c \in Conns :
    /\ c \in backlog => pc[c] = "absent"
    /\ pc[c] \in {"absent", "refused", "init"} => mem[c] = "none"
    /\ pc[c] \in {"close", "leave", "done"} => mem[c] = "freed"
    /\ pc[c] \in HasMem => mem[c] = "alive"
    /\ pc[c] \in HasFd => fd[c] = "open"
    /\ c \in cdps => pc[c] \in Tracked

\* A link is in cdp_links from registerCdp until the Network thread drops it,
\* and its worker cannot leave unregisterCdp before that.
LinkInv ==
  \A c \in Conns :
    /\ c \in links => pc[c] \in Held /\ link[c] \in {"live", "unregistering"}
    /\ pc[c] \in {"absent", "refused", "init"} => link[c] = "none"
    /\ pc[c] \in Before => link[c] = "live"
    /\ link[c] = "unregistering" => pc[c] \in {"waiting", "woken"}
    /\ pc[c] \in Held => c \in links \/ link[c] = "removed"

\* What the Network thread remembers from one step of its round to the next.
RoundInv ==
  /\ ~dirty => snapshot \subseteq links
  /\ netPc \in {"poll", "accept1", "events"} => snapshot \subseteq links
  /\ netPc = "scan" => \A c \in snapshot : pc[c] \in Held
  /\ netPc \in {"accept1", "events", "scan"} => ready \subseteq snapshot
  /\ cur # NoConn => netPc = "scan" /\ cur \in links /\ link[cur] = "live"
  /\ cur = NoConn => verdict = "none"

\* The message that ends a worker is pushed once, when its link is dropped or
\* about to be.
Ending(c) == cur = c /\ verdict = "closed"

InboxInv ==
  \A c \in Conns :
    /\ link[c] # "removed" /\ ~Ending(c) => ~HasTerminal(c)
    /\ Ending(c) => terminated[c] \/ HasTerminal(c)
    /\ link[c] = "removed" /\ pc[c] \in Ticking \union {"check"} =>
         terminated[c] \/ HasTerminal(c)

IInv == TypeOK /\ CountInv /\ WorkerInv /\ LinkInv /\ RoundInv

MessageInv == InboxInv /\ TerminalIsLast

-----------------------------------------------------------------------------
(* Types and counting.                                                     *)

\* The running workers are finitely many.
LEMMA RunningWorkers ==
  ASSUME TypeOK
  PROVE  IsFiniteSet(Counting) /\ Cardinality(Counting) \in Nat
  BY ConnsAssumption, FS_Subset, FS_CardinalityType DEF Counting

\* A worker that runs counts for one at least.
LEMMA RunningCounts ==
  ASSUME IInv, NEW c \in Conns, pc[c] \in Running
  PROVE  activeThreads \in Nat \ {0}
<1>1. c \in Counting
  BY DEF Counting
<1>2. Cardinality(Counting) # 0
  BY <1>1, RunningWorkers, FS_EmptySet DEF IInv
<1>3. QED
  BY <1>2, RunningWorkers DEF IInv, CountInv

\* What dropCdp's notify writes is of the right type.
LEMMA NotifyType ==
  ASSUME TypeOK, NEW S, Notify(S)
  PROVE  kill' \in [Conns -> BOOLEAN] /\ inbox' \in [Conns -> Seq(Messages)]
<1>1. kill' \in [Conns -> BOOLEAN]
  BY Zenon DEF Notify
<1>2. \A d \in Conns : Append(inbox[d], "disconnect") \in Seq(Messages)
  BY DEF TypeOK, Messages
<1>3. inbox' \in [Conns -> Seq(Messages)]
  BY <1>2 DEF Notify, TypeOK
<1>4. QED
  BY <1>1, <1>3

\* What Server.shutdown writes is of the right type.
LEMMA ShutdownType ==
  ASSUME TypeOK, ServerShutdown
  PROVE  kill' \in [Conns -> BOOLEAN] /\ eof' \in [Conns -> BOOLEAN]
  BY Zenon DEF TypeOK, ServerShutdown

\* Type correctness.  The count of the workers is needed for active_threads,
\* which would wrap around below zero.
LEMMA TypeStep ==
  ASSUME IInv, [Next]_vars
  PROVE  TypeOK'
<1>1. CASE UNCHANGED vars
  BY <1>1 DEF IInv, TypeOK
<1>2. ASSUME NetTop PROVE TypeOK'
  <2>1. listener' \in BOOLEAN
    BY <1>2, Zenon DEF NetTop
  <2>2. backlog' \subseteq Conns /\ snapshot' \subseteq Conns
    BY <1>2 DEF NetTop, TypeOK, IInv
  <2>3. QED
    BY <1>2, <2>1, <2>2, ZenonT(30) DEF NetTop, TypeOK, IInv
<1>3. ASSUME NetPoll PROVE TypeOK'
  BY <1>3, BoundsAssumption DEF NetPoll, TypeOK, IInv, WorkerPcs, Messages
<1>4. ASSUME NetAcceptDone PROVE TypeOK'
  BY <1>4, BoundsAssumption DEF NetAcceptDone, TypeOK, IInv, WorkerPcs,
       Messages
<1>5. ASSUME NetUnregisterPass PROVE TypeOK'
  BY <1>5, BoundsAssumption, SMTT(30) DEF NetUnregisterPass, DropLinks, TypeOK, IInv,
       WorkerPcs, Messages
<1>6. ASSUME NetEventsDone PROVE TypeOK'
  <2>1. pc' \in [Conns -> WorkerPcs]
    BY <1>6 DEF NetEventsDone, Broadcast, TypeOK, WorkerPcs, IInv
  <2>2. QED
    BY <1>6, <2>1, ZenonT(30) DEF NetEventsDone, TypeOK, IInv
<1>7. ASSUME NetContinue PROVE TypeOK'
  BY <1>7, BoundsAssumption DEF NetContinue, TypeOK, IInv, WorkerPcs,
       Messages
<1>8. ASSUME NetShutdown PROVE TypeOK'
  <2>1. kill' \in [Conns -> BOOLEAN] /\ inbox' \in [Conns -> Seq(Messages)]
    BY <1>8, NotifyType DEF NetShutdown, IInv
  <2>2. pc' \in [Conns -> WorkerPcs]
    BY <1>8 DEF NetShutdown, Broadcast, TypeOK, WorkerPcs, IInv
  <2>3. flush' \in 0 .. MaxFlush /\ netPc' \in {"exited", "top"}
    BY <1>8, BoundsAssumption DEF NetShutdown, TypeOK, IInv
  <2>4. dirty' \in BOOLEAN
    BY <1>8, Zenon DEF NetShutdown, DropLinks
  <2>5. links' \subseteq Conns
        /\ link' \in [Conns -> {"none", "live", "unregistering", "removed"}]
    BY <1>8 DEF NetShutdown, DropLinks, TypeOK, IInv
  <2>6. UNCHANGED <<kernelVars, listener, accept, shutdown, snapshot, ready,
                    cur, verdict, anyRemoved, activeThreads, cdps, connLive,
                    mem, terminated, js, hangs, sigPc, mainPc>>
    BY <1>8 DEF NetShutdown
  <2>7. QED
    BY <2>1, <2>2, <2>3, <2>4, <2>5, <2>6, SMTT(60) DEF TypeOK, IInv
<1>9. ASSUME SigStop PROVE TypeOK'
  BY <1>9, BoundsAssumption DEF SigStop, TypeOK, IInv, WorkerPcs, Messages
<1>10. ASSUME SigShutdown PROVE TypeOK'
  <2>1. kill' \in [Conns -> BOOLEAN] /\ eof' \in [Conns -> BOOLEAN]
    BY <1>10, ShutdownType DEF SigShutdown, IInv
  <2>2. accept' \in BOOLEAN
    BY <1>10 DEF SigShutdown, ServerShutdown
  <2>3. /\ sigPc' = "done"
        /\ UNCHANGED <<backlog, fd, budget, listener, shutdown, links, link,
                       dirty, snapshot, ready, cur, verdict, anyRemoved, flush,
                       netPc, activeThreads, cdps, connLive, mem, inbox,
                       terminated, js, hangs, pc, mainPc>>
    BY <1>10 DEF SigShutdown, ServerShutdown
  <2>4. QED
    BY <2>1, <2>2, <2>3 DEF TypeOK, IInv
<1>11. ASSUME MainDeinit PROVE TypeOK'
  <2>1. kill' \in [Conns -> BOOLEAN] /\ eof' \in [Conns -> BOOLEAN]
    BY <1>11, ShutdownType DEF MainDeinit, IInv
  <2>2. accept' \in BOOLEAN
    BY <1>11 DEF MainDeinit, ServerShutdown
  <2>3. /\ mainPc' = "draining"
        /\ UNCHANGED <<backlog, fd, budget, listener, shutdown, links, link,
                       dirty, snapshot, ready, cur, verdict, anyRemoved, flush,
                       netPc, activeThreads, cdps, connLive, mem, inbox,
                       terminated, js, hangs, pc, sigPc>>
    BY <1>11 DEF MainDeinit, ServerShutdown
  <2>4. QED
    BY <2>1, <2>2, <2>3 DEF TypeOK, IInv
<1>12. ASSUME MainFree PROVE TypeOK'
  BY <1>12, BoundsAssumption DEF MainFree, TypeOK, IInv, WorkerPcs, Messages
<1>13. ASSUME NEW c \in Conns, NetAccept(c) PROVE TypeOK'
  BY <1>13, BoundsAssumption DEF NetAccept, Accepting, TypeOK, IInv,
       WorkerPcs, Messages
<1>14. ASSUME NEW c \in Conns, NetRefuse(c) PROVE TypeOK'
  BY <1>14, BoundsAssumption DEF NetRefuse, Accepting, TypeOK, IInv,
       WorkerPcs, Messages
<1>15. ASSUME NEW c \in Conns, NetHangup(c) PROVE TypeOK'
  BY <1>15, NotifyType DEF NetHangup, Scanning, DropLinks, TypeOK, IInv
<1>16. ASSUME NEW c \in Conns, NetWouldBlock(c) PROVE TypeOK'
  BY <1>16, BoundsAssumption DEF NetWouldBlock, Scanning, NoNotify, TypeOK,
       IInv, WorkerPcs, Messages
<1>17. ASSUME NEW c \in Conns, NetRead(c) PROVE TypeOK'
  BY <1>17, BoundsAssumption DEF NetRead, Scanning, NoNotify, TypeOK, IInv,
       WorkerPcs, Messages
<1>18. ASSUME NEW c \in Conns, NetReadEnd(c) PROVE TypeOK'
  <2>1. CASE verdict = "keep"
    BY <1>18, <2>1 DEF NetReadEnd, NoNotify, TypeOK, IInv
  <2>2. CASE verdict = "closed"
    BY <1>18, <2>2 DEF NetReadEnd, NoNotify, DropLinks, TypeOK, IInv
  <2>3. CASE verdict = "failed"
    <3>1. kill' \in [Conns -> BOOLEAN] /\ inbox' \in [Conns -> Seq(Messages)]
      BY <1>18, <2>3, NotifyType DEF NetReadEnd, IInv
    <3>2. QED
      BY <1>18, <2>3, <3>1 DEF NetReadEnd, DropLinks, TypeOK, IInv
  <2>4. QED
    BY <1>18, <2>1, <2>2, <2>3 DEF NetReadEnd, TypeOK, IInv
<1>19. ASSUME NEW c \in Conns, PeerConnect(c) PROVE TypeOK'
  BY <1>19, BoundsAssumption DEF PeerConnect, TypeOK, IInv, WorkerPcs,
       Messages
<1>20. ASSUME NEW c \in Conns, PeerClose(c) PROVE TypeOK'
  BY <1>20, BoundsAssumption DEF PeerClose, TypeOK, IInv, WorkerPcs, Messages
<1>21. ASSUME NEW c \in Conns, InitCdp(c) PROVE TypeOK'
  BY <1>21, BoundsAssumption DEF InitCdp, Go, TypeOK, IInv, WorkerPcs,
       Messages
<1>22. ASSUME NEW c \in Conns, InitFails(c) PROVE TypeOK'
  BY <1>22, BoundsAssumption DEF InitFails, Go, TypeOK, IInv, WorkerPcs,
       Messages
<1>23. ASSUME NEW c \in Conns, Track(c) PROVE TypeOK'
  BY <1>23, BoundsAssumption DEF Track, Go, TypeOK, IInv, WorkerPcs, Messages
<1>24. ASSUME NEW c \in Conns, Handshake(c) PROVE TypeOK'
  BY <1>24, BoundsAssumption DEF Handshake, Go, TypeOK, IInv, WorkerPcs,
       Messages
<1>25. ASSUME NEW c \in Conns, GoLive(c) PROVE TypeOK'
  BY <1>25, BoundsAssumption DEF GoLive, Go, TypeOK, IInv, WorkerPcs,
       Messages
<1>26. ASSUME NEW c \in Conns, RegisterCdp(c) PROVE TypeOK'
  BY <1>26, BoundsAssumption DEF RegisterCdp, Go, MutexFree, TypeOK, IInv,
       WorkerPcs, Messages
<1>27. ASSUME NEW c \in Conns, CheckShutdown(c) PROVE TypeOK'
  BY <1>27, BoundsAssumption DEF CheckShutdown, Go, TypeOK, IInv, WorkerPcs,
       Messages
<1>28. ASSUME NEW c \in Conns, Tick(c) PROVE TypeOK'
  BY <1>28, BoundsAssumption DEF Tick, Go, TypeOK, IInv, WorkerPcs, Messages
<1>29. ASSUME NEW c \in Conns, DrainEmpty(c) PROVE TypeOK'
  <2>1. pc' = [pc EXCEPT ![c] = "tick"]
        /\ UNCHANGED <<sigPc, mainPc, kernelVars, netVars, activeThreads, cdps,
                       connLive, mem, inbox, terminated, js, kill, hangs>>
    BY <1>29 DEF DrainEmpty, Go
  <2>2. QED
    BY <2>1 DEF TypeOK, IInv, WorkerPcs
<1>30. ASSUME NEW c \in Conns, DrainCommand(c) PROVE TypeOK'
  <2>1. CASE js' = [js EXCEPT ![c] = "finite"] /\ UNCHANGED hangs
    BY <1>30, <2>1 DEF DrainCommand, Popped, Go, TypeOK, IInv, WorkerPcs
  <2>2. CASE /\ hangs[c] > 0
             /\ js' = [js EXCEPT ![c] = "endless"]
             /\ hangs' = [hangs EXCEPT ![c] = @ - 1]
    BY <1>30, <2>2, BoundsAssumption, SMTT(30)
       DEF DrainCommand, Popped, Go, TypeOK, IInv, WorkerPcs
  <2>3. QED
    BY <1>30, <2>1, <2>2 DEF DrainCommand, StartJs
<1>31. ASSUME NEW c \in Conns, DrainOther(c) PROVE TypeOK'
  BY <1>31, BoundsAssumption DEF DrainOther, Popped, Go, TypeOK, IInv,
       WorkerPcs, Messages
<1>32. ASSUME NEW c \in Conns, DrainTerminal(c) PROVE TypeOK'
  BY <1>32, BoundsAssumption DEF DrainTerminal, Popped, Go, TypeOK, IInv,
       WorkerPcs, Messages
<1>33. ASSUME NEW c \in Conns, JsReturn(c) PROVE TypeOK'
  BY <1>33, BoundsAssumption DEF JsReturn, Go, TypeOK, IInv, WorkerPcs,
       Messages
<1>34. ASSUME NEW c \in Conns, SyncDrain(c) PROVE TypeOK'
  BY <1>34, BoundsAssumption DEF SyncDrain, Go, TypeOK, IInv, WorkerPcs,
       Messages
<1>35. ASSUME NEW c \in Conns, UnregisterCdp(c) PROVE TypeOK'
  BY <1>35, BoundsAssumption DEF UnregisterCdp, Go, MutexFree, TypeOK, IInv,
       WorkerPcs, Messages
<1>36. ASSUME NEW c \in Conns, Recheck(c) PROVE TypeOK'
  BY <1>36, BoundsAssumption DEF Recheck, Go, MutexFree, TypeOK, IInv,
       WorkerPcs, Messages
<1>37. ASSUME NEW c \in Conns, Untrack(c) PROVE TypeOK'
  BY <1>37, BoundsAssumption DEF Untrack, Go, TypeOK, IInv, WorkerPcs,
       Messages
<1>38. ASSUME NEW c \in Conns, Deinit(c) PROVE TypeOK'
  BY <1>38, BoundsAssumption DEF Deinit, Go, TypeOK, IInv, WorkerPcs,
       Messages
<1>39. ASSUME NEW c \in Conns, CloseSocket(c) PROVE TypeOK'
  BY <1>39, BoundsAssumption DEF CloseSocket, Go, TypeOK, IInv, WorkerPcs,
       Messages
<1>40. ASSUME NEW c \in Conns, Leave(c) PROVE TypeOK'
  <2>1. activeThreads' \in Nat
    BY <1>40, RunningCounts DEF Leave, Go, Running, WorkerPcs
  <2>2. QED
    BY <1>40, <2>1 DEF Leave, Go, TypeOK, IInv, WorkerPcs
<1>41. ASSUME NEW c \in Conns, SyncRequest(c) PROVE TypeOK'
  BY <1>41, BoundsAssumption DEF SyncRequest, Go, TypeOK, IInv, WorkerPcs,
       Messages
<1>42. ASSUME NEW c \in Conns, SyncResponse(c) PROVE TypeOK'
  BY <1>42, BoundsAssumption DEF SyncResponse, Go, TypeOK, IInv, WorkerPcs,
       Messages
<1>43. ASSUME NEW c \in Conns, NEW k \in Kinds, NetFrame(c, k) PROVE TypeOK'
  <2>1. budget' \in [Conns -> 0 .. MaxFrames]
    BY <1>43, BoundsAssumption DEF NetFrame, TypeOK, IInv
  <2>2. verdict' \in {"none", "keep", "closed", "failed"}
    BY <1>43 DEF NetFrame, Verdict
  <2>3. inbox' \in [Conns -> Seq(Messages)]
    <3>1. CASE k \in {"pong", "badframe"}
      BY <1>43, <3>1 DEF NetFrame, TypeOK, IInv
    <3>2. CASE k \notin {"pong", "badframe"}
      <4>1. Pushed(k) \in Messages
        BY <3>2, BoundsAssumption DEF FrameKinds, Pushed, Messages
      <4>2. Append(inbox[c], Pushed(k)) \in Seq(Messages)
        BY <4>1 DEF TypeOK, IInv
      <4>3. inbox' = [inbox EXCEPT ![c] = Append(@, Pushed(k))]
        BY <1>43, <3>2 DEF NetFrame
      <4>4. QED
        BY <4>2, <4>3 DEF TypeOK, IInv
    <3>3. QED
      BY <3>1, <3>2
  <2>4. QED
    BY <1>43, <2>1, <2>2, <2>3 DEF NetFrame, TypeOK, IInv
<1>44. QED
  BY <1>1, <1>2, <1>3, <1>4, <1>5, <1>6, <1>7, <1>8, <1>9, <1>10, <1>11,
       <1>12, <1>13, <1>14, <1>15, <1>16, <1>17, <1>18, <1>19, <1>20, <1>21,
       <1>22, <1>23, <1>24, <1>25, <1>26, <1>27, <1>28, <1>29, <1>30, <1>31,
       <1>32, <1>33, <1>34, <1>35, <1>36, <1>37, <1>38, <1>39, <1>40, <1>41,
       <1>42, <1>43 DEF Next, Network, WorkerStep

\* A step that starts and ends no worker.
SameWorkers ==
  /\ Counting' = Counting
  /\ UNCHANGED activeThreads
  /\ mainPc' = "freed" => mainPc = "freed" \/ activeThreads = 0
  /\ mainPc' # "run" => netPc' = "exited"

\* Steps that start and end no worker leave the count alone.
LEMMA SameWorkersCount ==
  ASSUME IInv, SameWorkers
  PROVE  CountInv'
  BY DEF IInv, CountInv, SameWorkers

\* active_threads counts the workers.
LEMMA CountStep ==
  ASSUME IInv, [Next]_vars
  PROVE  CountInv'
<1>1. CASE UNCHANGED vars
  BY <1>1 DEF IInv, CountInv, Counting
<1>2. ASSUME NetTop PROVE SameWorkers
  BY <1>2 DEF NetTop, SameWorkers, IInv, TypeOK, CountInv, WorkerInv,
       Counting, Running, WorkerPcs
<1>3. ASSUME NetPoll PROVE SameWorkers
  BY <1>3 DEF NetPoll, SameWorkers, IInv, TypeOK, CountInv, WorkerInv,
       Counting, Running, WorkerPcs
<1>4. ASSUME NetAcceptDone PROVE SameWorkers
  BY <1>4 DEF NetAcceptDone, SameWorkers, IInv, TypeOK, CountInv, WorkerInv,
       Counting, Running, WorkerPcs
<1>5. ASSUME NetUnregisterPass PROVE SameWorkers
  BY <1>5 DEF NetUnregisterPass, DropLinks, SameWorkers, IInv, TypeOK,
       CountInv, WorkerInv, Counting, Running, WorkerPcs
<1>6. ASSUME NetEventsDone PROVE SameWorkers
  BY <1>6 DEF NetEventsDone, Broadcast, SameWorkers, IInv, TypeOK, CountInv,
       WorkerInv, Counting, Running, WorkerPcs
<1>7. ASSUME NetContinue PROVE SameWorkers
  BY <1>7 DEF NetContinue, SameWorkers, IInv, TypeOK, CountInv, WorkerInv,
       Counting, Running, WorkerPcs
<1>8. ASSUME NetShutdown PROVE SameWorkers
  BY <1>8 DEF NetShutdown, DropLinks, Notify, Broadcast, SameWorkers, IInv,
       TypeOK, CountInv, WorkerInv, Counting, Running, WorkerPcs
<1>9. ASSUME SigStop PROVE SameWorkers
  BY <1>9 DEF SigStop, SameWorkers, IInv, TypeOK, CountInv, WorkerInv,
       Counting, Running, WorkerPcs
<1>10. ASSUME SigShutdown PROVE SameWorkers
  BY <1>10 DEF SigShutdown, ServerShutdown, SameWorkers, IInv, TypeOK,
       CountInv, WorkerInv, Counting, Running, WorkerPcs
<1>11. ASSUME MainDeinit PROVE SameWorkers
  BY <1>11 DEF MainDeinit, ServerShutdown, SameWorkers, IInv, TypeOK,
       CountInv, WorkerInv, Counting, Running, WorkerPcs
<1>12. ASSUME MainFree PROVE SameWorkers
  BY <1>12 DEF MainFree, SameWorkers, IInv, TypeOK, CountInv, WorkerInv,
       Counting, Running, WorkerPcs
<1>13. ASSUME NEW c \in Conns, NetAccept(c) PROVE CountInv'
  <2>1. Counting' = Counting \union {c} /\ c \notin Counting
    BY <1>13 DEF NetAccept, Accepting, Counting, Running, WorkerPcs, IInv,
              TypeOK, WorkerInv
  <2>2. Cardinality(Counting') = Cardinality(Counting) + 1
    BY <2>1, RunningWorkers, FS_AddElement DEF IInv
  <2>3. activeThreads' = activeThreads + 1 /\ activeThreads < MaxConnections
    BY <1>13 DEF NetAccept
  <2>4. mainPc' = mainPc /\ netPc' = netPc /\ netPc # "exited"
    BY <1>13 DEF NetAccept, Accepting
  <2>5. QED
    BY <2>2, <2>3, <2>4, BoundsAssumption DEF CountInv, IInv, TypeOK
<1>14. ASSUME NEW c \in Conns, NetRefuse(c) PROVE SameWorkers
  BY <1>14 DEF NetRefuse, Accepting, SameWorkers, IInv, TypeOK, CountInv,
       WorkerInv, Counting, Running, WorkerPcs
<1>15. ASSUME NEW c \in Conns, NetHangup(c) PROVE SameWorkers
  BY <1>15 DEF NetHangup, Scanning, DropLinks, Notify, SameWorkers, IInv,
       TypeOK, CountInv, WorkerInv, Counting, Running, WorkerPcs
<1>16. ASSUME NEW c \in Conns, NetWouldBlock(c) PROVE SameWorkers
  BY <1>16 DEF NetWouldBlock, Scanning, NoNotify, SameWorkers, IInv, TypeOK,
       CountInv, WorkerInv, Counting, Running, WorkerPcs
<1>17. ASSUME NEW c \in Conns, NetRead(c) PROVE SameWorkers
  BY <1>17 DEF NetRead, Scanning, NoNotify, SameWorkers, IInv, TypeOK,
       CountInv, WorkerInv, Counting, Running, WorkerPcs
<1>18. ASSUME NEW c \in Conns, NetReadEnd(c) PROVE SameWorkers
  BY <1>18 DEF NetReadEnd, DropLinks, Notify, NoNotify, SameWorkers, IInv,
       TypeOK, CountInv, WorkerInv, Counting, Running, WorkerPcs
<1>19. ASSUME NEW c \in Conns, PeerConnect(c) PROVE SameWorkers
  BY <1>19 DEF PeerConnect, SameWorkers, IInv, TypeOK, CountInv, WorkerInv,
       Counting, Running, WorkerPcs
<1>20. ASSUME NEW c \in Conns, PeerClose(c) PROVE SameWorkers
  BY <1>20 DEF PeerClose, SameWorkers, IInv, TypeOK, CountInv, WorkerInv,
       Counting, Running, WorkerPcs
<1>21. ASSUME NEW c \in Conns, InitCdp(c) PROVE SameWorkers
  BY <1>21 DEF InitCdp, Go, SameWorkers, IInv, TypeOK, CountInv, WorkerInv,
       Counting, Running, WorkerPcs
<1>22. ASSUME NEW c \in Conns, InitFails(c) PROVE SameWorkers
  BY <1>22 DEF InitFails, Go, SameWorkers, IInv, TypeOK, CountInv, WorkerInv,
       Counting, Running, WorkerPcs
<1>23. ASSUME NEW c \in Conns, Track(c) PROVE SameWorkers
  BY <1>23 DEF Track, Go, SameWorkers, IInv, TypeOK, CountInv, WorkerInv,
       Counting, Running, WorkerPcs
<1>24. ASSUME NEW c \in Conns, Handshake(c) PROVE SameWorkers
  BY <1>24 DEF Handshake, Go, SameWorkers, IInv, TypeOK, CountInv, WorkerInv,
       Counting, Running, WorkerPcs
<1>25. ASSUME NEW c \in Conns, GoLive(c) PROVE SameWorkers
  BY <1>25 DEF GoLive, Go, SameWorkers, IInv, TypeOK, CountInv, WorkerInv,
       Counting, Running, WorkerPcs
<1>26. ASSUME NEW c \in Conns, RegisterCdp(c) PROVE SameWorkers
  BY <1>26 DEF RegisterCdp, Go, MutexFree, SameWorkers, IInv, TypeOK,
       CountInv, WorkerInv, Counting, Running, WorkerPcs
<1>27. ASSUME NEW c \in Conns, CheckShutdown(c) PROVE SameWorkers
  BY <1>27 DEF CheckShutdown, Go, SameWorkers, IInv, TypeOK, CountInv,
       WorkerInv, Counting, Running, WorkerPcs
<1>28. ASSUME NEW c \in Conns, Tick(c) PROVE SameWorkers
  BY <1>28 DEF Tick, Go, SameWorkers, IInv, TypeOK, CountInv, WorkerInv,
       Counting, Running, WorkerPcs
<1>29. ASSUME NEW c \in Conns, DrainEmpty(c) PROVE SameWorkers
  BY <1>29 DEF DrainEmpty, Go, SameWorkers, IInv, TypeOK, CountInv,
       WorkerInv, Counting, Running, WorkerPcs
<1>30. ASSUME NEW c \in Conns, DrainCommand(c) PROVE SameWorkers
  BY <1>30 DEF DrainCommand, Popped, Go, SameWorkers, IInv, TypeOK, CountInv,
       WorkerInv, Counting, Running, WorkerPcs
<1>31. ASSUME NEW c \in Conns, DrainOther(c) PROVE SameWorkers
  BY <1>31 DEF DrainOther, Popped, Go, SameWorkers, IInv, TypeOK, CountInv,
       WorkerInv, Counting, Running, WorkerPcs
<1>32. ASSUME NEW c \in Conns, DrainTerminal(c) PROVE SameWorkers
  BY <1>32 DEF DrainTerminal, Popped, Go, SameWorkers, IInv, TypeOK,
       CountInv, WorkerInv, Counting, Running, WorkerPcs
<1>33. ASSUME NEW c \in Conns, JsReturn(c) PROVE SameWorkers
  BY <1>33 DEF JsReturn, Go, SameWorkers, IInv, TypeOK, CountInv, WorkerInv,
       Counting, Running, WorkerPcs
<1>34. ASSUME NEW c \in Conns, SyncDrain(c) PROVE SameWorkers
  BY <1>34 DEF SyncDrain, Go, SameWorkers, IInv, TypeOK, CountInv, WorkerInv,
       Counting, Running, WorkerPcs
<1>35. ASSUME NEW c \in Conns, UnregisterCdp(c) PROVE SameWorkers
  BY <1>35 DEF UnregisterCdp, Go, MutexFree, SameWorkers, IInv, TypeOK,
       CountInv, WorkerInv, Counting, Running, WorkerPcs
<1>36. ASSUME NEW c \in Conns, Recheck(c) PROVE SameWorkers
  BY <1>36 DEF Recheck, Go, MutexFree, SameWorkers, IInv, TypeOK, CountInv,
       WorkerInv, Counting, Running, WorkerPcs
<1>37. ASSUME NEW c \in Conns, Untrack(c) PROVE SameWorkers
  BY <1>37 DEF Untrack, Go, SameWorkers, IInv, TypeOK, CountInv, WorkerInv,
       Counting, Running, WorkerPcs
<1>38. ASSUME NEW c \in Conns, Deinit(c) PROVE SameWorkers
  BY <1>38 DEF Deinit, Go, SameWorkers, IInv, TypeOK, CountInv, WorkerInv,
       Counting, Running, WorkerPcs
<1>39. ASSUME NEW c \in Conns, CloseSocket(c) PROVE SameWorkers
  BY <1>39 DEF CloseSocket, Go, SameWorkers, IInv, TypeOK, CountInv,
       WorkerInv, Counting, Running, WorkerPcs
<1>40. ASSUME NEW c \in Conns, Leave(c) PROVE CountInv'
  <2>1. Counting' = Counting \ {c} /\ c \in Counting
    BY <1>40 DEF Leave, Go, Counting, Running, WorkerPcs, IInv, TypeOK
  <2>2. Cardinality(Counting') = Cardinality(Counting) - 1
    BY <2>1, RunningWorkers, FS_RemoveElement DEF IInv
  <2>3. activeThreads' = activeThreads - 1 /\ activeThreads \in Nat \ {0}
    BY <1>40, RunningCounts DEF Leave, Go, Running, WorkerPcs
  <2>4. mainPc' = mainPc /\ netPc' = netPc
    BY <1>40 DEF Leave, Go
  <2>5. QED
    BY <2>2, <2>3, <2>4, BoundsAssumption DEF CountInv, IInv, TypeOK
<1>41. ASSUME NEW c \in Conns, SyncRequest(c) PROVE SameWorkers
  BY <1>41 DEF SyncRequest, Go, SameWorkers, IInv, TypeOK, CountInv,
       WorkerInv, Counting, Running, WorkerPcs
<1>42. ASSUME NEW c \in Conns, SyncResponse(c) PROVE SameWorkers
  BY <1>42 DEF SyncResponse, Go, SameWorkers, IInv, TypeOK, CountInv,
       WorkerInv, Counting, Running, WorkerPcs
<1>43. ASSUME NEW c \in Conns, NEW k \in Kinds, NetFrame(c, k)
       PROVE  SameWorkers
  BY <1>43 DEF NetFrame, SameWorkers, IInv, TypeOK, CountInv, WorkerInv,
       Counting, Running, WorkerPcs
<1>44. QED
  BY <1>1, <1>2, <1>3, <1>4, <1>5, <1>6, <1>7, <1>8, <1>9, <1>10, <1>11,
       <1>12, <1>13, <1>14, <1>15, <1>16, <1>17, <1>18, <1>19, <1>20, <1>21,
       <1>22, <1>23, <1>24, <1>25, <1>26, <1>27, <1>28, <1>29, <1>30, <1>31,
       <1>32, <1>33, <1>34, <1>35, <1>36, <1>37, <1>38, <1>39, <1>40, <1>41,
       <1>42, <1>43, SameWorkersCount DEF Next, Network, WorkerStep

-----------------------------------------------------------------------------
(* Workers, links and the Network thread.                                  *)

\* The links follow their workers.
LEMMA LinkStep ==
  ASSUME IInv, [Next]_vars
  PROVE  LinkInv'
<1>1. CASE UNCHANGED <<links, link, pc>>
  BY <1>1 DEF IInv, LinkInv
<1>2. ASSUME NetUnregisterPass PROVE LinkInv'
  BY <1>2 DEF NetUnregisterPass, DropLinks, TypeOK, IInv, LinkInv, RoundInv,
       Held, Before, WorkerPcs
<1>3. ASSUME NetEventsDone PROVE LinkInv'
  BY <1>3 DEF NetEventsDone, Broadcast, TypeOK, IInv, LinkInv, RoundInv,
       Held, Before, WorkerPcs
<1>4. ASSUME NetShutdown PROVE LinkInv'
  BY <1>4 DEF NetShutdown, DropLinks, Notify, Broadcast, TypeOK, IInv,
       LinkInv, RoundInv, Held, Before, WorkerPcs
<1>5. ASSUME NEW c \in Conns, NetAccept(c) PROVE LinkInv'
  BY <1>5 DEF NetAccept, Accepting, TypeOK, IInv, WorkerInv,
         LinkInv, Held, Before
<1>6. ASSUME NEW c \in Conns, NetRefuse(c) PROVE LinkInv'
  BY <1>6 DEF NetRefuse, Accepting, TypeOK, IInv, WorkerInv,
         LinkInv, Held, Before
<1>7. ASSUME NEW c \in Conns, NetHangup(c) PROVE LinkInv'
  BY <1>7 DEF NetHangup, Scanning, DropLinks, Notify, TypeOK, IInv, LinkInv,
       RoundInv, Held, Before, WorkerPcs
<1>8. ASSUME NEW c \in Conns, NetReadEnd(c) PROVE LinkInv'
  BY <1>8 DEF NetReadEnd, DropLinks, Notify, NoNotify, TypeOK, IInv, LinkInv,
       RoundInv, Held, Before, WorkerPcs
<1>9. ASSUME NEW c \in Conns, InitCdp(c) PROVE LinkInv'
  BY <1>9 DEF InitCdp, Go, TypeOK, IInv, LinkInv, RoundInv, Held, Before,
       WorkerPcs
<1>10. ASSUME NEW c \in Conns, InitFails(c) PROVE LinkInv'
  BY <1>10 DEF InitFails, Go, TypeOK, IInv, LinkInv, RoundInv, Held, Before,
       WorkerPcs
<1>11. ASSUME NEW c \in Conns, Track(c) PROVE LinkInv'
  BY <1>11 DEF Track, Go, TypeOK, IInv, LinkInv, RoundInv, Held, Before,
       WorkerPcs
<1>12. ASSUME NEW c \in Conns, Handshake(c) PROVE LinkInv'
  BY <1>12 DEF Handshake, Go, TypeOK, IInv, LinkInv, RoundInv, Held, Before,
       WorkerPcs
<1>13. ASSUME NEW c \in Conns, GoLive(c) PROVE LinkInv'
  BY <1>13 DEF GoLive, Go, TypeOK, IInv, LinkInv, RoundInv, Held, Before,
       WorkerPcs
<1>14. ASSUME NEW c \in Conns, RegisterCdp(c) PROVE LinkInv'
  BY <1>14 DEF RegisterCdp, Go, MutexFree, TypeOK, IInv, LinkInv, RoundInv,
       Held, Before, WorkerPcs
<1>15. ASSUME NEW c \in Conns, CheckShutdown(c) PROVE LinkInv'
  BY <1>15 DEF CheckShutdown, Go, TypeOK, IInv, LinkInv, RoundInv, Held,
       Before, WorkerPcs
<1>16. ASSUME NEW c \in Conns, Tick(c) PROVE LinkInv'
  BY <1>16 DEF Tick, Go, TypeOK, IInv, LinkInv, RoundInv, Held, Before,
       WorkerPcs
<1>17. ASSUME NEW c \in Conns, DrainEmpty(c) PROVE LinkInv'
  BY <1>17 DEF DrainEmpty, Go, TypeOK, IInv, LinkInv, RoundInv, Held, Before,
       WorkerPcs
<1>18. ASSUME NEW c \in Conns, DrainCommand(c) PROVE LinkInv'
  BY <1>18 DEF DrainCommand, Popped, Go, TypeOK, IInv, LinkInv, RoundInv,
       Held, Before, WorkerPcs
<1>19. ASSUME NEW c \in Conns, DrainOther(c) PROVE LinkInv'
  BY <1>19 DEF DrainOther, Popped, Go, TypeOK, IInv, LinkInv, RoundInv, Held,
       Before, WorkerPcs
<1>20. ASSUME NEW c \in Conns, DrainTerminal(c) PROVE LinkInv'
  BY <1>20 DEF DrainTerminal, Popped, Go, TypeOK, IInv, LinkInv, RoundInv,
       Held, Before, WorkerPcs
<1>21. ASSUME NEW c \in Conns, JsReturn(c) PROVE LinkInv'
  BY <1>21 DEF JsReturn, Go, TypeOK, IInv, LinkInv, RoundInv, Held, Before,
       WorkerPcs
<1>22. ASSUME NEW c \in Conns, SyncDrain(c) PROVE LinkInv'
  BY <1>22 DEF SyncDrain, Go, TypeOK, IInv, LinkInv, RoundInv, Held, Before,
       WorkerPcs
<1>23. ASSUME NEW c \in Conns, UnregisterCdp(c) PROVE LinkInv'
  BY <1>23 DEF UnregisterCdp, Go, MutexFree, TypeOK, IInv, LinkInv, RoundInv,
       Held, Before, WorkerPcs
<1>24. ASSUME NEW c \in Conns, Recheck(c) PROVE LinkInv'
  BY <1>24 DEF Recheck, Go, MutexFree, TypeOK, IInv, LinkInv, RoundInv, Held,
       Before, WorkerPcs
<1>25. ASSUME NEW c \in Conns, Untrack(c) PROVE LinkInv'
  BY <1>25 DEF Untrack, Go, TypeOK, IInv, LinkInv, RoundInv, Held, Before,
       WorkerPcs
<1>26. ASSUME NEW c \in Conns, Deinit(c) PROVE LinkInv'
  BY <1>26 DEF Deinit, Go, TypeOK, IInv, LinkInv, RoundInv, Held, Before,
       WorkerPcs
<1>27. ASSUME NEW c \in Conns, CloseSocket(c) PROVE LinkInv'
  BY <1>27 DEF CloseSocket, Go, TypeOK, IInv, LinkInv, RoundInv, Held,
       Before, WorkerPcs
<1>28. ASSUME NEW c \in Conns, Leave(c) PROVE LinkInv'
  BY <1>28 DEF Leave, Go, TypeOK, IInv, LinkInv, RoundInv, Held, Before,
       WorkerPcs
<1>29. ASSUME NEW c \in Conns, SyncRequest(c) PROVE LinkInv'
  BY <1>29 DEF SyncRequest, Go, TypeOK, IInv, LinkInv, RoundInv, Held,
       Before, WorkerPcs
<1>30. ASSUME NEW c \in Conns, SyncResponse(c) PROVE LinkInv'
  BY <1>30 DEF SyncResponse, Go, TypeOK, IInv, LinkInv, RoundInv, Held,
       Before, WorkerPcs
<1>31. QED
  BY <1>1, <1>2, <1>3, <1>4, <1>5, <1>6, <1>7, <1>8, <1>9, <1>10, <1>11,
       <1>12, <1>13, <1>14, <1>15, <1>16, <1>17, <1>18, <1>19, <1>20, <1>21,
       <1>22, <1>23, <1>24, <1>25, <1>26, <1>27, <1>28, <1>29, <1>30 DEF
       Next, Network, WorkerStep, PeerConnect, PeerClose, NetTop, NetPoll,
       NetAcceptDone, NetWouldBlock, Scanning, NoNotify, NetRead, NetFrame,
       NetContinue, SigStop, SigShutdown, ServerShutdown, MainDeinit,
       MainFree

\* What a worker owns follows from where it is.
LEMMA WorkerInvStep ==
  ASSUME IInv, [Next]_vars
  PROVE  WorkerInv'
<1>1. CASE UNCHANGED <<backlog, mem, fd, cdps, pc>>
  BY <1>1 DEF IInv, WorkerInv
<1>2. ASSUME NetTop PROVE WorkerInv'
  BY <1>2 DEF NetTop, TypeOK, IInv, WorkerInv, Held, Before, HasMem, HasFd,
       Tracked, WorkerPcs
<1>3. ASSUME NetEventsDone PROVE WorkerInv'
  BY <1>3 DEF NetEventsDone, Broadcast, TypeOK, IInv, WorkerInv, Held,
       Before, HasMem, HasFd, Tracked, WorkerPcs
<1>4. ASSUME NetShutdown PROVE WorkerInv'
  BY <1>4 DEF NetShutdown, DropLinks, Notify, Broadcast, TypeOK, IInv,
       WorkerInv, Held, Before, HasMem, HasFd, Tracked, WorkerPcs
<1>5. ASSUME NEW c \in Conns, NetAccept(c) PROVE WorkerInv'
  BY <1>5 DEF NetAccept, Accepting, TypeOK, IInv, WorkerInv, Held, Before,
       HasMem, HasFd, Tracked, WorkerPcs
<1>6. ASSUME NEW c \in Conns, NetRefuse(c) PROVE WorkerInv'
  BY <1>6 DEF NetRefuse, Accepting, TypeOK, IInv, WorkerInv, Held, Before,
       HasMem, HasFd, Tracked, WorkerPcs
<1>7. ASSUME NEW c \in Conns, PeerConnect(c) PROVE WorkerInv'
  BY <1>7 DEF PeerConnect, TypeOK, IInv, WorkerInv, Held, Before, HasMem,
       HasFd, Tracked, WorkerPcs
<1>8. ASSUME NEW c \in Conns, InitCdp(c) PROVE WorkerInv'
  BY <1>8 DEF InitCdp, Go, TypeOK, IInv, WorkerInv, Held, Before, HasMem,
       HasFd, Tracked, WorkerPcs
<1>9. ASSUME NEW c \in Conns, InitFails(c) PROVE WorkerInv'
  BY <1>9 DEF InitFails, Go, TypeOK, IInv, WorkerInv, Held, Before, HasMem,
       HasFd, Tracked, WorkerPcs
<1>10. ASSUME NEW c \in Conns, Track(c) PROVE WorkerInv'
  BY <1>10 DEF Track, Go, TypeOK, IInv, WorkerInv, Held, Before, HasMem,
       HasFd, Tracked, WorkerPcs
<1>11. ASSUME NEW c \in Conns, Handshake(c) PROVE WorkerInv'
  BY <1>11 DEF Handshake, Go, TypeOK, IInv, WorkerInv, Held, Before, HasMem,
       HasFd, Tracked, WorkerPcs
<1>12. ASSUME NEW c \in Conns, GoLive(c) PROVE WorkerInv'
  BY <1>12 DEF GoLive, Go, TypeOK, IInv, WorkerInv, Held, Before, HasMem,
       HasFd, Tracked, WorkerPcs
<1>13. ASSUME NEW c \in Conns, RegisterCdp(c) PROVE WorkerInv'
  BY <1>13 DEF RegisterCdp, Go, MutexFree, TypeOK, IInv, WorkerInv, Held,
       Before, HasMem, HasFd, Tracked, WorkerPcs
<1>14. ASSUME NEW c \in Conns, CheckShutdown(c) PROVE WorkerInv'
  BY <1>14 DEF CheckShutdown, Go, TypeOK, IInv, WorkerInv, Held, Before,
       HasMem, HasFd, Tracked, WorkerPcs
<1>15. ASSUME NEW c \in Conns, Tick(c) PROVE WorkerInv'
  BY <1>15 DEF Tick, Go, TypeOK, IInv, WorkerInv, Held, Before, HasMem,
       HasFd, Tracked, WorkerPcs
<1>16. ASSUME NEW c \in Conns, DrainEmpty(c) PROVE WorkerInv'
  BY <1>16 DEF DrainEmpty, Go, TypeOK, IInv, WorkerInv, Held, Before, HasMem,
       HasFd, Tracked, WorkerPcs
<1>17. ASSUME NEW c \in Conns, DrainCommand(c) PROVE WorkerInv'
  BY <1>17 DEF DrainCommand, Popped, Go, TypeOK, IInv, WorkerInv, Held,
       Before, HasMem, HasFd, Tracked, WorkerPcs
<1>18. ASSUME NEW c \in Conns, DrainOther(c) PROVE WorkerInv'
  BY <1>18 DEF DrainOther, Popped, Go, TypeOK, IInv, WorkerInv, Held, Before,
       HasMem, HasFd, Tracked, WorkerPcs
<1>19. ASSUME NEW c \in Conns, DrainTerminal(c) PROVE WorkerInv'
  BY <1>19 DEF DrainTerminal, Popped, Go, TypeOK, IInv, WorkerInv, Held,
       Before, HasMem, HasFd, Tracked, WorkerPcs
<1>20. ASSUME NEW c \in Conns, JsReturn(c) PROVE WorkerInv'
  BY <1>20 DEF JsReturn, Go, TypeOK, IInv, WorkerInv, Held, Before, HasMem,
       HasFd, Tracked, WorkerPcs
<1>21. ASSUME NEW c \in Conns, SyncDrain(c) PROVE WorkerInv'
  BY <1>21 DEF SyncDrain, Go, TypeOK, IInv, WorkerInv, Held, Before, HasMem,
       HasFd, Tracked, WorkerPcs
<1>22. ASSUME NEW c \in Conns, UnregisterCdp(c) PROVE WorkerInv'
  BY <1>22 DEF UnregisterCdp, Go, MutexFree, TypeOK, IInv, WorkerInv, Held,
       Before, HasMem, HasFd, Tracked, WorkerPcs
<1>23. ASSUME NEW c \in Conns, Recheck(c) PROVE WorkerInv'
  BY <1>23 DEF Recheck, Go, MutexFree, TypeOK, IInv, WorkerInv, Held, Before,
       HasMem, HasFd, Tracked, WorkerPcs
<1>24. ASSUME NEW c \in Conns, Untrack(c) PROVE WorkerInv'
  BY <1>24 DEF Untrack, Go, TypeOK, IInv, WorkerInv, Held, Before, HasMem,
       HasFd, Tracked, WorkerPcs
<1>25. ASSUME NEW c \in Conns, Deinit(c) PROVE WorkerInv'
  BY <1>25 DEF Deinit, Go, TypeOK, IInv, WorkerInv, Held, Before, HasMem,
       HasFd, Tracked, WorkerPcs
<1>26. ASSUME NEW c \in Conns, CloseSocket(c) PROVE WorkerInv'
  BY <1>26 DEF CloseSocket, Go, TypeOK, IInv, WorkerInv, Held, Before,
       HasMem, HasFd, Tracked, WorkerPcs
<1>27. ASSUME NEW c \in Conns, Leave(c) PROVE WorkerInv'
  BY <1>27 DEF Leave, Go, TypeOK, IInv, WorkerInv, Held, Before, HasMem,
       HasFd, Tracked, WorkerPcs
<1>28. ASSUME NEW c \in Conns, SyncRequest(c) PROVE WorkerInv'
  BY <1>28 DEF SyncRequest, Go, TypeOK, IInv, WorkerInv, Held, Before,
       HasMem, HasFd, Tracked, WorkerPcs
<1>29. ASSUME NEW c \in Conns, SyncResponse(c) PROVE WorkerInv'
  BY <1>29 DEF SyncResponse, Go, TypeOK, IInv, WorkerInv, Held, Before,
       HasMem, HasFd, Tracked, WorkerPcs
<1>30. QED
  BY <1>1, <1>2, <1>3, <1>4, <1>5, <1>6, <1>7, <1>8, <1>9, <1>10, <1>11,
       <1>12, <1>13, <1>14, <1>15, <1>16, <1>17, <1>18, <1>19, <1>20, <1>21,
       <1>22, <1>23, <1>24, <1>25, <1>26, <1>27, <1>28, <1>29 DEF Next,
       Network, WorkerStep, PeerClose, NetPoll, NetAcceptDone,
       NetUnregisterPass, DropLinks, NetHangup, Scanning, Notify,
       NetWouldBlock, NoNotify, NetRead, NetFrame, NetReadEnd, NetContinue,
       SigStop, SigShutdown, ServerShutdown, MainDeinit, MainFree

\* The Network thread's picture of the links stays true.
LEMMA RoundStep ==
  ASSUME IInv, [Next]_vars
  PROVE  RoundInv'
<1>1. CASE UNCHANGED <<links, link, pc, dirty, snapshot, ready, cur, verdict,
                        netPc>>
  BY <1>1 DEF IInv, RoundInv
<1>2. ASSUME NetTop PROVE RoundInv'
  BY <1>2 DEF NetTop, TypeOK, IInv, LinkInv, RoundInv, Held, Before,
       WorkerPcs
<1>3. ASSUME NetPoll PROVE RoundInv'
  BY <1>3 DEF NetPoll, TypeOK, IInv, LinkInv, RoundInv, Held, Before,
       WorkerPcs
<1>4. ASSUME NetAcceptDone PROVE RoundInv'
  BY <1>4 DEF NetAcceptDone, TypeOK, IInv, LinkInv, RoundInv, Held, Before,
       WorkerPcs
<1>5. ASSUME NetUnregisterPass PROVE RoundInv'
  BY <1>5 DEF NetUnregisterPass, DropLinks, TypeOK, IInv, LinkInv, RoundInv,
       Held, Before, WorkerPcs
<1>6. ASSUME NetEventsDone PROVE RoundInv'
  BY <1>6 DEF NetEventsDone, Broadcast, TypeOK, IInv, LinkInv, RoundInv,
       Held, Before, WorkerPcs
<1>7. ASSUME NetContinue PROVE RoundInv'
  BY <1>7 DEF NetContinue, TypeOK, IInv, LinkInv, RoundInv, Held, Before,
       WorkerPcs
<1>8. ASSUME NetShutdown PROVE RoundInv'
  BY <1>8 DEF NetShutdown, DropLinks, Notify, Broadcast, TypeOK, IInv,
       LinkInv, RoundInv, Held, Before, WorkerPcs
<1>9. ASSUME NEW c \in Conns, NetAccept(c) PROVE RoundInv'
  BY <1>9 DEF NetAccept, Accepting, TypeOK, IInv, LinkInv, RoundInv, Held,
       Before, WorkerPcs
<1>10. ASSUME NEW c \in Conns, NetRefuse(c) PROVE RoundInv'
  BY <1>10 DEF NetRefuse, Accepting, TypeOK, IInv, LinkInv, RoundInv, Held,
       Before, WorkerPcs
<1>11. ASSUME NEW c \in Conns, NetHangup(c) PROVE RoundInv'
  BY <1>11 DEF NetHangup, Scanning, DropLinks, Notify, TypeOK, IInv, LinkInv,
       RoundInv, Held, Before, WorkerPcs
<1>12. ASSUME NEW c \in Conns, NetWouldBlock(c) PROVE RoundInv'
  BY <1>12 DEF NetWouldBlock, Scanning, NoNotify, TypeOK, IInv, LinkInv,
       RoundInv, Held, Before, WorkerPcs
<1>13. ASSUME NEW c \in Conns, NetRead(c) PROVE RoundInv'
  BY <1>13 DEF NetRead, Scanning, NoNotify, TypeOK, IInv, LinkInv, RoundInv,
       Held, Before, WorkerPcs
<1>14. ASSUME NEW c \in Conns, NetReadEnd(c) PROVE RoundInv'
  BY <1>14 DEF NetReadEnd, DropLinks, Notify, NoNotify, TypeOK, IInv,
       LinkInv, RoundInv, Held, Before, WorkerPcs
<1>15. ASSUME NEW c \in Conns, InitCdp(c) PROVE RoundInv'
  BY <1>15 DEF InitCdp, Go, TypeOK, IInv, LinkInv, RoundInv, Held, Before,
       WorkerPcs
<1>16. ASSUME NEW c \in Conns, InitFails(c) PROVE RoundInv'
  BY <1>16 DEF InitFails, Go, TypeOK, IInv, LinkInv, RoundInv, Held, Before,
       WorkerPcs
<1>17. ASSUME NEW c \in Conns, Track(c) PROVE RoundInv'
  BY <1>17 DEF Track, Go, TypeOK, IInv, LinkInv, RoundInv, Held, Before,
       WorkerPcs
<1>18. ASSUME NEW c \in Conns, Handshake(c) PROVE RoundInv'
  BY <1>18 DEF Handshake, Go, TypeOK, IInv, LinkInv, RoundInv, Held, Before,
       WorkerPcs
<1>19. ASSUME NEW c \in Conns, GoLive(c) PROVE RoundInv'
  BY <1>19 DEF GoLive, Go, TypeOK, IInv, LinkInv, RoundInv, Held, Before,
       WorkerPcs
<1>20. ASSUME NEW c \in Conns, RegisterCdp(c) PROVE RoundInv'
  BY <1>20 DEF RegisterCdp, Go, MutexFree, TypeOK, IInv, LinkInv, RoundInv,
       Held, Before, WorkerPcs
<1>21. ASSUME NEW c \in Conns, CheckShutdown(c) PROVE RoundInv'
  BY <1>21 DEF CheckShutdown, Go, TypeOK, IInv, LinkInv, RoundInv, Held,
       Before, WorkerPcs
<1>22. ASSUME NEW c \in Conns, Tick(c) PROVE RoundInv'
  BY <1>22 DEF Tick, Go, TypeOK, IInv, LinkInv, RoundInv, Held, Before,
       WorkerPcs
<1>23. ASSUME NEW c \in Conns, DrainEmpty(c) PROVE RoundInv'
  BY <1>23 DEF DrainEmpty, Go, TypeOK, IInv, LinkInv, RoundInv, Held, Before,
       WorkerPcs
<1>24. ASSUME NEW c \in Conns, DrainCommand(c) PROVE RoundInv'
  BY <1>24 DEF DrainCommand, Popped, Go, TypeOK, IInv, LinkInv, RoundInv,
       Held, Before, WorkerPcs
<1>25. ASSUME NEW c \in Conns, DrainOther(c) PROVE RoundInv'
  BY <1>25 DEF DrainOther, Popped, Go, TypeOK, IInv, LinkInv, RoundInv, Held,
       Before, WorkerPcs
<1>26. ASSUME NEW c \in Conns, DrainTerminal(c) PROVE RoundInv'
  BY <1>26 DEF DrainTerminal, Popped, Go, TypeOK, IInv, LinkInv, RoundInv,
       Held, Before, WorkerPcs
<1>27. ASSUME NEW c \in Conns, JsReturn(c) PROVE RoundInv'
  BY <1>27 DEF JsReturn, Go, TypeOK, IInv, LinkInv, RoundInv, Held, Before,
       WorkerPcs
<1>28. ASSUME NEW c \in Conns, SyncDrain(c) PROVE RoundInv'
  BY <1>28 DEF SyncDrain, Go, TypeOK, IInv, LinkInv, RoundInv, Held, Before,
       WorkerPcs
<1>29. ASSUME NEW c \in Conns, UnregisterCdp(c) PROVE RoundInv'
  BY <1>29 DEF UnregisterCdp, Go, MutexFree, TypeOK, IInv, LinkInv, RoundInv,
       Held, Before, WorkerPcs
<1>30. ASSUME NEW c \in Conns, Recheck(c) PROVE RoundInv'
  BY <1>30 DEF Recheck, Go, MutexFree, TypeOK, IInv, LinkInv, RoundInv, Held,
       Before, WorkerPcs
<1>31. ASSUME NEW c \in Conns, Untrack(c) PROVE RoundInv'
  BY <1>31 DEF Untrack, Go, TypeOK, IInv, LinkInv, RoundInv, Held, Before,
       WorkerPcs
<1>32. ASSUME NEW c \in Conns, Deinit(c) PROVE RoundInv'
  BY <1>32 DEF Deinit, Go, TypeOK, IInv, LinkInv, RoundInv, Held, Before,
       WorkerPcs
<1>33. ASSUME NEW c \in Conns, CloseSocket(c) PROVE RoundInv'
  BY <1>33 DEF CloseSocket, Go, TypeOK, IInv, LinkInv, RoundInv, Held,
       Before, WorkerPcs
<1>34. ASSUME NEW c \in Conns, Leave(c) PROVE RoundInv'
  BY <1>34 DEF Leave, Go, TypeOK, IInv, RoundInv, Held
<1>35. ASSUME NEW c \in Conns, SyncRequest(c) PROVE RoundInv'
  BY <1>35 DEF SyncRequest, Go, TypeOK, IInv, LinkInv, RoundInv, Held,
       Before, WorkerPcs
<1>36. ASSUME NEW c \in Conns, SyncResponse(c) PROVE RoundInv'
  BY <1>36 DEF SyncResponse, Go, TypeOK, IInv, LinkInv, RoundInv, Held,
       Before, WorkerPcs
<1>37. ASSUME NEW c \in Conns, NEW k \in Kinds, NetFrame(c, k) PROVE RoundInv'
  BY <1>37, ConnsAssumption DEF NetFrame, Verdict, TypeOK, IInv, RoundInv
<1>38. QED
  BY <1>1, <1>2, <1>3, <1>4, <1>5, <1>6, <1>7, <1>8, <1>9, <1>10, <1>11,
       <1>12, <1>13, <1>14, <1>15, <1>16, <1>17, <1>18, <1>19, <1>20, <1>21,
       <1>22, <1>23, <1>24, <1>25, <1>26, <1>27, <1>28, <1>29, <1>30, <1>31,
       <1>32, <1>33, <1>34, <1>35, <1>36, <1>37 DEF Next, Network,
       WorkerStep, PeerConnect, PeerClose, SigStop, SigShutdown,
       ServerShutdown, MainDeinit, MainFree

-----------------------------------------------------------------------------
(* What the inbox operations do to the message that ends a worker.         *)

\* Appending announces the end when the message does.
LEMMA AppendAnnounced ==
  ASSUME NEW s \in Seq(Messages), NEW m \in Messages
  PROVE  /\ Announced(Append(s, m)) <=> Announced(s) \/ m \in Terminal
         /\ ~Announced(s) => NothingFollows(Append(s, m))
<1>1. /\ Len(Append(s, m)) = Len(s) + 1
      /\ \A i \in 1 .. Len(s) : Append(s, m)[i] = s[i]
      /\ Append(s, m)[Len(s) + 1] = m
      /\ Len(s) \in Nat
  OBVIOUS
<1>2. QED
  BY <1>1 DEF Announced, NothingFollows

\* Taking a message out from anywhere leaves the others in their order.
LEMMA RemoveAnnounced ==
  ASSUME NEW s \in Seq(Messages), NEW r \in Seq(Messages),
         NEW i \in 1 .. Len(s),
         Len(r) = Len(s) - 1,
         \A j \in 1 .. Len(r) : r[j] = IF j < i THEN s[j] ELSE s[j + 1]
  PROVE  /\ Announced(s) => Announced(r) \/ s[i] \in Terminal
         /\ Announced(r) => Announced(s)
         /\ NothingFollows(s) => NothingFollows(r)
<1>1. Len(s) \in Nat
  OBVIOUS
<1>2. ASSUME Announced(s), s[i] \notin Terminal
      PROVE  Announced(r)
  <2>1. PICK j \in 1 .. Len(s) : s[j] \in Terminal
    BY <1>2 DEF Announced
  <2>2. CASE j < i
    BY <1>1, <2>1, <2>2 DEF Announced
  <2>3. CASE j > i
    <3>1. j - 1 \in 1 .. Len(r) /\ r[j - 1] = s[j]
      BY <1>1, <2>1, <2>3
    <3>2. QED
      BY <3>1, <2>1 DEF Announced
  <2>4. QED
    BY <1>2, <2>1, <2>2, <2>3
<1>3. ASSUME Announced(r)
      PROVE  Announced(s)
  <2>1. PICK j \in 1 .. Len(r) : r[j] \in Terminal
    BY <1>3 DEF Announced
  <2>2. r[j] = s[j] \/ r[j] = s[j + 1]
    BY <2>1
  <2>3. j \in 1 .. Len(s) /\ j + 1 \in 1 .. Len(s)
    BY <1>1, <2>1
  <2>4. QED
    BY <2>1, <2>2, <2>3 DEF Announced
<1>4. ASSUME NothingFollows(s)
      PROVE  NothingFollows(r)
  <2>1. ASSUME NEW j \in 1 .. Len(r) - 1
        PROVE  r[j] \notin Terminal
    <3>1. /\ j \in 1 .. Len(r)
          /\ j \in 1 .. Len(s) - 1
          /\ j + 1 \in 1 .. Len(s) - 1
      BY <1>1, <2>1
    <3>2. QED
      BY <1>4, <3>1 DEF NothingFollows
  <2>2. QED
    BY <2>1 DEF NothingFollows
<1>5. QED
  BY <1>2, <1>3, <1>4

\* What is left of an inbox announces the end unless the message taken did.
LEMMA TailAnnounced ==
  ASSUME NEW s \in Seq(Messages), s # << >>
  PROVE  /\ Announced(s) => Announced(Tail(s)) \/ Head(s) \in Terminal
         /\ Announced(Tail(s)) => Announced(s)
         /\ NothingFollows(s) => NothingFollows(Tail(s))
<1>1. /\ Tail(s) \in Seq(Messages)
      /\ Len(Tail(s)) = Len(s) - 1
      /\ \A j \in 1 .. Len(Tail(s)) : Tail(s)[j] = s[j + 1]
  BY HeadTailProperties
<1>2. Head(s) = s[1] /\ 1 \in 1 .. Len(s)
  BY EmptySeq
<1>3. \A j \in 1 .. Len(Tail(s)) :
        Tail(s)[j] = IF j < 1 THEN s[j] ELSE s[j + 1]
  BY <1>1
<1>4. ASSUME NEW r \in Seq(Messages), NEW i \in 1 .. Len(s), r = Tail(s), i = 1
      PROVE  /\ Announced(s) => Announced(r) \/ s[i] \in Terminal
             /\ Announced(r) => Announced(s)
             /\ NothingFollows(s) => NothingFollows(r)
  <2>1. /\ Len(r) = Len(s) - 1
        /\ \A j \in 1 .. Len(r) : r[j] = IF j < i THEN s[j] ELSE s[j + 1]
    BY <1>1, <1>3, <1>4
  <2>2. QED
    BY <2>1, RemoveAnnounced
<1>5. QED
  BY <1>1, <1>2, <1>4

\* What precedes and what follows message i, joined, lose nothing but it.
LEMMA JoinAnnounced ==
  ASSUME NEW s \in Seq(Messages), NEW i \in 1 .. Len(s),
         NEW a \in Seq(Messages), NEW b \in Seq(Messages),
         Len(a) = i - 1, \A j \in 1 .. i - 1 : a[j] = s[j],
         Len(b) = Len(s) - i, \A j \in 1 .. Len(s) - i : b[j] = s[i + j],
         NEW r, r = a \o b
  PROVE  /\ Announced(s) => Announced(r) \/ s[i] \in Terminal
         /\ Announced(r) => Announced(s)
         /\ NothingFollows(s) => NothingFollows(r)
<1>1. Len(s) \in Nat
  OBVIOUS
<1>2. /\ r \in Seq(Messages)
      /\ Len(r) = Len(a) + Len(b)
      /\ \A j \in 1 .. Len(a) + Len(b) :
           r[j] = IF j <= Len(a) THEN a[j] ELSE b[j - Len(a)]
  BY ConcatProperties
<1>3. Len(r) = Len(s) - 1
  BY <1>1, <1>2
<1>4. ASSUME NEW j \in 1 .. Len(r)
      PROVE  r[j] = IF j < i THEN s[j] ELSE s[j + 1]
  <2>1. CASE j < i
    <3>1. j \in 1 .. i - 1 /\ j <= Len(a)
      BY <1>1, <2>1
    <3>2. QED
      BY <1>2, <2>1, <3>1
  <2>2. CASE ~(j < i)
    <3>1. j - (i - 1) \in 1 .. Len(s) - i /\ ~(j <= Len(a))
      BY <1>1, <1>3, <2>2
    <3>2. r[j] = b[j - (i - 1)]
      BY <1>2, <3>1
    <3>3. b[j - (i - 1)] = s[i + (j - (i - 1))]
      BY <3>1
    <3>4. i + (j - (i - 1)) = j + 1
      BY <1>1, <1>3
    <3>5. QED
      BY <2>2, <3>2, <3>3, <3>4
  <2>3. QED
    BY <2>1, <2>2
<1>5. QED
  BY <1>2, <1>3, <1>4, RemoveAnnounced

\* Inbox.popIf, which takes a message from the middle, loses no other.
LEMMA CutAnnounced ==
  ASSUME NEW s \in Seq(Messages), NEW i \in 1 .. Len(s),
         NEW r, r = SubSeq(s, 1, i - 1) \o SubSeq(s, i + 1, Len(s))
  PROVE  /\ Announced(s) => Announced(r) \/ s[i] \in Terminal
         /\ Announced(r) => Announced(s)
         /\ NothingFollows(s) => NothingFollows(r)
<1> DEFINE a == SubSeq(s, 1, i - 1)
           b == SubSeq(s, i + 1, Len(s))
<1>1. Len(s) \in Nat /\ \A j \in 1 .. Len(s) : s[j] \in Messages
  OBVIOUS
<1>2. /\ a \in Seq(Messages) /\ Len(a) = i - 1
      /\ \A j \in 1 .. i - 1 : a[j] = s[j]
  <2>1. \A j \in 1 .. i - 1 : s[j] \in Messages
    BY <1>1
  <2>2. /\ a \in Seq(Messages)
        /\ Len(a) = IF 1 <= i - 1 THEN (i - 1) - 1 + 1 ELSE 0
        /\ \A j \in 1 .. (i - 1) - 1 + 1 : a[j] = s[1 + j - 1]
    BY <1>1, <2>1, SubSeqProperties
  <2>3. QED
    BY <1>1, <2>2
<1>3. /\ b \in Seq(Messages) /\ Len(b) = Len(s) - i
      /\ \A j \in 1 .. Len(s) - i : b[j] = s[i + j]
  <2>1. \A j \in i + 1 .. Len(s) : s[j] \in Messages
    BY <1>1
  <2>2. /\ b \in Seq(Messages)
        /\ Len(b) = IF i + 1 <= Len(s) THEN Len(s) - (i + 1) + 1 ELSE 0
        /\ \A j \in 1 .. Len(s) - (i + 1) + 1 : b[j] = s[(i + 1) + j - 1]
    BY <1>1, <2>1, SubSeqProperties
  <2>3. QED
    BY <1>1, <2>2
<1>4. r = a \o b
  OBVIOUS
<1> HIDE DEF a, b
<1>5. QED
  BY <1>2, <1>3, <1>4, JoinAnnounced

-----------------------------------------------------------------------------
(* The messages that end a worker.                                         *)

\* A notified drop appends the disconnect to the inboxes it concerns.
LEMMA NotifyAnnounces ==
  ASSUME TypeOK, NEW S, Notify(S), NEW d \in Conns
  PROVE  /\ d \in S => /\ Announced(inbox'[d])
                       /\ ~Announced(inbox[d]) => NothingFollows(inbox'[d])
         /\ d \notin S => inbox'[d] = inbox[d]
<1>1. inbox'[d] = IF d \in S THEN Append(inbox[d], "disconnect") ELSE inbox[d]
  BY DEF Notify
<1>2. inbox[d] \in Seq(Messages) /\ "disconnect" \in Messages
  BY DEF TypeOK, Messages
<1>3. "disconnect" \in Terminal
  BY DEF Terminal
<1>4. QED
  BY <1>1, <1>2, <1>3, AppendAnnounced

\* Links that are live and that no close frame is ending are dropped and
\* their workers told.
LEMMA NotifiedDrop ==
  ASSUME IInv, MessageInv, NEW S \in SUBSET Conns,
         \A d \in S : link[d] = "live",
         \A d \in Conns : ~Ending(d),
         cur' = NoConn,
         DropLinks(S), Notify(S), UNCHANGED terminated,
         \A d \in Conns : pc'[d] \in Ticking \union {"check"} => pc'[d] = pc[d]
  PROVE  MessageInv'
<1> SUFFICES ASSUME NEW d \in Conns
             PROVE  /\ link'[d] # "removed" => ~Announced(inbox'[d])
                    /\ /\ link'[d] = "removed"
                       /\ pc'[d] \in Ticking \union {"check"}
                       => terminated'[d] \/ Announced(inbox'[d])
                    /\ NothingFollows(inbox'[d])
  BY ConnsAssumption
     DEF MessageInv, InboxInv, TerminalIsLast, HasTerminal, Ending
<1>1. /\ link[d] # "removed" => ~Announced(inbox[d])
      /\ link[d] = "removed" /\ pc[d] \in Ticking \union {"check"} =>
           terminated[d] \/ Announced(inbox[d])
      /\ NothingFollows(inbox[d])
  BY DEF MessageInv, InboxInv, TerminalIsLast, HasTerminal
<1>2. link'[d] = IF d \in S THEN "removed" ELSE link[d]
  BY DEF DropLinks
<1>3. CASE d \in S
  BY <1>1, <1>2, <1>3, NotifyAnnounces DEF IInv
<1>4. CASE d \notin S
  BY <1>1, <1>2, <1>4, NotifyAnnounces DEF IInv
<1>5. QED
  BY <1>3, <1>4

\* drainInbox(.all) takes the first message and notes the one that ends it.
LEMMA PopKeeps ==
  ASSUME IInv, MessageInv, NEW c \in Conns, Popped(c), pc[c] \in Ticking,
         terminated[c] \/ Head(inbox[c]) \in Terminal => terminated'[c],
         \A d \in Conns :
           d # c => pc'[d] = pc[d] /\ terminated'[d] = terminated[d]
  PROVE  MessageInv'
<1>1. /\ inbox[c] \in Seq(Messages) /\ inbox[c] # << >>
      /\ inbox'[c] = Tail(inbox[c])
      /\ \A d \in Conns : d # c => inbox'[d] = inbox[d]
      /\ UNCHANGED <<link, cur, verdict>>
  BY DEF Popped, IInv, TypeOK
<1>2. /\ Announced(inbox[c]) =>
           Announced(inbox'[c]) \/ Head(inbox[c]) \in Terminal
      /\ Announced(inbox'[c]) => Announced(inbox[c])
      /\ NothingFollows(inbox[c]) => NothingFollows(inbox'[c])
  BY <1>1, TailAnnounced
<1>3. QED
  BY <1>1, <1>2
     DEF MessageInv, InboxInv, TerminalIsLast, HasTerminal, Ending

\* The end of a connection is announced once, and nothing follows it.
LEMMA MessageStep ==
  ASSUME IInv, MessageInv, [Next]_vars
  PROVE  MessageInv'
<1>1. CASE UNCHANGED <<inbox, link, terminated, cur, verdict, pc>>
  BY <1>1 DEF MessageInv, InboxInv, TerminalIsLast, HasTerminal, Ending
<1>2. ASSUME NetUnregisterPass PROVE MessageInv'
  BY <1>2 DEF NetUnregisterPass, DropLinks, TypeOK, IInv, MessageInv,
       InboxInv, TerminalIsLast, HasTerminal, Ending, Ticking, WorkerPcs,
       LinkInv, RoundInv, Held, Before
<1>3. ASSUME NetEventsDone PROVE MessageInv'
  BY <1>3 DEF NetEventsDone, Broadcast, TypeOK, IInv, MessageInv, InboxInv,
       TerminalIsLast, HasTerminal, Ending, Ticking, WorkerPcs, LinkInv,
       RoundInv, Held, Before
<1>4. ASSUME NetShutdown PROVE MessageInv'
  <2> DEFINE live == {c \in links : link[c] = "live"}
  <2>1. live \in SUBSET Conns
    BY DEF IInv, TypeOK
  <2>2. cur = NoConn
    BY <1>4 DEF NetShutdown, IInv, RoundInv
  <2>3. \A d \in Conns : pc'[d] \in Ticking \union {"check"} => pc'[d] = pc[d]
    BY <1>4 DEF NetShutdown, Broadcast, Ticking, IInv, TypeOK
  <2>4. /\ cur' = cur /\ UNCHANGED terminated
        /\ DropLinks(live) /\ Notify(live)
    BY <1>4 DEF NetShutdown
  <2>5. \A d \in live : link[d] = "live"
    OBVIOUS
  <2> HIDE DEF live
  <2>6. QED
    BY <2>1, <2>2, <2>3, <2>4, <2>5, NotifiedDrop, ConnsAssumption DEF Ending
<1>5. ASSUME NEW c \in Conns, NetAccept(c) PROVE MessageInv'
  BY <1>5 DEF NetAccept, Accepting, TypeOK, IInv, MessageInv, InboxInv,
       TerminalIsLast, HasTerminal, Ending, Ticking, WorkerPcs, LinkInv,
       RoundInv, Held, Before
<1>6. ASSUME NEW c \in Conns, NetRefuse(c) PROVE MessageInv'
  BY <1>6 DEF NetRefuse, Accepting, TypeOK, IInv, MessageInv, InboxInv,
       TerminalIsLast, HasTerminal, Ending, Ticking, WorkerPcs, LinkInv,
       RoundInv, Held, Before
<1>7. ASSUME NEW c \in Conns, NetHangup(c) PROVE MessageInv'
  BY <1>7, NotifiedDrop, ConnsAssumption
     DEF NetHangup, Scanning, Ending
<1>8. ASSUME NEW c \in Conns, NetRead(c) PROVE MessageInv'
  BY <1>8 DEF NetRead, Scanning, NoNotify, TypeOK, IInv, MessageInv,
       InboxInv, TerminalIsLast, HasTerminal, Ending, Ticking, WorkerPcs,
       LinkInv, RoundInv, Held, Before
<1>9. ASSUME NEW c \in Conns, NetReadEnd(c) PROVE MessageInv'
  <2>1. /\ cur = c /\ cur' = NoConn /\ verdict \in {"keep", "closed", "failed"}
        /\ link[c] = "live" /\ UNCHANGED <<terminated, pc>>
    BY <1>9 DEF NetReadEnd, IInv, RoundInv, TypeOK
  <2>2. \A d \in Conns : ~Ending(d)'
    BY <2>1, ConnsAssumption DEF Ending
  <2>3. CASE verdict = "keep"
    BY <1>9, <2>1, <2>2, <2>3
       DEF NetReadEnd, NoNotify, MessageInv, InboxInv, TerminalIsLast,
           HasTerminal, Ending
  <2>4. CASE verdict = "closed"
    BY <1>9, <2>1, <2>2, <2>4
       DEF NetReadEnd, NoNotify, DropLinks, MessageInv, InboxInv,
           TerminalIsLast, HasTerminal, Ending, IInv, TypeOK
  <2>5. CASE verdict = "failed"
    <3>1. \A d \in Conns : ~Ending(d)
      BY <2>5 DEF Ending
    <3>2. DropLinks({c}) /\ Notify({c})
      BY <1>9, <2>5 DEF NetReadEnd
    <3>3. QED
      BY <2>1, <3>1, <3>2, NotifiedDrop
  <2>6. QED
    BY <2>1, <2>3, <2>4, <2>5
<1>10. ASSUME NEW c \in Conns, InitCdp(c) PROVE MessageInv'
  BY <1>10 DEF InitCdp, Go, TypeOK, IInv, MessageInv, InboxInv,
       TerminalIsLast, HasTerminal, Ending, Ticking, WorkerPcs, LinkInv,
       RoundInv, Held, Before
<1>11. ASSUME NEW c \in Conns, InitFails(c) PROVE MessageInv'
  BY <1>11 DEF InitFails, Go, TypeOK, IInv, MessageInv, InboxInv,
       TerminalIsLast, HasTerminal, Ending, Ticking, WorkerPcs, LinkInv,
       RoundInv, Held, Before
<1>12. ASSUME NEW c \in Conns, Track(c) PROVE MessageInv'
  BY <1>12 DEF Track, Go, TypeOK, IInv, MessageInv, InboxInv, TerminalIsLast,
       HasTerminal, Ending, Ticking, WorkerPcs, LinkInv, RoundInv, Held,
       Before
<1>13. ASSUME NEW c \in Conns, Handshake(c) PROVE MessageInv'
  BY <1>13 DEF Handshake, Go, TypeOK, IInv, MessageInv, InboxInv,
       TerminalIsLast, HasTerminal, Ending, Ticking, WorkerPcs, LinkInv,
       RoundInv, Held, Before
<1>14. ASSUME NEW c \in Conns, GoLive(c) PROVE MessageInv'
  BY <1>14 DEF GoLive, Go, TypeOK, IInv, MessageInv, InboxInv,
       TerminalIsLast, HasTerminal, Ending, Ticking, WorkerPcs, LinkInv,
       RoundInv, Held, Before
<1>15. ASSUME NEW c \in Conns, RegisterCdp(c) PROVE MessageInv'
  BY <1>15 DEF RegisterCdp, Go, MutexFree, TypeOK, IInv, MessageInv,
       InboxInv, TerminalIsLast, HasTerminal, Ending, Ticking, WorkerPcs,
       LinkInv, RoundInv, Held, Before
<1>16. ASSUME NEW c \in Conns, CheckShutdown(c) PROVE MessageInv'
  BY <1>16 DEF CheckShutdown, Go, TypeOK, IInv, MessageInv, InboxInv,
       TerminalIsLast, HasTerminal, Ending, Ticking, WorkerPcs, LinkInv,
       RoundInv, Held, Before
<1>17. ASSUME NEW c \in Conns, Tick(c) PROVE MessageInv'
  BY <1>17 DEF Tick, Go, TypeOK, IInv, MessageInv, InboxInv, TerminalIsLast,
       HasTerminal, Ending, Ticking, WorkerPcs, LinkInv, RoundInv, Held,
       Before
<1>18. ASSUME NEW c \in Conns, DrainEmpty(c) PROVE MessageInv'
  BY <1>18 DEF DrainEmpty, Go, TypeOK, IInv, MessageInv, InboxInv,
       TerminalIsLast, HasTerminal, Ending, Ticking, WorkerPcs, LinkInv,
       RoundInv, Held, Before
<1>19. ASSUME NEW c \in Conns, DrainCommand(c) PROVE MessageInv'
  <2>1. Head(inbox[c]) \notin Terminal
    BY <1>19 DEF DrainCommand, Terminal
  <2>2. QED
    BY <1>19, <2>1, PopKeeps DEF DrainCommand, Go, Popped, Ticking, IInv,
         TypeOK
<1>20. ASSUME NEW c \in Conns, DrainOther(c) PROVE MessageInv'
  <2>1. Head(inbox[c]) \notin Terminal
    BY <1>20 DEF DrainOther, Terminal
  <2>2. QED
    BY <1>20, <2>1, PopKeeps DEF DrainOther, Go, Popped, Ticking, IInv, TypeOK
<1>21. ASSUME NEW c \in Conns, DrainTerminal(c) PROVE MessageInv'
  BY <1>21, PopKeeps DEF DrainTerminal, Go, Popped, Ticking, IInv, TypeOK
<1>22. ASSUME NEW c \in Conns, JsReturn(c) PROVE MessageInv'
  BY <1>22 DEF JsReturn, Go, TypeOK, IInv, MessageInv, InboxInv,
       TerminalIsLast, HasTerminal, Ending, Ticking, WorkerPcs, LinkInv,
       RoundInv, Held, Before
<1>23. ASSUME NEW c \in Conns, SyncDrain(c) PROVE MessageInv'
  <2>1. PICK i \in 1 .. Len(inbox[c]) :
          /\ inbox' = [inbox EXCEPT ![c] = SubSeq(@, 1, i - 1)
                                             \o SubSeq(@, i + 1, Len(@))]
          /\ terminated' =
               [terminated EXCEPT ![c] = @ \/ inbox[c][i] \in Terminal]
          /\ Go(c, "sync", IF inbox[c][i] \in Terminal THEN "js" ELSE "sync")
          /\ UNCHANGED <<kernelVars, netVars, activeThreads, cdps, connLive,
                         mem, js, kill, hangs>>
    BY <1>23 DEF SyncDrain
  <2>2. /\ inbox[c] \in Seq(Messages)
        /\ inbox'[c] = SubSeq(inbox[c], 1, i - 1)
                         \o SubSeq(inbox[c], i + 1, Len(inbox[c]))
        /\ \A d \in Conns : d # c => inbox'[d] = inbox[d]
    BY <2>1 DEF IInv, TypeOK
  <2>3. /\ Announced(inbox[c]) =>
             Announced(inbox'[c]) \/ inbox[c][i] \in Terminal
        /\ Announced(inbox'[c]) => Announced(inbox[c])
        /\ NothingFollows(inbox[c]) => NothingFollows(inbox'[c])
    BY <2>2, CutAnnounced
  <2>4. terminated[c] \/ inbox[c][i] \in Terminal => terminated'[c]
    BY <2>1, Zenon DEF IInv, TypeOK
  <2>5. UNCHANGED <<link, cur, verdict>> /\ pc[c] \in Ticking
        /\ \A d \in Conns :
             d # c => pc'[d] = pc[d] /\ terminated'[d] = terminated[d]
    BY <2>1 DEF Go, Ticking, IInv, TypeOK
  <2>6. QED
    BY <2>2, <2>3, <2>4, <2>5
       DEF MessageInv, InboxInv, TerminalIsLast, HasTerminal, Ending
<1>24. ASSUME NEW c \in Conns, UnregisterCdp(c) PROVE MessageInv'
  BY <1>24 DEF UnregisterCdp, Go, MutexFree, TypeOK, IInv, MessageInv,
       InboxInv, TerminalIsLast, HasTerminal, Ending, Ticking, WorkerPcs,
       LinkInv, RoundInv, Held, Before
<1>25. ASSUME NEW c \in Conns, Recheck(c) PROVE MessageInv'
  BY <1>25 DEF Recheck, Go, MutexFree, TypeOK, IInv, MessageInv, InboxInv,
       TerminalIsLast, HasTerminal, Ending, Ticking, WorkerPcs, LinkInv,
       RoundInv, Held, Before
<1>26. ASSUME NEW c \in Conns, Untrack(c) PROVE MessageInv'
  BY <1>26 DEF Untrack, Go, TypeOK, IInv, MessageInv, InboxInv,
       TerminalIsLast, HasTerminal, Ending, Ticking, WorkerPcs, LinkInv,
       RoundInv, Held, Before
<1>27. ASSUME NEW c \in Conns, Deinit(c) PROVE MessageInv'
  BY <1>27 DEF Deinit, Go, TypeOK, IInv, MessageInv, InboxInv,
       TerminalIsLast, HasTerminal, Ending, Ticking, WorkerPcs, LinkInv,
       RoundInv, Held, Before
<1>28. ASSUME NEW c \in Conns, CloseSocket(c) PROVE MessageInv'
  BY <1>28 DEF CloseSocket, Go, TypeOK, IInv, MessageInv, InboxInv,
       TerminalIsLast, HasTerminal, Ending, Ticking, WorkerPcs, LinkInv,
       RoundInv, Held, Before
<1>29. ASSUME NEW c \in Conns, Leave(c) PROVE MessageInv'
  BY <1>29 DEF Leave, Go, TypeOK, IInv, MessageInv, InboxInv, TerminalIsLast,
       HasTerminal, Ending, Ticking, WorkerPcs, LinkInv, RoundInv, Held,
       Before
<1>30. ASSUME NEW c \in Conns, SyncRequest(c) PROVE MessageInv'
  BY <1>30 DEF SyncRequest, Go, TypeOK, IInv, MessageInv, InboxInv,
       TerminalIsLast, HasTerminal, Ending, Ticking, WorkerPcs, LinkInv,
       RoundInv, Held, Before
<1>31. ASSUME NEW c \in Conns, SyncResponse(c) PROVE MessageInv'
  BY <1>31 DEF SyncResponse, Go, TypeOK, IInv, MessageInv, InboxInv,
       TerminalIsLast, HasTerminal, Ending, Ticking, WorkerPcs, LinkInv,
       RoundInv, Held, Before
<1>32. ASSUME NEW c \in Conns, NEW k \in Kinds, NetFrame(c, k)
       PROVE  MessageInv'
  <2>1. /\ cur = c /\ cur' = c /\ verdict \in {"none", "keep"}
        /\ link[c] = "live"
        /\ UNCHANGED <<link, terminated, pc>>
        /\ verdict' = Verdict(k)
    BY <1>32, ConnsAssumption DEF NetFrame, IInv, RoundInv
  <2>2. ~Announced(inbox[c]) /\ inbox[c] \in Seq(Messages)
    BY <2>1 DEF MessageInv, InboxInv, HasTerminal, Ending, IInv, TypeOK
  <2>3. \A d \in Conns : d # c => inbox'[d] = inbox[d]
    BY <1>32 DEF NetFrame, IInv, TypeOK
  <2>4. /\ Announced(inbox'[c]) <=> verdict' = "closed"
        /\ NothingFollows(inbox'[c])
    <3>1. CASE k \in {"pong", "badframe"}
      <4>1. inbox'[c] = inbox[c] /\ Verdict(k) # "closed"
        BY <1>32, <3>1 DEF NetFrame, Verdict
      <4>2. QED
        BY <2>1, <2>2, <4>1 DEF MessageInv, TerminalIsLast
    <3>2. CASE k \notin {"pong", "badframe"}
      <4>1. /\ Pushed(k) \in Messages
            /\ Pushed(k) \in Terminal <=> Verdict(k) = "closed"
        BY <3>2, BoundsAssumption
           DEF FrameKinds, Pushed, Messages, Terminal, Verdict
      <4>2. inbox'[c] = Append(inbox[c], Pushed(k))
        BY <1>32, <3>2 DEF NetFrame, IInv, TypeOK
      <4>3. QED
        BY <2>1, <2>2, <4>1, <4>2, AppendAnnounced
    <3>3. QED
      BY <3>1, <3>2
  <2>5. QED
    BY <2>1, <2>3, <2>4
       DEF MessageInv, InboxInv, TerminalIsLast, HasTerminal, Ending
<1>33. QED
  BY <1>1, <1>2, <1>3, <1>4, <1>5, <1>6, <1>7, <1>8, <1>9, <1>10, <1>11,
       <1>12, <1>13, <1>14, <1>15, <1>16, <1>17, <1>18, <1>19, <1>20, <1>21,
       <1>22, <1>23, <1>24, <1>25, <1>26, <1>27, <1>28, <1>29, <1>30, <1>31,
       <1>32 DEF Next, Network, WorkerStep, PeerConnect, PeerClose, NetTop,
       NetPoll, NetAcceptDone, NetWouldBlock, Scanning, NoNotify,
       NetContinue, SigStop, SigShutdown, ServerShutdown, MainDeinit,
       MainFree

-----------------------------------------------------------------------------
(* The theorems.                                                           *)

\* The invariants hold of the initial states.
LEMMA InitInv == Init => IInv /\ MessageInv
<1> SUFFICES ASSUME Init PROVE IInv /\ MessageInv
  OBVIOUS
<1>1. TypeOK
  <2>1. /\ {listener, accept, shutdown, dirty, anyRemoved} \subseteq BOOLEAN
        /\ {eof, connLive, terminated, kill} \subseteq [Conns -> BOOLEAN]
    BY DEF Init
  <2>2. inbox \in [Conns -> Seq(Messages)]
    BY DEF Init
  <2>3. /\ budget \in [Conns -> 0 .. MaxFrames]
        /\ hangs \in [Conns -> 0 .. MaxHangs]
        /\ activeThreads \in Nat
    BY BoundsAssumption DEF Init
  <2>4. /\ pc \in [Conns -> WorkerPcs]
        /\ link \in [Conns -> {"none", "live", "unregistering", "removed"}]
        /\ fd \in [Conns -> {"none", "open", "closed"}]
        /\ mem \in [Conns -> {"none", "alive", "freed"}]
        /\ js \in [Conns -> {"idle", "finite", "nested", "endless"}]
    BY DEF Init, WorkerPcs
  <2>5. QED
    BY <2>1, <2>2, <2>3, <2>4 DEF Init, TypeOK
<1>2. CountInv
  <2>1. Counting = {}
    BY DEF Init, Counting, Running
  <2>2. QED
    BY <2>1, FS_EmptySet, BoundsAssumption DEF Init, CountInv
<1>3. WorkerInv /\ LinkInv /\ RoundInv
  BY DEF Init, WorkerInv, LinkInv, RoundInv, HasMem, HasFd, Before, Held
<1>4. MessageInv
  <2>1. \A c \in Conns : ~Announced(inbox[c]) /\ NothingFollows(inbox[c])
    BY DEF Init, Announced, NothingFollows
  <2>2. QED
    BY <2>1 DEF Init, MessageInv, InboxInv, TerminalIsLast, HasTerminal, Ending
<1>5. QED
  BY <1>1, <1>2, <1>3, <1>4 DEF IInv

\* The invariants above hold in every reachable state.
THEOREM Invariants == Spec => [](IInv /\ MessageInv)
<1>1. Init => IInv /\ MessageInv
  BY InitInv
<1>2. IInv /\ MessageInv /\ [Next]_vars => (IInv /\ MessageInv)'
  <2> SUFFICES ASSUME IInv, MessageInv, [Next]_vars
               PROVE  (IInv /\ MessageInv)'
    OBVIOUS
  <2>1. TypeOK' /\ CountInv'
    BY TypeStep, CountStep
  <2>2. WorkerInv' /\ LinkInv' /\ RoundInv'
    BY WorkerInvStep, LinkStep, RoundStep
  <2>3. MessageInv'
    BY MessageStep
  <2>4. QED
    BY <2>1, <2>2, <2>3 DEF IInv
<1>3. QED
  BY <1>1, <1>2, PTL DEF Spec

\* Every variable keeps its type; active_threads never wraps around below
\* zero (Server.spawnWorker, handleConnection).
THEOREM TypeCorrect == Spec => []TypeOK
<1>1. IInv => TypeOK
  BY DEF IInv
<1>2. QED
  BY <1>1, Invariants, PTL

\* The Network thread never touches the CDP of a worker that has freed it
\* (Network.unregisterCdp, processCdpEvents).
THEOREM NoUseAfterFree == Spec => []NetworkTouchesLive
<1>1. IInv => NetworkTouchesLive
  <2> SUFFICES ASSUME IInv PROVE NetworkTouchesLive
    OBVIOUS
  <2>1. \A c \in Conns : pc[c] \in Held => mem[c] = "alive"
    BY DEF IInv, WorkerInv, HasMem
  <2>2. \A c \in links : pc[c] \in Held
    BY DEF IInv, LinkInv, TypeOK
  <2>3. netPc = "scan" => \A c \in snapshot : pc[c] \in Held
    BY DEF IInv, RoundInv
  <2>4. QED
    BY <2>1, <2>2, <2>3 DEF IInv, RoundInv, TypeOK, NetworkTouchesLive
<1>2. QED
  BY <1>1, Invariants, PTL

\* The Network thread polls no descriptor that was closed
\* (Network.prepareCdpPollFds, cdp_dirty).
THEOREM NoClosedFdPolled == Spec => []PolledFdsOpen
<1>1. IInv => PolledFdsOpen
  BY DEF IInv, TypeOK, WorkerInv, LinkInv, RoundInv, HasFd, HasMem,
         PolledFdsOpen
<1>2. QED
  BY <1>1, Invariants, PTL

\* Server.shutdown only meets connections it may use (Server.cdps).
THEOREM ShutdownIsSafe == Spec => []TrackedIsUsable
<1>1. IInv => TrackedIsUsable
  BY DEF IInv, TypeOK, WorkerInv, HasFd, HasMem, Before, Tracked,
         TrackedIsUsable
<1>2. QED
  BY <1>1, Invariants, PTL

\* active_threads is exact, within its limit, and bounds the links, for every
\* number of connections (Server.spawnWorker, the assertion of
\* Network.prepareCdpPollFds).
THEOREM SlotsCounted == Spec => []SlotsAccounted
<1>1. IInv => SlotsAccounted
  <2> SUFFICES ASSUME IInv PROVE SlotsAccounted
    OBVIOUS
  <2>1. links \subseteq Counting
    BY DEF IInv, TypeOK, LinkInv, Counting, Held, Running, WorkerPcs
  <2>2. Cardinality(links) <= Cardinality(Counting)
    BY <2>1, RunningWorkers, FS_Subset DEF IInv
  <2>3. Cardinality(links) \in Nat
    BY <2>1, RunningWorkers, FS_Subset, FS_CardinalityType DEF IInv
  <2>4. QED
    BY <2>2, <2>3, RunningWorkers, BoundsAssumption
       DEF IInv, CountInv, TypeOK, SlotsAccounted, Counting
<1>2. QED
  BY <1>1, Invariants, PTL

\* A worker whose link was dropped finds the message that ends it, or has
\* seen it (Network.dropCdp).
THEOREM DropsAnnounced == Spec => []DropIsAnnounced
<1>1. MessageInv => DropIsAnnounced
  BY DEF MessageInv, InboxInv, DropIsAnnounced
<1>2. QED
  BY <1>1, Invariants, PTL

\* Nothing follows the message that ends a worker (Inbox.Message.Payload).
THEOREM EndIsLast == Spec => []TerminalIsLast
<1>1. MessageInv => TerminalIsLast
  BY DEF MessageInv
<1>2. QED
  BY <1>1, Invariants, PTL

\* The server is freed after the last worker is done (Server.deinit).
THEOREM FreedAfterWorkers == Spec => []FreedLast
<1>1. IInv => FreedLast
  <2> SUFFICES ASSUME IInv, mainPc = "freed" PROVE FreedLast
    BY DEF FreedLast
  <2>1. Counting = {}
    BY RunningWorkers, FS_EmptySet DEF IInv, CountInv
  <2>2. \A c \in Conns : pc[c] \in {"absent", "refused", "done"}
    BY <2>1 DEF Counting, Running, IInv, TypeOK
  <2>3. \A c \in Conns : pc[c] \notin Held /\ pc[c] \notin Tracked
    BY <2>2 DEF Held, Tracked, Before
  <2>4. \A c \in Conns : c \notin links /\ c \notin cdps
    BY <2>3 DEF IInv, LinkInv, WorkerInv
  <2>5. QED
    BY <2>2, <2>4 DEF FreedLast, IInv, TypeOK
<1>2. QED
  BY <1>1, Invariants, PTL

-----------------------------------------------------------------------------
(***************************************************************************)
(* The server implements CdpReadSide: every step of CdpServer that changes *)
(* who may read a socket is one of the steps of the abstract hand-over,    *)
(* and every other step leaves the mapped variables alone.                 *)
(***************************************************************************)

(* The kinds of step.                                                      *)

Simulates == [ReadSide!Next]_(ReadSide!vars)

Unmoved ==
  /\ UNCHANGED budget
  /\ \A d \in Conns : Reader(d)' = Reader(d)

Moved(c, from, to) ==
  /\ UNCHANGED budget
  /\ Reader(c) \in from /\ Reader(c)' = to
  /\ \A d \in Conns \ {c} : Reader(d)' = Reader(d)

\* A step that moves no read side is a stutter of the abstract specification.
LEMMA StillMaps ==
  ASSUME Unmoved
  PROVE  Simulates
  BY DEF Unmoved, Simulates, ReadSide!vars

\* A step that moves one read side is a Pass.
LEMMA PassMaps ==
  ASSUME NEW c \in Conns, NEW from, NEW to, Moved(c, from, to)
  PROVE  ReadSide!Pass(c, from, to)
  BY DEF Moved, ReadSide!Pass

\* dropCdp withdraws the links it drops, whatever else wakes up meanwhile.
LEMMA DropsMap ==
  ASSUME IInv, NEW S \in SUBSET links, DropLinks(S), UNCHANGED <<budget, mem>>,
         pc' = pc \/ Broadcast
  PROVE  Simulates
<1>1. S \in SUBSET Conns
  BY DEF IInv, TypeOK
<1>2. \A d \in Conns : Owner(pc'[d]) = Owner(pc[d])
  BY DEF Broadcast, Owner, IInv, TypeOK
<1>3. \A d \in S : Reader(d) = "network" /\ Reader(d)' = "nobody"
  <2>1. \A d \in S : mem[d] = "alive" /\ d \notin links' /\ pc[d] \in Held
    BY <1>1 DEF IInv, LinkInv, WorkerInv, HasMem, DropLinks
  <2>2. \A d \in S : Owner(pc'[d]) = "nobody"
    BY <1>1, <1>2, <2>1 DEF Owner, Held
  <2>3. QED
    BY <1>1, <2>1, <2>2 DEF Reader
<1>4. \A d \in Conns \ S : Reader(d)' = Reader(d)
  BY <1>2 DEF Reader, DropLinks
<1>5. ReadSide!Withdraw(S)
  BY <1>1, <1>3, <1>4 DEF ReadSide!Withdraw
<1>6. QED
  BY <1>1, <1>5 DEF Simulates, ReadSide!Next

-----------------------------------------------------------------------------
(* Every step maps to a step of CdpReadSide or to a stutter.               *)

\* Each action of the server, in the order of the kinds above.
LEMMA StepSimulates ==
  ASSUME IInv, [Next]_vars
  PROVE  Simulates
<1>1. CASE UNCHANGED vars
  BY <1>1, StillMaps DEF Unmoved, Reader
<1>2. ASSUME NetTop PROVE Simulates
  BY <1>2, StillMaps DEF NetTop, Unmoved, Reader, Owner, IInv, TypeOK
<1>3. ASSUME NetPoll PROVE Simulates
  BY <1>3, StillMaps DEF NetPoll, Unmoved, Reader, Owner, IInv, TypeOK
<1>4. ASSUME NetAcceptDone PROVE Simulates
  BY <1>4, StillMaps DEF NetAcceptDone, Unmoved, Reader, Owner, IInv, TypeOK
<1>5. ASSUME NetEventsDone PROVE Simulates
  BY <1>5, StillMaps DEF NetEventsDone, Broadcast, Unmoved, Reader, Owner,
       IInv, TypeOK
<1>6. ASSUME NetContinue PROVE Simulates
  BY <1>6, StillMaps DEF NetContinue, Unmoved, Reader, Owner, IInv, TypeOK
<1>7. ASSUME SigStop PROVE Simulates
  BY <1>7, StillMaps DEF SigStop, Unmoved, Reader, Owner, IInv, TypeOK
<1>8. ASSUME SigShutdown PROVE Simulates
  BY <1>8, StillMaps DEF SigShutdown, ServerShutdown, Unmoved, Reader, Owner,
       IInv, TypeOK
<1>9. ASSUME MainDeinit PROVE Simulates
  BY <1>9, StillMaps DEF MainDeinit, ServerShutdown, Unmoved, Reader, Owner,
       IInv, TypeOK
<1>10. ASSUME MainFree PROVE Simulates
  BY <1>10, StillMaps DEF MainFree, Unmoved, Reader, Owner, IInv, TypeOK
<1>11. ASSUME NEW c \in Conns, PeerConnect(c) PROVE Simulates
  BY <1>11, StillMaps DEF PeerConnect, Unmoved, Reader, Owner, IInv, TypeOK
<1>12. ASSUME NEW c \in Conns, PeerClose(c) PROVE Simulates
  BY <1>12, StillMaps DEF PeerClose, Unmoved, Reader, Owner, IInv, TypeOK
<1>13. ASSUME NEW c \in Conns, NetRefuse(c) PROVE Simulates
  BY <1>13, StillMaps DEF NetRefuse, Accepting, WorkerInv, Unmoved, Reader,
       Owner, IInv, TypeOK
<1>14. ASSUME NEW c \in Conns, NetWouldBlock(c) PROVE Simulates
  BY <1>14, StillMaps DEF NetWouldBlock, Scanning, Unmoved, Reader, Owner,
       IInv, TypeOK
<1>15. ASSUME NEW c \in Conns, NetRead(c) PROVE Simulates
  BY <1>15, StillMaps DEF NetRead, Scanning, Unmoved, Reader, Owner, IInv,
       TypeOK
<1>16. ASSUME NEW c \in Conns, InitCdp(c) PROVE Simulates
  <2>1. mem[c] = "none"
    BY <1>16 DEF InitCdp, Go, IInv, WorkerInv
  <2>2. QED
    BY <1>16, <2>1, StillMaps DEF InitCdp, Go, Unmoved, Reader, Owner, IInv,
         TypeOK
<1>17. ASSUME NEW c \in Conns, Track(c) PROVE Simulates
  BY <1>17, StillMaps DEF Track, Go, Unmoved, Reader, Owner, IInv, TypeOK
<1>18. ASSUME NEW c \in Conns, GoLive(c) PROVE Simulates
  BY <1>18, StillMaps DEF GoLive, Go, Unmoved, Reader, Owner, IInv, TypeOK
<1>19. ASSUME NEW c \in Conns, CheckShutdown(c) PROVE Simulates
  BY <1>19, StillMaps DEF CheckShutdown, Go, Unmoved, Reader, Owner, IInv,
       TypeOK
<1>20. ASSUME NEW c \in Conns, Tick(c) PROVE Simulates
  BY <1>20, StillMaps DEF Tick, Go, Unmoved, Reader, Owner, IInv, TypeOK
<1>21. ASSUME NEW c \in Conns, DrainEmpty(c) PROVE Simulates
  BY <1>21, StillMaps DEF DrainEmpty, Go, Unmoved, Reader, Owner, IInv, TypeOK
<1>22. ASSUME NEW c \in Conns, DrainCommand(c) PROVE Simulates
  BY <1>22, StillMaps DEF DrainCommand, Go, Popped, Unmoved, Reader, Owner,
       IInv, TypeOK
<1>23. ASSUME NEW c \in Conns, DrainOther(c) PROVE Simulates
  BY <1>23, StillMaps DEF DrainOther, Go, Popped, Unmoved, Reader, Owner,
       IInv, TypeOK
<1>24. ASSUME NEW c \in Conns, DrainTerminal(c) PROVE Simulates
  BY <1>24, StillMaps DEF DrainTerminal, Go, Popped, Unmoved, Reader, Owner,
       IInv, TypeOK
<1>25. ASSUME NEW c \in Conns, JsReturn(c) PROVE Simulates
  BY <1>25, StillMaps DEF JsReturn, Go, Unmoved, Reader, Owner, IInv, TypeOK
<1>26. ASSUME NEW c \in Conns, SyncRequest(c) PROVE Simulates
  BY <1>26, StillMaps DEF SyncRequest, Go, Unmoved, Reader, Owner, IInv,
       TypeOK
<1>27. ASSUME NEW c \in Conns, SyncResponse(c) PROVE Simulates
  BY <1>27, StillMaps DEF SyncResponse, Go, Unmoved, Reader, Owner, IInv,
       TypeOK
<1>28. ASSUME NEW c \in Conns, SyncDrain(c) PROVE Simulates
  BY <1>28, StillMaps DEF SyncDrain, Go, Unmoved, Reader, Owner, IInv, TypeOK
<1>29. ASSUME NEW c \in Conns, UnregisterCdp(c) PROVE Simulates
  BY <1>29, StillMaps DEF UnregisterCdp, Go, Unmoved, Reader, Owner, IInv,
       TypeOK
<1>30. ASSUME NEW c \in Conns, Recheck(c) PROVE Simulates
  BY <1>30, StillMaps DEF Recheck, Go, Unmoved, Reader, Owner, IInv, TypeOK
<1>31. ASSUME NEW c \in Conns, Untrack(c) PROVE Simulates
  BY <1>31, StillMaps DEF Untrack, Go, Unmoved, Reader, Owner, IInv, TypeOK
<1>32. ASSUME NEW c \in Conns, CloseSocket(c) PROVE Simulates
  BY <1>32, StillMaps DEF CloseSocket, Go, Unmoved, Reader, Owner, IInv,
       TypeOK
<1>33. ASSUME NEW c \in Conns, Leave(c) PROVE Simulates
  BY <1>33, StillMaps DEF Leave, Go, Unmoved, Reader, Owner, IInv, TypeOK
<1>34. ASSUME NEW c \in Conns, NetAccept(c) PROVE Simulates
  <2>1. pc[c] = "absent" /\ mem[c] = "none" /\ c \notin links
    BY <1>34 DEF NetAccept, Accepting, IInv, WorkerInv, LinkInv,
         Held
  <2>2. Moved(c, {"none"}, "worker")
    BY <1>34, <2>1 DEF NetAccept, Accepting, Moved, Reader, Owner, IInv, TypeOK
  <2>3. QED
    BY <2>2, PassMaps DEF Simulates, ReadSide!Next, ReadSide!Open
<1>35. ASSUME NEW c \in Conns, RegisterCdp(c) PROVE Simulates
  <2>1. pc[c] = "register" /\ mem[c] = "alive" /\ c \notin links
    BY <1>35 DEF RegisterCdp, Go, IInv, WorkerInv, LinkInv, Held, HasMem,
         Before
  <2>2. Moved(c, {"worker"}, "network")
    BY <1>35, <2>1 DEF RegisterCdp, Go, Moved, Reader, Owner, IInv, TypeOK
  <2>3. QED
    BY <2>2, PassMaps DEF Simulates, ReadSide!Next, ReadSide!HandOver
<1>36. ASSUME NEW c \in Conns, InitFails(c) PROVE Simulates
  <2>1. pc[c] = "init" /\ mem[c] = "none" /\ c \notin links
    BY <1>36 DEF InitFails, Go, IInv, WorkerInv, LinkInv, Held
  <2>2. Moved(c, {"worker", "nobody"}, "released")
    BY <1>36, <2>1 DEF InitFails, Go, Moved, Reader, Owner, IInv, TypeOK
  <2>3. QED
    BY <2>2, PassMaps DEF Simulates, ReadSide!Next, ReadSide!Release
<1>37. ASSUME NEW c \in Conns, Deinit(c) PROVE Simulates
  <2>1. pc[c] = "deinit" /\ mem[c] = "alive" /\ c \notin links
    BY <1>37 DEF Deinit, Go, IInv, WorkerInv, LinkInv, Held, HasMem
  <2>2. Moved(c, {"worker", "nobody"}, "released")
    BY <1>37, <2>1 DEF Deinit, Go, Moved, Reader, Owner, IInv, TypeOK
  <2>3. QED
    BY <2>2, PassMaps DEF Simulates, ReadSide!Next, ReadSide!Release
<1>38. ASSUME NEW c \in Conns, Handshake(c) PROVE Simulates
  <2>1. CASE pc' = [pc EXCEPT ![c] = "golive"]
    BY <1>38, <2>1, StillMaps DEF Handshake, Go, Unmoved, Reader, Owner, IInv,
         TypeOK
  <2>2. CASE pc' = [pc EXCEPT ![c] = "untrack"]
    <3>1. pc[c] = "handshake" /\ mem[c] = "alive" /\ c \notin links
      BY <1>38 DEF Handshake, Go, IInv, WorkerInv, LinkInv, Held, HasMem,
           Before
    <3>2. Moved(c, {"worker"}, "nobody")
      BY <1>38, <2>2, <3>1 DEF Handshake, Go, Moved, Reader, Owner, IInv,
           TypeOK
    <3>3. QED
      BY <3>2, PassMaps DEF Simulates, ReadSide!Next, ReadSide!Abandon
  <2>3. QED
    BY <1>38, <2>1, <2>2 DEF Handshake, Go
<1>39. ASSUME NEW c \in Conns, NEW k \in Kinds, NetFrame(c, k) PROVE Simulates
  <2>1. Reader(c) = "network" /\ \A d \in Conns : Reader(d)' = Reader(d)
    <3>1. c \in links /\ pc[c] \in Held
      BY <1>39, ConnsAssumption DEF NetFrame, IInv, RoundInv, LinkInv
    <3>2. mem[c] = "alive"
      BY <3>1 DEF IInv, WorkerInv, HasMem
    <3>3. QED
      BY <1>39, <3>1, <3>2 DEF NetFrame, Reader
  <2>2. /\ \A d \in Conns \ {c} : budget'[d] = budget[d]
        /\ MaxFrames - budget'[c] = (MaxFrames - budget[c]) + 1
    BY <1>39, BoundsAssumption DEF NetFrame, IInv, TypeOK
  <2>3. ReadSide!Take(c)
    BY <2>1, <2>2 DEF ReadSide!Take
  <2>4. QED
    BY <2>3 DEF Simulates, ReadSide!Next
<1>40. ASSUME NetUnregisterPass PROVE Simulates
  BY <1>40, DropsMap DEF NetUnregisterPass
<1>41. ASSUME NetShutdown PROVE Simulates
  BY <1>41, DropsMap DEF NetShutdown
<1>42. ASSUME NEW c \in Conns, NetHangup(c) PROVE Simulates
  <2>1. {c} \in SUBSET links
    BY <1>42 DEF NetHangup, Scanning, IInv, RoundInv, LinkInv, TypeOK, Held,
         Before
  <2>2. QED
    BY <1>42, <2>1, DropsMap DEF NetHangup, Scanning
<1>43. ASSUME NEW c \in Conns, NetReadEnd(c) PROVE Simulates
  <2>1. {c} \in SUBSET links
    BY <1>43 DEF NetReadEnd, IInv, RoundInv, TypeOK
  <2>2. CASE verdict = "keep"
    BY <1>43, <2>2, StillMaps DEF NetReadEnd, Unmoved, Reader, IInv, TypeOK
  <2>3. CASE verdict # "keep"
    BY <1>43, <2>1, <2>3, DropsMap DEF NetReadEnd
  <2>4. QED
    BY <2>2, <2>3
<1>44. QED
  BY <1>1, <1>2, <1>3, <1>4, <1>5, <1>6, <1>7, <1>8, <1>9, <1>10, <1>11, <1>12,
     <1>13, <1>14, <1>15, <1>16, <1>17, <1>18, <1>19, <1>20, <1>21, <1>22,
     <1>23, <1>24, <1>25, <1>26, <1>27, <1>28, <1>29, <1>30, <1>31, <1>32,
     <1>33, <1>34, <1>35, <1>36, <1>37, <1>38, <1>39, <1>40, <1>41, <1>42,
     <1>43, Zenon DEF Next, Network, WorkerStep

\* The server implements CdpReadSide: the read side of a socket has one
\* reader at a time, is handed to the Network thread once, and nothing is
\* released before that thread gave the link up (registerCdp, dropCdp,
\* unregisterCdp).
THEOREM ReadSideImplemented == Spec => ImplementsReadSide
<1>1. Init => ReadSide!Init
  <2> SUFFICES ASSUME Init PROVE ReadSide!Init
    OBVIOUS
  <2>1. \A c \in Conns : Reader(c) = "none"
    BY DEF Init, Reader, Owner
  <2>2. \A c \in Conns : MaxFrames - budget[c] = 0
    BY BoundsAssumption DEF Init
  <2>3. QED
    BY <2>1, <2>2 DEF ReadSide!Init
<1>2. IInv /\ [Next]_vars => [ReadSide!Next]_(ReadSide!vars)
  BY StepSimulates DEF Simulates
<1>3. QED
  BY <1>1, <1>2, Invariants, PTL DEF Spec, ImplementsReadSide, ReadSide!Spec
=============================================================================
