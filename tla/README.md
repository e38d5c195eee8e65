# ZenPanda: a verification project

TLA+ models of the ZenPanda headless browser (`src/src`: Zig, and Rust where it
binds html5ever and encoding_rs), TLC runs that check them on small instances,
and TLAPS proofs of their safety properties for every value of the constants.

## 1. Inventory

One process serves CDP clients over WebSocket. The main thread runs
`Network.run`, which accepts sockets, reads CDP frames and drives telemetry
uploads; each accepted connection gets a worker thread that owns a CDP object,
a browser (a V8 isolate), its sessions, pages and an HTTP client. A third
thread handles signals.

| part | state it keeps | operations | interacts through |
| --- | --- | --- | --- |
| `Server`, `Inbox` | `active_threads`, `cdps`, an inbox per connection | accept, spawn, handle, shut down, free | Network's listener, workers, signal handler |
| `Network` (CDP side) | `cdp_links`, `CdpLink.state`, `cdp_dirty`, poll snapshot, listener | poll, read, drop, register, unregister, stop | `cdp_mutex`, `cdp_unregister`, inboxes, `Env.terminate` |
| `HttpClient`, `network/http` | transfers and their state, queue, in-flight list, deferred releases, connections | request, perform, abort, tick, synchronous request | curl multi, layers, scripts' callbacks, inbox |
| layers | parked transfers per interception id, robots.txt verdicts | request, response hooks, continue, fulfil, abort | HttpClient, CDP Fetch domain, notifications |
| CDP domains | browser contexts, sessions, targets | one handler per method | Session, Page, Notification |
| `Session`, `Page`, `Frame`, `Runner` | pages, queued navigations, load state | navigate, create, remove, wait | HttpClient, ScriptManager, timers |
| `html5ever/lib.rs`, `sink.rs`, `Parser` | the tree under construction, a buffer of text, the node html5ever holds | feed, finish, one callback per tree-sink operation | html5ever, DOM, custom elements' callbacks |
| `ScriptManager` | lists of deferred, async, module scripts, what is being evaluated | add, evaluate, complete, wait for an import | parser, HttpClient callbacks, V8, load events |
| `document.write`, `open`, `close` | the parser they made, an insertion point | write, open, close | parser, ScriptManager |
| `TextDecoder`, queries and forms | a Rust decoder, buffers | decode, encode | encoding_rs through `html5ever/lib.rs` |
| `Scheduler`, `Env` | task heaps, micro tasks | add, run | scripts |
| `EventManager`, `Notification` | listener lists | register, dispatch, unregister | callbacks that change the lists |
| `BrowserPool`, `HealthMonitor`, `SharedCache` | idle and all browsers, cached bodies | acquire, release, evict | worker threads, monitor thread |
| `FsCache`, `ArenaPool`, `Robots`, `WS`, telemetry | files, free lists, rules, fragments, event ring | - | - |

The full list, with the status of each part, is `components` in
`PROJECT.json`; `hazards` there lists what is hard to test, at its line.

What makes each part correct, in a sentence: *server*: nothing freed is used
and every worker ends; *HTTP client*: every transfer reports exactly one end
and gives its connection back once; *layers*: a parked transfer is resumed or
killed exactly once; *parser*: every node has one place and every character
reaches the text it belongs to, once and in order; *contexts and sessions*: an id resolves to a live object
or to none; *pages*: a removed page is never scripted again and a wait ends;
*scripts*: executed once, in document order where HTML says so; *timers and
events*: nothing runs after it was cancelled, nothing is skipped because
another was; *pool and caches*: accounting equals contents.

### Hard behaviours

Two threads and a worker meet at `unregisterCdp`; a script that never returns
keeps its worker from reading its inbox; a synchronous request made by a script
runs the event loop inside the script, so that a command can pull the page from
under it; stop and free race with the signal handler; callbacks free the
objects their caller is iterating over.

## 2. Plan

1. `CdpServer`, `CdpServerProps`, `CdpReadSide`: life of a connection (done,
   model-checked and proved).
2. `HttpTransfer`, `HttpTransferProps`: life of a transfer and of a connection
   handle, with interception and the Fetch domain's commands (done,
   model-checked and proved in `HttpTransfer_proofs` and `HttpCalls_proofs`, each
   theorem for the features under which the code keeps its property).
3. `HtmlParser`, `HtmlParserProps`, `ParsedText`: the binding of html5ever, its
   tree and its text buffer (done, model-checked and proved, with the refinement).
4. `PageScripts`, `PageScriptsProps`: loading, order and nesting of scripts, and
   `document.write` (done, model-checked and proved).
5. `TextDecoder`, `QueryEncoding`: the use of encoding_rs (done, model-checked;
   ownership of the decoder is proved).
6. `Robots`: the requests that wait for a robots.txt, and the cache layer;
   composed with `HttpTransfer` for the request aborted while it waits.
7. `PageLife`: navigation queue, page replacement, runner waits.
8. `Targets`: contexts, sessions, targets; with them `BrowserContext.deinit`,
   which aborts what is still paused.
9. `Timers`, `Listeners`: scheduler and listener lists under mutation.
10. `BrowserPool` with `HealthMonitor`, `SharedCache`, `ArenaPool`, `FsCache`.
11. `WsReader`, `RobotsRules`: algorithms against reference definitions.

Abstract specifications worth stating: one reader per socket (done,
`CdpReadSide`), text that shows no buffer (done, `ParsedText`), one end per
transfer, at most one decision per parked request. Theorems worth proving: the
inductive invariants of 1 to 5 (done), 6 and 10, and the refinements of
1 and 3 (done).

## 3. The CDP server

### Model and code

`CdpServer` has four kinds of process. A step is what one thread does between
two points at which another can see it; `Network.cdp_mutex` is held through the
whole of `processCdpEvents` (`netPc = "scan"`), and every other critical section
is one action.

| actions | code |
| --- | --- |
| `NetTop`, `NetPoll`, `NetAccept*`, `NetRefuse`, `NetEventsDone`, `NetContinue`, `NetShutdown` | a round of `Network.run`, `acceptConnections`, `Server.onAccept`, `shutdownCdpLinks` |
| `NetUnregisterPass`, `NetHangup`, `NetRead`, `NetFrame`, `NetReadEnd` | `processCdpEvents`, `onData`, `dropCdp` |
| `InitCdp` ... `Leave` (`WorkerStep`) | `Server.handleConnection` from spawn to the end of the thread |
| `SyncRequest`, `SyncDrain`, `SyncResponse` | `drainInbox(.sync_wait)` under `HttpClient.syncRequest` |
| `SigStop`, `SigShutdown` | the two listeners that `main.run` gives the signal handler |
| `MainDeinit`, `MainFree` | `Server.deinit` after `Network.run` returned |

`links`, `link`, `dirty`, `snapshot` are `cdp_links`, `CdpLink.state`,
`cdp_dirty`, `cdp_poll_snapshot`; `activeThreads`, `cdps`, `mem`, `fd`, `inbox`,
`terminated` belong to the server and its workers; `js`, `kill` stand for the
script on a worker's stack and a pending `Env.terminate`; `eof`, `backlog`,
`budget` are what the kernel and the peer hold. `budget` (frames still to come),
`hangs` and `flush` are the bounded counters (`MaxFrames`, `MaxHangs`,
`MaxFlush`). `CdpReadSide` states the promise that the comment of `CdpLink`
makes; the refinement mapping in `CdpServerProps` derives the reader of a socket
from where the worker is and whether its link is in `cdp_links`.

Left out: errors of `poll` and of the allocator, `handles.wakeup`, a listener
that fails, listeners added late, repeated signals and the exit at the third
one, and the connection pool and telemetry multi, which appear only as the
rounds (`flush`) they keep a stopped loop alive.

### Runs

| run | instance | shows |
| --- | --- | --- |
| `cdp_safety` | 2 connections, 2 slots, a frame each (`cmd`, `close`) | six invariants and the refinement `ImplementsReadSide`, with stop and free at any moment |
| `cdp_messages` | 1 connection, any 3 of the 7 kinds of frame | order and content of the inbox; a worker whose peer is gone, or has closed, ends |
| `cdp_stop` | 1 connection, 1 frame, a script that never returns | that script keeps neither its worker nor a stopped server |
| `cdp_stop_race` | 1 connection | violation of `StopEnds` |

Why the bounds are enough: links meet only in the lists of the Network thread
and the slot counter, for which two workers produce every interleaving (a slot
that is missing refuses a worker too, and the theorem `SlotsCounted` is about
any number of connections and slots); what a frame can do to its own worker needs three frames (a
command that runs, one that overtakes in a synchronous request, one that ends).
Symmetry is used in runs without liveness properties only. Deadlock is not
checked: a stopped server rests.

Fairness: every thread runs (`WF` of the Network thread, the workers, the signal
handler and the main thread), and a worker that asks for `cdp_mutex` again and
again gets it (`SF`), since the Network thread releases it in every round.
Nothing is assumed of the peer, the signal, the answer to a synchronous request
or a script that does not return. `GoneWorkerEnds` and `CloseEndsWorker` speak
of the time the network loop runs; what happens after it is `StopEndsOrStrands`.

### Findings

* `cdp_stop_race`: a worker that calls `unregisterCdp`, or registers, around the
  last round of the loop is never answered, and `Server.deinit` spins.
* In the model `SigShutdown` is enabled after `MainFree`: the first listener
  (`Network.stop`) lets the main thread free the server while the handler still
  has to call the second (`Server.shutdown`, `main.zig:112`). No property
  excludes it, since nothing in the code does.
* Two limits of `Env.terminate` show up when the bounds of the runs are raised.
  After a close frame (`MaxHangs = 1` in `cdp_messages`) nobody terminates a
  script that never returns, and the link is out of the poll set. And with two
  queued commands (`MaxFrames = 2` in `cdp_stop`) the terminate that the drop
  sends is used up by the first script; the second is started after it, and if
  that one never returns its worker stays.

## 4. HTTP transfers

### Model and code

A worker's HTTP client has one thread; what makes it hard is its call stack.
`HttpTransfer` keeps that stack as a variable: each entry is a call with
something left to do, and a step is what the code does between two points at
which script can run. A callback of a transfer pushes a script, which may
request (`ScriptRequest`), wait (`ScriptSync`), abort (`ScriptAbort`), navigate
(`ScriptNavigate`) or return.

| actions | code |
| --- | --- |
| `ScriptRequest`, `ScriptSync`, `Request`, `MakeRequest`, `Pause`, `Created` | `Client.requestT`, `process`, `makeRequest`, `InterceptionLayer.request` |
| `LoopTick`, `NextTickRun`, `DrainQueue`, `TickPerform`, `PerformReturn`, `InboxDone` | `Client.tick`, `drainNextTickQueue`, `perform` and its deferred lists |
| `CurlFinish`, `SocketEvent` | libcurl inside `curl_multi_perform` |
| `ReadAuth`, `ReadRedirect`, `ReadBadRedirect`, `ReadDetached`, `ReadError`, `ReadResponse`, `DeliverData`, `DeliverDone`, `Done`, `Failed` ... | `processMessages`, `processOneMessage`, `handleRedirect` |
| `Abort`/`AbortReturn`, `Kill`, `DetachOrDeinit`, `Deinit`, `RemoveConns` | `Transfer.abort`, `kill`, `detachOrDeinit`, `deinit`, `Client.removeConn` |
| `CdpContinue`, `CdpContinueWithAuth`, `CdpFail`, `CdpFulfill`, `CdpStray`, `Serve*` | `cdp/domains/fetch.zig`, `InterceptionLayer.fulfillRequest` |
| `SyncTick`, `SyncReturn`, `SyncFailed` | `Client.syncRequest` |
| `TearDown`, `ClientDeinit` | `abortOwner`, `Client.abort` |

`net` holds the pool and the client's lists (`in_use`, `ready`, `dirty`, the
multi handle, `http_active`); `told` records each end a transfer's maker was
told of.

`Features` selects what the pages, servers and Fetch clients of a run do.
`SelfEnd` lists the calls under which a callback may abort or navigate away
its own transfer even though state `.completing` does not shield it, and
`"crossed"` lets a page wait in the error callback of an abort whose transfer is
queued, in flight or open to a command, so that the tick it waits in can start,
complete or answer it. Where the code is not safe under a combination, the passing
runs leave that combination out and say so here:

| combination | what happens |
| --- | --- |
| `"crossed"` with `"sync"` | run `http_abort_sync`: a nested tick starts or completes the transfer that is being aborted, and `Transfer.abort` goes on with a freed one |
| `"stray"` with `"intercept"` | `InterceptedMatches` fails: a command that comes after its transfer is gone, or that fails on its parameters, forgets the id (`fetch.zig:250`, `266`) and not the count of intercepted requests, which `CDP.zig:696-699` asks for |
| `SelfEnd = {"serving", "served"}`, `"intercept"` | `StackHoldsLive` fails: a navigation from a callback of `fulfillRequest` frees the transfer that `fulfillRequest` frees again (`InterceptionLayer.zig:248`) |
| `SelfEnd = {"failed"}`, `"fails"` | `StackHoldsLive` fails: after a refused redirect the error callback runs in state `.inflight`, so an abort in it frees at once (`HttpClient.zig:1088`) |
| `SelfEnd = {"abort"}`, `MaxScripts = 2` | `StackHoldsLive` fails: an abort inside the error callback of an abort |
| `"reconfigure"` | `CountsMatch` fails: `processMessages` releases a connection that could not be set up again (`HttpClient.zig:1092`), `Transfer.deinit` does once more, and `http_active` gets to -1. The connection may then serve two transfers, and with three of them `StackHoldsLive` and `EndIsTold` fail too |
| `"ws"` with `"sync"` | `PerformingIsInCurl` fails: the nested perform clears `performing` for the outer one (`HttpClient.zig:848`). With five transfers and scripts nested three deep `StackHoldsLive` fails too (found by simulation): the outer perform then no longer defers |

Left out: web sockets' own connections, other clients that share the pool,
`BrowserContext.deinit` aborting paused requests, the robots and cache layers,
proxies, allocation failures, and errors of the multi handle other than
recursion.

### Runs

| run | instance | shows |
| --- | --- | --- |
| `http_safety` | 2 transfers, 2 connections, 2 owners, scripts nested two deep; all features without sockets, `"reconfigure"`, `"stray"`, `"crossed"` | six safety invariants and the types |
| `http_sockets` | 3 transfers, 1 connection; sockets, interception, auth, synthetic responses, no synchronous loads | script inside `curl_multi_perform`: everything it ends is deferred, so that no call goes on with a freed transfer; the queue of those that wait for the connection |
| `http_degraded` | 2 transfers, 1 connection; sockets with synchronous loads, interception, failures, `"stray"` and `"reconfigure"` | what survives although the accounting is off and a connection is released twice: a page that is gone is not called |
| `http_sync` | 2 transfers, 2 connections, liveness | `syncRequest` returns |
| `http_abort_sync` | 2 transfers, 2 connections; `"crossed"`, `"sync"` | violation of `StackHoldsLive` |

Two transfers are enough for one to be waited for, aborted or navigated away
while another is at any point of its life, and two nested scripts for a callback
inside a callback; a third lets two wait in the queue. A redirect and a retried
challenge happen once (`MaxRedirects`, `MaxTries`); the run with a third
transfer leaves redirects to the others. `http_degraded` has two transfers, too
few to meet the failures of `StackHoldsLive` named above, and does not claim it;
what it checks, `DeadOwnerIsSilent`, is proved for every instance and feature
(`SilenceHolds`). The sockets of `http_sockets` come without synchronous
loads, and there `StackHoldsLive` is claimed; three transfers on one connection
put a socket, one that waits in the queue and one that is aborted in the same
state.

Fairness of `http_sync`: the client does what is left on its stack, scripts and
libcurl return, a response ends or times out (`http_timeout`, 5 seconds unless
configured otherwise) and a tick's wait for messages ends. With a single
connection `SyncReturns` fails: the script that waits holds the connection its
load needs. The run therefore has as many connections as nested scripts, and
the hazard list says so.

## 5. The HTML parser

### Model and code

`src/src/html5ever` is the Rust side of the parser: `lib.rs` has the entry points
the browser calls, `sink.rs` the tree sink through which html5ever calls back
into `browser/parser/Parser.zig`. html5ever itself is a library; in
`HtmlParser` it makes any callback that its own rules allow, in any order, and
between callbacks scripts run.

| actions | code |
| --- | --- |
| `ParseDocument`, `ParseDocumentWithEncoding`, `ParseFragment`, `ParseXml`, `StreamingCreate`, `StreamingFeed`, `FeedReturns`, `FeedPanics`, `StreamingFinish`, `EndOfParse` | the entry points of `lib.rs` and their callers in `Parser.zig` |
| `CreateElement`, `CreateOther`, `AppendDoctype`, `AppendText`, `AppendNode`, `FosterNode`, `FosterText`, `Pop`, `RemoveFromParent`, `ReparentChildren` | the methods of `Sink` with the callbacks of `Parser` they reach |
| `ContinueRun`, `ResumeText`, `NewText`, `FlushPendingText` | `Parser.appendTextChunk`, `flushPendingText` |
| `ScriptWrites`, `ScriptAddsText`, `ScriptRemoves`, `ScriptMoves`, `ScriptReturns` | constructors (`script = "early"`), reactions and scripts (`"late"`), and code between two calls of `document.write` |

`kids` and `kind` are the tree, `data` what is in the text nodes, `pending` and
`buf` the run of text that is kept open, `held` what html5ever has in hand: the
node it made or took out, and, in the adoption agency, the clone that is to be
put around it (`outer`). A character is the number of the chunk it came in (`sent`), or
`Script`. `ParsedText` is what a reader may rely on: a chunk appears at once, and
once, at the end of the text it belongs to. The refinement shows `text <- Whole`,
the data with the buffer in the place of what it will replace.

Left out: attributes, template contents, quirks, allocation failures, the
unwrapping of fragments, and the debug build's assertions (the release build is
modelled). html5ever's list of open elements keeps it from inserting a node
below itself; in the model that is the guard `held.node \notin UpFrom(p)`, and
scripts leave the inside of a node in hand alone (`Open`), so that acyclicity is an
assumption and not a result.

### Run

`parser_text`: four nodes besides the root, three chunks, one change by a script
(348 310 states up to symmetry). Three chunks make a run that is begun, continued
and interrupted; four nodes an element, two texts and what is between them; one
change is enough to break a run in each of the ways a script can, and the proofs
of the same properties are about any number.

### What the model shows of the code

* A script that writes the data of the text node being collected, between two
  calls of `document.write` or in a constructor, is overwritten by the next
  flush (`Parser.zig:107`); one that reads it there misses what is in the buffer.
  `ScriptSeesWhole` is about scripts that run after a callback's work, or after a panic, when `Document.writeInternal` flushes
  once more (`Document.zig:763`).
* A reaction that moves an ancestor into the node html5ever holds makes a cycle,
  which `appendNew` does not look for (`Parser.zig:538`).
* `parseHtmlAsChildren` replaces the child list of the node it parsed into by
  that of the wrapper: what a script inserted beside the wrapper is lost
  (`Frame.zig:3575`).
* `feed` drops a chunk that is not UTF-8 (`lib.rs:645`), without a word.

## 6. The scripts of a page

### Model and code

`PageScripts` is one frame: `ScriptManagerBase`, `ScriptManager`, the load state
of `Frame` and `document.write`, `open` and `close`. As in `HttpTransfer` the
call stack is a variable, since each of these may start any other below it.

| actions | code |
| --- | --- |
| `ParserAdds`, `ParserConstructs`, `ConstructorReturns`, `ParseReturns` | the page's parse, or one of `document.write`: `nodeIsReady`, `createElementNS`, `staticScriptsDone` |
| `ScriptInserts`, `ScriptRemoves` | code that makes, moves or removes nodes |
| `Add`, `AddFromElement`, `SyncReturns` | `ScriptManager.addFromElement`, by kind of script: blocking, deferred, async, module, inline |
| `DoneCallback`, `ErrorCallback`, `ErrorReturns` | `Script.doneCallback`, `errorCallback`, wherever the client is ticked |
| `WaitForImport`, `WaitReturns` | `ScriptManagerBase.waitForImport` |
| `Evaluate`, `RunReady`, `NotYet`, `RunDeferred`, `NoDeferred`, `TailHook`, `ScriptReturns` | `ScriptManagerBase.evaluate`, `Script.eval`, `tailHook`, `documentIsLoaded`, `documentIsComplete` |
| `Open`, `WriteToParser`, `FeedReturns`, `FeedPanics`, `Close`, `FinishReturns`, `CloseCompletes`, `CloseReturns` | `Document.open`, `write` outside the page's parse, `close` |
| `WriteInline`, `FragmentReturns` | `Document.write` of a script while the page is parsed |
| `Task`, `CodeReturns` | the event loop, listeners |

`asyncs`, `defers`, `readys`, `evaluating`, `static`, `notified` are the manager's
lists and flags; `current`, `point`, `counter`, `parser` the document's;
`handles` is what became of each streaming parser that Rust made. Each node has
one of seven kinds: five of script (`src` is a blocking one; `defer`, `async`,
`module` and `inline` what they say), `custom` for a custom element and `plain`.
A script's end is where code puts back what it saved (`ScriptReturns`). A blocking
script saves the insertion point when it starts, after its synchronous request:
what ran while it waited may have written (`SyncReturns`).

Left out: import maps, `nomodule`, modules' own requests (a wait for one is
`WaitForImport`), workers, shutdown (`isGoingAway`), the loads of child frames,
`innerHTML`, and a request that completes inside `makeRequest`. External style
sheets are left out too (off unless configured): `Frame.loadExternalStylesheet` ticks the client
in a synchronous request with `is_evaluating` set, as `waitForImport` does
(`Frame.zig:1713`), and fires load or error afterwards. `XMLHttpRequest` has no
synchronous mode, so besides these scripts alone wait for a request.
`documentIsComplete` would call `documentIsLoaded` while the page is parsed
(`Frame.zig:952-954`); both of its callers come later than that, `tailHook` because
it looks, `close` because `open` makes a parser only once the page is parsed.

### Run

`scripts`: three nodes, calls nested six deep, at most one node of each group in
`Single`, one move or one opened document (987 292 states). Three scripts let
one finish while a second waits inside a third; six calls are the page's parse, a
script, what it writes, a script of that, what that one writes, and a
constructor or wait in it. With five a written script could not write itself.
`Single` keeps pairs of the same kind out except deferred ones, whose order is
what a property is about, and pairs of two kinds that a third stands for: a blocking
script that code inserts is an async one, so that the two need not be in one
instance, and a plain node, a custom element and an async script do not meet.
Deadlock is not checked: a page rests.

### What the model shows of the code

The properties are about behaviours before a parser's handle is misused
(`broken`), and about the scripts that are queued. Beside them:

* A script that `close` runs (the last one of what was written) and that writes
  or closes again finds a parser without a handle (`Parser.zig:334`); a `close`
  inside a feed frees the parser that is being fed; a panic in a nested feed
  destroys the handle of the outer one. `Parser.Streaming.deinit` has no caller.
* `tailHook` runs "once the ready and deferred queues are done"
  (`ScriptManager.zig:66-67`); an async script that arrives while a deferred
  module waits for an import is put on `ready_scripts` behind the loop that read
  it. The load events fire before it has run.
* An inline module inserted when `static_scripts_done` is set runs at once
  (`ScriptManager.zig:217`), although deferred scripts may still be waiting.
* `close` called from a script fires the load event before the deferred scripts
  of what was written have run (`Document.zig:911`): `evaluate` returns at once.
* An `about:blank` frame is never parsed, so its deferred scripts wait for a
  `document.close` (`ScriptManagerBase.zig:445`).
* `document.open` leaves the load state as it is.

## 7. Text encodings

`TextDecoder` is one object of a page (`webapi/encoding/TextDecoder.zig`) with the
Rust decoder it allocates through `lib.rs`, for UTF-8: bytes are of four sorts,
which make a character of one byte, of three, a byte order mark and everything
that is malformed. `heap` is what became of every decoder. `QueryEncoding` is
`encoding_encode_with_ncr` and the buffers of its two callers
(`URL.encodeQueryString`, `KeyValueList.urlEncodeValue`), for single-byte
encodings. What encoding_rs does is modelled from how `lib.rs` uses it and from
its documented contract (`external` in the map).

The two share nothing, so `MCTextEncodings` checks them in one run,
`encodings`: three bytes a call, six a stream, two decoders; texts of six
characters (128 616 states). Six bytes are two characters of three, cut anywhere,
or a mark and a character; two decoders a stream, its end or error, and another;
six characters are the fewest that overflow a query's buffer.

* `StreamedLikeWhole` allows a byte order mark at the start to be missing: a
  one-shot decode of two marks drops both, `encoding_rs` the first and
  `TextDecoder` the second; and `ignoreBOM` keeps none, since encoding_rs drops
  it first.
* `encoding_max_encode_buffer_length` calls its result the worst case
  (`lib.rs:432-433`); it counts no references. A form's buffer is four times
  that and always enough (`SentIsWhole`); a query of six characters of two bytes
  without a mapping is found too long and goes out in UTF-8.

## 8. Proofs

`CdpServer_proofs` proves, for any finite set of connections and any bounds
(`ConnsAssumption`, `BoundsAssumption`), that `Spec` implies its types, the six
invariants of `cdp_safety` and `TerminalIsLast`. None of them is inductive. The inductive invariant is
`IInv`:

* `TypeOK`;
* `CountInv`: `active_threads` is the number of workers between accept and the
  end of their thread, so the `- 1` of the last step cannot wrap;
* `WorkerInv`: what a worker owns (memory, socket, entry in `cdps`) follows from
  where it is in `handleConnection`;
* `LinkInv`: a link is in `cdp_links` only while its worker is between
  `registerCdp` and the return of `unregisterCdp`, and a worker passes
  `unregisterCdp` only with state `removed`;
* `RoundInv`: what the Network thread keeps over a round (snapshot, ready
  descriptors, the link it reads) stays in `links` or is reflected in
  `cdp_dirty`. This is the strengthening that makes `PolledFdsOpen` follow: a
  link may leave `cdp_links` only with `dirty` set, and the snapshot is rebuilt
  before the next poll.

`MessageInv` (`InboxInv` and `TerminalIsLast`) is inductive relative to `IInv`:
a link that is still live has no terminal message in its inbox, a dropped one
has exactly one, at the end, or it was taken out; the lemmas `AppendAnnounced`
to `CutAnnounced` say what `Append`, `Tail` and the removal of an inner element
(`Inbox.popIf`) do to that. There is one lemma per part of the invariant, with
one step per action (`TypeStep`, `CountStep`, `WorkerInvStep`, `LinkStep`,
`RoundStep`, `MessageStep`).

The last part of the module proves `Spec => ImplementsReadSide`: `StepSimulates`
goes through the actions and shows with `StillMaps` (the mapping does not move),
`PassMaps` (it moves for one connection) and `DropsMap` (a pass of drops) that
each step is a step of `CdpReadSide` or a stutter.

`HtmlParser_proofs` proves, for any set of nodes, number of chunks and number of
changes by scripts (`NodesAssumption`, `BoundsAssumption`), the types,
`BufIsPending`, `OnePlace`, `ScriptSeesWhole`, and the refinement of
`ParsedText`. The inductive invariant has parts that a step disturbs apart:

* `TextInv`: the buffer belongs to the text node of the run that is open, and is
  empty without one; so a flush writes exactly what `Whole` shows already
  (`FlushedIsWhole`), which is why every flush is a stutter of `ParsedText`.
* `TreeInv`: children lists hold placed nodes once, in one list. `Without` takes a
  node out of a list; that it is in no other afterwards is what `AppendNode`
  relies on. Free nodes are in no list, and `held` has nodes that were made.
* `RestInv`: when scripts run after a callback's work, and once the parse is
  done, no run is open; from this and `TextInv` follows `ScriptSeesWhole`.

`ParsedText_proofs` proves of `ParsedText` alone that a chunk is in one node at
most, in order; `ChunksOnce` of `HtmlParser` is carried over the refinement.
`ChunksKept` has an argument of its own: each step shows (`Grows`) that chunks
stay where they are and a new one gets somewhere.

`PageScripts_proofs` proves `OneDrain` for any number of scripts and any depth.
The invariant `OneDrain` says nothing of what calls saved, so a return may break
it; `Nested` adds, for each call in progress, that what it saved of
`is_evaluating` is whether a call below it drains, waits or runs a script, and
that a drain was entered where none does. The lemmas `PushOther`, `PushWaiter`,
`PushDrain` and `Pop` are about stacks alone; each action is then a push, a pop or
a change of phase. `StaticScriptsDoneOnce` has an invariant of its own (`Shaped`,
`Quiet`): the page's parse is the outermost call, and above it there is no drain
past its ready scripts and no close, since those need `static_scripts_done` or a
parser of `document.open`.

`PageOrder_proofs` goes on from there, for the same constants and without any
other assumption, and has four inductive invariants, each relative to those before:

* `OrderedInv`: the types, `Nested`, `Handled` (in `PageScripts_proofs`: the
  live handles are those the document or a call in progress holds, and each is
  held once) and `OrderInv`. `DeferredInOrder` speaks of the scripts that ran;
  what keeps it is that `defer_scripts` is at any time what is left of those
  queued, in the same order (`Queued`, `Sequenced`), that a script on it that ran
  is its head and its drain is still on the stack (`Draining`), and that one that
  is waited for is in no list (`Syncing`). From this follow `RunsOnce`,
  `DeferredInOrder`, `ParserMatchesHandles` and, with `LoadInv` for the two
  places that move the load state on, `LoadedMeansDrained`.
* `MarkupInv`: the counter counts the constructors on the stack, and no call that
  parses markup is above one.
* `PointInv`: the insertion point is the last node the running script wrote
  (`Own`), each script's call holds that of the script it interrupted, and there
  is one call of each script; so that writing moves one of these points only.
* `WritesInv`: each node is in one place and once (`Once`), what an undisturbed
  script wrote follows it in its own place (`Written`), and only scripts write
  (`Origins`). With `PointInv`, the node behind which a fragment is put is the
  last of those the script wrote, whatever was written by its own scripts
  meanwhile (`AnchorIsLast`): the new nodes get behind all of them. What is in
  between is kept by `InsertOrder`, `AppendOrder` and `UnlinkOrder`.

`OneDrain`, `ParserMatchesHandles` and `NoMarkupInConstructor` exclude what
follows a misused handle (`broken`): the properties say so, the theorems assume
nothing of it.

`HttpTransfer_proofs` is about any number of transfers, connections and owners, any
`MaxScripts`, `MaxRedirects` and `MaxTries`, and so about any depth of callbacks,
nested ticks and synchronous loads (`SetsAssumption`, `BoundsAssumption`). Every
inductive invariant is relative to those before:

* `Sane` holds under all features: the types; `Shaped`, which says of each call
  what it is on behalf of and what it may stand on (only the loop and
  `syncRequest` tick, only a script is above a call that made a callback); `Listed`
  and `Sound`, which tie the state of a transfer to the queue, its connection, the
  ids a command may name and its owner. It gives `Typing`, `QueueHolds`,
  `PausedHolds` and `SilenceHolds`, all without an assumption on the features.
* `Entered`: libcurl is on the stack once at most, and `performing` is up exactly
  then. Without sockets, or without synchronous loads; it gives `PerformingHolds`.
* `Counted` (without `"stray"` and `"fails"`): `InterceptedHolds`.
* `Wired`: no two transfers have a connection in common, `in_use` is what the
  transfers hold, and nothing waits to be drained by perform. Without sockets and
  `"reconfigure"`; it gives `ConnsHold` and `CountsHold`.

`HttpCalls_proofs` proves what callbacks put at risk: `StackHolds` (no call goes on
with a freed transfer), `EndHolds` (each transfer tells its end, and a failure
once) and `DrainHolds` (`Client.abort` drains everything). The properties say
nothing of what keeps them, so the invariant is much larger:

* `Plain` and `Right` (together `Fits`) relate, for one transfer, the calls on the
  stack on its behalf to its state, its latches, what was told, and whether libcurl
  works for it. So a transfer whose response is being delivered is `completing` or
  `aborted`, and such a transfer always has a call that will free it; one whose
  error callback runs is latched; a failure that was told is on record in a latch,
  in a call that aborts, or in the transfer's end. That no call is about a freed
  transfer is one consequence, that `told` is not empty when it goes another.
* `Settled` is about pairs of calls: of two calls on behalf of one transfer the lower
  one is its `syncRequest`, or an abort interrupted a delivery; and a
  transfer whose abort waits below other calls is not on the next-tick list, and
  below anything but scripts it is neither queued, in flight, nor open to a command.
  This is what a tick under such an abort relies on when it takes work from
  the lists.
* `Ended`: after `Client.deinit` the stack is empty and every transfer gone. At that
  point no delivery is left (`Right`) and libcurl is not running (`Entered`), so
  `detachOrDeinit` has nothing to defer.

There is one lemma for each kind of change (a transfer moves, `CalmMoving`; none
does, `CalmQuiet`; some are freed or detached, `CalmDetaching`; a transfer's calls
start, `SettledOn`, or end, `SettledPop`) and one for each action. The three
theorems are `Spec /\ [][Careful]_vars => []P`, for all features and any `SelfEnd`:
`P` holds as long as no step was one that `Careful` rules out, so a behaviour that
breaks `P` took one of them before. These are a web socket's message
(`SocketEvent`), a redirect whose connection cannot be set up again
(`ReadDetached`), a synchronous load in the error callback of an abort whose
transfer can still start, complete or be answered (`ScriptSync` where `Exposed`),
and a callback that ends its own transfer where no state shields it (`ScriptAbort`,
`ScriptNavigate` where `Endangered`). All of them are in the table of section 4:
the last two break `StackHoldsLive` in the code, `http_abort_sync` shows one;
a failed set-up does with three transfers, a socket's message
together with synchronous loads with five. The theorems do not say
that the code keeps `P` there, and with a web socket's message alone
(`http_sockets`) it is TLC and not the proof that says so: script then runs inside
libcurl, which `Wired` and the proofs of most steps exclude. `http_safety` has
no step that `Careful` rules out.

`TextDecoder_proofs` proves that the object owns the one decoder that is
allocated (`IInv`, inductive as it stands with the types).

### Only model-checked

* `StackHoldsLive` with web sockets and without synchronous loads, where script
  runs inside `curl_multi_perform` (`http_sockets`, three transfers).
* `StreamedLikeWhole` and `SentIsWhole`: the results of decoding and encoding are
  folds over the input, and induction over data is beyond the prover.
* The liveness properties (`GoneWorkerEnds`, `CloseEndsWorker`,
  `StopEndsOrStrands`, `SyncReturns`), which need fairness.

## 9. Not modelled

* The robots, cache and signing layers, navigation (`Session`, `Page`, `Runner`),
  CDP targets and the Network domain, timers, listener lists, WebSocket framing,
  robots.txt rules, the disk cache and the arena pool: stages 6 to 11 of the
  plan. The hazards of the robots layer and of removing a page under a nested
  tick are listed in `PROJECT.json` without a property.
* `BrowserPool`, `HealthMonitor`, `SharedCache`: nothing but their tests uses them
  at this commit. Read with a view to modelling: `acquire` loses a browser whose
  new HTTP client cannot be made (`BrowserPool.zig:75`), `HealthMonitor.start`
  keeps one thread handle and leaves `running` set when the spawn fails
  (`HealthMonitor.zig:22`), `SharedCache.get` returns bytes that another thread
  may evict (`SharedCache.zig:53`).
* The DOM, CSS, layout and most Web APIs: sequential, and tested by the
  repository's HTML tests. The MCP server, storage, command line, logging: I/O.
