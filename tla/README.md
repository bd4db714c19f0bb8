# Verification of bb-prime-agent

TLA+ modules of the plugin that runs bb threads on prime-agent's resident daemon
sessions, TLC configurations that check them on small instances, and proofs that
TLAPS checks for every instance.

## The system

bb loads the plugin in two processes. In the *bridge* process every bb thread has
a lane onto a session that lives in prime's daemon; all lanes share one socket to
the daemon. In the *host* process the subagents panel has its own connection.

| part | state | operations | talks to |
|---|---|---|---|
| **session lane** `prime-session.ts` | open turn, fork anchors queued, gap, wireDown, closed, attached, buffered pushes, last sequence and generation | start, turn, steer, interrupt, release, destroy, compact; pushes; connection events | daemon connection (requests, events), bridge (deltas) |
| **shared connection** `daemon/connection.ts` | transport, `connecting` promise, `recovering` | dial, request, recover | socket client (calls, peer-close callback), lanes (broadcast) |
| **socket client** `daemon/client.ts` | socket, hello waiters, pending requests with timers, listeners | connect, request, reconnect loop, close | the daemon |
| **transport seam** `daemon/transport.ts` | replayed lines | forwards | client |
| **protocol** `daemon/protocol.ts`, `wire.ts`, `answer.ts`, `probe.ts`, `socket.ts` | none | parse, gate, resolve paths | all of the above |
| **provider bridge** `provider-bridge.ts`, `session-table.ts` | table of thread records | thread/start, resume, stop, discard, fork, shutdown | bb (JSON-RPC), lanes, tool channels |
| **delta translation** `delta-translation.ts`, `queue-state.ts` | open streams, tools, children, compaction and queue per thread | session event to thread deltas | lane |
| **forking** `fork-session.ts`, `fork-points.ts` | none of its own: checkpoints bb stores | fork, switch_session, poll for the file | daemon |
| **dynamic tools** `dynamic-tools/*`, `extension/` | listening socket, desired set, ack waiters | setTools, tool calls, stop | companion extension in prime |
| **subagents** `subagents/*` | watched threads, attach state, roster entries | watch, release, sweep, re-attach, control | daemon, panel |
| **panel**, entry points, catalogues, parameters | little or none | views, registration, pure functions | host |

Each of the two processes is one JavaScript event loop, so the interleavings are
those of its awaits with socket messages, timers and the daemon. What is hard:

- a command in flight when the wire drops, and one that was not sent yet;
- a turn that arrives while the wire is down, and everything that must wake it;
- the fork anchors, matched to runs by nothing but their order;
- a turn that several events may settle: its run's end, an interrupt, the drop;
- a state read before an await (`connectionGap`, `transport`, the snapshot's
  sequence) and used after it;
- failure half-way: a refused re-attach, a hello that fails, a fork whose file
  never shows up.

What makes each part correct:

- *lane*: no input is sent or admitted twice; every call returns; every turn is
  closed, once; an anchor names a prompt of the run that carries
  it; a lane that counts as live is attached.
- *connection and client*: a promise that settled stands for a live socket; a
  drop is told once and recovered once; what waits for a recovery is settled by
  it; a closed transport carries nothing; every request returns.
- *bridge*: a record has one lane and one tool channel; a stopped thread keeps
  neither; an interrupted turn is closed once.
- *translation*: every item and tool opened is closed once, in the turn it was
  opened in.
- *tools*: the set in force is the last one published; an ack answers the set it
  acknowledges; a result reaches the extension that asked.
- *subagents*: the daemon is attached for the watched threads and no other, but for
  what the code leaves behind.
- *forking*: the source session ends where it was.

`PROJECT.json` lists the hazards at their lines. Where a property spares a hazard, or
would catch a part of it only, the note says so.

## Modules

| module | what it is |
|---|---|
| `PromptOnce` | abstract: what a lane promises about one input |
| `SessionLane` | a lane's turns and steers, the socket and prime's daemon as its peer |
| `MCSessionLane` | fault budgets for its runs |
| `SessionStream` | a lane's other half: attach, snapshot boundary, filters, resync |
| `Translation` | `delta-translation.ts` as operators: event and state to state and deltas |
| `Timeline` | a lane over `Translation`, and what bb's assembler makes of the deltas |
| `DaemonWire` | abstract: what the shared connection promises the lanes |
| `DaemonConnection` | `connection.ts` over `client.ts` |
| `ToolChannel` | a session's dynamic-tools channel, `channel-server.ts` and the companion extension |
| `Bridge` | the requests of `provider-bridge.ts` over the session table, channels and lanes |
| `ForkSession` | `thread/fork` with prime's daemon, and the resolution of a checkpoint |
| `Roster` | subagents: the host's roster and connection, the server, the panel's hook |
| `SessionLane_proofs`, `SessionStream_proofs`, `Timeline_proofs`, `DaemonConnection_proofs`, `ToolChannel_proofs`, `Bridge_proofs`, `ForkSession_proofs`, `Roster_proofs` | proofs about the module of that name |

A lane is seen three times, each time with what one question needs: `SessionLane`
asks what becomes of bb's calls, `SessionStream` which events get through,
`Timeline` what they do to the thread bb shows. `Bridge` has many lanes, each
reduced to what the bridge relies on. `DaemonWire` stands between the lanes and
`DaemonConnection`.

In all of them a step is what a handler does up to its next await on the outside,
together with the promise callbacks it resolves.

### SessionLane

One lane after `start()` attached it. `call[i]` is where the `turn()` or `steer()`
of input `i` stands: *parked* on the gap's promise in `awaitLive`, *asking* and
*reading* in an `attach()` of its own (attach, then get_queue), *sent*, and *done*
or *failed* when it returned. `parked` keeps the order in which calls wake.
`openTurn`, `pendingCheckpoints`, `connectionGap`, `wireDown` and `closed` are the
fields of those names; an anchor is the input it was minted for. `connectionGap`
is *unavailable* while the promise has resolved and the field is still set.
`reattach` is the `attach()` of `handleConnectionRestored`, `stop` the interrupt or
release under way. `toDaemon` and `toLane` are the socket, `blocked` the commands
that wait in `ensureDaemonConnection`.

- A step is what a handler does up to its next await on the wire, together with
  the promise callbacks it resolves: a message read, a drop, a restore. A drop
  thus rejects every request in flight, whose catches pop anchors, in one step.
- When the wire is restored the commands that waited in the connection leave
  before the lane's attach, as the promise they wait on resolves first.
- prime's daemon is external. It answers a prompt when it admits it
  (`test-support/scripted-daemon.ts`); a steer into a run joins it after the tool
  round (`docs/spikes/0001-prime-daemon-protocol.md`); a follow-up runs by itself,
  in order; a push reaches a client that is attached. It may refuse a prompt or an
  attach, retry a run with `willRetry`, close the session, and lose its run with
  the drop.
- The history variables `boundaries` and `admissions` record what the properties
  compare: every boundary the lane computes, of a run that ended, of an interrupt and
  of a lost wire, with the turn it settles, and every admission. The interrupt's is
  recorded where `interrupt()` computes it; when the bridge emits it is `Timeline`'s.
- Elsewhere: the pushes buffered behind a snapshot, the filters and resync
  (`SessionStream`), compaction and deltas (`Timeline`), `start()` and `destroy()`
  (`Bridge`).
- Left out: of `applyTurnOptions` everything but its `awaitLive`, which merges with
  the turn's (the model and the thinking level, whose refusal the lane ignores);
  the polls of other clients; the capability gate; an attach whose answer comes
  after its timer.

### SessionStream

One lane from its first `attach()`. `lane.boundary`, `lane.last` and
`lane.buffered` are `snapshotBoundary`, `lastSequence` and the pushes held until
the answer; `Stale`, `MovesBoundary` and `Repeats` are `isStale` and the test in
`deliver()`. `asks` are the `attach()` calls that wait, with why they were made,
which decides what a refusal does: `start` and a resync close the lane, a restored
wire leaves it waiting.

- The lines of one chunk are handled before anything that awaited an answer goes
  on. `armed` holds the answers read in between, refusals too; while it is not empty
  the daemon and the wire take no step.
- An `attach()` that goes on sets the boundary, awaits the hello (l.367), which the
  client has at hand, and then delivers what was buffered. The `attach()` calls whose
  answers came in one chunk thus all set their boundary before the first delivers:
  `Arms` is one step for all of them, the last answer's boundary decides, and a
  refused one fails at the same moment.
- The daemon is external. It seats the client, takes the snapshot and answers in
  three steps, so that events may come between any two; it may send an event of the
  snapshot again, and replace the worker, which starts a new generation whose
  sequence goes on or starts over. `clock` says whether its events carry a cursor,
  a sequence, or both, all of which the code has a case for.
- `shown`, `rendered` and `base` are history: what was delivered, and what the first
  and the last snapshot held. That the first snapshot is rendered and no later one
  (`snapshotDeltas`, l.1189) is part of `rendered`; when bb asks for it is not.
- `ShownOnceInOrder` is about steps: what one shows is behind the last snapshot, and
  behind all that was shown. `Filtered` and `early` name when the code's filters cannot
  know the second, or the first (see *What the properties spare*).

### Translation and Timeline

`Translation` has one operator for each event the translator handles. A thread's
state is `ThreadState`; the answer is the state after the event and the deltas.
Texts, results, usage, titles, the classification of tools, warnings and errors
are left out, the error that `auto_retry_end` reports among them: a delta is what
it does to a row, the turn or the queue.

`Timeline` feeds it what a session streams and adds what the lane does itself:
`openTurn`, `compact` and `started` (`compactManually()` and `compactionStarted`),
`abort` (the deltas `interrupt()` computed, which the bridge emits once prime has
answered), the failure deltas of a lost wire, and the queue an attach reads. Delivery is
synchronous.

- `wire` is *deaf* after a re-attach was refused: the lane renders nothing and reads no
  queue until a later one succeeds. An attach whose `get_queue` fails shows no queue
  either. `told` (history) says that a push or an answer has told the lane what waits
  since it last attached.
- A transcript that an adopted session is rendered from opens the texts and thoughts of
  its messages and closes none of them (`delta-translation.ts:853`): such a row has the
  shape *rendered*, and is of no turn.
- bb's assembler is external: a boundary closes the turn and the rows of it, a
  child's row outlives the turn, and a boundary that claims an idle thread makes a
  turn to close. This is what the translator's comments say of it.
- prime is external. It runs a prompt or a compaction, streams texts, tool calls,
  children and its queue, and compacts by itself. A behaviour streams `MaxKinds`
  of these four. `prime.asked` is the compaction it was asked for and has neither
  begun nor refused: that prime has carried one out before it answers (`Compacted`)
  is thereby a fact of the state, not of how the runs are numbered.
- One abort is under way at a time: a turn sent meanwhile is interrupted after its answer.
- While the wire is down prime goes on, ends what it was doing (`Missed`), or begins
  a run or a compaction the lane does not see (`BeginsUnseen`).
- Runs have numbers the code never sees, so that a property can say which turn a
  boundary was meant for.
- `upset` records what happened that the code cannot get right, one name each: a
  run nobody asked for, a turn sent before the interrupted run ended, a run that
  starts before an abort is answered, and six more (`Upsets`). A property names
  the ones it spares; it holds in every other behaviour.
- What the assembler makes of a list of deltas (`Assembled`), and the rows of several
  children (`childrenDeltas`), are recursive functions, so that they can be reasoned
  about.

### DaemonConnection

`transport`, `connecting` and `recovering` are the module variables of
`connection.ts`; a promise is the dial or the recovery it belongs to, and
*Connected* once it resolved. Each transport made is a number, with its `socket`,
its peer-close listener, and its reconnect `loop`: a transport that was closed and
replaced may still have one. The attempts of a loop stand for its 30 s budget, and
the loop may give up after any failed attempt. `DialIsRefused` is a dial that fails
after its socket opened (a hello that is late or refused): the client disposes of
the socket and its listener starts a recovery before the catch of
`ensureDaemonConnection` closes it. `AskFindsSocket` is a dial on a transport that
has a socket.

Left out: the capability gate, line framing, a transport without `reconnect`, a
second connect while a socket opens, and what becomes of an orphan's socket (no
request can reach it).

`SessionLane` has the same wire with one lane on it. `DaemonWire` is what both
share: `DaemonConnection` is shown to implement it, and the lane's `wire`,
`blocked` and events are the lane's view of it.

### ToolChannel

One channel after `listen()`, and the extension instances of the session's workers,
the first and its replacements. `desired`, `chain` and `current` are `desiredTools`,
`setChain` and `socket`; `publishing` is the `publish()` under way and whether it
waits for a connection or an ack (the chain runs one at a time, so neither list of
waiters is longer than one); `executing` the tool calls bb has not returned from.
Each instance has its `sock`, `pending` calls, `calls` (`nextCallId`) and the set it
has in force; a set prime rejects half-way leaves it *Mixed*.

- A connection is a number with a line queue for each way and a backlog before it is
  accepted. Either end closes by itself; lines for an end that closed are lost, and
  so is what it had not read.
- `Republished`: a `publish()` that waited for the connection writes its set again
  after `handleConnection` did, so two acks come back for it.
- `ChainGoesOn` is a step of its own: the lines of one chunk are handled before the
  next `publish()` starts, so the second of two acks can come first.
- A tool set is the number of the setTools that published it. `applied` and
  `misanswered` are history.
- Left out: the registry and a `listen()` that fails, which are in `Bridge`; lines
  neither side knows, and the extension's budget of twelve reconnects, within which `MaxConnections` stays.

### Bridge

One action for each step of a request between two awaits: `AskStart`, `AskResume`,
`AskTurn`, `AskStop` begin `thread/start` and `thread/fork`, `thread/resume`,
`turn/start` and its likes, `thread/stop` and `thread/discard`; `calls[i].at` is the
await a request has come to. `records` are the `SessionRecord`s, `byThread` and
`byProvider` the two indices of `SessionTable`, `channels` the registry. A record
keeps of its lane whether it is open or closed, `attached`, waits in a `gap`, knows
the wire to be `down`, or its session to be closed (`dead`), and how far its re-attach
is (`stage`).

- A re-attach is three steps, as `attach()` awaits twice: attach (`LaneAttaches`), read
  the queue (`stage` is *reads*), settle the gap (`LaneSettles`). A wire that drops
  during the read ends it as if it had succeeded (`Overtaken`, `prime-session.ts:402`):
  the lane counts as live and has no seat. `cut` (history) marks such a lane, and one
  that closed because its worker was replaced and the attach to the new one failed
  (`ReplacementFails`), until an attach succeeds.
- A stop or discard of a thread the table does not know answers ok and does nothing
  (`AskUnknown`); `gone` are the threads whose discard found a record.

- Any number of requests (`MaxLive`) may be under way for one thread. bb is external:
  it constructs a thread one request at a time, and asks nothing of one it has
  discarded.
- prime's daemon mints, seats, kills and deletes sessions; it may refuse any
  command, and one that failed may have been carried out. That it answers a create with a
  session of its own is assumed: an answer that names the source of a fork, which the
  code refuses (`provider-bridge.ts:732`), is not.
- `ProcessEnds` is `onClose` and a crash alike: the next process starts empty and bb
  resumes by the session it persisted (`told`).
- `mixed`, `failed` and `letGo` are history, for the properties to name what they
  spare: requests of one thread that overlapped, a construction that failed, a
  thread bb has asked to let go.
- `NamesAssumption`: a thread's id and a session's id are never the same, as bb and
  prime mint them in spaces of their own (`vocabulary.ts:39`); `SessionTable` goes by
  either.
- Left out: `thread/rename`, skills, the methods the bridge refuses, line framing.

### ForkSession

`forkPrimeSession` as one action per command: read the state, the tree and, for a
checkpoint, the messages; fork; poll until the session runs another file; switch
back; poll until it runs the original. `Target` is `resolveForkTarget`. A fork
request ends *returned* or *failed*.

- A transcript is a tree of entries; a turn is a user message and its answer. The
  daemon applies a replacement some time after it answered the command.
- Around the forks: turns of the lane, which mint checkpoints, prompts that fail after
  they were counted (`TurnFails`), messages typed at prime's TUI, a new lane that counts
  from zero, an earlier turn gone back to.
- `alone` says that no other fork of the source was under way and that nobody used
  the source while it was replaced.
- Left out: parsing and digests of a checkpoint, which is the record it yields.

### Roster

One session, its child, one host and one panel. `entry` is the roster's record of
the session, with an identity so that an answer to an entry that is gone can be
told; `lease` the worker-retention lease; `panel` the hook: asking, `dirty`, what it
shows, its control. `waiting`, `toDaemon`, `toHost` and `armed` are the host's own
connection, as in the modules above. The children are the number of the daemon's
last update.

- The daemon and bb's realtime channel are external. Signals on their way count as
  one, since the panel answers each of them alike.
- A request whose timer fires fails for the host and stays on the socket (`late`): the
  daemon may serve it later, and nobody reads the answer. A signal, and a call between
  panel and server or server and host, may be lost. A dial that fails after its socket
  opened leaves the client reconnecting.
- `amiss` (history) is what is out of step *now*, each with the step that ends it:
  *stray*, a seat no attached entry answers for; *unseated*, an attached entry that may
  have no seat; *untold*, a lease nobody gave back; *overwritten*, children older than
  the daemon's pushes. `panel.missed` says that the panel missed a change since it last
  asked. Faults may happen at any time; only the panel's controls, of which one is
  checked in a behaviour, start while nothing is amiss.
- Left out: several sessions, hosts and panels, the contract's schemas, the view.

## Runs

| run | constants | shows |
|---|---|---|
| `lane_inputs` | 2 turns, 1 steer, 1 interrupt, one kind of fault out of refuse, timeout, merge, foreign, retry, close, drop | `TypeOK`; `AnchorsAligned`: undisturbed, the boundary of a run carries an anchor of that run; `AnchorSpentOnce`; `TurnClosedOnce` |
| `lane_wire` | 2 turns, 1 interrupt, 2 drops, 1 release | `ImplementsPromptOnce`, and the invariant it rests on, `OneRequestPerCall`; `CallsReturn`; `OpenTurnSettles`; `PromptsFollowAttachOnce` and `LiveLaneIsSeatedOnce` for the first drop |
| `stream` | 3 events, 2 generations, 1 drop, 1 replay, 1 refusal | `ShownOnceInOrder`; `NothingLost`; `StreamResumes`; `TypeOK` |
| `timeline` | 2 runs or compactions, 2 prompts, 1 drop, 1 change of the queue, 2 of the 4 kinds, 1 upset | `NothingLeftOpen`; `ClosesWhatWasOpened`; `ClosedOnce`; `ChildRowsFollow`; `QueueIsShown`; `TypeOK` |
| `connection` | 3 requests, 2 transports, 2 attempts, 2 drops, no refused dial | `NobodyWaitsInVain`, `ImplementsWire`, `TypeOK` |
| `connection_refusals` | 3 requests, 3 transports, 2 attempts, 2 drops, 2 refused dials | `ClosedCarriesNothing`, `RequestsSettle`, `RecoveryEnds` |
| `tool_channel` | 2 setTools, 2 workers, 2 connections, 1 tool call | `ServedSetIsPublished`; `AloneAckIsOwn`; `ChannelSettles`: every setTools returns and no call that was sent hangs; `TypeOK` |
| `bridge` | 1 thread, 4 requests, 2 at a time, 2 faults | `OneLanePerSession`; `RestIsClean`; `PromptIsHeard`; `TypeOK` |
| `fork` | 2 texts, 3 turns, 1 fork, 2 polls, 2 faults | `SourceIsLeftAlone`; `BranchEndsWithTurn`; `TypeOK` |
| `roster` | 2 updates, 2 faults, 1 sweep | `WatchedIsHeld`; `PanelCatchesUp`; `TypeOK` |

Why these bounds. Two turns and a steer are the least in which a run can be
overtaken, a follow-up can wait, and the newest anchor is not the oldest. Two drops
are the least in which the second meets the recovery from the first, two transports
the least in which one is replaced; a third request is in flight, one waits and one
is new. Three events put one in the snapshot, one before its answer and one after,
or one on each side of a replaced worker. Two runs put a boundary between two
turns; the upsets are told apart by allowing one. Two workers and two connections
are the least in which a replacement takes over, and two setTools the least in
which one waits on the chain. Four requests are a start, a release, a resume and a
turn, or a discard tried twice; two slots are the least that overlap. One thread
suffices to meet what threads share, the wire and the daemon; that two threads do
not get into each other's records is not checked. Three turns with two texts are
the least in which a text repeats and a turn lies behind the fork. A second fork is
left to the proof (two forks take fifty times as many states, with half the polls and
faults); it was the proof that met the prompt an earlier fork's branch had taken. In
`roster` the child runs at first and the second update finishes it, which lets an
answer and a push overtake each other.

The largest runs are `timeline` (2.2 million distinct states), `roster` (1.3 million),
`bridge` (0.8 million), `fork` (0.5 million) and `lane_inputs` (0.3 million). The
interplay of three faults is not checked. The proofs have none of these bounds:
*unseated* in `Roster` takes three faults, and it was the proof that met it.

The violation runs show where the code does not do what its comments say. Each
checks one property:

| run | property | what happens |
|---|---|---|
| `lane_reattach_refused` | `CallsReturn` | a drop, and the daemon refuses the lane's re-attach: the gap is left unresolved, the parked turn hangs, and so does every later one. `prime-session.ts:769` promises that "the next turn retries the attach once". |
| `tools_replaced` | `ResultIsOfItsCall` | a tool of the old worker returns after its replacement connected: the result resolves the replacement's own `bb-tc-1` (`protocol.ts:16`, `PROTOCOL.md:83`). |

No run checks deadlock: bb may send nothing, and then nothing is left to do.

Every property of a passing run has a mutant in `PROJECT.json`, a change of one
definition that breaks it: an anchor that is peeked and not shifted, a call woken
twice, a drop the lane or the connection does not hear, a sequence filter that lets
everything pass, an index that keeps a dropped record, a wait that takes any file
for the branch, a signal forgotten while the panel asks.

### What the properties spare

A property with an exception names it, and each exception is a place where the code
does something else. These were met while modelling; they are not runs of their own.

| where | what the code does | spared by |
|---|---|---|
| `prime-session.ts:977` | `turn()` does not look at `success: false`: a refused prompt's anchor stays and the next run's boundary carries it, although the comment says it is taken back | `AnchorsAligned` asks for no disturbance |
| `prime-session.ts:402` | `attach()` swallows a drop while it reads the queue, and the lane counts the wire as live | `...Once` (the first drop only), `OpenTurnSettles`, `cut` in `PromptIsHeard` |
| `prime-session.ts:883` | a run that starts after the lane's last turn was settled, a follow-up or another client's, ends without a boundary | *unowned* in `Timeline` |
| `prime-session.ts:402`, `:768` | a `get_queue` that fails, or a re-attach that is refused, leaves bb with the queue of before the drop | `told` in `QueueIsShown` |
| `delta-translation.ts:853` | the texts and thoughts of a rendered transcript are opened and never closed | *rendered* rows in `NothingLeftOpen` |
| `provider-bridge.ts:767` | the interrupt's boundary is emitted when the abort returns and closes a turn opened in between | *crossing* |
| `prime-session.ts:1055`, `:733` | an interrupt without an open turn, and an interrupt or a drop during a manual compaction while a prompt waits, settle the compaction's turn, which its `compaction_end` claims again | *unheld* in `ClosedOnce` |
| `delta-translation.ts:677` | a `compaction_end` whose start the lane did not see (it was down, or had not attached) counts as manual and claims a turn, be the compaction prime's own or one the lane failed already | *blind* in `ClosedOnce` |
| `prime-session.ts:629` | a compaction prime refuses after `compaction_end`, or because something else runs, fails whatever turn bb shows | *refused* |
| `prime-session.ts:733` | a drop while prime runs what the lane has no open turn for leaves that turn, and its rows, open in bb | *cut* |
| `client.ts:172` | a dial whose hello fails leaves the reconnect loop of the transport it closes behind, although line 311 says nobody should recover that one; the loop's event clears `recovering` and `connecting` under its replacement | `connection` has no refused dial; `ClosedCarriesNothing` says what is left of the closed transport |
| `prime-session.ts:864` | an event the daemon sends again is shown again if it has no sequence, or if the snapshot of a later attach was older than what the lane had shown (which takes `lastSequence` back); a worker replaced before the first answer was read leaves the lane with pushes it takes for live ones | `Filtered` and `early` in `ShownOnceInOrder` |
| `prime-session.ts:866` | a worker whose sequence starts over has its first events dropped as repeats | *restarts* in `NothingLost` |
| `channel-server.ts:239` | a set that waited for the connection is published twice; of two overlapping setTools the second can be settled by an ack of the first | `AloneAckIsOwn` speaks of the one setTools the bridge makes |
| `bb-tools-extension.ts:228` | a call made without a socket is neither sent nor failed | `ChannelSettles` |
| `session-table.ts`, `provider-bridge.ts:775` | a construction that fails drops the record and leaves its lane; a stop during a start leaves the lane the start then makes | `failed` and `mixed` in `Bridge` |
| `provider-bridge.ts:798` | a discard of a thread the table has no record of answers ok; session and transcript stay | `gone` in `RestIsClean` |
| `prime-session.ts:1137` | a kill that timed out although it was carried out is refused when the discard is tried again, and the discard fails for good | `RestIsClean` speaks of discards that answered ok |
| `fork-points.ts:157` | after messages outside bb the first message of the same text is taken, which need not be the turn's (line 17 says a shifted list fails the fork). A prompt sent while a fork brackets the source goes into the branch: the lane counts it, the source's list lacks it, and every later anchor sits earlier than its ordinal (line 154 says never earlier). A prompt that fails keeps its ordinal (`prime-session.ts:899`): after m1, a failed prompt, m2 and m3, all "continue", a fork at m2 resolves to m3 | `Sole` or `Unshifted` in `BranchEndsWithTurn`: no other message has the text, or the checkpoint's ordinal is still the position of its message |
| `fork-session.ts:119` | a failure between fork and switch leaves the source on the branch; a second fork brackets the branch, not the source (lines 39 to 42 say it re-brackets) | `alone`: the source runs its own transcript when the fork begins |
| `subagents/roster.ts:131`, `:189`, `:309` | an attach whose entry was released, or whose timer fired before the daemon served it, and a detach that was refused leave the client seated for nobody, although the entry is gone or not attached | *stray* in `WatchedIsHeld`, until the entry's next attach is answered or the wire drops |
| `subagents/roster.ts:195` | a failed attach of a `watch()` leaves its entry as it is. The entry can be one that a reconnect attached a moment ago and a detach, waiting for the wire since before the drop, has unseated since: it then stays attached, and answers, with no seat | *unseated* in `WatchedIsHeld`, until the wire drops |
| `subagents/roster.ts:226`, `:257` | a re-attach that fails deletes its entry and tells nobody: the lease stays (`host-entry.ts:30` says it goes with the last watched session), and the panel keeps what it shows | *untold* in `WatchedIsHeld`, until somebody is told; `missed` in `PanelCatchesUp` |
| `subagents/roster.ts:206` | the attach's answer replaces the children by the snapshot, even if newer ones were pushed meanwhile (line 16 says pushes keep it current) | *overwritten* in `PanelCatchesUp` |
| `subagents/host-entry.ts:104`, `server.ts:159` | a signal is emitted without a look at its failure, and nobody asks again; a panel that asked before its thread had a session ignores every signal | `OutOfReach` in `PanelCatchesUp` |
| `subagents/backend-connection.ts:96` | a client that gave up leaves its entries attached; they answer from what they hold and never dial | `OutOfReach` in `PanelCatchesUp` |

Two live workers take a tool channel's connection from each other for as long as
both reconnect; the properties hold all the same.

### Fairness

*Lane.* The event loop reads what arrives (`LaneReads`); prime answers commands and
ends its runs; a recovery ends, as its loop has a budget and its connects have
timeouts; a dial that commands wait on ends, for the same reason. Nothing makes bb
send an input, and no fault has to happen. *Stream.* The daemon serves what it
reads, the socket delivers, a resolved promise goes on, and a lost wire comes back;
a wire that never does leaves nothing to resume. *Tool channel.* Both
ends handle what arrived, each `publish()` has a timer, and bb returns from a tool
call, be it with an error (the bridge has no timer of its own for it). *Connection.*
A connect has 3 s to open a
socket and 3 s for its hello; the loop's waits are timers; a request has a timer.
*Roster.* Sockets, timers and promises go on, the realtime channel delivers a
signal or loses it, the daemon answers, and a client that lost the wire reconnects or gives up;
nothing makes the daemon update a child or a sweep happen.
Weak fairness suffices: none of these steps is disabled again by another actor
without the thing it waits for being settled. `Timeline`, `Bridge` and `ForkSession`
have safety properties only.

## Proofs

`SessionLane_proofs`, for every finite set of turns and steers and every fault
budget:

- `TypeCorrect`: `Spec => []TypeOK`.
- `OneRequestPerCallHolds`: `Spec => []OneRequestPerCall`. `PromptOnce` says an
  input is sent once, which is not inductive: nothing in it rules out a second
  command for the same input somewhere on the wire. `OneRequestPerCall` adds where
  requests are: a down wire carries nothing and an up wire blocks nothing
  (`WireInv`); parked calls are distinct and parked (`ParkedInv`); every command or
  answer is of the kind its call waits for (`FitInv`); no input has two
  (`UniqueInv`); what has not been sent was not admitted (`AdmissionInv`).
- `LaneImplementsPromptOnce`: `Spec => ImplementsPromptOnce`, step by step from
  that invariant. Reading the `DaemonAdmits` step: the command at the head of the
  socket is the only trace of its input, so it was not admitted before.

and, of its turns, anchors and seat:

- `TurnIsClosedOnce` and `AnchorIsSpentOnce`. Neither invariant speaks of anchors
  still queued or turns still open, so neither is inductive. Every step of the lane
  is first shown to be one move (`LaneMove`: calls that never prompted prompt, the
  queue keeps some of its anchors, one boundary at most closes the turn that was
  open, be it of a run's end, of an interrupt or of the loss). The loss finds a turn to
  close only once: a lane that knows the wire to be down has none (`DownInv`). Moves
  keep `TurnInv` (a turn on a boundary was prompted and is the open
  one no more) and `SpentInv` (queued anchors are distinct, prompted, and on no
  boundary).
- `AnchorsStayAligned`. `AnchorsAligned` sees a boundary when it is too late to say
  anything of the queue. `Calm` adds what is under way while nothing disturbs the
  lane: the queue holds the anchors of the prompts in line (on the socket, in prime's
  follow-up queue, running, ended and not yet read), in their order (`Chain`); each
  run is one input; an abort is under way at most once.
- `LiveLaneStaysSeated` and `PromptsFollowTheirAttach`, while the wire drops once at
  most. `Moored` says that what makes the lane count the wire as live, or will, is
  evidence of a seat; a second drop destroys it (see *What the properties spare*).
  Both speak of a session that is still in prime (`resident`): a prompt to a closed
  session is refused, whatever the seat.

`SessionStream_proofs`, for every bound:

- `StreamTypeCorrect`, `ShowsOnceInOrder` and `LosesNothing`, from `IInv`. What was
  shown says nothing of what will be, so `ShownOnceInOrder` is not inductive. Two
  reasons can keep an event from being shown again, and `Filtered` asks for one of
  them: the sequence (`BySequence`: whatever the daemon may still push, and the lane
  has passed, is at or below `lane.last`), or the order of the socket (`ByOrder`:
  without replays, whatever is on it comes after all that is shown, buffered or in an
  answer read). Both need that an answer's cursor parts the events its snapshot holds
  from those it does not (`Parts`, of every answer wherever it is), that events are
  pushed in the order of their generations and none of an older one follows an answer
  (`Pushed`), and that a later snapshot holds what an earlier one did (`Answered`).
- That a step shows nothing the last snapshot holds needs neither: `Barred` says, of
  every event of a snapshot that could still be delivered, that the boundary or the
  sequence keeps it back, whatever clock it carries. It holds until a worker is replaced
  before the first answer was read.
- `NothingLost` speaks of a lane that has read everything. While something is on its
  way, what holds is that from some event *s* on there is no gap in what was shown,
  what is buffered and what is on the socket taken together (`Since(s)`), that every
  snapshot on its way reaches to *s*, and that the filters drop only what was passed
  (`Filters`). `Counted` says that an `attach()` that waits has its question or its
  answer somewhere, so that a lane for which nothing is under way has its *s* at or
  before its last snapshot.
- The deliveries of `attach()` are a recursive function over the buffer. What it does
  is proved by an induction of its own (`Counting`: a set with 0 and every successor
  is all of `Nat`, from the well-foundedness of `<`, which needs no operator
  parameter).

`Timeline_proofs`, for any ids and payloads that can be told apart, any kinds a
session streams, and any number of runs, prompts, drops and upsets:

- `TimelineTyped`, `TimelineClosesAll`, `TimelineClosesItsOwn`, `TimelineClosesOnce`,
  `TimelineFollowsChildren` and `TimelineShowsQueue`, from `TimelineInvariant`. The
  properties compare what bb shows with what prime does; what connects the two is the
  translator's state, and none of them mentions it. `IInv` does:
  - *Who closes.* `NothingLeftOpen` speaks of a quiet lane. `OwnedInv` and `RowsInv`
    speak of every moment: a turn bb shows has somebody who will close it (an abort
    under way, a compaction the translator knows to be manual, a run whose turn the
    lane has not settled), and so has a row (an abort that holds its close, a stream the
    translator has open while the run goes on, a call prime has not ended).
  - *Whose turn it is.* `UnmixedInv`: the turn bb shows is that of prime's run, or there
    is no run; the abort under way is for that turn or for none; and prime compacts on its own in
    no turn, or the translator knows that it does. `OnceInv`: a run bb has closed and
    prime still runs is one the lane has settled, which is what makes the translator
    keep its boundary back.
  - *Rows, children, queue.* `ShapesInv`, `ChildrenInv` and `QueueInv` tie the tables of
    `ThreadState` to bb's rows and queue on the one side and to prime's on the other.
    The last speaks of a lane that was told: a push is shown because the payload the
    translator remembers is the one bb shows, or bb shows none.
  - `RunsInv` and `NumbersInv` say which runs there can be, and that a new one has a
    number bb has closed no turn of.
  - `SeenInv`: unless a compaction began unseen, the translator knows of prime's own.
    An automatic compaction that ends would close a turn otherwise.
- A step changes the timeline by the deltas it emits. `Assembled` is a recursive
  function of them; that it takes one list after another (`AssemblesParts`) is proved
  with `Counting`, and so is what a list of deltas of one kind does whose length is not
  known (the closes of an interrupt, the children of a snapshot). What each event does
  is then a lemma about state and timeline together, and a step only has to cite it.
- The attempt changed the model, each time because the invariant could not be had for a
  reason: runs and compactions that begin while the wire is down were missing; whether
  prime had carried out a compaction was read off the turns bb had closed; an interrupt
  or a drop in a compaction while a prompt waits closes the compaction's turn twice,
  which *unheld* did not cover; an interrupt with no turn to abort had to wait for the
  one before; and a boundary that claims an idle thread for no run counted as closing
  one. `NothingLeftOpen` and `ClosesWhatWasOpened` spare less than before; `ClosedOnce`
  spares the same names, of which *unheld* and *blind* now cover more.

`DaemonConnection_proofs`, for every set of requests and every bound:

- `ConnectionTypeCorrect`: `Spec => []TypeOK`.
- `ClosedClientCarriesNothing`: `Spec => []ClosedCarriesNothing`, whatever dials fail.
  `CarriesInv` says what is left of the phases below once one has: the loops belong to
  clients that were made, one at most, and only the current client dials, is listened
  to or has requests.
- `ConnectionIsSound` and `ConnectionImplementsWire`. The
  first holds until the first dial that is refused after its socket opened, the
  refinement with none (`MaxRefusals = 0`): what follows one is in no phase. The
  inductive invariant is `Phases`: no client, dialling, live or recovering, each
  fixing the promise, the flag, the socket and the loop of the current client
  together; no other client has a socket or a loop; and a request waits or is in
  flight only in the phase that settles it (`RequestsFollow`). `ConnectedIsLive`
  (a settled promise is a live socket) is not inductive without it: that a drop is
  heard depends on `recovering` and the listener. The condition is needed: such a
  dial leaves a second loop (`client.ts:172`).

`ToolChannel_proofs`, for every bound:

- `ChannelTypeCorrect`: `Spec => []TypeOK`.
- `PublishedSetIsServed`: `Spec => []ServedSetIsPublished`. That property speaks of an
  extension that has read everything; while lines are on their way, what must hold is
  that the last set among them is the desired one, or, when none is, the one in force
  (`ServedInv`). It needs that the desired set is the last one published, as the
  chain is in the order of the calls (`ChainInv`, `DesiredInv`), that a connection
  not yet accepted carries nothing (`BacklogInv`), and that no other instance reads
  from the one the channel holds (`SocketInv`).

- `AckOfOneSetIsItsOwn`: `Spec => []AloneAckIsOwn`, from `AckInv`: what is desired, in
  force or on its way was asked for, and an ack on its way, wherever it was written,
  was written after some set was applied.

`Bridge_proofs`, for every set of threads and sessions, any number of requests at
once and every bound:

- `BridgeTypeCorrect`, `SessionsHaveOneLane`, `BridgeRestsClean` and
  `PromptsAreHeard`, from `BridgeInvariant`. Its parts: shapes (`Shape`); the daemon
  mints a session for a request at most, so the ids do not run out (`Minting`); a
  session is of one thread (`Owned`); records go by the name the index has for them,
  and each request has done what its await says (`Fit`). The rest, `PureInv`, is said
  of a thread no two requests of which overlapped: the two indices agree, a lane that
  listens is that of its thread's record, one request works on a thread, and a lane
  that waits for nothing, or has attached again and reads the queue, is seated while its
  session lives, unless it was cut (`Hears`). `RestIsClean` speaks of
  moments with no request under way, so nearly all of this is about the moments in
  between.

`ForkSession_proofs`, for every set of texts and every bound:

- `ForkLeavesSourceAlone`: `Spec => SourceIsLeftAlone`. The action property looks at
  one step, the last; `ForkIsBracketed` is the invariant behind it. It says where the
  source is at each stage of a fork that is alone: at home before the fork; then the
  branch, pending or applied, and nothing else; away before the switch; and then the
  branch with the switch behind it, or home (`BracketInv`). It needs that a fork that
  is alone is the only one under way (`OnlyOne`), since any other would replace the
  source in between, and that a file just written is not the first (`FilesInv`). What
  the entries hold plays no part, so this proof leaves it open.
- `ForkTypeCorrect`: `Spec => []TypeOK`, and `ForkEndsWithItsTurn`:
  `Spec => BranchEndsWithTurn`, from `TInv`, which adds what the entries hold. Messages
  and answers alternate and parents come first (`IsTree`), so a branch consists of whole
  turns (`BranchIsPaired`). While a checkpoint is `Meant` (its text occurs once, or its
  ordinal is the position of its message, `Unshifted`), the first message of its text at
  or after its ordinal is its own: a later message has a later position
  (`PositionGrows`), so no earlier one of its text is at the ordinal or behind it. So
  `Target` is that message's answer (`TargetIsAnswer`). From
  there on the target is carried along: by the fork's record (`AimedForks`), then by
  the transcript that is pending, running or handed out (`CarriedForks`).
- The path to the root is a recursive function; what it yields, and that a finite set
  of numbers has a least one, is proved with an induction over sets of numbers
  (`LeastNumber`, `EveryNumber`), as in `SessionStream_proofs`.

`Roster_proofs`, for every bound:

- `RosterTypeCorrect`: a panel that waits has one request or one reply on its way,
  wherever drops, refusals and failed dials have left it (`Asking`: no more than one in
  the four places a request passes through, one after the other).
- `WatchedStaysHeld`: `Spec => []WatchedIsHeld`. The property speaks of a host at rest.
  While something is under way, what must hold is that an entry without its seat will
  hear of it, by a push or by the end of another attach (`SeatLost`); that the detach
  of an entry that left goes ahead of the attach of the next, on the socket, behind its
  timer or before it is sent (`DetachAhead`); that a seat is an attached entry's, or
  about to become one's or be given up (`SeatKept`, `Released`), or *stray*; and that the
  daemon says a session closed only after it did (`Offline`). The first attempt failed
  on *unseated*, which the model now names.

The assumptions are `InputsAssumption`, `BoundsAssumption` (of the lane and of the
timeline), `ConnectionBounds`, `ToolChannelConstants`, `NamesAssumption` and the bounds of
`Bridge`, `RosterAssumption` and `ForkAssumption`, and two of `Translation`. Its
`KeysAssumption` says that a thread has finitely many ids, each of one row: the
translator's keys carry their kind (`{ channel: "compaction" }`, a tool call's id, a
child's). `PayloadsAssumption` says that a payload is not the state before the first one.
TLC evaluates them on every run of their module.

Every invariant a passing run checks, and every action property and refinement, is thereby
a theorem. Only model-checked: liveness (`CallsReturn`, `OpenTurnSettles`, `StreamResumes`,
`RequestsSettle`, `RecoveryEnds`, `ChannelSettles`, `PanelCatchesUp`), as fairness and
ENABLED are out of the prover's reach, and the two violations, which a counterexample
shows. The library's induction theorems take an operator as parameter, which the prover
cannot instantiate, and its folds need them: the modules above are written with recursive
functions, and the inductions are over sets of numbers, which need no such parameter. No
module has a RECURSIVE operator.

## Plan

1. Abstract specifications: a gap-free, duplicate-free stream for `SessionStream`; a
   register of the last set for `ToolChannel`.
2. `Bridge` over two threads, and with the lane of `SessionLane` in it.
3. `applyTurnOptions` with the model and thinking level, and their refusal.
4. `Roster` over several sessions and hosts.

## Not modelled

- Protocol and wire schemas, paths, catalogues, parameters, extensions and skills:
  pure functions of one input, or file reads of one step.
- The transport seam, which forwards or replays, and `thread/rename`, export and the
  polls of other clients, which are one command with nothing to interleave.
- The panel's view and the registration with bb's plugin SDK.
- Texts: what a row says, usage, titles, warnings. Rows, turns and the queue are.
- The path a restarted bridge listens on (`channel-server.ts:460`): it is new, and
  which path the extension of an older session dials is prime's business.
- The scripts and the test support, which are not part of the program; the scripted
  daemon informs how prime's daemon is modelled.
