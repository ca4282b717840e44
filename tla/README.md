# A TLA+ model of linto-studio-plugins

E-Meeting turns audio streams of meetings into live captions. Several services
share one Postgres database and one MQTT broker, and each of them runs in as many
copies as a deployment likes. The hard part is not in any one of them: the state of
a session is written by the handlers of the Scheduler, by the requests of the
Session-API and by the consequences of streams that start, end, move and crash on
Transcribers, none of which wait for each other except through the database.

## The system

| Component | State | Operations | Talks to |
|---|---|---|---|
| Session-API (`Session-API/`) | none of its own; rows of sessions, channels, captions | create, pause, resume, stop, clear, delete, purge, update sessions; bots, templates, profiles | database; publishes the snapshot of sessions |
| Scheduler (`Scheduler/`) | rows of sessions and channels; one persistence chain per channel; registries of Transcribers, Translators, BotServices | `updateSession`, `saveTranscription`, `unregisterTranscriber`, `resetSessions`, a 60 s tick (`autoStart`, `autoEnd`, `reconcileStuckSessions`), bot routing | database; consumes Transcribers' messages and wills; publishes the snapshot |
| Transcriber (`Transcriber/`) | known sessions, connections per protocol, an ASR and a segment cursor per channel | accept, replace and cut streams; pause, resume, flush ASRs | reads the snapshot; publishes `active`, `inactive`, finals, its status and will |
| BotService (`BotService/`) | bots, a browser pool, a socket to a Transcriber per bot | start, stop, reconnect bots | Scheduler (start, stop, errors), Transcriber (a WebSocket stream) |
| Translator (`TranslatorPython/`) | per segment and language: frozen sentences, a tail, pending tasks | partials, finals, freezing, purging | Transcribers' partials and finals; publishes translations |
| lib (`lib/`) | broker connection, circular audio buffer | publish (dropped when offline), will, retained status | all |
| migration, MockProducer, benchmark | - | schema and test tools | - |

The snapshot is the retained topic `system/out/sessions/statuses`, all sessions
that are ready, active or paused. Scheduler and Session-API both publish it, each by
reading the database first. A Transcriber accepts streams for sessions in the
snapshot and cuts the streams of a session that has disappeared from it.

What is hard in it:

* *Interleaving.* Every `await` on the database lets another handler in. The code
  answers with one row lock per session in `updateSession`, with conditional
  updates in pause and resume, and with one promise chain per channel in the
  Scheduler. Stop, delete, clear and `endBotSession` check first and write later.
* *Ordering.* A deactivation from a Transcriber that has lost a channel may come
  after the activation by the one that won it. A will is not ordered with the
  channel updates of the same process that still wait in a chain. Two snapshots
  may be published in the other order than they were read.
* *Crashes.* A Transcriber dies and its will cleans up. The Scheduler restarts,
  loses its chains, and resets all channels while streams go on.
* *Loss.* MQTT sessions are clean and publications are dropped while offline, so
  what happens during an outage is never told again.
* *Timeouts.* The drain of `stop?waitFinal=true` polls until no channel is active or
  a deadline passes. Providers' flushes and bots' reconnections have deadlines too.

What makes each component correct:

* *Session lifecycle*: a terminated session stays so, a pause is undone only on
  purpose, an idle session has no streaming channel, the newest stream of a
  channel is the one registered, the captions of a stream are committed before its
  deactivation, a session that is stuck is healed.
* *Streams of a Transcriber*: one ASR per channel and one deactivation per ASR, no
  stream for a session that has gone, segment ids used once, a pause that applies to
  every ASR of the session.
* *Bots*: no browser context or socket outlives its bot, the pool's cap holds, a stop
  that is published reaches the replica that has the bot.
* *Translations*: no partial after its final, frozen sentences in order, no task of one
  segment touching the next.

`PROJECT.json` lists every component with its status and every hazard at its line.

## Modules

| Module | Content |
|---|---|
| `SessionLifecycle` | one session: its rows, the Scheduler's handlers, the Session-API's requests, the snapshot, and the streams of the Transcribers as the Scheduler sees them; its properties |
| `StreamingServer` | one Transcriber and one session: the connections of its WebSocket, SRT and RTMP servers, the ASRs, segment cursors, force-cuts |
| `BotService` | one BotService process: the records of bots, start and stop, join and disposal, the browser pool |
| `TranscriberStream` | the link of one bot to its Transcriber: sockets, handshake, shared audio buffer, reconnection |
| `SessionContract` | what a session promises its users, in eight atomic steps; `SessionLifecycle` implements it |
| `Asr` | the ASR object of a channel: its state, segment ids, held-back audio, and what each event of a provider does to it |
| `AmazonTranscriber`, `MicrosoftTranscriber`, `RealtimeTranscriber` | the providers (the last one is `openai_streaming` with the vLLM and the OpenAI protocol, and `linto`), each with the service behind it |
| `AsrLifecycle` | composes the four: the transition chain of an ASR, the snapshots that pause and resume it, its flush and disposal |
| `TranslationPipeline` | one channel and one target language in the Translator: partials, freezes, tails, finals, locks and slots |
| `BotRouting` | bots, their rows, the Scheduler's map of owners, the replicas of the BotService and their wills |
| `MC...` | what TLC needs to instantiate each: bounds, symmetry |
| `SessionLifecycleProofs`, `StreamingServerProofs`, `BotServiceProofs`, `TranscriberStreamProofs`, `BotRoutingProofs`, `AsrLifecycleProofs`, `AsrAudioProofs`, `TranslationPipelineProofs` | theorems with TLAPS proofs |

The modules meet at messages: `StartStream`, `ReplaceStream`, `FlushEnd` and `StopStream` of
`SessionLifecycle` are what `StreamingServer` publishes when a connection is registered and
when an ASR is disposed; a bot's link is one of the WebSocket connections of
`StreamingServer`; `BotLeaves` of `BotService` includes the end of the retries in
`TranscriberStream`. `Marked` of `AsrLifecycle` is `FlushDone` of `StreamingServer`; `Deliver`
and `Vacate` of `BotRouting` are `StartBot` and `StopBot` of `BotService`, and the removal of a bot that
left is followed by `BotEndRead` of `SessionLifecycle`. Captions of `Asr` are what `TranslationPipeline` is
told (`said`). `AsrLifecycle` is composed of its providers; the others are not
composed in one specification yet.

### SessionLifecycle

The variables are grouped as the processes are:

* database: `status`, `pausedAt` (whether it is null), `streamStatus`,
  `transcriberId`, `captions` (a count), and `rowLock`, which `updateSession`
  holds the lock of the session's row;
* Scheduler: `chain` and `worker` (the persistence chain of each channel and how far
  its first task is), `txn` (what an open `updateSession` has written and nobody
  sees), and the positions of `unregisterTranscriber`, `resetSessions`, the tick
  and `endBotSession`; `schedulerLink` is its connection, `"dead"` while it is down;
* Session-API: `request`, the position of each client's request;
* broker: `publication` (each caller of `publishSessions`, between read and send),
  `retained`, `ended`;
* Transcribers: `streaming`, `flushing`, `link`;
* `claimant` and `used` are bookkeeping for properties and bounds.

An action is a transaction, a single statement, or a publication. What a handler does
before and after an `await` are different actions, so everything else can come
between. `updateSession` is split at its statements (`UpdateSessionLock`,
`UpdateSessionWrite`, `UpdateSessionCommit`, or `UpdateSessionRollback`), because its
transaction keeps the lock over several of them. Under READ COMMITTED others
see nothing of it before the commit, and it sees what others commit; a statement on a
row that it has written waits (`SessionUnlocked`, `ChannelLocked`). The other
transactions of the code take their locks and commit without a statement of another
handler being able to come between to any effect, and are one action each.

| Code | Actions |
|---|---|
| Scheduler `MqttEvents.js`, `chainChannelPersist` | `ChainTask` (in the actions that publish), `NextTask` |
| `saveTranscription`, `updateSession` | `SaveTranscription`, `UpdateSession...` |
| both `publishSessions` | `PublishRead`, `PublishSend` |
| `unregisterTranscriber` | `UnregisterChannels`, `UnregisterSession` |
| the 60 s interval | `TickAutoStart`, `TickAutoEnd`, `TickFindStuck`, `TickNotStuck`, `TickHeal` |
| `endBotSession` | `BotEndRead`, `BotEndCommit` |
| broker events, `resetSessions` | `SchedulerOffline`, `SchedulerCrash`, `SchedulerReady`, `ResetChannels`, `ResetSession` |
| Transcriber streams and `_stopAsr` | `StartStream`, `ReplaceStream`, `FlushEnd`, `StopStream`, `PublishFinal`, `Crash`, `Disconnect`, `Reconnect` |
| routes of `sessions.js` | `Pause`, `Resume`, `StopCheck`, `StopTerminate`, `StopChannels`, `Drained`, `DrainTimeout`, `StopNormalize`, `ClearCheck`, `ClearWipe`, `DeleteCheck`, `DeleteDestroy`, `Purge` |

Abstractions:

* One session. Every query of the code is per session, or a bulk statement whose
  effect on a session depends on that session alone.
* No clock. `scheduleOn`, `endOn` and the 45 s of quiet may or may not have passed
  at a tick.
* A snapshot reaches Transcribers when it is published; the delay is in
  `StartStream` and `StopStream` being free to wait.
* A caller of `publishSessions` has one call in progress. A request that would start a
  second one waits for the first; nothing else is lost by that, because there
  are other callers to race with.
* `autoEnd` commits and announces in one step. A second reset does not begin before the
  first is over. The Session-API does not lose its connection.
* `PUT` and `PATCH` of a session and the deletion of captions by time are left out.

Two specifications: `SteadySpec`, in which Transcribers may crash but the Scheduler
and the connections stay up and no statement fails, and `Spec`, with all faults. Some
properties hold only of the first, and the runs with findings show why.

### StreamingServer

A connection is `waiting` (a WebSocket before its init), `live`, `stale` (cleaned up, but an
event of it is still to come: the `close` of a WebSocket whose closing handshake goes on, the
exit of its worker, the failure of an SRT read) or `gone`. Each server has its
`running` (runningChannels) and `listed` (runningSessions, as a set: `turn` is the order in which the
connections were added, in which `stopRunningSession` goes through them); the map `ASRs` is shared. An ASR is
named by the connection that started it.

| Code | Actions |
|---|---|
| `validateStream`, `onConnection` of the three servers | `ConnectSRT`, `ConnectRTMP`, `ConnectWS` |
| `handleInitMessage`, `initPcm`, `initWorker` | `InitMessage`, `WaitingGone` |
| `cleanupWebsocket`, `cleanupConnection`, and the events that call them | `CloseWS`, `CloseSRT`, `CloseRTMP`, `LateClose` |
| `setSessions`, `stopRunningSession` | `SessionGone`, `SessionListed` |
| `_stopAsr` | `StopAsr` (up to its flush, in the actions that emit 'session-stop'), `FlushDone` |
| `resolveInitialSegmentId`, `preserveSegmentId`, `clearSession` | `InitialSegment`, `FlushDone`, `ClearSession` |

Schedules (`scheduleOn`, `endOn`), audio, speaker trackers and pauses are left out. A clear and the
snapshot with the reset segment ids come in one step. A connection whose stream is
refused is one that does not come.

Two history variables say when the code is known not to give its promise, so that the
properties say where it does: `met` (a connection came while another of its channel was still
around, unless both were RTMP) and `hurried` (an ASR was started before the previous one of its
channel was disposed).

### BotService

Bots are numbered in the order of their startbot messages. `start` is how far `startBot` and the
bot's `init` have got, `disposal` how far `dispose` has. The context in the pool, the
audio handler and the record are keyed by session and channel (`key`), as in the code, so two bots
of one key can meet in them.

| Code | Actions |
|---|---|
| `startBot`, `init` | `StartBot`, `StartGoesOn`, `ContextOpened`, `Joined`, `JoinFailed`, `Aborted`, `InitFailed` |
| `BrowserPool` | `Evicted`, `Launched`, `LaunchFailed`, `ContextFailed`, `BrowserCrash` |
| `stopBot`, `dispose`, bot events | `StopBot`, `BotLeaves`, `PageCrash`, `PageCrashUnheard`, `LeaveDone`, `CloseDone` |

A failed `init` returns through promises that are already resolved; what follows it comes before any
other event (`Settled`).

### TranscriberStream

Sockets are a small set of objects that are used again once closed. `buffered` is shared by all streams
of the bot, as `record.audioBuffer` is. Frames are numbers. Messages may still arrive on a socket
this side is closing.

| Code | Actions |
|---|---|
| `_openSocket` and the events of a socket | `OpenSocket` (in others), `SocketOpen`, `SocketRefused`, `SocketLost`, `SocketClosed`, `Ack` |
| `_armAckWatchdog` | `AckTimeout` |
| `_scheduleReconnect` and its timer | `ScheduleReconnect` (in `SocketClosed`), `ReconnectTimer` |
| 'diarization-degraded', `stopBot` | `DiarizationDegraded`, `Stop` |
| `_sendAudio`, `_flush` | `Audio`, `Buffer`, `Flush` |

### SessionContract

`SessionLifecycle` instantiates it (`Contract`) with its own `status` and `captions`, and with `paused <- pausedAt`.
`KeepsContract` says that each of its steps is a step of the contract or leaves the three
as they are: the interleaved handlers, half-done transactions, wills and resets never show a user a
transition that the contract does not have, such as from paused to active without an emptied `pausedAt`, from
terminated to anything but deleted, or from `on_schedule` to paused.

### The ASR of a channel

`Asr` has the object (`asr`) and its event handlers as functions, because a provider's call may emit several
events at once. `starts` numbers the connections; a caption that comes from a connection older than the
latest start is `stale`. Audio packets are numbers, one to a slot of the circular buffer. `getAudioBuffer` returns a
view of the buffer's memory and `flush` only resets the pointer, so the view shows what is written later
(`View`). Amazon queues such views, and its generator reads one when it takes it (`Yields`); the other providers copy or
send the audio in their `transcribe`, as the code of `openai_streaming` does. `ws` (linto) and the Microsoft SDK are
taken to have read a view when the call returns, and the AWS SDK when it is yielded.

| Code | Definitions |
|---|---|
| `ASR/index.js`: `handleASREvents`, `_segmentIdFor` | `OnConnecting`, `OnReady`, `OnError`, `OnClosed`, `OnTranscribing`, `OnTranscribed`, `SegmentIdFor` |
| `_transitionLock`, `init`, `pause`, `resume` | `chain` and `step`; `BeginInit`, `Started`, `BeginPause`, `Paused`, `BeginResume` |
| `_stopAsr`, `flushFinals`, `dispose` | `StopAsr`, `BeginFlush`, `Flushed`, `FlushTimeout`, `Settle`, `Dispose` |
| `handleSessions`, `_applyToSessionASRs` | `NextKnown`, `Snapshot` |
| `transcribe`, `CircularBuffer` | `Transcribe`, `Adds`, `Add`, `GetAudioBuffer`, `FlushBuffer` |
| `amazon`: `start`, `reconnect`, `stop`, the stream and the audio generator | `AmazonStart`, `Credentials`, `Sent`, `Fails`, `AmazonStop`, `AmazonStopped`; `Silence`, `StreamError`, `StreamEnds`, `AmazonPartial`, `AmazonFinal`, `Yields` |
| `microsoft`: `start`, the listener's callbacks, `stop` | `MicrosoftStart`, `StartSuccess`, `StartError`, `StartupTimeout`, `Canceled`, `SessionStopped`, `Recognizing`, `Recognized`, `MicrosoftStop`, `StopAck` |
| `openai_streaming`, `linto`: `start`, `stop`, the events of the socket, arming, timers | `RealtimeStart`, `RealtimeStop`, `SocketOpen`, `SessionCreated`, `DeltaMessage`, `FinalMessage`, `ErrorMessage`, `SocketError`, `SocketClose`, `Arm`, `SegmentationTick`, `WatchdogTimeout`, `Reconnect`, `PreArm` |

A transition is one element of `chain`; each `await` of a provider ends a step, and the provider acts in
between. `call` is the promise a transition waits for. `kind` is chosen at the start and includes a
provider that cannot be loaded. Where the segmentation timer or `_checkInternalBoundary` cuts a text is left open:
any delta and any tick may end a segment. `thrown` stands for an exception that nothing catches.

`overwritten` is history: a packet was added while Amazon had a view in its queue, and overwrote what it shows.
`skipped` is another: a pause found the provider in `error` or `closed` and did not stop it, while
a connection was pending or coming. `born` is the status of the session when the ASR was made. The
properties say through them where the code keeps its promise.

### TranslationPipeline

One key of the code (a channel and a target language). `said` is what the ASR says of the current segment: how many
sentences, and which revision; a partial may rewrite them. A text is a sequence of sentences and a tail. A
freeze or a final is a job; it comes to the lock of its key, to the semaphore and to
the provider (`at`). A `KeyState` may outlive its key in the jobs that hold it, so states are objects with ids, and
so are locks, because `purge_key` forgets them.

| Code | Actions |
|---|---|
| `handle_partial`, `_assemble` | `HandlePartial`, `Assemble` |
| `_freeze_and_publish` | `FreezeDone`, `FreezeFails` |
| `submit_tail`, `_run_tail`, `_make_tail_callback` | `Submit`, `TailTake`, `TailRequest`, `TailDone`, `TailFails` |
| `handle_final`, `_finalize_target`, `_final_translation` | `HandleFinal`, `Finalize`, `FinalDone`, `FinalFails`, `FinalPublished` |
| `freeze`, `_translate` | `Acquire`, `Request`, `Released` |
| `_ttl_loop`, `stop`, a final without text | `Reap`, `Stop`, `SkipFinal` |

The gates are free choices (`skip`, and what the tail's callback does); how the assembler finds sentences is
abstracted to their number. Times (`min_interval`, the time to live) are left out: a tail may be
taken, and an idle key reaped, at any time. Publications are not lost here.

### BotRouting

`row` and `owner` are the bot's row and its column `botservice`; `ownership` is the Scheduler's map, by channel.
`inbox` and `statuses` are messages on their way. A stop is read, destroys the row and is
routed in three steps, a start is read, selects, writes and publishes in four, and the Scheduler may die, lose its
connection or come back between any two. While it is not connected its handlers go on, but `publish` does nothing
(`lib/mqtt.js:189`) and what is published to it is lost.

| Code | Actions |
|---|---|
| `POST /bots`, `DELETE /bots/:id`; `PUT` and `DELETE /sessions/:id` | `PostBot`, `DeleteBot`; `DeleteChannel` |
| `startBot`, `getStartBotData`, `selectBotService` | `StartRead`, `StartSelect`, `StartNone`, `StartWrite`, `StartFails`, `StartPublish` |
| `stopBot` | `StopRead`, `StopDestroy`, `StopOrphan`, `StopFails`, `StopRoute` |
| `registerBotService`, `unregisterBotService` | `Register`, `Unregister`, `Reap` |
| the Scheduler's end, lost connection and return | `SchedulerCrash`, `SchedulerAway`, `SchedulerReady` |
| BotService: `startBot`, `stopBot`, the events of a bot | `Deliver`, `Refuse`, `Stream`, `BotLeaves`, `BotFails` |
| a replica's connection, its will and its retained status | `ReplicaDies`, `ReplicaAway`, `ReplicaBack` |

Any registered replica may be selected, or none. A replica's process that starts again is a new one.
Messages are not duplicated. A deletion by `unregisterBotService` does not fail. The foreign key of a bot's row on
its channel cascades in the migration (`migration/migrations/20241220150607-add-bot.js`) and is set to null in the model
(`lib/model/model.js:389`): when a channel is deleted, the row goes or stays.

`dropped`, `contested` and `unstopped` are history: replicas the broker gave up while they lived, and bots of which
the code is known to lose track. A bot is `contested` if its stop met its start, it shared a channel with
another bot, or the will of its replica was handled before its owner was written. It is `unstopped` if its row went
and no stop was published: the Scheduler died or was not connected when it was to publish it, or the channel had been
deleted.

## Runs

In `SessionLifecycle`, bounds are per kind of event (`Limit`): streams started, streams replaced, finals,
requests, bot ends, crashes, faults (a disconnection, a restart, a failed
statement). Nothing else is bounded: the tick, handlers and publications recur as they
like. Every state is reachable with the channels' rows at their initial values, so
each bound is the number of surprises that are combined, and the smallest with which
the hazard in question happens: two Transcribers for a takeover, two channels for
sibling recounts, one crash with a stream on the other side, one fault at
any point of a request, a stream and a final. Each passing property has a
mutant of the code under the same bounds that breaks it.

Passing:

| Run | Instance | Shows |
|---|---|---|
| `takeover` | 1 channel, 2 Transcribers, 2 streams, 1 final, 1 request, 1 bot end | `TerminatedIsFinal`, `PauseSurvives`, `DrainBarrier` |
| `crash` | 2 channels, 2 Transcribers, 2 streams, 1 replaced, 1 crash | `IdleMeansNoStream`, `OwnerMatchesStream`, `LiveStreamIsActive` |
| `faults` | 1 channel, 1 stream, 1 final, 1 request, 1 fault | `TypeInv`, `RowLockDiscipline`, `PausedAtMatchesStatus`, `KeepsContract` |
| `live` | 1 channel, 2 streams, 2 requests, fair | `StuckActiveHeals`, `RequestsComplete` |
| `streams` | 2 channels, 3 protocols, 2 connections, 3 finals, 3 changes of the snapshot | `Served`, `CutWhenGone`, `ForceCutEnds`, `StoppedOnce`, `SegmentsAscend` |
| `bots` | 2 keys, 3 bots, a pool of 2, 2 stops, leaves or crashes, fair | `PoolBound`, `SlotsBalance`, `RecordedRuns`, `StartsComplete` |
| `link` | 3 sockets, a buffer of 2, 2 retries, 4 frames, fair | `TypeOK`, `InOrder`, `StoppedStaysClosed`, `UnreachableIsFatal` |
| `asr` | all providers, 2 starts, 2 results, 1 failure, 2 packets (a buffer of 1), 2 snapshots, 1 fast retry, fair | `NoZombie`, `StoppedIsQuiet`, `PauseFollowed`, `NoPhantomCaption`, `AudioInOrder`, `SecondaryPinned`, `FlushBounded` |
| `translate` | 3 modes, 2 segments of up to 2 sentences and 1 tail, 2 partials, 1 request at a time, 1 trouble, fair | `FinalsWin`, `FinalFaithful`, `PartialFaithful`, `FinalsComplete` |
| `routing` | 2 bots of 1 channel, 2 replicas, 3 events (bots posted, faults, deleted channels) | `TypeOK`, `OwnerWrittenFirst`, `RemovedIsStopped`, `DeadReplicaReaped` |

In `asr` two starts are one and the one a resume or a reconnection makes, which is what epochs and
generations tell apart; two snapshots are a pause and its resume, an absence and a return, or a pause before
the ASR is ready; two packets over a buffer of one wrap it. In `translate` a trouble is a failed
request, a final that is skipped, a partial that rewrites what was said, or a reaped key (a final may always rewrite); two segments let
the end of one meet the start of the next, and two sentences a gap in what is frozen. In
`routing` the three events are two bots, the second of which takes the map's entry of the first, and one fault or
deletion, or one bot and two faults: one of the Scheduler and one of a replica, in either order.

`DrainBarrier` is about the order of commits in one channel's chain, for streams that were not replaced on their own
Transcriber: it speaks of the step in which a channel loses its owner and not of the poll of a drain. When the poll
finds a channel inactive, another Transcriber may have taken it over and gone again while captions of the first, whose
stream still runs, are pending; a reset and a replaced stream deactivate a channel early, too (see below).

Two connections are enough for `streams` because every conflict is between a connection and the one it
replaces or overlaps with; three finals let both ASRs publish, one of them during its flush; three
changes are a departure, a return and a second departure, or a clear between. In `bots` three
bots for two keys give a replacement next to another bot that competes for the pool. In `link`
three sockets are the most that can be open, closing and connecting at once, and four frames
overflow the buffer and go on; sockets, retries and acknowledgements recur without bound.

A property is checked where the hazard it is about can happen, not in every run that could state it. The types of
`StreamingServer`, `BotService`, `AsrLifecycle` and `TranslationPipeline` (`TypeOK` in each, which holds under the same
bounds) are left to their other properties, which say more about the same variables.

Channels and Transcribers are symmetric in `takeover` and `crash`, channels in `streams`, bots and replicas in
`routing`: no action and no property tells their members apart.

Deadlock is not checked: all of the environment's events may be used up while the
session is deleted, no bot runs or the link is stopped, and a system with nothing to do is not stuck.

Where code and documentation disagree (each is one run, a counterexample, and a
finding that quotes both sides):

| Run | What happens |
|---|---|
| `late_close` | a sender reconnects to the same Transcriber: the late `close` of the replaced WebSocket stops the ASR of the new stream |
| `pause_stuck` | the start of the Amazon provider is awaited until its stream ends, so a pause queued behind it never takes hold |

Races seen while modelling that no run keeps. Sessions and streams; the first five contradict a comment or
document of the repository too:

* a sender reconnects to the same Transcriber: the replaced stream publishes `inactive` after its flush, later
  than the `active` of the new one; both name the same Transcriber, so the owner guard lets it through and the
  channel shows inactive while it streams (`StreamingServer/index.js:118`).
* `publishSessions` reads and then publishes; a snapshot read before a stop may be published after the stop's
  own and stay retained (`Scheduler/components/BrokerClient/index.js:727`, against the comment at `sessions.js:626`).
* `resetSessions` keeps `transcriberId`; a session paused at that time and resumed later is active without a
  stream for ever, because the reconciler takes the owner for one that streams (`:689` against `:171`).
* `unregisterTranscriber` writes outside the channels' chains: an activation still in its chain when the
  will is handled leaves a dead Transcriber as owner (`Scheduler/components/BrokerClient/index.js:532`).
* `resetSessions` on a reconnection during a drain deactivates the channel, and the drain ends with finals
  still in the chain (the same file, `:687`).
* two ends of a bot's session, or one and `autoEnd`, announce it twice (`:366`).
* stop, delete and clear act on a status they read before: a stop without force ends a session that
  became active, a clear wipes captions of a session terminated since (`sessions.js:601`, `:776`).
* the stop route, `autoEnd` and `endBotSession` leave `pausedAt` of a paused session as it is, so it is
  set in a terminated one. `PausedAtMatchesStatus` therefore speaks of sessions that are not over.
* two WebSockets of one channel that both wait for their init start an ASR each; the first is dropped from
  the map and never stopped (`StreamingServer/index.js:67`).
* a new ASR that starts during the flush of the previous one takes its first segment id before the
  cursor is kept, and ids repeat (`:171`); hence `hurried`.
* a WebSocket that waits for its init is not cut when its session has gone and starts a stream afterwards;
  `CutWhenGone` leaves WebSockets out.
* an acknowledgement that arrives on a socket already closing empties the shared buffer into it
  (`bot/TranscriberStream.js:75`); the frames are lost, in order.
* `'open'` starts the backoff over, so a Transcriber that accepts but never acknowledges is retried for ever.
* a stop during a bot's `createContext` disposes a bot that has no context yet; the dispose after its `init`
  returns at once, and the context leaks (`BotService/components/BrokerClient/index.js:203`, against the
  comment at `:199` and `tests/BrokerClient.test.js:866`).
* a bot that is started while a stopped one of the same key still leaves its meeting loses its context and
  audio handler to the disposal of the old one (`bot/index.js:536`); a failed join of a replaced bot stops the
  one that replaced it (`BotService/components/BrokerClient/index.js:195`).
* a page that crashes before `startBot` listens to the bot's 'error' takes the process down
  (`bot/index.js:195`).

ASRs and providers:

* a pause that finds the provider in `error` or `closed` does not stop it; the reconnection it has pending
  starts during the pause, and the resume starts another one and loses that socket (`ASR/index.js:76`); hence `skipped`.
* an ASR that is created while its session is paused transcribes (`StreamingServer/index.js:130` acts on the ASRs
  there are); hence `born`.
* the `stop()` that a Microsoft listener calls emits its `closed` when it is done, also after a resume, whose ASR
  then takes no audio (`microsoft/index.js:580`).
* a `session.created` that comes on a socket being closed sends on no socket and throws (`openai_streaming/index.js:166`).
* an error message of the service mutes a live session: the state is `error`, and nothing restarts it (`:380`).
* a secondary final that comes after the next primary partial goes to the segment of that one
  (`ASR/index.js:152`); `SecondaryPinned` says which primary it follows, not that it is the one it translates.
* Amazon's queue holds views of the circular buffer, not packets (`amazon/index.js:415`): of two that are queued
  before the generator polls (10 ms, or the credentials of a reconnection), both show the newer packet, which is sent
  twice, and the older one never is; hence `overwritten`. The recording writes the same view (`ASR/index.js:445`).
* a circular buffer that wraps forgets all but the packet that wrapped (`lib/circularbuffer.js:21`), and an ASR that
  is not ready hands no audio on, so the pre-arm buffer is nearly out of reach.

Translator:

* a partial that rewrites resets the frozen sentences while their freezes are in flight; a voided sentence comes back and
  is put into the final (`pipeline.py:361`). History (`voided`) excludes it.
* in live mode a freeze publishes the last tail again although its sentence is frozen by then (`:372`).
* `purge_key` forgets a lock that is free but has a waiter that was woken; two freezes of one key then run at once
  (`scheduler.py:132`, against `:5`). It takes more than one request at a time to see.
* the end of a final purges the key and with it the tail of the next segment (`pipeline.py:516`).
* finals wait for the lock behind the freezes of partials, and finals of two segments may be published in either order.

Bots:

* a stop between the read and the publication of a start leaves a bot without a row; so does a second bot
  posted to the channel before the first one streams; hence `contested`.
* so does a crash of the Scheduler between the deletion of a row and the stop
  (`Scheduler/components/BrokerClient/index.js:325`), or the loss of its connection before the stop, which `publish`
  then drops (`lib/mqtt.js:189`; the map's entry has gone, too, `:335`); hence `unstopped`.
* the stop of a bot whose channel was deleted destroys the row and routes nothing (`:327`), or finds no row; the bot
  runs on; hence `unstopped`, too.
* a replica that loses the broker for a while keeps its bots, whose rows are deleted (`:444`); hence `dropped`.
* a will handled between the entry in the map and the write of the row leaves a row with a dead owner (`:278`).
* a bot that is refused or fails leaves its row behind (`BotService/components/BrokerClient/index.js:160`, `:232`).

Fairness in `SessionLifecycle` (`Progress`): a handler or request that has begun goes on (the event loops
of both services run, Postgres answers, and a lock is held by a transaction that
itself goes on), and the interval timer recurs. These are weak. `TickFindStuck` is
strongly fair: a session that stays idle has been quiet for 45 s at some later tick.
No fairness is assumed of senders, clients, bots or faults, nor of the end of a drain
other than its deadline.

In `BotService` every step of the process that has begun goes on: Playwright's calls and the rules
have timeouts, and `dispose` and `createContext` await nothing else. In `TranscriberStream` timers fire, a
connection attempt ends one way or the other, and a socket that is closing emits 'close' (the ws
package has a timeout for it). Nothing is assumed of the Transcriber. `StreamingServer` and `BotRouting` have no
liveness property.

In `AsrLifecycle` the transitions, the flush deadline and the settling time go on (they are promises and timers of the
process); of a provider's service nothing is assumed, it may never answer, except that Amazon gives credentials or refuses
them and accepts the request of a stream or fails it (the SDK has timeouts; nothing makes a stream end). In `TranslationPipeline`
every task of the process goes on, and a request is answered or fails (the providers have timeouts); nothing is assumed
of the messages that arrive.

## Proofs

`SessionLifecycle`, for any sets of channels, Transcribers and clients and any bounds. Assumed of the
constants: the sets are disjoint, `None` and `Tick` are not among them, `Limit` gives
naturals, `Forces` is a set of Booleans.

| Theorem | Statement |
|---|---|
| `TypeCorrectness` | `Spec => []TypeInv`, that is `TypeOK` and `ChainDiscipline` |
| `RowLockSafety` | `Spec => []RowLockDiscipline` |
| `TerminatedForGood` | `Spec => TerminatedIsFinal` |
| `PauseIsKept` | `Spec => PauseSurvives` |
| `PausedAtTruthful` | `Spec => []PausedAtMatchesStatus` |
| `IdleHasNoStream` | `SteadySpec => []IdleMeansNoStream` |
| `OwnersStream` | `SteadySpec => []OwnerMatchesStream` |
| `LastWriteWins` | `SteadySpec => []LiveStreamIsActive` |
| `FinalsCommitBeforeEnd` | `SteadySpec => DrainBarrier` |
| `ContractKept` | `Spec => KeepsContract` |

The argument. `TypeOK` is not inductive: a task that ends takes the tail of its
chain, so the chain must not be empty; `ChainDiscipline` says so, and the two are
proved together, per group of actions and, within a group, per group of variables.

`RowLockDiscipline` says what the row lock is for: while `updateSession` is in its
transaction it holds the lock, the session exists, and the status it is about to write
fits the row as it is. It is proved from one fact about the whole model (`OnlyWriters`,
`UnlockedWrite`): every other action that writes `status` waits for the lock. From it
follow both action properties: the only writer that does not read the row in the same
step is the commit, and what it writes fits the row.

The first two theorems of `SteadySpec` need `SteadyInv`. That an idle session has no active channel is not
inductive: `updateSession` decides on a recount and writes later. `RecountHolds`
carries the recount over to the commit: others can only deactivate channels in
between, because every activation is an `updateSession` and waits for the lock.
`WriteConsistent` says that what it writes to its channel keeps owner and stream
status in step; `StopHasEnded` and `DeletedHasNoChannel` cover the requests that write
channels without the session (a stop forces channels inactive and leaves owners, which
is harmless once the session is terminated). They do not hold of `Spec`:
`resetSessions` is what breaks it.

`LastWriteWins` and `FinalsCommitBeforeEnd` are about the order of the messages in the chains, and share the invariant
`ChainInv`. `LiveStreamIsActive` speaks of a channel with nothing pending; `ClaimantWins` says what leads there: the
activation by the claimant is committed and every task that is not committed leaves it (`Harmless`: a caption, or the
deactivation by another Transcriber, which the owner guard turns away), or it is pending and every task behind it
does. Three things make it inductive: the transaction at the head of a chain has written what its task and the
owner call for (`WrittenFromHead`, which the row locks keep true); a claimant streams and flushes nothing
(`ClaimantStreams`), so no deactivation of its own arrives; and a will is that of a dead Transcriber
(`Connected`). For the order of captions and deactivations, `FinalsBeforeEnd` says that a stream's deactivation
stands behind its captions, unless a stream was replaced on its own Transcriber:
behind a deactivation in the chain there is no caption of the same Transcriber without a new activation between
them. A channel only loses a living owner to the deactivation at the head of its chain, so everything the stream
has published is committed by then. Each message and each end of a task has one lemma per predicate (`GrownOrder`,
`ShrunkOrder`, `GrownWins`, `ShrunkWins`, `CommitWins`), and `SteadyCases` says which steps touch chains or streams
at all.

`ContractKept` is the refinement of `SessionContract`. It needs no new invariant: of each group
of actions one step says which step of the contract it is; the commit of `updateSession` needs
`RowLockDiscipline`, because it writes what was decided earlier.

`TranscriberStream`, for any set of sockets, any positive buffer and any bounds:

| Theorem | Statement |
|---|---|
| `LinkTypes` | `Spec => []TypeOK` |
| `FramesInOrder` | `Spec => []InOrder` |
| `StopIsFinal` | `Spec => StoppedStaysClosed` |

`InOrder` speaks of what was sent only; `BufferFollows` is what it needs: the buffer is ascending, all of
it is newer than what was sent, nothing is newer than the last frame, and the buffer is empty while
the stream of the record is acknowledged, because then a frame overtakes the buffer. `CountersAgree` is
what `TypeOK` needs: a timer the record knows of exists. Lemmas on sequences carry the
order over append, tail and concatenation.

`BotRouting`, for any bots, channels and replicas and any number of events; assumed: `ChannelOf` is a function from
bots to channels, `None` is neither a bot nor a replica, `MaxEvents` is a natural.

| Theorem | Statement |
|---|---|
| `RoutingTypes` | `Spec => []TypeOK` |
| `OwnerIsInTheRow` | `Spec => []OwnerWrittenFirst` |
| `DeadReplicasAreReaped` | `Spec => []DeadReplicaReaped` |
| `RemovedBotsAreStopped` | `Spec => []RemovedIsStopped` |

`OwnerWrittenFirst` speaks of bots that run or are about to. `OwnerInv` adds where they come from: what startBot has
written is in the row (`WrittenIsOwned`), and a bot is launched once, so that no write of the owner
comes after it (`StartedOnce`). `DeadReplicaReaped` asks for a will that is still to come: `DeadInv` says
that it is the last status of a dead replica, in the queue and retained (`WillIsLast`), that a Scheduler that is
not connected hears nothing (`HearsNothing`), and that it cannot select a dead one whose will it has handled
(`WillArrives`), which is what makes the owners it writes harmless (`WillReaps`).

`RemovedIsStopped` needs to know what a stop will find when it is routed, since the row is gone by then. A bot is
`Loose` on a replica while it is selected for it, or a message to start it or the bot itself is there with no stop
behind it. `StopInv` says that a bot that is loose on a good replica (alive, never given up by the broker) is
`Routable`: it has its row or a stop that has destroyed it, the map names that replica or none for its channel, and every stop that has
read the row has read that replica (`LooseIsRoutable`); so the stop that is routed goes there and the bot is loose
no more (`RouteStops`). What keeps this true: while a bot waits for its replica or is loose, no other is being started for its channel
(`OneOpen`), so the map is not overwritten; a bot is in one place (`InOnePlace`), so one that leaves is gone; the
rows that are reaped are of replicas that are not good (`GoodIsOnline`); a bot whose row is read by a stop is not
being started, unless it is contested (`StopAfterStart`); the rows that go without a stop are of `unstopped` bots, of
which nothing is claimed (`Excepted`). Nothing but the selection makes a bot loose
(`NextShrinks`): messages are only handled in their order (`Consumes`).

`StreamingServer`, for any channels, any of the three protocols, any number of connections, finals and snapshots;
assumed: the bounds are naturals.

| Theorem | Statement |
|---|---|
| `AsrStopsOnce` | `Spec => []StoppedOnce` |
| `RTMPCutEnds` | `Spec => []ForceCutEnds` |
| `LiveIsServed` | `Spec => []Served` |
| `GoneIsCut` | `Spec => []CutWhenGone` |
| `FinalsAscend` | `Spec => []SegmentsAscend` |

All rest on `ShapeInv`: what the three maps may hold (`MapMatches`: the map of ASRs a live one, under its channel;
`ListsMatch`: those of a server only its own connections, which have left `waiting`), and that an ASR is deactivated in
the step that disposes it (`CountMatches`), so that a second stop finds it out of the map. `ForceCutEnds` is inductive
with it. For `Served` and `CutWhenGone`, `Alone` says that as long as no connection has met another each has its channel
for itself, and `MapsLive` that the maps then have streams only; a cleanup cannot hit another's ASR. For
`SegmentsAscend`, `SegmentInv` carries the promise from one ASR of a channel to the next: the next id of the ASR there
is, or the cursor that is kept while there is none, is above every final of the channel.

`BotService`, for any keys, any number of bots and any size of the pool; assumed: that there are finitely many keys, the size is positive, and the other
bounds are naturals.

| Theorem | Statement |
|---|---|
| `PoolNeverOvercommitted` | `Spec => []PoolBound` |
| `SlotsAreReturned` | `Spec => []SlotsBalance` |
| `RecordedBotsRun` | `Spec => []RecordedRuns` |

`PoolBound` counts contexts and reservations; it is inductive only with `SlotsBalance`, which says what a
reservation is: a bot that launches or opens. A context that is opened turns its bot's reservation into a
context, so the sum stays; the bound is tested where a reservation is made.
`RecordsMatch` and `DisposalFollows` say that a record is of its own key and is no longer `replacing`, and that
nothing is disposed before its init; `RecordedRuns` follows.

`AsrLifecycle`, for any of the providers and any bounds; assumed: the bounds are naturals, and the sizes of the buffers
and the number of fast retries are positive.

| Theorem | Statement |
|---|---|
| `TypeCorrect` | `Spec => []TypeOK` |
| `PauseIsFollowed` | `Spec => []PauseFollowed` |
| `SecondaryIsPinned` | `Spec => []SecondaryPinned` |
| `CaptionsAreFresh` | `Spec => []NoPhantomCaption` |
| `NothingEscapes` | `Spec => []NoZombie` |
| `StopIsQuiet` | `Spec => []StoppedIsQuiet` |
| `AudioIsInOrder` (`AsrAudioProofs`) | `Spec => []AudioInOrder` |

`IInv` has one part for the ASR's transitions and one for each provider. `ChainInv` says that the init comes first and
the flush last in the chain, and what is awaited belongs to the transition that runs; until the init begins
nothing has happened. `PauseInv` reads off the chain what the snapshots say: the last pause or resume in it, or the
ASR when there is none. For Amazon, `AmazonTasks` says that of the tasks only one is of the current epoch, that it alone
may be connected, with the client that is installed, and that a stale one will open nothing; `AmazonControl` that
an awaited `start()` has its task, and that a paused, failed or stopped transcriber rests. `MicrosoftInv` says that
what may act is held or in a `stop()` that closes it. `RealtimeInv` says that only `this.ws` may be open, and
that a reconnection is pending only when there is none. `NoPhantomCaption` rests on the same: only the task of the
current epoch, or a listener that is not stale, speaks.

`AudioInv` puts the packets in a line, while nothing has been overwritten: what was sent, what the provider holds back
(what Amazon's queued view shows, or the pre-arm buffer), and what the ASR holds back. A view in the queue is then the only
one, and the buffer is as its flush left it (`OneView`), so that the view still shows what was handed on. Each step sends a beginning of the line, drops a part of it, or adds the next packet at
its end. What goes straight to the socket does not overtake the pre-arm buffer, because a session that is ready
with its socket open has emptied it (`Emptied`).

`TranslationPipeline`, for any modes and any bounds; assumed: the bounds are naturals.

| Theorem | Statement |
|---|---|
| `NoPartialAfterFinal` | `Spec => []FinalsWin` |
| `FinalsAreFaithful` | `Spec => []FinalFaithful` |
| `PartialsAreFaithful` | `Spec => []PartialFaithful` |

The three speak of what the last step has published; `TextInv` says what they read it from. A `KeyState` is never used
again (`IdInv`: no task refers to one that is to come, and a final only to one that is past, which no other final has), so a
task that finds its own state to be the current one is of the channel's segment (`CurrentInv`), and that segment has no final yet
(`SegmentInv`): finals win. For the texts, `Matches` says that what is frozen in a state and what is being frozen
are of one text; it holds of the current state, and of the state of a final that reuses it, unless a rewrite came
while freezes were under way (`voided`). A final that has gathered its freezes has none left and no sentence
missing (`Reuses`), so what it joins is its text (`AssembleIsText`). A tail whose version is that of the state is
the latest (`IsLatest`). All tasks but the handlers of messages only shrink what is under way, which is one lemma
(`Continues`).

Only model-checked: the liveness properties (fairness is beyond the prover), and everything in the runs with
findings.

## Plan

Done: the sessions and their contract, the streams of a Transcriber, its ASRs and providers, the bots, their links and
their routing, the translations. Next, in this order:

1. `SessionUpdate`: PUT and PATCH of a session with their partial failures.
2. Compositions: `StreamingServer` with `AsrLifecycle` (a pause reaches every ASR of a channel), `BotRouting`
   with `BotService`.
3. `SpeakerTracker`, and `BotMeeting` (the join, empty-meeting and silence timers of a bot).

## Not modelled

Audio, media pipelines, page automation, texts and their formats, encryption, CRUD of
templates and profiles, database migrations, test tools; `maybeStartServers`, speaker
trackers, the Google and the fake provider, the silence sent to keep a provider's pace, recordings, the statistics,
heartbeats and reconnections of the Translator. `PROJECT.json` gives the reason for each.
