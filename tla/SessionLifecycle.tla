--------------------------- MODULE SessionLifecycle ---------------------------
(***************************************************************************)
(* The life of one session: its row and its channels' rows in Postgres,    *)
(* the handlers of the Scheduler that write them, the requests of the      *)
(* Session-API that write them too, and the retained MQTT topic            *)
(* system/out/sessions/statuses through which Transcribers learn about     *)
(* them.                                                                   *)
(*                                                                         *)
(* The Scheduler, the Session-API and the database run concurrently.  An   *)
(* action is one SQL transaction, one statement outside a transaction, or  *)
(* one publication; what a handler does before and after an await are      *)
(* separate actions.  updateSession is split further, because its          *)
(* transaction holds the row lock of the session over several statements   *)
(* while statements on the channels' rows of other handlers may commit.    *)
(*                                                                         *)
(* All queries of the code are per session, so one session stands for each *)
(* of them.  Times (scheduleOn, endOn, the 45 s of quiet) are abstracted   *)
(* to "may have passed".                                                   *)
(***************************************************************************)
EXTENDS Naturals, Sequences

CONSTANTS
    Channels,       \* the channels of the session
    Transcribers,   \* Transcriber processes (each has a fresh uniqueId)
    Clients,        \* concurrent requests to the Session-API
    Tick,           \* the Scheduler's 60 s interval, as a publisher
    None,           \* no transcriberId; the session's row is not locked
    Forces,         \* values of the ?force parameter that clients send
    Limit           \* bounds on what the environment does, by kind

\* What the environment may do a bounded number of times.
Kinds == {"stream", "replace", "final", "request", "bot", "crash", "fault"}

ASSUME LimitAssumption == Limit \in [Kinds -> Nat]
ASSUME ForcesAssumption == Forces \subseteq BOOLEAN
ASSUME NoneAssumption ==
    /\ None \notin Channels \cup Transcribers
    /\ Tick \notin Channels \cup Transcribers \cup Clients
    /\ Channels \cap Transcribers = {}
    /\ Channels \cap Clients = {}
    /\ Transcribers \cap Clients = {}

VARIABLES
    (* The database *)
    status,         \* Session.status, or "deleted" once the row is destroyed
    pausedAt,       \* Session.pausedAt is not null
    streamStatus,   \* Channel.streamStatus
    transcriberId,  \* Channel.transcriberId
    captions,       \* number of Caption rows of each channel
    rowLock,        \* the channel whose updateSession holds the session's row
    (* The Scheduler *)
    chain,          \* channelPersistChains: the tasks of each channel, in order
    worker,         \* how far the task at the head of each chain has got
    txn,            \* what the open updateSession transaction has written
    unregister,     \* how far unregisterTranscriber has got, per Transcriber
    reset,          \* how far resetSessions has got
    tick,           \* how far the 60 s tick has got
    dirty,          \* the tick changed something and will publish
    botEnd,         \* endBotSession calls that have read the session's status
    schedulerLink,  \* its broker connection, "dead" while it does not run
    (* The Session-API *)
    request,        \* how far the request of each client has got
    (* The broker *)
    publication,    \* publishSessions() calls in progress, by caller
    retained,       \* the session in the retained snapshot
    ended,          \* publications of system/out/sessions/ended
    (* The Transcribers *)
    streaming,      \* channels each Transcriber has a running stream for
    flushing,       \* channels with a replaced stream it has not deactivated yet
    link,           \* each Transcriber's broker connection, "dead" after a crash
    (* Bookkeeping *)
    claimant,       \* last Transcriber to start a stream that still runs, if it
                    \* has deactivated the stream before
    used            \* how often each bounded kind of event has happened

database   == <<status, pausedAt, streamStatus, transcriberId, captions, rowLock>>
chains     == <<chain, worker, txn>>
handlers   == <<unregister, reset, tick, dirty, botEnd, schedulerLink>>
scheduler  == <<chains, handlers>>
broker     == <<publication, retained, ended>>
streams    == <<streaming, flushing, link, claimant>>
vars == <<database, scheduler, request, broker, streams, used>>

Statuses    == {"on_schedule", "ready", "active", "paused", "terminated", "deleted"}
Snapshots   == {"absent", "ready", "active", "paused"}
Publishers  == Channels \cup Transcribers \cup Clients \cup {Tick}
Owners      == Transcribers \cup {None}
Tasks       == [op: {"active", "inactive", "final"}, by: Transcribers]
Transaction == [hit: BOOLEAN, stream: {"active", "inactive"}, owner: Owners,
                status: Statuses]
NoTransaction == [hit |-> FALSE, stream |-> "inactive", owner |-> None,
                  status |-> "ready"]

DatabaseType ==
    /\ status \in Statuses
    /\ pausedAt \in BOOLEAN
    /\ streamStatus \in [Channels -> {"active", "inactive"}]
    /\ transcriberId \in [Channels -> Owners]
    /\ captions \in [Channels -> Nat]
    /\ rowLock \in Channels \cup {None}

ChainType ==
    /\ chain \in [Channels -> Seq(Tasks)]
    /\ worker \in [Channels -> {"idle", "locked", "written", "publishing"}]
    /\ txn \in [Channels -> Transaction]

HandlerType ==
    /\ unregister \in [Transcribers -> {"idle", "channels", "session"}]
    /\ reset \in {"done", "channels", "session"}
    /\ tick \in {"idle", "end", "reconcile", "heal"}
    /\ dirty \in BOOLEAN
    /\ botEnd \in SUBSET Channels
    /\ schedulerLink \in {"up", "down", "dead"}

RequestType ==
    request \in [Clients -> {"idle", "stop", "stopWait", "channels", "drain",
                            "normalize", "delete", "clear"}]

BrokerType ==
    /\ publication \in [Publishers -> {"none", "due"} \cup Snapshots]
    /\ retained \in Snapshots
    /\ ended \in Nat

StreamType ==
    /\ streaming \in [Transcribers -> SUBSET Channels]
    /\ flushing \in [Transcribers -> SUBSET Channels]
    /\ link \in [Transcribers -> {"up", "down", "dead"}]
    /\ claimant \in [Channels -> Owners]

UsedType == used \in [Kinds -> Nat]

TypeOK ==
    /\ DatabaseType
    /\ ChainType
    /\ HandlerType
    /\ RequestType
    /\ BrokerType
    /\ StreamType
    /\ UsedType

\* POST /sessions: a session with scheduleOn starts on_schedule, any other one
\* ready; its channels are inactive.  The creation has been published.
Init ==
    /\ status \in {"on_schedule", "ready"}
    /\ pausedAt = FALSE
    /\ streamStatus = [c \in Channels |-> "inactive"]
    /\ transcriberId = [c \in Channels |-> None]
    /\ captions = [c \in Channels |-> 0]
    /\ rowLock = None
    /\ chain = [c \in Channels |-> <<>>]
    /\ worker = [c \in Channels |-> "idle"]
    /\ txn = [c \in Channels |-> NoTransaction]
    /\ unregister = [t \in Transcribers |-> "idle"]
    /\ reset = "done"
    /\ tick = "idle"
    /\ dirty = FALSE
    /\ botEnd = {}
    /\ schedulerLink = "up"
    /\ request = [a \in Clients |-> "idle"]
    /\ publication = [p \in Publishers |-> "none"]
    /\ retained = IF status = "ready" THEN "ready" ELSE "absent"
    /\ ended = 0
    /\ streaming = [t \in Transcribers |-> {}]
    /\ flushing = [t \in Transcribers |-> {}]
    /\ link = [t \in Transcribers |-> "up"]
    /\ claimant = [c \in Channels |-> None]
    /\ used = [k \in Kinds |-> 0]

-----------------------------------------------------------------------------
(* Helpers *)

\* The environment does one more thing of a bounded kind.
Spend(k) ==
    /\ used[k] < Limit[k]
    /\ used' = [used EXCEPT ![k] = @ + 1]

\* Mutant: no SELECT ... FOR UPDATE, so nobody waits.
SessionUnlocked_NoLock == TRUE

\* A statement that writes the session's row waits for the lock on it.
SessionUnlocked == rowLock = None

\* The open transaction of channel c has written the channel's row.
ChannelLocked(c) == worker[c] = "written" /\ txn[c].hit

\* SELECT COUNT(*) ... streamStatus = 'active', on committed rows, is zero.
NoneActive == \A c \in Channels : streamStatus[c] = "inactive"

AllInactive == [c \in Channels |-> "inactive"]

\* Mutant: a deactivation is not chained behind the finals published before it.
ChainTask_Unchained(c, op, t) ==
    chain' = IF op = "inactive" THEN [chain EXCEPT ![c] = <<[op |-> op, by |-> t]>> \o @]
                                ELSE [chain EXCEPT ![c] = Append(@, [op |-> op, by |-> t])]

\* A message of Transcriber t is appended to its channel's chain.  It is lost
\* if either of the two is not connected to the broker.
ChainTask(c, op, t) ==
    chain' = IF link[t] = "up" /\ schedulerLink = "up"
             THEN [chain EXCEPT ![c] = Append(@, [op |-> op, by |-> t])]
             ELSE chain

\* The Scheduler's publications are dropped while it is not connected.
Announce(n) == IF schedulerLink = "up" THEN n + 1 ELSE n

\* DELETE of the session's row; its channels and their captions go with it
\* (the foreign keys are ON DELETE CASCADE).
DestroySession ==
    /\ status' = "deleted"
    /\ pausedAt' = FALSE
    /\ streamStatus' = AllInactive
    /\ transcriberId' = [c \in Channels |-> None]
    /\ captions' = [c \in Channels |-> 0]

\* A caller enters publishSessions().
Publish(p) == publication' = [publication EXCEPT ![p] = "due"]

-----------------------------------------------------------------------------
(* Transcribers: what their StreamingServer reports about its streams *)

\* The broker publishes the will of Transcriber t, which it does not retain.
Will(t) ==
    unregister' = IF schedulerLink = "up" THEN [unregister EXCEPT ![t] = "channels"]
                                          ELSE unregister

\* An activation of Transcriber t that reaches the Scheduler is the newest.
Claim(c, t, by) ==
    claimant' = IF link[t] = "up" /\ schedulerLink = "up"
                THEN [claimant EXCEPT ![c] = by] ELSE claimant

\* A stream of channel c is accepted: the session is in the snapshot.
StartStream(t, c) ==
    /\ link[t] # "dead"
    /\ retained # "absent"
    /\ c \notin streaming[t]
    /\ Spend("stream")
    /\ streaming' = [streaming EXCEPT ![t] = @ \cup {c}]
    /\ Claim(c, t, IF c \in flushing[t] THEN None ELSE t)
    /\ ChainTask(c, "active", t)
    /\ UNCHANGED <<database, worker, txn, handlers, request, broker, flushing, link>>

\* The sender connects again to the Transcriber that still runs, or flushes, its
\* previous stream.  The new stream is activated at once, the old one is only
\* deactivated when its flush is over.
ReplaceStream(t, c) ==
    /\ link[t] # "dead"
    /\ retained # "absent"
    /\ c \in streaming[t] \ flushing[t]
    /\ Spend("replace")
    /\ flushing' = [flushing EXCEPT ![t] = @ \cup {c}]
    /\ Claim(c, t, None)
    /\ ChainTask(c, "active", t)
    /\ UNCHANGED <<database, worker, txn, handlers, request, broker, streaming, link>>

\* The flush of a replaced stream is over.
FlushEnd(t, c) ==
    /\ c \in flushing[t]
    /\ flushing' = [flushing EXCEPT ![t] = @ \ {c}]
    /\ ChainTask(c, "inactive", t)
    /\ UNCHANGED <<database, worker, txn, handlers, request, broker, streaming, link,
                   claimant, used>>

\* The stream ends, its flush included: by its sender, or cut because the session
\* has vanished from the snapshot.
StopStream(t, c) ==
    /\ c \in streaming[t]
    /\ streaming' = [streaming EXCEPT ![t] = @ \ {c}]
    /\ claimant' = IF claimant[c] = t THEN [claimant EXCEPT ![c] = None] ELSE claimant
    /\ ChainTask(c, "inactive", t)
    /\ UNCHANGED <<database, worker, txn, handlers, request, broker, flushing, link,
                   used>>

\* The ASR of a stream publishes a final.
PublishFinal(t, c) ==
    /\ c \in streaming[t] \cup flushing[t]
    /\ Spend("final")
    /\ ChainTask(c, "final", t)
    /\ UNCHANGED <<database, worker, txn, handlers, request, broker, streams>>

\* The process dies: its streams are gone and the broker publishes its will.
Crash(t) ==
    /\ link[t] = "up"
    /\ unregister[t] = "idle"
    /\ Spend("crash")
    /\ streaming' = [streaming EXCEPT ![t] = {}]
    /\ flushing' = [flushing EXCEPT ![t] = {}]
    /\ link' = [link EXCEPT ![t] = "dead"]
    /\ claimant' = [c \in Channels |-> IF claimant[c] = t THEN None ELSE claimant[c]]
    /\ Will(t)
    /\ UNCHANGED <<database, chains, reset, tick, dirty, botEnd, schedulerLink,
                   request, broker>>

-----------------------------------------------------------------------------
(* Scheduler: the per-channel persistence chain *)

\* Mutant: a task does not wait for the one before it.
NextTask_NoWait(c, tk) ==
    /\ chain[c] # <<>>
    /\ tk = Head(chain[c])

\* Task tk is next for channel c.
NextTask(c, tk) ==
    /\ chain[c] # <<>>
    /\ worker[c] = "idle"
    /\ tk = Head(chain[c])

\* saveTranscription: one transaction; without the channel's row it fails, and
\* the error is only logged.
SaveTranscription(c) ==
    /\ \E tk \in Tasks : NextTask(c, tk) /\ tk.op = "final"
    /\ captions' = IF status = "deleted" THEN captions ELSE [captions EXCEPT ![c] = @ + 1]
    /\ chain' = [chain EXCEPT ![c] = Tail(@)]
    /\ UNCHANGED <<status, pausedAt, streamStatus, transcriberId, rowLock, worker,
                   txn, handlers, request, broker, streams, used>>

\* updateSession: SELECT ... FOR UPDATE on the session's row.
UpdateSessionLock(c) ==
    /\ \E tk \in Tasks : NextTask(c, tk) /\ tk.op # "final"
    /\ status # "deleted"
    /\ SessionUnlocked
    /\ rowLock' = c
    /\ worker' = [worker EXCEPT ![c] = "locked"]
    /\ UNCHANGED <<status, pausedAt, streamStatus, transcriberId, captions, chain,
                   txn, handlers, request, broker, streams, used>>

\* updateSession: the session was deleted in the meantime.
UpdateSessionGone(c) ==
    /\ \E tk \in Tasks : NextTask(c, tk) /\ tk.op # "final"
    /\ status = "deleted"
    /\ chain' = [chain EXCEPT ![c] = Tail(@)]
    /\ UNCHANGED <<database, worker, txn, handlers, request, broker, streams,
                   used>>

\* Mutant: a late channel update revives a terminated session.
StatusAfterCount_NotSticky(old, anyActive) ==
    IF old = "paused" THEN old ELSE IF anyActive THEN "active" ELSE "ready"

\* Mutant: a channel update during a pause resumes the session.
StatusAfterCount_Resumes(old, anyActive) ==
    IF old = "terminated" THEN old ELSE IF anyActive THEN "active" ELSE "ready"

\* The CASE of updateSession: the status after a recount of active channels.
StatusAfterCount(old, anyActive) ==
    CASE old = "paused"     -> "paused"
      [] old = "terminated" -> "terminated"
      [] OTHER              -> IF anyActive THEN "active" ELSE "ready"

\* Mutant: any Transcriber may deactivate a channel.
UpdatesChannel_AnyOwner(c, tk) == TRUE

\* Only the Transcriber that owns the channel may deactivate it.
UpdatesChannel(c, tk) == tk.op = "active" \/ transcriberId[c] = tk.by

\* updateSession: UPDATE channels, then UPDATE sessions with the recount,
\* neither of them visible to others before the commit.
UpdateSessionWrite(c) ==
    /\ worker[c] = "locked"
    /\ LET tk     == Head(chain[c])
           hit    == UpdatesChannel(c, tk)
           stream == IF hit THEN tk.op ELSE streamStatus[c]
           owner  == IF tk.op = "active" THEN tk.by
                     ELSE IF hit THEN None ELSE transcriberId[c]
           anyActive == \/ stream = "active"
                        \/ \E d \in Channels \ {c} : streamStatus[d] = "active"
       IN  txn' = [txn EXCEPT ![c] = [hit |-> hit, stream |-> stream, owner |-> owner,
                                      status |-> StatusAfterCount(status, anyActive)]]
    /\ worker' = [worker EXCEPT ![c] = "written"]
    /\ UNCHANGED <<database, chain, handlers, request, broker, streams, used>>

\* updateSession: COMMIT, then publishSessions().
UpdateSessionCommit(c) ==
    /\ worker[c] = "written"
    /\ streamStatus' = IF txn[c].hit
                       THEN [streamStatus EXCEPT ![c] = txn[c].stream]
                       ELSE streamStatus
    /\ transcriberId' = IF txn[c].hit
                        THEN [transcriberId EXCEPT ![c] = txn[c].owner]
                        ELSE transcriberId
    /\ status' = txn[c].status
    /\ rowLock' = None
    /\ txn' = [txn EXCEPT ![c] = NoTransaction]
    /\ worker' = [worker EXCEPT ![c] = "publishing"]
    /\ Publish(c)
    /\ UNCHANGED <<pausedAt, captions, chain, handlers, request, retained, ended,
                   streams, used>>

\* updateSession: a statement fails; ROLLBACK, nothing is published.
UpdateSessionRollback(c) ==
    /\ worker[c] \in {"locked", "written"}
    /\ Spend("fault")
    /\ rowLock' = None
    /\ txn' = [txn EXCEPT ![c] = NoTransaction]
    /\ worker' = [worker EXCEPT ![c] = "idle"]
    /\ chain' = [chain EXCEPT ![c] = Tail(@)]
    /\ UNCHANGED <<status, pausedAt, streamStatus, transcriberId, captions,
                   handlers, request, broker, streams>>

-----------------------------------------------------------------------------
(* publishSessions(): read the database, then publish the retained snapshot *)

\* The session as findAll({status: [active, ready, paused]}) returns it.
Snapshot == IF status \in {"active", "ready", "paused"} THEN status ELSE "absent"

PublishRead(p) ==
    /\ publication[p] = "due"
    /\ publication' = [publication EXCEPT ![p] = Snapshot]
    /\ UNCHANGED <<database, scheduler, request, retained, ended, streams, used>>

\* The snapshot that was read becomes the retained message, unless the
\* Scheduler has no connection.  The task of a chain awaits its publication:
\* only then is the chain's next task started.
PublishSend(p) ==
    /\ publication[p] \in Snapshots
    /\ retained' = IF p \in Clients \/ schedulerLink = "up" THEN publication[p]
                                                          ELSE retained
    /\ publication' = [publication EXCEPT ![p] = "none"]
    /\ IF p \in Channels
       THEN /\ worker' = [worker EXCEPT ![p] = "idle"]
            /\ chain' = [chain EXCEPT ![p] = Tail(@)]
       ELSE UNCHANGED <<worker, chain>>
    /\ UNCHANGED <<database, txn, handlers, request, ended, streams, used>>

-----------------------------------------------------------------------------
(* Scheduler: a Transcriber's will *)

\* Mutant: the owner is not cleared.
UnregisterChannels_KeepsOwner(t) ==
    /\ unregister[t] = "channels"
    /\ streamStatus' = [c \in Channels |->
                          IF transcriberId[c] = t THEN "inactive" ELSE streamStatus[c]]
    /\ unregister' = [unregister EXCEPT ![t] = "session"]
    /\ UNCHANGED <<status, pausedAt, transcriberId, captions, rowLock, chain, worker,
                   txn, reset, tick, dirty, botEnd, schedulerLink, request, broker,
                   streams, used>>

\* unregisterTranscriber: the channels of the Transcriber, in one statement
\* that waits for the rows it matches.
UnregisterChannels(t) ==
    /\ unregister[t] = "channels"
    /\ \A c \in Channels : transcriberId[c] = t => ~ChannelLocked(c)
    /\ streamStatus' = [c \in Channels |->
                          IF transcriberId[c] = t THEN "inactive" ELSE streamStatus[c]]
    /\ transcriberId' = [c \in Channels |->
                          IF transcriberId[c] = t THEN None ELSE transcriberId[c]]
    /\ unregister' = [unregister EXCEPT ![t] = "session"]
    /\ UNCHANGED <<status, pausedAt, captions, rowLock, chain, worker, txn, reset,
                   tick, dirty, botEnd, schedulerLink, request, broker, streams,
                   used>>

\* unregisterTranscriber: recount under the session's row lock.
Downgraded == NoneActive /\ status \in {"active", "paused"}

\* A downgraded session is not paused any more.
PausedAtAfterUnregister ==
    IF Downgraded /\ status = "paused" THEN FALSE ELSE pausedAt

UnregisterSession(t) ==
    /\ unregister[t] = "session"
    /\ SessionUnlocked
    /\ publication[t] = "none"
    /\ status' = IF Downgraded THEN "ready" ELSE status
    /\ pausedAt' = PausedAtAfterUnregister
    /\ unregister' = [unregister EXCEPT ![t] = "idle"]
    /\ Publish(t)
    /\ UNCHANGED <<streamStatus, transcriberId, captions, rowLock, chain, worker,
                   txn, reset, tick, dirty, botEnd, schedulerLink, request,
                   retained, ended, streams, used>>

-----------------------------------------------------------------------------
(* Scheduler: the 60 s tick, autoStart, autoEnd, reconcileStuckSessions *)

TickUnchanged == UNCHANGED <<captions, chain, worker, txn, unregister, reset,
                             botEnd, schedulerLink, request, retained, streams,
                             used>>

\* autoStart: a scheduled session whose time has come is made ready.
TickAutoStart ==
    /\ tick = "idle"
    /\ schedulerLink # "dead"
    /\ publication[Tick] = "none"
    /\ \/ /\ status = "on_schedule" /\ SessionUnlocked
          /\ status' = "ready"
          /\ dirty' = TRUE
       \/ UNCHANGED <<status, dirty>>
    /\ tick' = "end"
    /\ UNCHANGED <<pausedAt, streamStatus, transcriberId, rowLock, publication,
                   ended>>
    /\ TickUnchanged

\* autoEnd: a ready or paused session past its end is terminated, together
\* with its channels, and announced.
TickAutoEnd ==
    /\ tick = "end"
    /\ \/ /\ status \in {"ready", "paused"} /\ SessionUnlocked
          /\ status' = "terminated"
          /\ streamStatus' = AllInactive
          /\ ended' = Announce(ended)
          /\ dirty' = TRUE
       \/ UNCHANGED <<status, streamStatus, ended, dirty>>
    /\ tick' = "reconcile"
    /\ UNCHANGED <<pausedAt, transcriberId, rowLock, publication>>
    /\ TickUnchanged

\* The tick ends; it publishes if one of its parts has changed a session.
TickDone(changed) ==
    /\ tick' = "idle"
    /\ dirty' = FALSE
    /\ publication' = IF changed THEN [publication EXCEPT ![Tick] = "due"]
                                 ELSE publication

\* Mutant: the test for an owner is inverted.
LooksStuck_Inverted ==
    /\ status = "active"
    /\ NoneActive
    /\ \E c \in Channels : transcriberId[c] # None

\* An active session that the reconciler takes to be idle (once quiet for 45 s).
LooksStuck ==
    /\ status = "active"
    /\ NoneActive
    /\ \A c \in Channels : transcriberId[c] = None

\* reconcileStuckSessions finds an idle session and goes on to lock it.
TickFindStuck ==
    /\ tick = "reconcile"
    /\ LooksStuck
    /\ tick' = "heal"
    /\ UNCHANGED <<status, pausedAt, streamStatus, transcriberId, rowLock,
                   publication, ended, dirty>>
    /\ TickUnchanged

\* reconcileStuckSessions finds nothing to heal, or nothing quiet enough.
TickNotStuck ==
    /\ tick = "reconcile"
    /\ TickDone(dirty)
    /\ UNCHANGED <<status, pausedAt, streamStatus, transcriberId, rowLock, ended>>
    /\ TickUnchanged

\* reconcileStuckSessions: recheck under the row lock.
TickHeal ==
    /\ tick = "heal"
    /\ SessionUnlocked
    /\ status' = IF status = "active" /\ NoneActive THEN "ready" ELSE status
    /\ TickDone(dirty \/ (status = "active" /\ NoneActive))
    /\ UNCHANGED <<pausedAt, streamStatus, transcriberId, rowLock, ended>>
    /\ TickUnchanged

-----------------------------------------------------------------------------
(* Scheduler: the meeting of the bot of channel c is empty (endBotSession) *)

BotEndRead(c) ==
    /\ c \notin botEnd
    /\ schedulerLink = "up"
    /\ status \notin {"terminated", "deleted"}
    /\ Spend("bot")
    /\ botEnd' = botEnd \cup {c}
    /\ UNCHANGED <<database, chains, unregister, reset, tick, dirty,
                   schedulerLink, request, broker, streams>>

BotEndCommit(c) ==
    /\ c \in botEnd
    /\ SessionUnlocked
    /\ botEnd' = botEnd \ {c}
    /\ status' = IF status = "deleted" THEN status ELSE "terminated"
    /\ streamStatus' = AllInactive
    /\ ended' = Announce(ended)
    /\ UNCHANGED <<pausedAt, transcriberId, captions, rowLock, chain, worker, txn,
                   unregister, reset, tick, dirty, schedulerLink, request,
                   publication, retained, streams, used>>

-----------------------------------------------------------------------------
(* Scheduler: its own connection, and resetSessions whenever it is ready *)

\* The connection to the broker is lost.
SchedulerOffline ==
    /\ schedulerLink = "up"
    /\ Spend("fault")
    /\ schedulerLink' = "down"
    /\ UNCHANGED <<database, chains, unregister, reset, tick, dirty, botEnd,
                   request, broker, streams>>

\* The process dies: its memory is lost, open transactions are rolled back.
SchedulerCrash ==
    /\ schedulerLink # "dead"
    /\ Spend("fault")
    /\ schedulerLink' = "dead"
    /\ rowLock' = None
    /\ chain' = [c \in Channels |-> <<>>]
    /\ worker' = [c \in Channels |-> "idle"]
    /\ txn' = [c \in Channels |-> NoTransaction]
    /\ unregister' = [t \in Transcribers |-> "idle"]
    /\ tick' = "idle"
    /\ dirty' = FALSE
    /\ botEnd' = {}
    /\ reset' = "done"
    /\ publication' = [p \in Publishers |->
                         IF p \in Clients THEN publication[p] ELSE "none"]
    /\ UNCHANGED <<status, pausedAt, streamStatus, transcriberId, captions,
                   request, retained, ended, streams>>

\* "ready": connected, for the first time or again.  Messages sent meanwhile
\* were not kept (the MQTT session is clean).
SchedulerReady ==
    /\ schedulerLink # "up"
    /\ reset = "done"
    /\ schedulerLink' = "up"
    /\ reset' = "channels"
    /\ UNCHANGED <<database, chains, unregister, tick, dirty, botEnd, request,
                   broker, streams, used>>

ResetChannels ==
    /\ reset = "channels"
    /\ \A c \in Channels : streamStatus[c] = "active" => ~ChannelLocked(c)
    /\ streamStatus' = AllInactive
    /\ reset' = "session"
    /\ UNCHANGED <<status, pausedAt, transcriberId, captions, rowLock, chain,
                   worker, txn, unregister, tick, dirty, botEnd, schedulerLink,
                   request, broker, streams, used>>

\* Mutant: every session is made ready, not only the active ones.
ResetSession_All ==
    /\ reset = "session"
    /\ SessionUnlocked
    /\ status' = IF status = "deleted" THEN status ELSE "ready"
    /\ reset' = "done"
    /\ UNCHANGED <<pausedAt, streamStatus, transcriberId, captions, rowLock, chains,
                   unregister, tick, dirty, botEnd, schedulerLink, request, broker,
                   streams, used>>

ResetSession ==
    /\ reset = "session"
    /\ SessionUnlocked
    /\ status' = IF status = "active" THEN "ready" ELSE status
    /\ reset' = "done"
    /\ UNCHANGED <<pausedAt, streamStatus, transcriberId, captions, rowLock,
                   chain, worker, txn, unregister, tick, dirty, botEnd,
                   schedulerLink, request, broker, streams, used>>

-----------------------------------------------------------------------------
(* A Transcriber loses and regains its broker connection, streams running *)

Disconnect(t) ==
    /\ link[t] = "up"
    /\ unregister[t] = "idle"
    /\ Spend("fault")
    /\ link' = [link EXCEPT ![t] = "down"]
    /\ claimant' = [c \in Channels |-> IF claimant[c] = t THEN None ELSE claimant[c]]
    /\ Will(t)
    /\ UNCHANGED <<database, chains, reset, tick, dirty, botEnd, schedulerLink,
                   request, broker, streaming, flushing>>

\* publishStatus: the Scheduler, if it is there, registers the Transcriber and
\* publishes.
Reconnect(t) ==
    /\ link[t] = "down"
    /\ publication[t] = "none"
    /\ link' = [link EXCEPT ![t] = "up"]
    /\ IF schedulerLink = "up" THEN Publish(t) ELSE UNCHANGED publication
    /\ UNCHANGED <<database, scheduler, request, retained, ended, streaming,
                   flushing, claimant, used>>

-----------------------------------------------------------------------------
(* Session-API requests *)

\* Client a may start a request.
NewRequest(a) ==
    /\ request[a] = "idle"
    /\ publication[a] = "none"
    /\ status # "deleted"
    /\ Spend("request")

Proceed(a, from, to) ==
    /\ request[a] = from
    /\ request' = [request EXCEPT ![a] = to]

\* PUT /pause: one guarded UPDATE.
Pause(a) ==
    /\ NewRequest(a)
    /\ SessionUnlocked
    /\ status = "active"
    /\ status' = "paused"
    /\ pausedAt' = TRUE
    /\ Publish(a)
    /\ UNCHANGED <<streamStatus, transcriberId, captions, rowLock, scheduler,
                   request, retained, ended, streams>>

\* PUT /resume: one guarded UPDATE.
Resume(a) ==
    /\ NewRequest(a)
    /\ SessionUnlocked
    /\ status = "paused"
    /\ status' = "active"
    /\ pausedAt' = FALSE
    /\ Publish(a)
    /\ UNCHANGED <<streamStatus, transcriberId, captions, rowLock, scheduler,
                   request, retained, ended, streams>>

\* PUT /stop: read the session and check the force parameter.
StopCheck(a, force, waitFinal) ==
    /\ NewRequest(a)
    /\ status \in {"active", "paused"} => force
    /\ Proceed(a, "idle", IF waitFinal THEN "stopWait" ELSE "stop")
    /\ UNCHANGED <<database, scheduler, broker, streams>>

\* PUT /stop: UPDATE sessions, whatever the status is by now.
StopTerminate(a) ==
    /\ SessionUnlocked
    /\ status' = IF status = "deleted" THEN status ELSE "terminated"
    /\ \/ Proceed(a, "stop", "channels") /\ UNCHANGED publication
       \/ Proceed(a, "stopWait", "drain") /\ Publish(a)
    /\ UNCHANGED <<pausedAt, streamStatus, transcriberId, captions, rowLock,
                   scheduler, retained, ended, streams, used>>

\* UPDATE channels SET streamStatus = 'inactive' of the session's channels.
ForceInactive ==
    /\ \A c \in Channels : ~ChannelLocked(c)
    /\ streamStatus' = AllInactive

\* PUT /stop without waitFinal: force the channels inactive, then broadcast.
StopChannels(a) ==
    /\ Proceed(a, "channels", "idle")
    /\ ForceInactive
    /\ Publish(a)
    /\ UNCHANGED <<status, pausedAt, transcriberId, captions, rowLock, scheduler,
                   retained, ended, streams, used>>

\* PUT /stop with waitFinal: the poll finds no active channel.
Drained(a) ==
    /\ NoneActive
    /\ Proceed(a, "drain", "normalize")
    /\ UNCHANGED <<database, scheduler, broker, streams, used>>

\* Mutant: the poll has no deadline.
DrainTimeout_Never(a) == FALSE

\* PUT /stop with waitFinal: the deadline passes with channels still active.
DrainTimeout(a) ==
    /\ ~NoneActive
    /\ Proceed(a, "drain", "normalize")
    /\ UNCHANGED <<database, scheduler, broker, streams, used>>

StopNormalize(a) ==
    /\ Proceed(a, "normalize", "idle")
    /\ ForceInactive
    /\ UNCHANGED <<status, pausedAt, transcriberId, captions, rowLock, scheduler,
                   broker, streams, used>>

\* PUT /clear: read and check the status, then wipe the captions.
ClearCheck(a) ==
    /\ NewRequest(a)
    /\ status \in {"ready", "active", "paused"}
    /\ Proceed(a, "idle", "clear")
    /\ UNCHANGED <<database, scheduler, broker, streams>>

ClearWipe(a) ==
    /\ Proceed(a, "clear", "idle")
    /\ \A c \in Channels : ~ChannelLocked(c)
    /\ captions' = [c \in Channels |-> 0]
    /\ Publish(a)
    /\ UNCHANGED <<status, pausedAt, streamStatus, transcriberId, rowLock,
                   scheduler, retained, ended, streams, used>>

\* DELETE /sessions/:id: read and check the status, then destroy the row.
DeleteCheck(a, force) ==
    /\ NewRequest(a)
    /\ status \in {"active", "paused"} => force
    /\ Proceed(a, "idle", "delete")
    /\ UNCHANGED <<database, scheduler, broker, streams>>

DeleteDestroy(a) ==
    /\ Proceed(a, "delete", "idle")
    /\ SessionUnlocked
    /\ DestroySession
    /\ Publish(a)
    /\ UNCHANGED <<rowLock, scheduler, retained, ended, streams, used>>

\* POST /sessions/purge: one statement, on terminated sessions or on all.
Purge(a, force) ==
    /\ NewRequest(a)
    /\ SessionUnlocked
    /\ IF force \/ status = "terminated"
       THEN DestroySession
       ELSE UNCHANGED <<status, pausedAt, streamStatus, transcriberId, captions>>
    /\ Publish(a)
    /\ UNCHANGED <<rowLock, scheduler, request, retained, ended, streams>>

-----------------------------------------------------------------------------
(* Specification *)

Streams ==
    \/ \E t \in Transcribers, c \in Channels :
         \/ StartStream(t, c) \/ StopStream(t, c) \/ PublishFinal(t, c)
         \/ ReplaceStream(t, c) \/ FlushEnd(t, c)
    \/ \E t \in Transcribers : Crash(t)

ChainStep(c) ==
    \/ SaveTranscription(c)
    \/ UpdateSessionLock(c) \/ UpdateSessionGone(c)
    \/ UpdateSessionWrite(c) \/ UpdateSessionCommit(c)

Unregister(t) == UnregisterChannels(t) \/ UnregisterSession(t)

PublishStep(p) == PublishRead(p) \/ PublishSend(p)

TickStep ==
    TickAutoStart \/ TickAutoEnd \/ TickFindStuck \/ TickNotStuck \/ TickHeal

BotEnd(c) == BotEndRead(c) \/ BotEndCommit(c)

NewRequests(a) ==
    \/ Pause(a) \/ Resume(a) \/ ClearCheck(a)
    \/ \E force \in Forces :
         \/ \E waitFinal \in BOOLEAN : StopCheck(a, force, waitFinal)
         \/ DeleteCheck(a, force)
         \/ Purge(a, force)

RequestStep(a) ==
    \/ StopTerminate(a) \/ StopChannels(a)
    \/ Drained(a) \/ DrainTimeout(a) \/ StopNormalize(a)
    \/ ClearWipe(a) \/ DeleteDestroy(a)

\* What happens while the Scheduler and the connections of the surviving
\* Transcribers to the broker stay up and no statement fails.
SteadyNext ==
    \/ Streams
    \/ \E c \in Channels : ChainStep(c) \/ BotEnd(c)
    \/ \E t \in Transcribers : Unregister(t)
    \/ \E p \in Publishers : PublishStep(p)
    \/ TickStep
    \/ \E a \in Clients : NewRequests(a) \/ RequestStep(a)

\* Connections lost and regained, the Scheduler restarted, a statement failing.
Faults ==
    \/ SchedulerOffline \/ SchedulerCrash \/ SchedulerReady
    \/ ResetChannels \/ ResetSession
    \/ \E t \in Transcribers : Disconnect(t) \/ Reconnect(t)
    \/ \E c \in Channels : UpdateSessionRollback(c)

Next == SteadyNext \/ Faults

SteadySpec == Init /\ [][SteadyNext]_vars

Spec == Init /\ [][Next]_vars

\* Handlers and requests that have begun go on, the tick recurs, and a session
\* that stays idle is quiet for 45 s in some later tick.  Nothing obliges a
\* sender, a client, a bot or a fault.
Progress ==
    /\ \A c \in Channels : WF_vars(ChainStep(c)) /\ WF_vars(BotEndCommit(c))
    /\ \A t \in Transcribers : WF_vars(Unregister(t))
    /\ \A p \in Publishers : WF_vars(PublishStep(p))
    /\ WF_vars(TickStep) /\ SF_vars(TickFindStuck)
    /\ WF_vars(ResetChannels) /\ WF_vars(ResetSession)
    /\ \A a \in Clients : WF_vars(RequestStep(a))

FairSteadySpec == SteadySpec /\ Progress

FairSpec == Spec /\ Progress

-----------------------------------------------------------------------------
(* Properties of every behaviour, faults included *)

\* An updateSession that has begun is still at the head of its chain, and a chain
\* publishes only for the task that has committed: chainChannelPersist starts a
\* task when the previous one, its publication included, is over.
ChainDiscipline ==
    \A c \in Channels :
        /\ worker[c] # "idle" => chain[c] # <<>> /\ Head(chain[c]).op # "final"
        /\ publication[c] # "none" => worker[c] = "publishing"

\* Every variable keeps its type.  TypeOK alone is not inductive: a task that ends takes
\* the tail of its chain, which must not be empty.
TypeInv == TypeOK /\ ChainDiscipline

\* At most one updateSession is between its SELECT ... FOR UPDATE and the end of
\* its transaction, and what it is about to write to the session's row was
\* computed from the row as it still is.
RowLockDiscipline ==
    \A c \in Channels :
        /\ worker[c] \in {"locked", "written"} => rowLock = c /\ status # "deleted"
        /\ worker[c] = "written" =>
             IF status \in {"paused", "terminated"} THEN txn[c].status = status
                                                   ELSE txn[c].status \in {"active", "ready"}

\* A session is terminated for good: neither a recount after a late channel
\* update, nor a Transcriber's will, a reset, the reconciler or a resume brings
\* it back ("'terminated' is sticky" in unregisterTranscriber).
TerminatedIsFinal ==
    [][status = "terminated" => status' \in {"terminated", "deleted"}]_vars

\* A user's pause is only undone by a user's resume, by the end of the session,
\* or by a Transcriber's will once no channel streams any more.
PauseSurvives ==
    [][status = "paused" =>
         \/ status' \in {"paused", "terminated", "deleted"}
         \/ status' = "ready" /\ NoneActive
         \/ status' = "active" /\ \E a \in Clients : Resume(a)]_vars

\* pausedAt tells REST consumers the truth about a session that is not over:
\* set while it is paused, null in every other status.
PausedAtMatchesStatus ==
    /\ status = "paused" => pausedAt
    /\ status \in {"on_schedule", "ready", "active", "deleted"} => ~pausedAt

Contract == INSTANCE SessionContract WITH paused <- pausedAt

\* With all its handlers, locks, retries and faults, the system only ever does to a session what
\* the contract allows: every transaction of updateSession, every request between its statements,
\* every restart is one step of the contract or none.
KeepsContract == Contract!Spec

-----------------------------------------------------------------------------
(* Properties while connections stay up (SteadySpec) *)

\* A session that shows as idle has no streaming channel: autoEnd may end it and
\* POST /bots may use its channels.  The recount of updateSession is only right
\* because sibling updates wait for the session's row.
IdleMeansNoStream == status \in {"on_schedule", "ready"} => NoneActive

\* A channel streams exactly when a Transcriber owns it, as long as the session
\* is not over; the reconciler takes a channel without owner to be idle.
OwnerMatchesStream ==
    status # "terminated" =>
        \A c \in Channels : streamStatus[c] = "active" <=> transcriberId[c] # None

\* A recount that came out at "no active channel" still holds when the
\* transaction commits: others can only deactivate channels meanwhile.
RecountHolds ==
    \A c \in Channels :
        (worker[c] = "written" /\ txn[c].status = "ready") =>
            /\ \A d \in Channels \ {c} : streamStatus[d] = "inactive"
            /\ IF txn[c].hit THEN txn[c].stream = "inactive"
                             ELSE streamStatus[c] = "inactive"

\* What a transaction has written to its channel's row is consistent.
WriteConsistent ==
    \A c \in Channels :
        (worker[c] = "written" /\ txn[c].hit) =>
            (txn[c].stream = "active" <=> txn[c].owner # None)

\* A stop that goes on after its UPDATE of the session has ended the session.
StopHasEnded ==
    \A a \in Clients :
        request[a] \in {"channels", "drain", "normalize"} =>
            status \in {"terminated", "deleted"}

\* A deleted session has no channel left.
DeletedHasNoChannel ==
    status = "deleted" => /\ NoneActive
                          /\ \A c \in Channels : transcriberId[c] = None

SteadyInv ==
    /\ IdleMeansNoStream
    /\ OwnerMatchesStream
    /\ RecountHolds
    /\ WriteConsistent
    /\ StopHasEnded
    /\ DeletedHasNoChannel

\* Nothing is pending for channel c.
Settled(c) == chain[c] = <<>> /\ worker[c] = "idle"

\* Last write wins: once the Scheduler has caught up, a channel whose most
\* recent stream still runs is active and owned by that stream's Transcriber,
\* whatever the streams it took over from, other Transcribers' wills or sibling
\* channels have sent since.  (claimant leaves out a stream that replaced one on
\* the same Transcriber, which the deactivation of the replaced one may hide.)
LiveStreamIsActive ==
    \A c \in Channels :
        (Settled(c) /\ claimant[c] # None /\ status \notin {"terminated", "deleted"})
            => streamStatus[c] = "active" /\ transcriberId[c] = claimant[c]

\* Every final of Transcriber t in the chain of channel c was published by a
\* stream whose own activation is still ahead of it in the chain.
OnlyNewStreamsPending(c, t) ==
    \A i \in DOMAIN chain[c] :
        chain[c][i].op = "final" /\ chain[c][i].by = t =>
            \E j \in 1..i : chain[c][j].op = "active" /\ chain[c][j].by = t

\* The order in a channel's chain that the drain of PUT /stop?waitFinal=true builds
\* on, as long as no stream has been replaced on its own Transcriber: a channel of a
\* session that exists loses the Transcriber that owns it, unless that has died, only
\* when every caption which the stream that ends has put into the chain is committed.
\* The poll of the drain itself may miss finals in other ways.
DrainBarrier ==
    [][\A c \in Channels, t \in Transcribers :
         /\ used["replace"] = 0
         /\ transcriberId[c] = t /\ transcriberId'[c] = None
         /\ link[t] = "up" /\ status' # "deleted"
         => OnlyNewStreamsPending(c, t)]_vars

\* A session left active with no active channel (a resume after the streams are
\* gone) becomes ready, or some channel becomes active.
StuckActive == status = "active" /\ NoneActive

StuckActiveHeals == StuckActive ~> ~StuckActive

\* No request waits for ever: the session's row lock is always released and the
\* drain has a deadline.
RequestsComplete == \A a \in Clients : (request[a] # "idle") ~> (request[a] = "idle")
=============================================================================
