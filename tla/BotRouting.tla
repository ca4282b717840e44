------------------------------ MODULE BotRouting ------------------------------
(***************************************************************************)
(* How bots get to BotServices and are called back: the routes of the      *)
(* Session-API that create and remove a bot, the Scheduler that assigns a  *)
(* bot to a replica of the BotService and keeps the owner both in memory   *)
(* and in the bot's row, and the replicas.  The Scheduler and the replicas *)
(* may die, or lose the broker for a while.                                *)
(*                                                                         *)
(* The handlers of the Scheduler are interleaved at their awaits, and go   *)
(* on while it is away from the broker.  What a client publishes comes in  *)
(* order, unless it is away itself: then publish() does nothing.  MQTT     *)
(* sessions are clean, so what is published to a client that is away is    *)
(* lost, but for the retained status of each replica.  A request that the  *)
(* Session-API could not publish is like one that finds the Scheduler away.*)
(* A restarted BotService has a new id and is another replica here.        *)
(*                                                                         *)
(* Which replica supports the provider and how loaded it is are left open: *)
(* any registered one may be selected, or none.  Inside a replica a bot    *)
(* starts and stops in one step; the module BotService has the detail.     *)
(***************************************************************************)
EXTENDS Naturals, Sequences

CONSTANTS
    Bots,           \* bot ids; each is posted once
    Channels,
    ChannelOf,      \* bots[b].channelId
    Replicas,       \* uniqueIds of BotServices
    None,
    MaxEvents       \* bound on bots, deaths, lost connections, failed writes and deleted channels

ASSUME ChannelOfAssumption == ChannelOf \in [Bots -> Channels]
ASSUME NoneAssumption == None \notin Replicas \cup Bots
ASSUME MaxEventsAssumption == MaxEvents \in Nat

VARIABLES
    row,            \* the bot's row in the database
    owner,          \* its column botservice; None without a row
    channels,       \* the channels there are
    active,         \* those whose streamStatus is not 'inactive'
    scheduler,      \* "up", "away" from the broker, or "down"
    registry,       \* botservices: the replicas it has registered
    ownership,      \* botOwnership
    starting,       \* how far startBot is with each bot, and the replica it selected
    stopping,       \* how far stopBot is, for each bot and each sender, and the owner it read
    reaping,        \* the replicas whose rows unregisterBotService has yet to delete
    statuses,       \* status messages of each replica on their way to the Scheduler
    retained,       \* the retained status of each replica
    inbox,          \* messages on their way to each replica
    link,           \* each replica: "up", "away" from the broker, or "dead"
    running,        \* BrokerClient.bots of each replica, by channel
    events,         \* bounded events so far
    dropped,        \* history: replicas the broker gave up while they were alive
    contested,      \* history: bots stopped before they were assigned, posted to a channel that
                    \* already had a bot, or assigned to a replica given up meanwhile
    unstopped       \* history: bots whose row went without a stop: the Scheduler died, or was
                    \* away, when it was to be published, or their channel was deleted

database == <<row, owner, channels, active>>
memory   == <<scheduler, registry, ownership, starting, stopping, reaping>>
broker   == <<statuses, retained, inbox>>
service  == <<link, running>>
history  == <<events, dropped, contested, unstopped>>
vars     == <<database, memory, broker, service, history>>

Senders == {"api", "bot"}

NotStarting == [at |-> "no", replica |-> None]
NotStopping == [at |-> "no", owner |-> None]
Messages    == [kind : {"startbot", "stopbot"}, channel : Channels, bot : Bots \cup {None}]

TypeOK ==
    /\ row \in [Bots -> {"unposted", "present", "deleted"}]
    /\ owner \in [Bots -> Replicas \cup {None}]
    /\ channels \subseteq Channels
    /\ active \subseteq Channels
    /\ scheduler \in {"up", "away", "down"}
    /\ registry \subseteq Replicas
    /\ ownership \in [Channels -> Replicas \cup {None}]
    /\ starting \in [Bots -> [at : {"no", "sent", "read", "selected", "written"},
                              replica : Replicas \cup {None}]]
    /\ stopping \in [Bots -> [Senders -> [at : {"no", "sent", "read", "orphan", "destroyed"},
                                         owner : Replicas \cup {None}]]]
    /\ reaping \subseteq Replicas
    /\ statuses \in [Replicas -> Seq({"online", "offline"})]
    /\ retained \in [Replicas -> {"online", "offline"}]
    /\ inbox \in [Replicas -> Seq(Messages)]
    /\ link \in [Replicas -> {"up", "away", "dead"}]
    /\ running \in [Replicas -> [Channels -> Bots \cup {None}]]
    /\ events \in 0 .. MaxEvents
    /\ dropped \subseteq Replicas
    /\ contested \subseteq Bots
    /\ unstopped \subseteq Bots

\* No bot yet; the replicas are registered.
Init ==
    /\ row = [b \in Bots |-> "unposted"]
    /\ owner = [b \in Bots |-> None]
    /\ channels = Channels
    /\ active = {}
    /\ scheduler = "up"
    /\ registry = Replicas
    /\ ownership = [c \in Channels |-> None]
    /\ starting = [b \in Bots |-> NotStarting]
    /\ stopping = [b \in Bots |-> [s \in Senders |-> NotStopping]]
    /\ reaping = {}
    /\ statuses = [r \in Replicas |-> <<>>]
    /\ retained = [r \in Replicas |-> "online"]
    /\ inbox = [r \in Replicas |-> <<>>]
    /\ link = [r \in Replicas |-> "up"]
    /\ running = [r \in Replicas |-> [c \in Channels |-> None]]
    /\ events = 0
    /\ dropped = {}
    /\ contested = {}
    /\ unstopped = {}

-----------------------------------------------------------------------------
(* Helpers *)

Event ==
    /\ events < MaxEvents
    /\ events' = events + 1

Runs(b, r) == running[r][ChannelOf[b]] = b

\* A stop of bot b has destroyed its row and is still to be routed.
Destroyed(b) == \E sender \in Senders : stopping[b][sender].at = "destroyed"

\* A bot of channel c has a row, is being started or stopped, or runs.
Occupied(c) ==
    \E b \in Bots : /\ ChannelOf[b] = c
                    /\ \/ row[b] = "present" \/ starting[b].at # "no" \/ Destroyed(b)
                       \/ \E r \in Replicas : Runs(b, r)

\* The Scheduler publishes m to replica r: nothing is sent while it is not connected
\* itself, and the replica gets it if it is connected.
Send(r, m) ==
    inbox' = IF scheduler = "up" /\ link[r] = "up"
             THEN [inbox EXCEPT ![r] = Append(@, m)] ELSE inbox

\* The broker has the status s of replica r, from the replica or from its will.
PublishStatus(r, s) ==
    /\ retained' = [retained EXCEPT ![r] = s]
    /\ statuses' = IF scheduler = "up" THEN [statuses EXCEPT ![r] = Append(@, s)] ELSE statuses

\* scheduler/in/schedule/stopbot for bot b.
RequestStop(b, sender) ==
    stopping' = IF scheduler = "up"
                THEN [stopping EXCEPT ![b][sender] = [at |-> "sent", owner |-> None]]
                ELSE stopping

\* The channels of bots that run on replica r and on no other: the Scheduler deactivates
\* them when their streams end, if it hears of it.
Alone(r) == {c \in Channels : scheduler = "up" /\ \A q \in Replicas \ {r} : running[q][c] = None}

\* The record of channel c leaves replica r.
Vacate(r, c) ==
    /\ running' = [running EXCEPT ![r][c] = None]
    /\ active' = active \ (Alone(r) \cap {c})

-----------------------------------------------------------------------------
(* Session-API: POST and DELETE /bots, and the deletion of channels *)

\* POST /bots: the channel must be inactive.
PostBot(b) ==
    /\ row[b] = "unposted"
    /\ ChannelOf[b] \in channels \ active
    /\ Event
    /\ row' = [row EXCEPT ![b] = "present"]
    /\ starting' = IF scheduler = "up"
                   THEN [starting EXCEPT ![b] = [at |-> "sent", replica |-> None]]
                   ELSE starting
    /\ contested' = IF Occupied(ChannelOf[b])
                    THEN contested \cup {d \in Bots : ChannelOf[d] = ChannelOf[b]}
                    ELSE contested
    /\ UNCHANGED <<owner, channels, active, scheduler, registry, ownership, stopping, reaping,
                   broker, service, dropped, unstopped>>

\* DELETE /bots/:id.
DeleteBot(b) ==
    /\ row[b] = "present"
    /\ stopping[b]["api"].at = "no"
    /\ RequestStop(b, "api")
    /\ UNCHANGED <<database, scheduler, registry, ownership, starting, reaping,
                   broker, service, history>>

\* The channel is deleted, with its session (by force) or by an update of the session.  The
\* column channelId cascades in the migrations and becomes null in the model; a bot is told
\* nothing in either case.
DeleteChannel(c) ==
    /\ c \in channels
    /\ Event
    /\ channels' = channels \ {c}
    /\ active' = active \ {c}
    /\ \/ LET gone == {b \in Bots : ChannelOf[b] = c /\ row[b] = "present"}
          IN  /\ row' = [b \in Bots |-> IF b \in gone THEN "deleted" ELSE row[b]]
              /\ owner' = [b \in Bots |-> IF b \in gone THEN None ELSE owner[b]]
              /\ unstopped' = unstopped \cup gone
       \/ UNCHANGED <<row, owner, unstopped>>
    /\ UNCHANGED <<memory, broker, service, dropped, contested>>

-----------------------------------------------------------------------------
(* Scheduler: startBot *)

\* getStartBotData reads the bot's row; the reads of its channel and session follow.
StartRead(b) ==
    /\ starting[b].at = "sent"
    /\ starting' = [starting EXCEPT ![b] = IF row[b] = "present"
                                           THEN [@ EXCEPT !.at = "read"] ELSE NotStarting]
    /\ UNCHANGED <<database, scheduler, registry, ownership, stopping, reaping,
                   broker, service, history>>

\* Mutant: the map keeps the entry of the registry, not its id.
StartSelect_KeepsEntry(b, r) ==
    /\ starting[b].at = "read"
    /\ r \in registry
    /\ ownership' = [ownership EXCEPT ![ChannelOf[b]] = [uniqueId |-> r]]
    /\ starting' = [starting EXCEPT ![b] = [at |-> "selected", replica |-> r]]
    /\ UNCHANGED <<database, scheduler, registry, stopping, reaping, broker, service, history>>

\* selectBotService; the owner is kept in the map and its write to the row begins.
StartSelect(b, r) ==
    /\ starting[b].at = "read"
    /\ r \in registry
    /\ ownership' = [ownership EXCEPT ![ChannelOf[b]] = r]
    /\ starting' = [starting EXCEPT ![b] = [at |-> "selected", replica |-> r]]
    /\ UNCHANGED <<database, scheduler, registry, stopping, reaping, broker, service, history>>

\* No replica advertises the provider, or the channel has gone: nothing is started.
StartNone(b) ==
    /\ starting[b].at = "read"
    /\ starting' = [starting EXCEPT ![b] = NotStarting]
    /\ UNCHANGED <<database, scheduler, registry, ownership, stopping, reaping,
                   broker, service, history>>

\* Mutant: the owner is only in the map.
StartWrite_MapOnly(b) ==
    /\ starting[b].at = "selected"
    /\ starting' = [starting EXCEPT ![b].at = "written"]
    /\ UNCHANGED <<database, scheduler, registry, ownership, stopping, reaping,
                   broker, service, history>>

\* Bot.update sets the owner, if the row is still there.
StartWrite(b) ==
    /\ starting[b].at = "selected"
    /\ starting' = [starting EXCEPT ![b].at = "written"]
    /\ owner' = IF row[b] = "present"
                THEN [owner EXCEPT ![b] = starting[b].replica] ELSE owner
    /\ contested' = IF starting[b].replica \in registry THEN contested ELSE contested \cup {b}
    /\ UNCHANGED <<row, channels, active, scheduler, registry, ownership, stopping, reaping,
                   broker, service, events, dropped, unstopped>>

\* It throws: the bot is not started, the map keeps its entry.
StartFails(b) ==
    /\ starting[b].at = "selected"
    /\ Event
    /\ starting' = [starting EXCEPT ![b] = NotStarting]
    /\ UNCHANGED <<database, scheduler, registry, ownership, stopping, reaping,
                   broker, service, dropped, contested, unstopped>>

\* startbot is published to the replica.
StartPublish(b) ==
    /\ starting[b].at = "written"
    /\ Send(starting[b].replica, [kind |-> "startbot", channel |-> ChannelOf[b], bot |-> b])
    /\ starting' = [starting EXCEPT ![b] = NotStarting]
    /\ UNCHANGED <<database, scheduler, registry, ownership, stopping, reaping,
                   statuses, retained, service, history>>

-----------------------------------------------------------------------------
(* Scheduler: stopBot *)

\* The row is read, with its channel.  MQTT keeps a stop of a client behind its start.
StopRead(b, sender) ==
    /\ stopping[b][sender].at = "sent"
    /\ starting[b].at # "sent"
    /\ stopping' = [stopping EXCEPT ![b][sender] =
                      IF row[b] # "present" THEN NotStopping
                      ELSE [at    |-> IF ChannelOf[b] \in channels THEN "read" ELSE "orphan",
                            owner |-> owner[b]]]
    /\ contested' = IF starting[b].at # "no" THEN contested \cup {b} ELSE contested
    /\ UNCHANGED <<database, scheduler, registry, ownership, starting, reaping,
                   broker, service, events, dropped, unstopped>>

\* Mutant: no fallback to the column.
RouteTo_MapOnly(b, sender) == ownership[ChannelOf[b]]

\* The replica a stop goes to: the one in the map, or the one in the row that was read.
RouteTo(b, sender) ==
    IF ownership[ChannelOf[b]] # None THEN ownership[ChannelOf[b]] ELSE stopping[b][sender].owner

\* The row is destroyed.
StopDestroy(b, sender) ==
    /\ stopping[b][sender].at = "read"
    /\ row' = [row EXCEPT ![b] = "deleted"]
    /\ owner' = [owner EXCEPT ![b] = None]
    /\ stopping' = [stopping EXCEPT ![b][sender].at = "destroyed"]
    /\ UNCHANGED <<channels, active, scheduler, registry, ownership, starting, reaping,
                   broker, service, history>>

\* The row of a bot without a channel is destroyed, too, and that is all: nothing is
\* routed, and the map keeps its entry.
StopOrphan(b, sender) ==
    /\ stopping[b][sender].at = "orphan"
    /\ row' = [row EXCEPT ![b] = "deleted"]
    /\ owner' = [owner EXCEPT ![b] = None]
    /\ stopping' = [stopping EXCEPT ![b][sender] = NotStopping]
    /\ unstopped' = unstopped \cup {b}
    /\ UNCHANGED <<channels, active, scheduler, registry, ownership, starting, reaping,
                   broker, service, events, dropped, contested>>

\* It throws: the row stays and the stop goes nowhere.
StopFails(b, sender) ==
    /\ stopping[b][sender].at \in {"read", "orphan"}
    /\ Event
    /\ stopping' = [stopping EXCEPT ![b][sender] = NotStopping]
    /\ UNCHANGED <<database, scheduler, registry, ownership, starting, reaping,
                   broker, service, dropped, contested, unstopped>>

\* Then the stop goes to the owner, if one is known and the Scheduler is connected.
StopRoute(b, sender) ==
    /\ stopping[b][sender].at = "destroyed"
    /\ ownership' = [ownership EXCEPT ![ChannelOf[b]] = None]
    /\ LET to == RouteTo(b, sender) IN
       IF to = None THEN UNCHANGED inbox
       ELSE Send(to, [kind |-> "stopbot", channel |-> ChannelOf[b], bot |-> None])
    /\ stopping' = [stopping EXCEPT ![b][sender] = NotStopping]
    /\ unstopped' = IF scheduler = "up" THEN unstopped ELSE unstopped \cup {b}
    /\ UNCHANGED <<database, scheduler, registry, starting, reaping,
                   statuses, retained, service, events, dropped, contested>>

-----------------------------------------------------------------------------
(* Scheduler: statuses of replicas, restarts *)

\* registerBotService.
Register(r) ==
    /\ statuses[r] # <<>> /\ Head(statuses[r]) = "online"
    /\ statuses' = [statuses EXCEPT ![r] = Tail(@)]
    /\ registry' = registry \cup {r}
    /\ UNCHANGED <<database, scheduler, ownership, starting, stopping, reaping,
                   retained, inbox, service, history>>

\* Mutant: the rows of a replica that has gone stay.
Unregister_RowsStay(r) ==
    /\ statuses[r] # <<>> /\ Head(statuses[r]) = "offline"
    /\ statuses' = [statuses EXCEPT ![r] = Tail(@)]
    /\ registry' = registry \ {r}
    /\ ownership' = [c \in Channels |-> IF ownership[c] = r THEN None ELSE ownership[c]]
    /\ UNCHANGED <<database, scheduler, starting, stopping, reaping,
                   retained, inbox, service, history>>

\* unregisterBotService: the replica and what the map has of it go, the deletion of its rows
\* begins.
Unregister(r) ==
    /\ statuses[r] # <<>> /\ Head(statuses[r]) = "offline"
    /\ statuses' = [statuses EXCEPT ![r] = Tail(@)]
    /\ registry' = registry \ {r}
    /\ ownership' = [c \in Channels |-> IF ownership[c] = r THEN None ELSE ownership[c]]
    /\ reaping' = reaping \cup {r}
    /\ UNCHANGED <<database, scheduler, starting, stopping, retained, inbox, service, history>>

\* Bot.destroy of all rows the replica owns.
Reap(r) ==
    /\ r \in reaping
    /\ reaping' = reaping \ {r}
    /\ row' = [b \in Bots |-> IF owner[b] = r THEN "deleted" ELSE row[b]]
    /\ owner' = [b \in Bots |-> IF owner[b] = r THEN None ELSE owner[b]]
    /\ UNCHANGED <<channels, active, scheduler, registry, ownership, starting, stopping,
                   broker, service, history>>

\* The Scheduler dies: handlers, registry, map and messages to it are lost.
SchedulerCrash ==
    /\ scheduler # "down"
    /\ Event
    /\ scheduler' = "down"
    /\ registry' = {}
    /\ ownership' = [c \in Channels |-> None]
    /\ starting' = [b \in Bots |-> NotStarting]
    /\ stopping' = [b \in Bots |-> [s \in Senders |-> NotStopping]]
    /\ reaping' = {}
    /\ statuses' = [r \in Replicas |-> <<>>]
    /\ unstopped' = unstopped \cup {b \in Bots : Destroyed(b)}
    /\ UNCHANGED <<database, retained, inbox, service, dropped, contested>>

\* It loses its connection: the messages to it are lost, what it has received it goes on with.
SchedulerAway ==
    /\ scheduler = "up"
    /\ Event
    /\ scheduler' = "away"
    /\ starting' = [b \in Bots |-> IF starting[b].at = "sent" THEN NotStarting ELSE starting[b]]
    /\ stopping' = [b \in Bots |-> [s \in Senders |->
                        IF stopping[b][s].at = "sent" THEN NotStopping ELSE stopping[b][s]]]
    /\ statuses' = [r \in Replicas |-> <<>>]
    /\ UNCHANGED <<database, registry, ownership, reaping, retained, inbox, service,
                   dropped, contested, unstopped>>

\* It is back, after either: it gets the retained statuses, and resetSessions makes every
\* channel inactive.
SchedulerReady ==
    /\ scheduler # "up"
    /\ scheduler' = "up"
    /\ statuses' = [r \in Replicas |-> <<retained[r]>>]
    /\ active' = {}
    /\ UNCHANGED <<row, owner, channels, registry, ownership, starting, stopping, reaping,
                   retained, inbox, service, history>>

-----------------------------------------------------------------------------
(* BotService *)

\* The next message is handled: a start replaces what runs for the channel, a stop stops it.
Deliver(r) ==
    /\ link[r] = "up"
    /\ inbox[r] # <<>>
    /\ LET m == Head(inbox[r]) IN
       IF m.kind = "startbot"
       THEN /\ running' = [running EXCEPT ![r][m.channel] = m.bot]
            /\ UNCHANGED active
       ELSE Vacate(r, m.channel)
    /\ inbox' = [inbox EXCEPT ![r] = Tail(@)]
    /\ UNCHANGED <<row, owner, channels, memory, statuses, retained, link, history>>

\* A start is refused under memory pressure: only an error is published.
Refuse(r) ==
    /\ link[r] = "up"
    /\ inbox[r] # <<>> /\ Head(inbox[r]).kind = "startbot"
    /\ Event
    /\ inbox' = [inbox EXCEPT ![r] = Tail(@)]
    /\ UNCHANGED <<database, memory, statuses, retained, service, dropped, contested, unstopped>>

\* The bot streams, and the Scheduler makes its channel active.
Stream(r, c) ==
    /\ running[r][c] # None
    /\ scheduler = "up" /\ c \in channels
    /\ active' = active \cup {c}
    /\ UNCHANGED <<row, owner, channels, memory, broker, service, history>>

\* The meeting is empty or the bot was never admitted: it leaves and asks for the removal of
\* its row.
BotLeaves(r, c) ==
    /\ running[r][c] # None
    /\ Vacate(r, c)
    /\ IF link[r] = "up" THEN RequestStop(running[r][c], "bot") ELSE UNCHANGED stopping
    /\ UNCHANGED <<row, owner, channels, scheduler, registry, ownership, starting, reaping,
                   broker, link, history>>

\* A fatal error: only the error is published.
BotFails(r, c) ==
    /\ running[r][c] # None
    /\ Event
    /\ Vacate(r, c)
    /\ UNCHANGED <<row, owner, channels, memory, broker, link, dropped, contested, unstopped>>

\* The process dies; the broker publishes its will.
ReplicaDies(r) ==
    /\ link[r] = "up"
    /\ Event
    /\ link' = [link EXCEPT ![r] = "dead"]
    /\ inbox' = [inbox EXCEPT ![r] = <<>>]
    /\ running' = [running EXCEPT ![r] = [c \in Channels |-> None]]
    /\ active' = active \ Alone(r)
    /\ PublishStatus(r, "offline")
    /\ UNCHANGED <<row, owner, channels, memory, dropped, contested, unstopped>>

\* The process loses its connection for longer than the keepalive; the broker publishes its
\* will, too.
ReplicaAway(r) ==
    /\ link[r] = "up"
    /\ Event
    /\ link' = [link EXCEPT ![r] = "away"]
    /\ inbox' = [inbox EXCEPT ![r] = <<>>]
    /\ dropped' = dropped \cup {r}
    /\ PublishStatus(r, "offline")
    /\ UNCHANGED <<database, memory, running, contested, unstopped>>

\* It is connected again and publishes its status.
ReplicaBack(r) ==
    /\ link[r] = "away"
    /\ link' = [link EXCEPT ![r] = "up"]
    /\ PublishStatus(r, "online")
    /\ UNCHANGED <<database, memory, inbox, running, history>>

-----------------------------------------------------------------------------
(* Specification *)

Start(b) ==
    \/ StartRead(b) \/ StartNone(b) \/ StartWrite(b) \/ StartFails(b) \/ StartPublish(b)
    \/ \E r \in Replicas : StartSelect(b, r)

Next ==
    \/ \E b \in Bots : PostBot(b) \/ DeleteBot(b) \/ Start(b)
    \/ \E b \in Bots, sender \in Senders :
           \/ StopRead(b, sender) \/ StopDestroy(b, sender) \/ StopOrphan(b, sender)
           \/ StopFails(b, sender) \/ StopRoute(b, sender)
    \/ \E r \in Replicas : Register(r) \/ Unregister(r) \/ Reap(r)
    \/ \E c \in Channels : DeleteChannel(c)
    \/ SchedulerCrash \/ SchedulerAway \/ SchedulerReady
    \/ \E r \in Replicas : Deliver(r) \/ Refuse(r) \/ ReplicaDies(r) \/ ReplicaAway(r) \/ ReplicaBack(r)
    \/ \E r \in Replicas, c \in Channels : Stream(r, c) \/ BotLeaves(r, c) \/ BotFails(r, c)

Spec == Init /\ [][Next]_vars

-----------------------------------------------------------------------------
(* Properties *)

\* "Persist ownership so a stopbot can still be routed": a bot that runs, or will when a
\* message arrives, is found in its row as long as the row exists, whatever restarts.
OwnerWrittenFirst ==
    \A b \in Bots, r \in Replicas :
        /\ row[b] = "present"
        /\ \/ Runs(b, r)
           \/ \E i \in DOMAIN inbox[r] : inbox[r][i].kind = "startbot" /\ inbox[r][i].bot = b
        => owner[b] = r

\* A bot whose row is gone is not left behind: it has been told to stop, or is about to be.
\* This is not so if the stop met the start or two bots shared a channel (contested); if the
\* Scheduler died after it had destroyed the row, or was away from the broker when it should
\* have published the stop, or if the channel was deleted (unstopped); or if the replica was
\* away from the broker, because the Scheduler then takes its bots for dead (dropped).
RemovedIsStopped ==
    \A b \in Bots, r \in Replicas :
        /\ Runs(b, r)
        /\ row[b] = "deleted"
        /\ b \notin contested \cup unstopped
        /\ r \notin dropped
        => \/ Destroyed(b)
           \/ \E i \in DOMAIN inbox[r] :
                  inbox[r][i].kind = "stopbot" /\ inbox[r][i].channel = ChannelOf[b]

\* "Reap their now-orphaned rows so they don't linger": the row of a bot whose replica has
\* died is about to go: the Scheduler is deleting it, or has yet to hear of the death, for
\* which it has the will, also if it was not connected then.  This is not so if the owner was
\* written after the Scheduler had handled the will.
DeadReplicaReaped ==
    \A b \in Bots, r \in Replicas :
        /\ link[r] = "dead"
        /\ owner[b] = r
        /\ b \notin contested
        => \/ r \in reaping
           \/ \E i \in DOMAIN statuses[r] : statuses[r][i] = "offline"
           \/ scheduler # "up" /\ retained[r] = "offline"
=============================================================================
