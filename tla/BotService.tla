------------------------------ MODULE BotService ------------------------------
(***************************************************************************)
(* One BotService process: the map of its bots, the startBot and stopBot   *)
(* handlers, the join and the disposal of a bot, the pool of Chromium      *)
(* contexts and the handlers of the loopback audio server.                 *)
(*                                                                         *)
(* The process is one event loop.  An action is what runs between two      *)
(* awaits that really wait: for Chromium, for the rules of a platform, for *)
(* the disposal of another bot.  Every resource of a bot is keyed by its   *)
(* session and channel, not by the bot, so bots of one key can meet in it. *)
(*                                                                         *)
(* A start that is refused because of memory pressure changes nothing and  *)
(* is a start that does not happen.  The socket to the Transcriber and the *)
(* timers of a bot are events here.                                        *)
(***************************************************************************)
EXTENDS Naturals, FiniteSets

CONSTANTS
    Keys,           \* `${sessionId}_${channelId}`
    MaxBots,        \* bound on the startbot messages
    MaxContexts,    \* MAX_CONCURRENT_BOTS
    MaxEvents       \* bound on stops, leaves and crashes together

ASSUME MaxContextsAssumption == MaxContexts \in Nat \ {0}
ASSUME MaxEventsAssumption == MaxEvents \in Nat
ASSUME MaxBotsAssumption == MaxBots \in Nat
ASSUME KeysAssumption == IsFiniteSet(Keys)

\* Bot objects in the order in which their startbot messages arrive.
Bots == 1 .. MaxBots
None == 0

VARIABLES
    bots,           \* BrokerClient.bots: the bot recorded for each key
    key,            \* the key each startbot message is for
    start,          \* how far startBot, with the bot's init, has got
    awaited,        \* the bot whose stop a startBot waits for
    disposal,       \* how far dispose of each bot has got
    page,           \* bots whose page is set
    contexts,       \* BrowserPool.contexts: whose context each key has
    reserved,       \* BrowserPool.reserved
    open,           \* bots whose context is open in Chromium
    browser,        \* the Chromium process
    handlers,       \* LocalAudioServer.handlers: who gets the audio of a key
    events          \* how many bounded events have happened

records == <<bots, key, start, awaited>>
pool    == <<contexts, reserved, open, browser>>
vars    == <<records, disposal, page, pool, handlers, events>>

Stages == {"unused", "replacing", "evicting", "launching", "opening", "joining",
           "aborting", "failed", "running", "done"}

TypeOK ==
    /\ bots \in [Keys -> Bots \cup {None}]
    /\ key \in [Bots -> Keys]
    /\ start \in [Bots -> Stages]
    /\ awaited \in [Bots -> Bots \cup {None}]
    /\ disposal \in [Bots -> {"no", "leaving", "closing", "done"}]
    /\ page \subseteq Bots
    /\ contexts \in [Keys -> Bots \cup {None}]
    /\ reserved \in Nat
    /\ open \subseteq Bots
    /\ browser \in {"up", "down", "launching"}
    /\ handlers \in [Keys -> Bots \cup {None}]
    /\ events \in 0 .. MaxEvents

\* The client is ready: the browser runs, the audio server listens.
Init ==
    /\ bots = [k \in Keys |-> None]
    /\ key \in [Bots -> Keys]
    /\ start = [b \in Bots |-> "unused"]
    /\ awaited = [b \in Bots |-> None]
    /\ disposal = [b \in Bots |-> "no"]
    /\ page = {}
    /\ contexts = [k \in Keys |-> None]
    /\ reserved = 0
    /\ open = {}
    /\ browser = "up"
    /\ handlers = [k \in Keys |-> None]
    /\ events = 0

-----------------------------------------------------------------------------
(* Helpers *)

\* A failed init goes on in the microtask queue, before any other event.
Settled == \A b \in Bots : start[b] # "failed"

Event ==
    /\ events < MaxEvents
    /\ events' = events + 1

\* Keys with a context in the pool.
Occupied == {k \in Keys : contexts[k] # None}

\* The bots that get as far as page = null in their dispose now: of each, the
\* handler and the context of its key are removed, whoever they belong to.
Teardown(B) ==
    LET gone == {key[b] : b \in B} IN
    /\ page' = page \ B
    /\ handlers' = [k \in Keys |-> IF k \in gone THEN None ELSE handlers[k]]
    /\ contexts' = [k \in Keys |-> IF k \in gone THEN None ELSE contexts[k]]
    /\ open' = open \ {contexts[k] : k \in gone}

\* What dispose of each bot in B does at once.  It is idempotent; a bot with a
\* page first leaves the meeting, one without goes on to its teardown.
Dispose(B) ==
    LET fresh == {b \in B : disposal[b] = "no"}
        quick == fresh \ page
    IN  /\ disposal' = [b \in Bots |->
               IF b \notin fresh THEN disposal[b]
               ELSE IF b \in page THEN "leaving"
               ELSE IF contexts[key[b]] = None THEN "done" ELSE "closing"]
        /\ Teardown(quick)

\* Mutant: the record is only removed by whoever replaces it.
StopKey_RecordStays(k) ==
    /\ UNCHANGED bots
    /\ Dispose({bots[k]} \ {None})

\* stopBot: the record goes first, so that a second call finds nothing.
StopKey(k) ==
    /\ bots' = [bots EXCEPT ![k] = None]
    /\ Dispose({bots[k]} \ {None})

\* Mutant: the cap counts the contexts only.
Reserve_ContextsOnly(b, inUse) ==
    IF inUse >= MaxContexts
    THEN /\ start' = [start EXCEPT ![b] = "failed"]
         /\ UNCHANGED <<reserved, browser>>
    ELSE /\ reserved' = reserved + 1
         /\ start' = [start EXCEPT ![b] = IF browser = "up" THEN "opening" ELSE "launching"]
         /\ browser' = IF browser = "down" THEN "launching" ELSE browser

\* createContext from its cap check on: a slot is reserved in the same turn, or
\* the bot is refused.
Reserve(b, inUse) ==
    IF inUse + reserved >= MaxContexts
    THEN /\ start' = [start EXCEPT ![b] = "failed"]
         /\ UNCHANGED <<reserved, browser>>
    ELSE /\ reserved' = reserved + 1
         /\ start' = [start EXCEPT ![b] = IF browser = "up" THEN "opening" ELSE "launching"]
         /\ browser' = IF browser = "down" THEN "launching" ELSE browser

\* startBot once the previous instance is stopped: record the bot and begin its
\* init.  A context of this key that is still in the pool is replaced.
Begin(b, k) ==
    /\ bots' = [bots EXCEPT ![k] = b]
    /\ IF contexts[k] # None
       THEN /\ start' = [start EXCEPT ![b] = "evicting"]
            /\ contexts' = [contexts EXCEPT ![k] = None]
            /\ open' = open \ {contexts[k]}
            /\ UNCHANGED <<reserved, browser>>
       ELSE /\ Reserve(b, Cardinality(Occupied))
            /\ UNCHANGED <<contexts, open>>

-----------------------------------------------------------------------------
(* startBot *)

\* startbot arrives.  A recorded instance is stopped and its disposal awaited.
StartBot(b) ==
    /\ Settled
    /\ start[b] = "unused"
    /\ \A c \in Bots : c < b => start[c] # "unused"
    /\ LET k == key[b]
           old == bots[k]
       IN
       IF old # None /\ disposal[old] = "no"
       THEN /\ start' = [start EXCEPT ![b] = "replacing"]
            /\ awaited' = [awaited EXCEPT ![b] = old]
            /\ StopKey(k)
            /\ UNCHANGED <<reserved, browser>>
       ELSE /\ Begin(b, k)
            /\ UNCHANGED <<awaited, disposal, page, handlers>>
    /\ UNCHANGED <<key, events>>

\* The disposal startBot waits for is over.
StartGoesOn(b) ==
    /\ Settled
    /\ start[b] = "replacing"
    /\ disposal[awaited[b]] = "done"
    /\ Begin(b, key[b])
    /\ UNCHANGED <<key, awaited, disposal, page, handlers, events>>

\* createContext has closed the context it replaces.
Evicted(b) ==
    /\ Settled
    /\ start[b] = "evicting"
    /\ Reserve(b, Cardinality(Occupied))
    /\ UNCHANGED <<bots, key, awaited, disposal, page, contexts, open, handlers, events>>

\* Mutant: only the call that launched Chromium would go on.
Launched_Unshared ==
    /\ Settled
    /\ browser = "launching"
    /\ browser' = "up"
    /\ UNCHANGED <<records, disposal, page, contexts, reserved, open, handlers, events>>

\* Chromium is up: all who waited for it go on.
Launched ==
    /\ Settled
    /\ browser = "launching"
    /\ browser' = "up"
    /\ start' = [b \in Bots |-> IF start[b] = "launching" THEN "opening" ELSE start[b]]
    /\ UNCHANGED <<bots, key, awaited, disposal, page, contexts, reserved, open,
                   handlers, events>>

\* Mutant: an error path keeps the slot.
GiveUpSlots_Kept(B) ==
    /\ start' = [b \in Bots |-> IF b \in B THEN "failed" ELSE start[b]]
    /\ UNCHANGED reserved

\* The bots in B leave createContext without a context and give their slots back.
GiveUpSlots(B) ==
    /\ start' = [b \in Bots |-> IF b \in B THEN "failed" ELSE start[b]]
    /\ reserved' = reserved - Cardinality(B)

\* Chromium cannot be launched.
LaunchFailed ==
    /\ Settled
    /\ browser = "launching"
    /\ Event
    /\ browser' = "down"
    /\ GiveUpSlots({b \in Bots : start[b] = "launching"})
    /\ UNCHANGED <<bots, key, awaited, disposal, page, contexts, open, handlers>>

\* createContext returns: the context is in the pool, the slot is given back, init
\* registers the audio handler and goes to the meeting.
ContextOpened(b) ==
    /\ Settled
    /\ start[b] = "opening"
    /\ start' = [start EXCEPT ![b] = "joining"]
    /\ contexts' = [contexts EXCEPT ![key[b]] = b]
    /\ reserved' = reserved - 1
    /\ open' = open \cup {b}
    /\ page' = page \cup {b}
    /\ handlers' = [handlers EXCEPT ![key[b]] = b]
    /\ UNCHANGED <<bots, key, awaited, disposal, browser, events>>

\* newContext or newPage fails.
ContextFailed(b) ==
    /\ Settled
    /\ start[b] = "opening"
    /\ Event
    /\ GiveUpSlots({b})
    /\ UNCHANGED <<bots, key, awaited, disposal, page, contexts, open, browser, handlers>>

\* The login rules are done: the bot is connected to its Transcriber, unless it was
\* stopped or replaced meanwhile; then it is an orphan and disposed.
Joined(b) ==
    /\ Settled
    /\ start[b] = "joining"
    /\ b \in page \cap open
    /\ IF bots[key[b]] = b
       THEN /\ start' = [start EXCEPT ![b] = "running"]
            /\ UNCHANGED <<disposal, page, contexts, open, handlers>>
       ELSE /\ start' = [start EXCEPT ![b] = "done"]
            /\ Dispose({b})
    /\ UNCHANGED <<bots, key, awaited, reserved, browser, events>>

\* A rule fails, or the page has been closed under the bot: init disposes the bot,
\* which is over at once if somebody else has begun it.
JoinFailed(b) ==
    /\ Settled
    /\ start[b] = "joining"
    /\ IF b \in page \cap open THEN Event ELSE UNCHANGED events
    /\ start' = [start EXCEPT ![b] = IF disposal[b] = "no" THEN "aborting" ELSE "failed"]
    /\ Dispose({b})
    /\ UNCHANGED <<bots, key, awaited, reserved, browser>>

\* The disposal init waits for is over.
Aborted(b) ==
    /\ Settled
    /\ start[b] = "aborting"
    /\ disposal[b] = "done"
    /\ start' = [start EXCEPT ![b] = "failed"]
    /\ UNCHANGED <<bots, key, awaited, disposal, page, pool, handlers, events>>

\* init returned false: startBot stops what is recorded for the key.
InitFailed(b) ==
    /\ start[b] = "failed"
    /\ start' = [start EXCEPT ![b] = "done"]
    /\ StopKey(key[b])
    /\ UNCHANGED <<key, awaited, reserved, browser, events>>

-----------------------------------------------------------------------------
(* stopBot, dispose and what makes a bot leave *)

\* stopbot arrives.
StopBot(k) ==
    /\ Settled
    /\ bots[k] # None
    /\ Event
    /\ StopKey(k)
    /\ UNCHANGED <<key, start, awaited, reserved, browser>>

\* The meeting is empty, nobody ever came, the audio died or the Transcriber cannot
\* be reached.  The timers behind it end with the bot's disposal.
BotLeaves(b) ==
    /\ Settled
    /\ start[b] = "running"
    /\ disposal[b] = "no"
    /\ Event
    /\ StopKey(key[b])
    /\ UNCHANGED <<key, start, awaited, reserved, browser>>

\* The page of a bot crashes while somebody listens to the bot's 'error'.
PageCrash(b) ==
    /\ Settled
    /\ b \in page \cap open
    /\ start[b] = "running"
    /\ disposal[b] # "done"
    /\ Event
    /\ StopKey(key[b])
    /\ UNCHANGED <<key, start, awaited, reserved, browser>>

\* It crashes while nobody does: 'error' is thrown, the process dies and a new one
\* starts without any bot.
PageCrashUnheard(b) ==
    /\ Settled
    /\ b \in page \cap open
    /\ start[b] # "running" \/ disposal[b] = "done"
    /\ Event
    /\ bots' = [k \in Keys |-> None]
    /\ start' = [c \in Bots |-> IF start[c] = "unused" THEN "unused" ELSE "done"]
    /\ awaited' = [c \in Bots |-> None]
    /\ disposal' = [c \in Bots |-> IF start[c] = "unused" THEN "no" ELSE "done"]
    /\ page' = {}
    /\ contexts' = [k \in Keys |-> None]
    /\ reserved' = 0
    /\ open' = {}
    /\ browser' = "up"
    /\ handlers' = [k \in Keys |-> None]
    /\ UNCHANGED key

\* The leave rules are done, or have failed.
LeaveDone(b) ==
    /\ Settled
    /\ disposal[b] = "leaving"
    /\ disposal' = [disposal EXCEPT ![b] =
                      IF contexts[key[b]] = None THEN "done" ELSE "closing"]
    /\ Teardown({b})
    /\ UNCHANGED <<records, reserved, browser, events>>

\* destroyContext has closed the context; the bot's listeners are removed.
CloseDone(b) ==
    /\ Settled
    /\ disposal[b] = "closing"
    /\ disposal' = [disposal EXCEPT ![b] = "done"]
    /\ UNCHANGED <<records, page, pool, handlers, events>>

\* Chromium dies: the pool forgets the contexts, pending ones fail, and the owner
\* stops every recorded bot.
BrowserCrash ==
    /\ Settled
    /\ browser = "up"
    /\ Event
    /\ browser' = "down"
    /\ GiveUpSlots({b \in Bots : start[b] = "opening"})
    /\ contexts' = [k \in Keys |-> None]
    /\ open' = {}
    /\ bots' = [k \in Keys |-> None]
    /\ LET stopped == {b \in {bots[k] : k \in Keys} \ {None} : disposal[b] = "no"} IN
       /\ disposal' = [b \in Bots |-> IF b \notin stopped THEN disposal[b]
                                      ELSE IF b \in page THEN "leaving" ELSE "done"]
       /\ handlers' = [k \in Keys |-> IF \E b \in stopped \ page : key[b] = k
                                      THEN None ELSE handlers[k]]
    /\ UNCHANGED <<key, awaited, page>>

-----------------------------------------------------------------------------
(* Specification *)

\* What Chromium, the platform's rules (all with timeouts) and the event loop do.
Progress(b) ==
    \/ StartGoesOn(b)
    \/ Evicted(b)
    \/ ContextOpened(b)
    \/ ContextFailed(b)
    \/ Joined(b)
    \/ JoinFailed(b)
    \/ Aborted(b)
    \/ InitFailed(b)
    \/ LeaveDone(b)
    \/ CloseDone(b)

Launch == Launched \/ LaunchFailed

Next ==
    \/ \E k \in Keys : StopBot(k)
    \/ \E b \in Bots : \/ StartBot(b) \/ Progress(b)
                      \/ BotLeaves(b) \/ PageCrash(b) \/ PageCrashUnheard(b)
    \/ Launch
    \/ BrowserCrash

\* The process keeps running its event loop, and everything it awaits has a
\* timeout of its own.
Fairness ==
    /\ \A b \in Bots : WF_vars(Progress(b))
    /\ WF_vars(Launch)

Spec == Init /\ [][Next]_vars /\ Fairness

-----------------------------------------------------------------------------
(* Properties *)

\* createContext counts contexts and reservations over several awaits: whatever
\* replaces contexts, fails or crashes in between, the pool is never overcommitted.
PoolBound == Cardinality(Occupied) + reserved <= MaxContexts

\* Every reservation belongs to a createContext that is still in progress: no error
\* path keeps a slot, which would shrink the pool for good, and none gives back
\* the slot of somebody else.
SlotsBalance == reserved = Cardinality({b \in Bots : start[b] \in {"launching", "opening"}})

\* A bot that runs and is recorded has not been disposed: stopBot removes the
\* record before it disposes, and init fails before it is connected.
RecordedRuns ==
    \A k \in Keys, b \in Bots :
        bots[k] = b /\ start[b] = "running" => disposal[b] = "no" /\ key[b] = k

\* Every startBot ends, connected or not: none waits for ever for the disposal of
\* the instance it replaces, for a launch somebody else began or for its own slot.
StartsComplete ==
    \A b \in Bots :
        start[b] \notin {"unused", "running", "done"} ~> start[b] \in {"running", "done"}
=============================================================================
