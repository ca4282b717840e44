--------------------------- MODULE BotRoutingProofs ---------------------------
(***************************************************************************)
(* Proofs about BotRouting, for any bots, channels and replicas and any    *)
(* number of events.                                                       *)
(***************************************************************************)
EXTENDS BotRouting, SequenceTheorems, TLAPS

-----------------------------------------------------------------------------
(* Types *)

\* A message or a status that is sent keeps the types of the queues.
LEMMA SendType ==
  ASSUME TypeOK, NEW r \in Replicas, NEW m \in Messages, Send(r, m)
  PROVE  inbox' \in [Replicas -> Seq(Messages)]
BY DEF Send, TypeOK

LEMMA PublishStatusType ==
  ASSUME TypeOK, NEW r \in Replicas, NEW s \in {"online", "offline"}, PublishStatus(r, s)
  PROVE  /\ statuses' \in [Replicas -> Seq({"online", "offline"})]
         /\ retained' \in [Replicas -> {"online", "offline"}]
BY DEF PublishStatus, TypeOK

\* The tail of a queue that is not empty.
LEMMA TailOf ==
  ASSUME NEW S, NEW s \in Seq(S), s # <<>>
  PROVE  /\ Head(s) \in S
         /\ Tail(s) \in Seq(S)
         /\ Len(Tail(s)) = Len(s) - 1
         /\ \A i \in 1 .. Len(Tail(s)) : Tail(s)[i] = s[i + 1]
  OBVIOUS

LEMMA InitTypeOK == Init => TypeOK
BY NoneAssumption, MaxEventsAssumption
   DEF Init, TypeOK, NotStarting, NotStopping

\* What the clients and startBot do.
LEMMA StartTypeOK ==
  ASSUME TypeOK, NEW b \in Bots, PostBot(b) \/ DeleteBot(b) \/ Start(b)
  PROVE  TypeOK'
<1> USE DEF TypeOK, database, broker, service, history, NotStarting
<1>1. CASE PostBot(b)
  BY <1>1, MaxEventsAssumption DEF PostBot, Event
<1>2. CASE DeleteBot(b)
  BY <1>2 DEF DeleteBot, RequestStop, Senders
<1>3. CASE StartRead(b) \/ StartNone(b)
  <2>1. starting' \in [Bots -> [at : {"no", "sent", "read", "selected", "written"},
                                replica : Replicas \cup {None}]]
    <3>1. CASE StartRead(b)
      <4> DEFINE Starts == [at : {"no", "sent", "read", "selected", "written"},
                            replica : Replicas \cup {None}]
      <4>1. starting \in [Bots -> Starts]
        OBVIOUS
      <4>2. starting[b] \in Starts
        BY <4>1
      <4>3. [starting[b] EXCEPT !.at = "read"] \in Starts
        BY <4>2
      <4>4. NotStarting \in Starts
        OBVIOUS
      <4>5. PICK s \in Starts : starting' = [starting EXCEPT ![b] = s]
        BY <3>1, <4>3, <4>4 DEF StartRead
      <4> HIDE DEF Starts
      <4>6. starting' \in [Bots -> Starts]
        BY <4>1, <4>5
      <4> QED
        BY <4>6 DEF Starts
    <3>2. CASE StartNone(b)
      BY <3>2 DEF StartNone
    <3> QED
      BY <1>3, <3>1, <3>2
  <2> QED
    BY <1>3, <2>1 DEF StartRead, StartNone
<1>4. CASE StartWrite(b)
  BY <1>4 DEF StartWrite
<1>5. CASE StartFails(b)
  BY <1>5, MaxEventsAssumption DEF StartFails, Event
<1>6. CASE StartPublish(b)
  <2>1. CASE starting[b].replica \in Replicas
    <3>1. [kind |-> "startbot", channel |-> ChannelOf[b], bot |-> b] \in Messages
      BY ChannelOfAssumption DEF Messages
    <3> QED
      BY <1>6, <2>1, <3>1, SendType DEF StartPublish
  <2>2. CASE starting[b].replica \notin Replicas
    <3>1. inbox' = inbox
      BY <1>6, <2>2 DEF StartPublish, Send
    <3> QED
      BY <1>6, <3>1 DEF StartPublish
  <2> QED
    BY <2>1, <2>2
<1>7. ASSUME NEW r \in Replicas, StartSelect(b, r)
      PROVE  TypeOK'
  BY <1>7, ChannelOfAssumption DEF StartSelect
<1> QED
  BY <1>1, <1>2, <1>3, <1>4, <1>5, <1>6, <1>7 DEF Start

\* stopBot.
LEMMA StopTypeOK ==
  ASSUME TypeOK, NEW b \in Bots, NEW sender \in Senders,
         \/ StopRead(b, sender) \/ StopDestroy(b, sender) \/ StopOrphan(b, sender)
         \/ StopFails(b, sender) \/ StopRoute(b, sender)
  PROVE  TypeOK'
<1> USE DEF TypeOK, database, broker, service, history, NotStopping
<1>1. CASE StopRead(b, sender)
  BY <1>1 DEF StopRead
<1>2. CASE StopRoute(b, sender)
  <2>1. RouteTo(b, sender) \in Replicas \cup {None}
    BY ChannelOfAssumption DEF RouteTo
  <2>2. inbox' \in [Replicas -> Seq(Messages)]
    <3>1. [kind |-> "stopbot", channel |-> ChannelOf[b], bot |-> None] \in Messages
      BY ChannelOfAssumption DEF Messages
    <3> QED
      BY <1>2, <2>1, <3>1, SendType DEF StopRoute
  <2> QED
    BY <1>2, <2>2, ChannelOfAssumption DEF StopRoute
<1>3. CASE StopDestroy(b, sender)
  <2> DEFINE Stages == [at : {"no", "sent", "read", "orphan", "destroyed"}, owner : Replicas \cup {None}]
  <2>1. stopping[b][sender] \in Stages
    OBVIOUS
  <2>2. [stopping[b][sender] EXCEPT !.at = "destroyed"] \in Stages
    BY <2>1
  <2>3. PICK s \in Stages : stopping' = [stopping EXCEPT ![b][sender] = s]
    BY <1>3, <2>2 DEF StopDestroy
  <2>4. stopping \in [Bots -> [Senders -> Stages]]
    OBVIOUS
  <2> HIDE DEF Stages
  <2>5. stopping' \in [Bots -> [Senders -> Stages]]
    BY <2>3, <2>4
  <2> QED
    BY <1>3, <2>5 DEF StopDestroy, Stages
<1>4. CASE StopFails(b, sender)
  BY <1>4, MaxEventsAssumption DEF StopFails, Event
<1>5. CASE StopOrphan(b, sender)
  BY <1>5 DEF StopOrphan
<1> QED
  BY <1>1, <1>2, <1>3, <1>4, <1>5

\* Statuses and restarts of the Scheduler.
LEMMA SchedulerTypeOK ==
  ASSUME TypeOK,
         \/ \E r \in Replicas : Register(r) \/ Unregister(r) \/ Reap(r)
         \/ \E c \in Channels : DeleteChannel(c)
         \/ SchedulerCrash \/ SchedulerAway \/ SchedulerReady
  PROVE  TypeOK'
<1> USE DEF TypeOK, database, memory, broker, service, history
<1>1. ASSUME NEW r \in Replicas, Register(r)
      PROVE  TypeOK'
  BY <1>1, TailOf DEF Register
<1>2. ASSUME NEW r \in Replicas, Unregister(r)
      PROVE  TypeOK'
  BY <1>2, TailOf DEF Unregister
<1>3. ASSUME NEW r \in Replicas, Reap(r)
      PROVE  TypeOK'
  BY <1>3 DEF Reap
<1>4. CASE SchedulerCrash
  BY <1>4, MaxEventsAssumption DEF SchedulerCrash, Event, NotStarting, NotStopping
<1>5. CASE SchedulerReady
  BY <1>5 DEF SchedulerReady
<1>6. CASE SchedulerAway
  <2>1. NotStarting \in [at : {"no", "sent", "read", "selected", "written"},
                         replica : Replicas \cup {None}]
    BY DEF NotStarting
  <2>2. NotStopping \in [at : {"no", "sent", "read", "orphan", "destroyed"},
                         owner : Replicas \cup {None}]
    BY DEF NotStopping
  <2> QED
    BY <1>6, <2>1, <2>2, MaxEventsAssumption DEF SchedulerAway, Event
<1>7. ASSUME NEW c \in Channels, DeleteChannel(c)
      PROVE  TypeOK'
  <2>1. /\ row' \in [Bots -> {"unposted", "present", "deleted"}]
        /\ owner' \in [Bots -> Replicas \cup {None}]
        /\ unstopped' \subseteq Bots
    BY <1>7 DEF DeleteChannel
  <2> QED
    BY <1>7, <2>1, MaxEventsAssumption DEF DeleteChannel, Event
<1> QED
  BY <1>1, <1>2, <1>3, <1>4, <1>5, <1>6, <1>7

\* The replicas.
LEMMA ReplicaTypeOK ==
  ASSUME TypeOK, NEW r \in Replicas,
         \/ Deliver(r) \/ Refuse(r) \/ ReplicaDies(r) \/ ReplicaAway(r) \/ ReplicaBack(r)
         \/ \E c \in Channels : Stream(r, c) \/ BotLeaves(r, c) \/ BotFails(r, c)
  PROVE  TypeOK'
<1> USE DEF TypeOK, database, memory, broker, service, history
<1>1. CASE Deliver(r)
  <2>1. Head(inbox[r]) \in Messages /\ Tail(inbox[r]) \in Seq(Messages)
    BY <1>1, TailOf DEF Deliver
  <2> DEFINE m == Head(inbox[r])
  <2>2. m.channel \in Channels /\ m.bot \in Bots \cup {None}
    BY <2>1 DEF Messages
  <2>3. CASE m.kind = "startbot"
    <3>1. running' = [running EXCEPT ![r][m.channel] = m.bot] /\ UNCHANGED active
      BY <1>1, <2>3 DEF Deliver
    <3>2. running' \in [Replicas -> [Channels -> Bots \cup {None}]]
      BY <2>2, <3>1
    <3> QED
      BY <1>1, <2>1, <3>1, <3>2 DEF Deliver
  <2>4. CASE m.kind # "startbot"
    <3>1. Vacate(r, m.channel)
      BY <1>1, <2>4 DEF Deliver
    <3>2. running' \in [Replicas -> [Channels -> Bots \cup {None}]] /\ active' \subseteq Channels
      BY <2>2, <3>1 DEF Vacate
    <3> QED
      BY <1>1, <2>1, <3>2 DEF Deliver
  <2> QED
    BY <2>3, <2>4
<1>2. CASE Refuse(r)
  <2>1. Tail(inbox[r]) \in Seq(Messages)
    BY <1>2, TailOf DEF Refuse
  <2> QED
    BY <1>2, <2>1, MaxEventsAssumption DEF Refuse, Event
<1>3. CASE ReplicaDies(r)
  BY <1>3, PublishStatusType, MaxEventsAssumption DEF ReplicaDies, Event
<1>4. CASE ReplicaAway(r)
  BY <1>4, PublishStatusType, MaxEventsAssumption DEF ReplicaAway, Event
<1>5. CASE ReplicaBack(r)
  BY <1>5, PublishStatusType DEF ReplicaBack
<1>6. ASSUME NEW c \in Channels, Stream(r, c)
      PROVE  TypeOK'
  BY <1>6 DEF Stream
<1>7. ASSUME NEW c \in Channels, BotLeaves(r, c)
      PROVE  TypeOK'
  <2>1. running[r][c] \in Bots
    BY <1>7 DEF BotLeaves
  <2>2. stopping' \in [Bots -> [Senders -> [at : {"no", "sent", "read", "orphan", "destroyed"},
                                              owner : Replicas \cup {None}]]]
    <3>1. RequestStop(running[r][c], "bot") \/ UNCHANGED stopping
      BY <1>7 DEF BotLeaves
    <3> DEFINE b == running[r][c]
    <3>2. CASE UNCHANGED stopping
      BY <3>2
    <3>3. CASE stopping' = [stopping EXCEPT ![b]["bot"] = [at |-> "sent", owner |-> None]]
      <4>1. [stopping[b] EXCEPT !["bot"] = [at |-> "sent", owner |-> None]] \in
              [Senders -> [at : {"no", "sent", "read", "orphan", "destroyed"}, owner : Replicas \cup {None}]]
        BY <2>1 DEF Senders
      <4> QED
        BY <2>1, <3>3, <4>1
    <3> QED
      BY <3>1, <3>2, <3>3 DEF RequestStop
  <2> QED
    BY <1>7, <2>2 DEF BotLeaves, Vacate
<1>8. ASSUME NEW c \in Channels, BotFails(r, c)
      PROVE  TypeOK'
  BY <1>8, MaxEventsAssumption DEF BotFails, Event, Vacate
<1> QED
  BY <1>1, <1>2, <1>3, <1>4, <1>5, <1>6, <1>7, <1>8

LEMMA NextTypeOK == TypeOK /\ [Next]_vars => TypeOK'
<1> SUFFICES ASSUME TypeOK, [Next]_vars PROVE TypeOK'
  OBVIOUS
<1>1. CASE UNCHANGED vars
  BY <1>1 DEF vars, database, memory, broker, service, history, TypeOK
<1> QED
  BY <1>1, StartTypeOK, StopTypeOK, SchedulerTypeOK, ReplicaTypeOK DEF Next

\* Types, in every behaviour.
THEOREM RoutingTypes == Spec => []TypeOK
BY InitTypeOK, NextTypeOK, PTL DEF Spec

-----------------------------------------------------------------------------
(* The row of a bot that runs names its replica *)

\* A startbot for bot b is on its way to replica r.
StartSent(b, r) ==
    \E i \in DOMAIN inbox[r] : inbox[r][i].kind = "startbot" /\ inbox[r][i].bot = b

Launched(b, r) == Runs(b, r) \/ StartSent(b, r)

\* A bot is started once: while it waits for that, nothing of it is anywhere.
StartedOnce ==
    \A b \in Bots :
        /\ row[b] = "unposted" => starting[b].at = "no"
        /\ row[b] = "unposted" \/ starting[b].at # "no" => \A r \in Replicas : ~Launched(b, r)

\* What startBot is about to publish is in the row.
WrittenIsOwned ==
    \A b \in Bots :
        starting[b].at = "written" /\ row[b] = "present" => owner[b] = starting[b].replica

LaunchedIsOwned ==
    \A b \in Bots, r \in Replicas : row[b] = "present" /\ Launched(b, r) => owner[b] = r

OwnerInv == TypeOK /\ StartedOnce /\ WrittenIsOwned /\ LaunchedIsOwned

LEMMA OwnerInvImplies == OwnerInv => OwnerWrittenFirst
BY DEF OwnerInv, LaunchedIsOwned, OwnerWrittenFirst, Launched, StartSent

\* A step that launches nothing new and keeps rows, owners and starts keeps the invariant.
LEMMA NothingLaunched ==
  ASSUME OwnerInv, TypeOK', UNCHANGED <<row, owner>>,
         \A b \in Bots : starting'[b] = starting[b] \/ starting'[b].at = "no",
         \A b \in Bots, r \in Replicas : Launched(b, r)' => Launched(b, r)
  PROVE  OwnerInv'
BY DEF OwnerInv, StartedOnce, WrittenIsOwned, LaunchedIsOwned

\* So does one that deletes rows.
LEMMA RowsDeleted ==
  ASSUME OwnerInv, TypeOK', UNCHANGED <<starting, inbox, running>>,
         \A b \in Bots : \/ row'[b] = row[b] /\ owner'[b] = owner[b]
                         \/ row'[b] = "deleted"
  PROVE  OwnerInv'
BY DEF OwnerInv, StartedOnce, WrittenIsOwned, LaunchedIsOwned, Launched, Runs, StartSent

\* A stopbot that is sent starts nothing.
LEMMA StopSent ==
  ASSUME TypeOK, NEW to \in Replicas, NEW m \in Messages, m.kind = "stopbot", Send(to, m)
  PROVE  \A b \in Bots, r \in Replicas : StartSent(b, r)' => StartSent(b, r)
<1> SUFFICES ASSUME NEW b \in Bots, NEW r \in Replicas, StartSent(b, r)'
             PROVE  StartSent(b, r)
  OBVIOUS
<1>1. CASE inbox' = inbox
  BY <1>1 DEF StartSent
<1>2. CASE inbox' = [inbox EXCEPT ![to] = Append(inbox[to], m)]
  <2>1. CASE r # to
    BY <1>2, <2>1 DEF StartSent, TypeOK
  <2>2. CASE r = to
    <3>1. inbox[r] \in Seq(Messages) /\ inbox'[r] = Append(inbox[r], m)
      BY <1>2, <2>2 DEF TypeOK
    <3>2. PICK i \in DOMAIN inbox'[r] : inbox'[r][i].kind = "startbot" /\ inbox'[r][i].bot = b
      BY DEF StartSent
    <3>3. i \in 1 .. Len(inbox[r]) /\ inbox'[r][i] = inbox[r][i]
      BY <3>1, <3>2
    <3> QED
      BY <3>1, <3>2, <3>3 DEF StartSent
  <2> QED
    BY <2>1, <2>2
<1> QED
  BY <1>1, <1>2 DEF Send

\* Removing the head of a queue sends nothing.
LEMMA Received ==
  ASSUME TypeOK, NEW to \in Replicas, inbox[to] # <<>>,
         inbox' = [inbox EXCEPT ![to] = Tail(inbox[to])]
  PROVE  \A b \in Bots, r \in Replicas : StartSent(b, r)' => StartSent(b, r)
<1> SUFFICES ASSUME NEW b \in Bots, NEW r \in Replicas, StartSent(b, r)'
             PROVE  StartSent(b, r)
  OBVIOUS
<1>1. CASE r # to
  BY <1>1 DEF StartSent, TypeOK
<1>2. CASE r = to
  <2>1. inbox[r] \in Seq(Messages) /\ inbox[r] # <<>> /\ inbox'[r] = Tail(inbox[r])
    BY <1>2 DEF TypeOK
  <2>2. PICK i \in DOMAIN inbox'[r] : inbox'[r][i].kind = "startbot" /\ inbox'[r][i].bot = b
    BY DEF StartSent
  <2>3. i + 1 \in DOMAIN inbox[r] /\ inbox'[r][i] = inbox[r][i + 1]
    <3>1. /\ Tail(inbox[r]) \in Seq(Messages)
          /\ Len(Tail(inbox[r])) = Len(inbox[r]) - 1
          /\ \A j \in 1 .. Len(Tail(inbox[r])) : Tail(inbox[r])[j] = inbox[r][j + 1]
      BY <2>1, TailOf
    <3>2. i \in DOMAIN Tail(inbox[r])
      BY <2>1, <2>2, Zenon
    <3>3. DOMAIN Tail(inbox[r]) = 1 .. Len(Tail(inbox[r])) /\ Len(Tail(inbox[r])) \in Nat
      BY <3>1, LenProperties
    <3>4. DOMAIN inbox[r] = 1 .. Len(inbox[r]) /\ Len(inbox[r]) \in Nat
      BY <2>1, LenProperties
    <3>5. i \in 1 .. Len(Tail(inbox[r]))
      BY <3>2, <3>3, Zenon
    <3>6. i + 1 \in 1 .. Len(inbox[r])
      BY <3>1, <3>3, <3>4, <3>5
    <3>7. Tail(inbox[r])[i] = inbox[r][i + 1]
      BY <3>1, <3>5, Zenon
    <3>8. inbox'[r][i] = Tail(inbox[r])[i]
      BY <2>1, Zenon
    <3>9. i + 1 \in DOMAIN inbox[r]
      BY <3>4, <3>6, Zenon
    <3> QED
      BY <3>7, <3>8, <3>9, Zenon
  <2> QED
    BY <2>2, <2>3 DEF StartSent
<1> QED
  BY <1>1, <1>2

\* Posting and starting a bot.
LEMMA StartOwner ==
  ASSUME OwnerInv, TypeOK', NEW b \in Bots, PostBot(b) \/ DeleteBot(b) \/ Start(b)
  PROVE  OwnerInv'
<1> USE DEF database, broker, service, history, NotStarting
<1>0. TypeOK
  BY DEF OwnerInv
<1>1. CASE PostBot(b)
  <2>1. UNCHANGED <<owner, inbox, running>> /\ row' = [row EXCEPT ![b] = "present"]
    BY <1>1 DEF PostBot
  <2>2. row[b] = "unposted" /\ starting'[b].at \in {"no", "sent"}
    BY <1>0, <1>1 DEF PostBot, OwnerInv, StartedOnce, TypeOK
  <2>3. \A d \in Bots \ {b} : starting'[d] = starting[d]
    BY <1>0, <1>1 DEF PostBot, TypeOK
  <2>4. \A d \in Bots, r \in Replicas : Launched(d, r)' <=> Launched(d, r)
    BY <2>1 DEF Launched, Runs, StartSent
  <2>5. \A r \in Replicas : ~Launched(b, r)
    BY <2>2 DEF OwnerInv, StartedOnce
  <2>6. \A d \in Bots : row'[d] = IF d = b THEN "present" ELSE row[d]
    BY <1>0, <2>1 DEF TypeOK
  <2>7. StartedOnce'
    BY <2>3, <2>4, <2>5, <2>6 DEF OwnerInv, StartedOnce
  <2>8. WrittenIsOwned'
    BY <2>1, <2>2, <2>3, <2>6 DEF OwnerInv, WrittenIsOwned
  <2>9. LaunchedIsOwned'
    BY <2>1, <2>4, <2>5, <2>6 DEF OwnerInv, LaunchedIsOwned
  <2> QED
    BY <2>7, <2>8, <2>9 DEF OwnerInv
<1>2. CASE DeleteBot(b)
  <2>1. UNCHANGED <<row, owner, starting, inbox, running>>
    BY <1>2 DEF DeleteBot
  <2> QED
    BY <2>1, NothingLaunched DEF Launched, Runs, StartSent
<1>3. CASE StartNone(b) \/ StartFails(b)
  <2>1. UNCHANGED <<row, owner, inbox, running>>
    BY <1>3 DEF StartNone, StartFails
  <2>2. \A d \in Bots : starting'[d] = starting[d] \/ starting'[d].at = "no"
    BY <1>0, <1>3 DEF StartNone, StartFails, TypeOK
  <2> QED
    BY <2>1, <2>2, NothingLaunched DEF Launched, Runs, StartSent
<1>4. ASSUME StartRead(b) \/ \E r \in Replicas : StartSelect(b, r)
      PROVE  OwnerInv'
  <2>1. UNCHANGED <<row, owner, inbox, running>> /\ starting[b].at # "no"
    BY <1>4 DEF StartRead, StartSelect
  <2>2. \A d \in Bots \ {b} : starting'[d] = starting[d]
    BY <1>0, <1>4 DEF StartRead, StartSelect, TypeOK
  <2>3. starting'[b].at # "written"
    BY <1>0, <1>4 DEF StartRead, StartSelect, TypeOK
  <2>4. \A d \in Bots, r \in Replicas : Launched(d, r)' <=> Launched(d, r)
    BY <2>1 DEF Launched, Runs, StartSent
  <2>5. row[b] # "unposted" /\ \A r \in Replicas : ~Launched(b, r)
    BY <2>1 DEF OwnerInv, StartedOnce
  <2> QED
    BY <2>1, <2>2, <2>3, <2>4, <2>5 DEF OwnerInv, StartedOnce, WrittenIsOwned, LaunchedIsOwned
<1>5. CASE StartWrite(b)
  <2>1. UNCHANGED <<row, inbox, running>> /\ starting[b].at = "selected"
    BY <1>5 DEF StartWrite
  <2>2. \A d \in Bots \ {b} : starting'[d] = starting[d] /\ owner'[d] = owner[d]
    BY <1>0, <1>5 DEF StartWrite, TypeOK
  <2>3. starting'[b].replica = starting[b].replica /\ starting'[b].at = "written"
    BY <1>0, <1>5 DEF StartWrite, TypeOK
  <2>4. row[b] = "present" => owner'[b] = starting[b].replica
    BY <1>0, <1>5 DEF StartWrite, TypeOK
  <2>5. \A d \in Bots, r \in Replicas : Launched(d, r)' <=> Launched(d, r)
    BY <2>1 DEF Launched, Runs, StartSent
  <2>6. row[b] # "unposted" /\ \A r \in Replicas : ~Launched(b, r)
    BY <2>1 DEF OwnerInv, StartedOnce
  <2> QED
    BY <2>1, <2>2, <2>3, <2>4, <2>5, <2>6
       DEF OwnerInv, StartedOnce, WrittenIsOwned, LaunchedIsOwned
<1>6. CASE StartPublish(b)
  <2> DEFINE to == starting[b].replica
             m  == [kind |-> "startbot", channel |-> ChannelOf[b], bot |-> b]
  <2>1. UNCHANGED <<row, owner, running>> /\ starting[b].at = "written" /\ Send(to, m)
    BY <1>6 DEF StartPublish
  <2>2. /\ starting'[b].at = "no"
        /\ \A d \in Bots \ {b} : starting'[d] = starting[d]
    BY <1>0, <1>6 DEF StartPublish, TypeOK
  <2>3. \A d \in Bots, r \in Replicas : StartSent(d, r)' => StartSent(d, r) \/ (d = b /\ r = to)
    <3> SUFFICES ASSUME NEW d \in Bots, NEW r \in Replicas, StartSent(d, r)'
                 PROVE  StartSent(d, r) \/ (d = b /\ r = to)
      OBVIOUS
    <3>1. CASE inbox'[r] = inbox[r]
      BY <3>1 DEF StartSent
    <3>2. CASE inbox'[r] # inbox[r]
      <4>1. r = to /\ inbox'[r] = Append(inbox[r], m) /\ inbox[r] \in Seq(Messages)
        BY <1>0, <2>1, <3>2 DEF Send, TypeOK
      <4>2. PICK i \in DOMAIN inbox'[r] :
              inbox'[r][i].kind = "startbot" /\ inbox'[r][i].bot = d
        BY DEF StartSent
      <4>3. CASE i \in DOMAIN inbox[r]
        BY <4>1, <4>2, <4>3 DEF StartSent
      <4>4. CASE i = Len(inbox[r]) + 1
        BY <4>1, <4>2, <4>4
      <4> QED
        BY <4>1, <4>2, <4>3, <4>4
    <3> QED
      BY <3>1, <3>2
  <2>4. \A d \in Bots, r \in Replicas : Launched(d, r)' => Launched(d, r) \/ (d = b /\ r = to)
    BY <2>1, <2>3 DEF Launched, Runs
  <2>5. row[b] # "unposted" /\ (row[b] = "present" => owner[b] = to)
    BY <2>1 DEF OwnerInv, StartedOnce, WrittenIsOwned
  <2> QED
    BY <2>1, <2>2, <2>4, <2>5 DEF OwnerInv, StartedOnce, WrittenIsOwned, LaunchedIsOwned
<1> QED
  BY <1>1, <1>2, <1>3, <1>4, <1>5, <1>6 DEF Start

\* Stopping bots, statuses, restarts.
LEMMA SchedulerOwner ==
  ASSUME OwnerInv, TypeOK',
         \/ \E b \in Bots, sender \in Senders :
                \/ StopRead(b, sender) \/ StopDestroy(b, sender) \/ StopOrphan(b, sender)
                \/ StopFails(b, sender) \/ StopRoute(b, sender)
         \/ \E r \in Replicas : Register(r) \/ Unregister(r) \/ Reap(r)
         \/ \E c \in Channels : DeleteChannel(c)
         \/ SchedulerCrash \/ SchedulerAway \/ SchedulerReady
  PROVE  OwnerInv'
<1> USE DEF database, memory, broker, service, history
<1>0. TypeOK
  BY DEF OwnerInv
<1>1. CASE \/ \E b \in Bots, sender \in Senders : StopRead(b, sender) \/ StopFails(b, sender)
           \/ \E r \in Replicas : Register(r) \/ Unregister(r)
           \/ SchedulerReady
  <2>1. UNCHANGED <<row, owner, starting, inbox, running>>
    BY <1>1 DEF StopRead, StopFails, Register, Unregister, SchedulerReady
  <2> QED
    BY <2>1, NothingLaunched DEF Launched, Runs, StartSent
<1>2. ASSUME NEW b \in Bots, NEW sender \in Senders, StopRoute(b, sender)
      PROVE  OwnerInv'
  <2> DEFINE to == RouteTo(b, sender)
             m  == [kind |-> "stopbot", channel |-> ChannelOf[b], bot |-> None]
  <2>1. /\ UNCHANGED <<row, owner, starting, running>>
        /\ inbox' = inbox \/ (to # None /\ Send(to, m))
    BY <1>2 DEF StopRoute
  <2>2. to \in Replicas \cup {None}
    BY <1>0, ChannelOfAssumption DEF RouteTo, TypeOK, StopRoute
  <2>3. m \in Messages
    BY ChannelOfAssumption DEF Messages
  <2>4. \A d \in Bots, r \in Replicas : StartSent(d, r)' => StartSent(d, r)
    <3>1. CASE inbox' = inbox
      BY <3>1 DEF StartSent
    <3>2. CASE to \in Replicas /\ Send(to, m)
      BY <1>0, <2>3, <3>2, StopSent
    <3> QED
      BY <2>1, <2>2, <3>1, <3>2
  <2>5. \A d \in Bots, r \in Replicas : Launched(d, r)' => Launched(d, r)
    BY <2>1, <2>4 DEF Launched, Runs
  <2> QED
    BY <2>1, <2>5, NothingLaunched
<1>3. ASSUME NEW b \in Bots, NEW sender \in Senders,
             StopDestroy(b, sender) \/ StopOrphan(b, sender)
      PROVE  OwnerInv'
  <2>1. UNCHANGED <<starting, inbox, running>>
    BY <1>3 DEF StopDestroy, StopOrphan
  <2>2. \A d \in Bots : \/ row'[d] = row[d] /\ owner'[d] = owner[d]
                        \/ row'[d] = "deleted"
    BY <1>0, <1>3 DEF StopDestroy, StopOrphan, TypeOK
  <2> QED
    BY <2>1, <2>2, RowsDeleted
<1>4. ASSUME NEW r \in Replicas, Reap(r)
      PROVE  OwnerInv'
  <2>1. UNCHANGED <<starting, inbox, running>>
    BY <1>4 DEF Reap
  <2>2. \A d \in Bots : \/ row'[d] = row[d] /\ owner'[d] = owner[d]
                        \/ row'[d] = "deleted"
    BY <1>0, <1>4 DEF Reap, TypeOK
  <2> QED
    BY <2>1, <2>2, RowsDeleted
<1>5. CASE SchedulerCrash
  <2>1. UNCHANGED <<row, owner, inbox, running>>
    BY <1>5 DEF SchedulerCrash
  <2>2. \A b \in Bots : starting'[b].at = "no"
    BY <1>5 DEF SchedulerCrash, NotStarting
  <2> QED
    BY <2>1, <2>2, NothingLaunched DEF Launched, Runs, StartSent
<1>6. CASE SchedulerAway
  <2>1. UNCHANGED <<row, owner, inbox, running>>
    BY <1>6 DEF SchedulerAway
  <2>2. \A b \in Bots : starting'[b] = starting[b] \/ starting'[b].at = "no"
    BY <1>6 DEF SchedulerAway, NotStarting
  <2> QED
    BY <2>1, <2>2, NothingLaunched DEF Launched, Runs, StartSent
<1>7. ASSUME NEW c \in Channels, DeleteChannel(c)
      PROVE  OwnerInv'
  <2>1. UNCHANGED <<starting, inbox, running>>
    BY <1>7 DEF DeleteChannel
  <2>2. \A d \in Bots : \/ row'[d] = row[d] /\ owner'[d] = owner[d]
                        \/ row'[d] = "deleted"
    BY <1>7 DEF DeleteChannel
  <2> QED
    BY <2>1, <2>2, RowsDeleted
<1> QED
  BY <1>1, <1>2, <1>3, <1>4, <1>5, <1>6, <1>7

\* The replicas launch what was sent to them, nothing else.
LEMMA ReplicaOwner ==
  ASSUME OwnerInv, TypeOK', NEW r \in Replicas,
         \/ Deliver(r) \/ Refuse(r) \/ ReplicaDies(r) \/ ReplicaAway(r) \/ ReplicaBack(r)
         \/ \E c \in Channels : Stream(r, c) \/ BotLeaves(r, c) \/ BotFails(r, c)
  PROVE  OwnerInv'
<1> USE DEF memory, database, broker, service, history
<1>0. TypeOK
  BY DEF OwnerInv
<1>1. UNCHANGED <<row, owner, starting>>
  BY DEF Deliver, Refuse, ReplicaDies, ReplicaAway, ReplicaBack, Stream, BotLeaves, BotFails
<1>2. SUFFICES \A b \in Bots, q \in Replicas : Launched(b, q)' => Launched(b, q)
  BY <1>1, NothingLaunched
<1>3. CASE Deliver(r)
  <2>1. inbox[r] # <<>> /\ inbox' = [inbox EXCEPT ![r] = Tail(inbox[r])]
    BY <1>3 DEF Deliver
  <2> DEFINE m == Head(inbox[r])
  <2>2. m = inbox[r][1] /\ 1 \in DOMAIN inbox[r]
    BY <1>0, <2>1 DEF TypeOK
  <2>3. \A b \in Bots, q \in Replicas :
          Runs(b, q)' => Runs(b, q) \/ (q = r /\ m.kind = "startbot" /\ m.bot = b)
    <3>1. running \in [Replicas -> [Channels -> Bots \cup {None}]]
      BY <1>0 DEF TypeOK
    <3>2. CASE m.kind = "startbot" /\ running' = [running EXCEPT ![r][m.channel] = m.bot]
      <4>1. \A q \in Replicas, c \in Channels :
              running'[q][c] = running[q][c] \/ (q = r /\ running'[q][c] = m.bot)
        BY <3>1, <3>2
      <4> QED
        BY <3>2, <4>1, ChannelOfAssumption DEF Runs
    <3>3. CASE running' = [running EXCEPT ![r][m.channel] = None]
      <4>1. \A q \in Replicas, c \in Channels :
              running'[q][c] = running[q][c] \/ running'[q][c] = None
        BY <3>1, <3>3
      <4> QED
        BY <4>1, ChannelOfAssumption, NoneAssumption DEF Runs
    <3> QED
      BY <1>3, <3>2, <3>3 DEF Deliver, Vacate
  <2> QED
    BY <1>0, <2>1, <2>2, <2>3, Received DEF Launched, StartSent
<1>4. CASE Refuse(r)
  <2>1. inbox[r] # <<>> /\ inbox' = [inbox EXCEPT ![r] = Tail(inbox[r])] /\ UNCHANGED running
    BY <1>4 DEF Refuse
  <2> QED
    BY <1>0, <2>1, Received DEF Launched, Runs
<1>5. CASE \/ ReplicaDies(r) \/ ReplicaAway(r) \/ ReplicaBack(r)
           \/ \E c \in Channels : Stream(r, c) \/ BotLeaves(r, c) \/ BotFails(r, c)
  <2>1. inbox' = inbox \/ inbox' = [inbox EXCEPT ![r] = <<>>]
    BY <1>5 DEF ReplicaDies, ReplicaAway, ReplicaBack, Stream, BotLeaves, BotFails
  <2>2. \A q \in Replicas, c \in Channels : running'[q][c] \in {running[q][c], None}
    <3>1. running \in [Replicas -> [Channels -> Bots \cup {None}]]
      BY <1>0 DEF TypeOK
    <3>2. CASE ReplicaDies(r)
      BY <3>1, <3>2 DEF ReplicaDies
    <3>3. CASE ReplicaAway(r) \/ ReplicaBack(r) \/ \E c \in Channels : Stream(r, c)
      BY <3>3 DEF ReplicaAway, ReplicaBack, Stream
    <3>4. ASSUME NEW c \in Channels, BotLeaves(r, c) \/ BotFails(r, c)
          PROVE  \A q \in Replicas, d \in Channels : running'[q][d] \in {running[q][d], None}
      <4>1. running' = [running EXCEPT ![r][c] = None]
        BY <3>4 DEF BotLeaves, BotFails, Vacate
      <4> QED
        BY <3>1, <4>1
    <3> QED
      BY <1>5, <3>2, <3>3, <3>4
  <2>3. \A b \in Bots, q \in Replicas : Runs(b, q)' => Runs(b, q)
    BY <2>2, NoneAssumption, ChannelOfAssumption DEF Runs
  <2>4. \A b \in Bots, q \in Replicas : StartSent(b, q)' => StartSent(b, q)
    <3>1. \A q \in Replicas : inbox'[q] = inbox[q] \/ inbox'[q] = <<>>
      BY <1>0, <2>1 DEF TypeOK
    <3>2. DOMAIN <<>> = {}
      OBVIOUS
    <3> QED
      BY <3>1, <3>2 DEF StartSent
  <2> QED
    BY <2>3, <2>4 DEF Launched
<1> QED
  BY <1>3, <1>4, <1>5

LEMMA OwnerStep == OwnerInv /\ [Next]_vars => OwnerInv'
<1> SUFFICES ASSUME OwnerInv, [Next]_vars PROVE OwnerInv'
  OBVIOUS
<1>1. TypeOK'
  BY NextTypeOK DEF OwnerInv
<1>2. CASE UNCHANGED vars
  BY <1>1, <1>2, NothingLaunched
     DEF vars, database, memory, broker, service, history, Launched, Runs, StartSent
<1> QED
  BY <1>1, <1>2, StartOwner, SchedulerOwner, ReplicaOwner DEF Next

LEMMA OwnerInit == Init => OwnerInv
<1> SUFFICES ASSUME Init PROVE OwnerInv
  OBVIOUS
<1>1. \A b \in Bots, r \in Replicas : ~Launched(b, r)
  BY NoneAssumption, ChannelOfAssumption DEF Init, Launched, Runs, StartSent
<1> QED
  BY <1>1, InitTypeOK
     DEF OwnerInv, Init, StartedOnce, WrittenIsOwned, LaunchedIsOwned, NotStarting

\* A stop finds the replica of a bot in the bot's row, whatever was restarted in between.
THEOREM OwnerIsInTheRow == Spec => []OwnerWrittenFirst
BY OwnerInit, OwnerStep, OwnerInvImplies, PTL DEF Spec

-----------------------------------------------------------------------------
(* The rows of a dead replica go *)

\* A Scheduler that is not connected hears nothing.
HearsNothing == scheduler # "up" => \A r \in Replicas : statuses[r] = <<>>

\* Of a dead replica the will is retained, and it is the last status the Scheduler gets.
WillIsLast ==
    \A r \in Replicas : link[r] = "dead" =>
        /\ retained[r] = "offline"
        /\ statuses[r] # <<>> => statuses[r][Len(statuses[r])] = "offline"

\* As long as the Scheduler takes a dead replica for alive, the will is on its way, or to come
\* when it is connected.
WillArrives ==
    \A r \in Replicas : link[r] = "dead" /\ r \in registry => statuses[r] # <<>> \/ scheduler # "up"

WillReaps ==
    \A b \in Bots, r \in Replicas :
        link[r] = "dead" /\ owner[b] = r /\ b \notin contested
        => r \in reaping \/ statuses[r] # <<>> \/ scheduler # "up"

DeadInv == TypeOK /\ HearsNothing /\ WillIsLast /\ WillArrives /\ WillReaps

LEMMA DeadInvImplies == DeadInv => DeadReplicaReaped
<1> SUFFICES ASSUME DeadInv, NEW b \in Bots, NEW r \in Replicas,
                    link[r] = "dead", owner[b] = r, b \notin contested
             PROVE  \/ r \in reaping
                    \/ \E i \in DOMAIN statuses[r] : statuses[r][i] = "offline"
                    \/ scheduler # "up" /\ retained[r] = "offline"
  BY DEF DeadReplicaReaped
<1>1. CASE statuses[r] # <<>>
  <2>1. statuses[r] \in Seq({"online", "offline"})
    BY DEF DeadInv, TypeOK
  <2>2. Len(statuses[r]) \in DOMAIN statuses[r]
    BY <1>1, <2>1
  <2> QED
    BY <1>1, <2>2 DEF DeadInv, WillIsLast
<1>2. CASE statuses[r] = <<>>
  BY <1>2 DEF DeadInv, WillReaps, WillIsLast
<1> QED
  BY <1>1, <1>2

\* The statuses that remain end as before, those with one more end with it.
LEMMA LastOfTail ==
  ASSUME NEW S, NEW s \in Seq(S), s # <<>>, Tail(s) # <<>>
  PROVE  Tail(s)[Len(Tail(s))] = s[Len(s)]
<1>1. Len(Tail(s)) = Len(s) - 1 /\ Tail(s) \in Seq(S) /\ Len(s) \in Nat
  BY TailOf, LenProperties
<1>2. Len(Tail(s)) # 0
  BY <1>1, EmptySeq
<1>3. Len(Tail(s)) \in 1 .. Len(Tail(s))
  BY <1>1, <1>2
<1> QED
  BY <1>1, <1>3, TailOf

\* Steps that leave statuses and replicas alone, and make no one the owner whom the Scheduler
\* has not registered.
LEMMA NoStatus ==
  ASSUME DeadInv, TypeOK',
         UNCHANGED <<scheduler, registry, reaping, statuses, retained, link>>,
         contested \subseteq contested',
         \A b \in Bots : owner'[b] \in {owner[b], None} \cup registry \/ b \in contested'
  PROVE  DeadInv'
BY NoneAssumption DEF DeadInv, HearsNothing, WillIsLast, WillArrives, WillReaps

LEMMA BotsDead ==
  ASSUME DeadInv, TypeOK', NEW b \in Bots,
         \/ PostBot(b) \/ DeleteBot(b) \/ Start(b)
         \/ \E sender \in Senders :
                \/ StopRead(b, sender) \/ StopDestroy(b, sender) \/ StopOrphan(b, sender)
                \/ StopFails(b, sender) \/ StopRoute(b, sender)
  PROVE  DeadInv'
<1> USE DEF database, broker, service, history
<1>0. TypeOK
  BY DEF DeadInv
<1>1. UNCHANGED <<scheduler, registry, reaping, statuses, retained, link>>
  BY DEF PostBot, DeleteBot, Start, StartRead, StartNone, StartWrite, StartFails, StartPublish,
         StartSelect, StopRead, StopDestroy, StopOrphan, StopFails, StopRoute
<1>2. contested \subseteq contested'
  BY DEF PostBot, DeleteBot, Start, StartRead, StartNone, StartWrite, StartFails, StartPublish,
         StartSelect, StopRead, StopDestroy, StopOrphan, StopFails, StopRoute
<1>3. \A d \in Bots : owner'[d] \in {owner[d], None} \cup registry \/ d \in contested'
  <2>1. CASE StartWrite(b)
    BY <1>0, <2>1 DEF StartWrite, TypeOK
  <2>2. ASSUME NEW sender \in Senders, StopDestroy(b, sender) \/ StopOrphan(b, sender)
        PROVE  \A d \in Bots : owner'[d] \in {owner[d], None}
    BY <1>0, <2>2 DEF StopDestroy, StopOrphan, TypeOK
  <2>3. CASE UNCHANGED owner
    BY <2>3
  <2> QED
    BY <2>1, <2>2, <2>3
       DEF PostBot, DeleteBot, Start, StartRead, StartNone, StartFails, StartPublish,
           StartSelect, StopRead, StopFails, StopRoute
<1> QED
  BY <1>1, <1>2, <1>3, NoStatus

LEMMA SchedulerDead ==
  ASSUME DeadInv, TypeOK',
         \/ \E r \in Replicas : Register(r) \/ Unregister(r) \/ Reap(r)
         \/ \E c \in Channels : DeleteChannel(c)
         \/ SchedulerCrash \/ SchedulerAway \/ SchedulerReady
  PROVE  DeadInv'
<1> USE DEF database, memory, broker, service, history
<1>0. TypeOK
  BY DEF DeadInv
<1>1. ASSUME NEW r \in Replicas, Register(r) \/ Unregister(r)
      PROVE  DeadInv'
  <2>1. /\ UNCHANGED <<scheduler, retained, link, owner, contested>>
        /\ statuses[r] # <<>> /\ statuses' = [statuses EXCEPT ![r] = Tail(statuses[r])]
    BY <1>1 DEF Register, Unregister
  <2>2. /\ statuses[r] \in Seq({"online", "offline"})
        /\ statuses'[r] = Tail(statuses[r])
        /\ \A q \in Replicas \ {r} : statuses'[q] = statuses[q]
    BY <1>0, <2>1 DEF TypeOK
  <2>3. HearsNothing'
    BY <2>1 DEF DeadInv, HearsNothing
  <2>4. WillIsLast'
    BY <2>1, <2>2, LastOfTail DEF DeadInv, WillIsLast
  <2>5. ASSUME Head(statuses[r]) = "online", link[r] = "dead"
        PROVE  statuses'[r] # <<>>
    <3>1. statuses[r][Len(statuses[r])] = "offline" /\ statuses[r][1] = "online"
      BY <2>1, <2>2, <2>5 DEF DeadInv, WillIsLast
    <3>2. Len(statuses[r]) \in Nat /\ Len(statuses[r]) # 0 /\ Len(statuses[r]) # 1
      BY <2>1, <2>2, <3>1, EmptySeq
    <3>3. Len(statuses'[r]) # 0
      BY <2>1, <2>2, <3>2, TailOf
    <3> QED
      BY <3>3
  <2>6. CASE Register(r)
    <3>1. /\ Head(statuses[r]) = "online"
          /\ registry' = registry \cup {r} /\ reaping' = reaping
      BY <2>6 DEF Register
    <3>2. WillArrives' /\ WillReaps'
      BY <2>1, <2>2, <2>5, <3>1 DEF DeadInv, WillArrives, WillReaps
    <3> QED
      BY <2>3, <2>4, <3>2 DEF DeadInv
  <2>7. CASE Unregister(r)
    <3>1. registry' = registry \ {r} /\ reaping' = reaping \cup {r}
      BY <2>7 DEF Unregister
    <3>2. WillArrives' /\ WillReaps'
      BY <2>1, <2>2, <3>1 DEF DeadInv, WillArrives, WillReaps
    <3> QED
      BY <2>3, <2>4, <3>2 DEF DeadInv
  <2> QED
    BY <1>1, <2>6, <2>7
<1>2. ASSUME NEW r \in Replicas, Reap(r)
      PROVE  DeadInv'
  <2>1. UNCHANGED <<scheduler, registry, statuses, retained, link, contested>>
    BY <1>2 DEF Reap
  <2>2. reaping' = reaping \ {r} /\ owner' = [b \in Bots |-> IF owner[b] = r THEN None ELSE owner[b]]
    BY <1>2 DEF Reap
  <2>3. WillReaps'
    BY <2>1, <2>2, NoneAssumption DEF DeadInv, WillReaps
  <2> QED
    BY <2>1, <2>3 DEF DeadInv, HearsNothing, WillIsLast, WillArrives
<1>3. CASE SchedulerCrash \/ SchedulerAway
  <2>1. /\ scheduler' # "up" /\ statuses' = [r \in Replicas |-> <<>>]
        /\ UNCHANGED <<retained, link>>
    BY <1>3 DEF SchedulerCrash, SchedulerAway
  <2> QED
    BY <2>1 DEF DeadInv, HearsNothing, WillIsLast, WillArrives, WillReaps
<1>4. CASE SchedulerReady
  <2>1. /\ scheduler' = "up" /\ UNCHANGED <<registry, retained, link>>
        /\ statuses' = [r \in Replicas |-> <<retained[r]>>]
    BY <1>4 DEF SchedulerReady
  <2>2. \A r \in Replicas : statuses'[r] # <<>> /\ statuses'[r][Len(statuses'[r])] = retained[r]
    BY <2>1
  <2> QED
    BY <2>1, <2>2 DEF DeadInv, HearsNothing, WillIsLast, WillArrives, WillReaps
<1>5. ASSUME NEW c \in Channels, DeleteChannel(c)
      PROVE  DeadInv'
  <2>1. UNCHANGED <<scheduler, registry, reaping, statuses, retained, link, contested>>
    BY <1>5 DEF DeleteChannel
  <2>2. \A b \in Bots : owner'[b] \in {owner[b], None}
    BY <1>5 DEF DeleteChannel
  <2> QED
    BY <2>1, <2>2, NoStatus
<1> QED
  BY <1>1, <1>2, <1>3, <1>4, <1>5

LEMMA ReplicaDead ==
  ASSUME DeadInv, TypeOK', NEW r \in Replicas,
         \/ Deliver(r) \/ Refuse(r) \/ ReplicaDies(r) \/ ReplicaAway(r) \/ ReplicaBack(r)
         \/ \E c \in Channels : Stream(r, c) \/ BotLeaves(r, c) \/ BotFails(r, c)
  PROVE  DeadInv'
<1> USE DEF database, memory, broker, service, history
<1>0. TypeOK
  BY DEF DeadInv
<1>1. UNCHANGED <<scheduler, registry, owner, reaping, contested>>
  BY DEF Deliver, Refuse, ReplicaDies, ReplicaAway, ReplicaBack, Stream, BotLeaves, BotFails
<1>2. CASE \/ Deliver(r) \/ Refuse(r)
           \/ \E c \in Channels : Stream(r, c) \/ BotLeaves(r, c) \/ BotFails(r, c)
  <2>1. UNCHANGED <<statuses, retained, link>>
    BY <1>2 DEF Deliver, Refuse, Stream, BotLeaves, BotFails
  <2> QED
    BY <1>1, <2>1, NoStatus
<1>3. ASSUME NEW s \in {"online", "offline"}, NEW l \in {"up", "away", "dead"},
             PublishStatus(r, s), link' = [link EXCEPT ![r] = l], l = "dead" => s = "offline"
      PROVE  DeadInv'
  <2>1. /\ \A q \in Replicas \ {r} : /\ statuses'[q] = statuses[q]
                                     /\ retained'[q] = retained[q]
                                     /\ link'[q] = link[q]
        /\ retained'[r] = s /\ link'[r] = l
    BY <1>0, <1>3 DEF PublishStatus, TypeOK
  <2>2. CASE scheduler # "up"
    <3>1. statuses' = statuses /\ statuses[r] = <<>>
      BY <1>3, <2>2 DEF PublishStatus, DeadInv, HearsNothing
    <3>2. WillIsLast'
      BY <1>3, <2>1, <3>1 DEF DeadInv, WillIsLast
    <3> QED
      BY <1>1, <2>2, <3>1, <3>2 DEF DeadInv, HearsNothing, WillArrives, WillReaps
  <2>3. CASE scheduler = "up"
    <3>1. statuses[r] \in Seq({"online", "offline"}) /\ statuses'[r] = Append(statuses[r], s)
      BY <1>0, <1>3, <2>3 DEF PublishStatus, TypeOK
    <3>2. statuses'[r] # <<>> /\ statuses'[r][Len(statuses'[r])] = s
      BY <3>1, AppendProperties
    <3>3. WillIsLast'
      BY <1>3, <2>1, <3>2 DEF DeadInv, WillIsLast
    <3>4. WillArrives' /\ WillReaps'
      BY <1>1, <2>1, <3>2 DEF DeadInv, WillArrives, WillReaps
    <3> QED
      BY <1>1, <2>3, <3>3, <3>4 DEF DeadInv, HearsNothing
  <2> QED
    BY <1>0, <2>2, <2>3 DEF TypeOK
<1>4. CASE ReplicaDies(r) \/ ReplicaAway(r) \/ ReplicaBack(r)
  BY <1>3, <1>4 DEF ReplicaDies, ReplicaAway, ReplicaBack
<1> QED
  BY <1>2, <1>4

LEMMA DeadStep == DeadInv /\ [Next]_vars => DeadInv'
<1> SUFFICES ASSUME DeadInv, [Next]_vars PROVE DeadInv'
  OBVIOUS
<1>1. TypeOK'
  BY NextTypeOK DEF DeadInv
<1>2. CASE UNCHANGED vars
  BY <1>1, <1>2, NoStatus DEF vars, database, memory, broker, service, history
<1> QED
  BY <1>1, <1>2, BotsDead, SchedulerDead, ReplicaDead DEF Next

LEMMA DeadInit == Init => DeadInv
BY InitTypeOK DEF Init, DeadInv, HearsNothing, WillIsLast, WillArrives, WillReaps

\* The Scheduler is about to delete the rows of every replica that has died, also when it was
\* down or away from the broker at that time.
THEOREM DeadReplicasAreReaped == Spec => []DeadReplicaReaped
BY DeadInit, DeadStep, DeadInvImplies, PTL DEF Spec

-----------------------------------------------------------------------------
(* A bot whose row is gone has been told to stop *)

\* The broker has never given up the replica, and it lives.
Good(r) == link[r] = "up" /\ r \notin dropped

\* A replica that is dead or away is not good, and a dead one runs nothing.
BadReplicas ==
    \A r \in Replicas :
        /\ link[r] = "away" => r \in dropped
        /\ link[r] = "dead" => \A c \in Channels : running[r][c] = None

\* Of a good replica the Scheduler hears that it is online, only.
GoodIsOnline ==
    \A r \in Replicas : Good(r) =>
        /\ retained[r] = "online"
        /\ r \notin reaping
        /\ \A i \in DOMAIN statuses[r] : statuses[r][i] = "online"

\* Which replicas are good, and what is known of them.
GoodInv == TypeOK /\ BadReplicas /\ GoodIsOnline

\* Element i of the inbox of replica r starts bot b.
Starts(b, r, i) ==
    i \in DOMAIN inbox[r] /\ inbox[r][i].kind = "startbot" /\ inbox[r][i].bot = b

\* A replica starts and runs a bot for the bot's channel.
WellPlaced ==
    \A b \in Bots, r \in Replicas :
        /\ \A c \in Channels : running[r][c] = b => ChannelOf[b] = c
        /\ \A i \in DOMAIN inbox[r] : Starts(b, r, i) => inbox[r][i].channel = ChannelOf[b]

\* A bot is in one place: it runs on one replica, or one message is to start it.
InOnePlace ==
    \A b \in Bots, r \in Replicas :
        /\ Runs(b, r) => \A q \in Replicas : ~StartSent(b, q) /\ (Runs(b, q) => q = r)
        /\ \A q \in Replicas, i, j \in Nat : Starts(b, r, i) /\ Starts(b, q, j) => q = r /\ i = j

\* The bots RemovedIsStopped says nothing of.
Excepted == contested \cup unstopped

\* A bot has no owner before startBot writes it, and keeps its row until then.
NotYetOwned ==
    \A b \in Bots :
        /\ row[b] = "unposted" \/ starting[b].at \in {"sent", "read", "selected"} => owner[b] = None
        /\ starting[b].at \in {"sent", "read", "selected"} /\ b \notin Excepted => row[b] = "present"

\* What stopBot has read belongs to a bot that is posted and started.
Reading(b) == \E sender \in Senders : stopping[b][sender].at \in {"read", "orphan", "destroyed"}

StopAfterStart ==
    \A b \in Bots : Reading(b) =>
        /\ row[b] # "unposted"
        /\ b \notin contested => starting[b].at = "no"

\* Behind element i of its inbox replica r is told to stop what runs for channel c.
ToldAfter(c, r, i) ==
    \E j \in DOMAIN inbox[r] : j > i /\ inbox[r][j].kind = "stopbot" /\ inbox[r][j].channel = c

\* Bot b runs on replica r, or will, and no stop of it is on its way there.
Loose(b, r) ==
    \/ starting[b].at \in {"selected", "written"} /\ starting[b].replica = r
    \/ Runs(b, r) /\ ~ToldAfter(ChannelOf[b], r, 0)
    \/ \E i \in DOMAIN inbox[r] : Starts(b, r, i) /\ ~ToldAfter(ChannelOf[b], r, i)

\* A stop of bot b would be, or is about to be, routed to replica r.
Routable(b, r) ==
    /\ row[b] = "present" \/ Destroyed(b)
    /\ ownership[ChannelOf[b]] \in {None, r}
    /\ \A sender \in Senders :
           stopping[b][sender].at \in {"read", "destroyed"} => stopping[b][sender].owner = r

LooseIsRoutable ==
    \A b \in Bots, r \in Replicas : b \notin Excepted /\ Good(r) /\ Loose(b, r) => Routable(b, r)

\* While a bot waits for its replica or may still run, no other is started for its channel.
Open(b) == starting[b].at \in {"sent", "read"} \/ \E r \in Replicas : Good(r) /\ Loose(b, r)

OneOpen ==
    \A b, d \in Bots :
        b \notin Excepted /\ Open(b) /\ d # b /\ ChannelOf[d] = ChannelOf[b]
        => starting[d].at = "no"

StopInv ==
    /\ OwnerInv /\ GoodInv /\ WellPlaced /\ InOnePlace
    /\ NotYetOwned /\ StopAfterStart /\ LooseIsRoutable /\ OneOpen

LEMMA StopInvImplies == StopInv => RemovedIsStopped
<1> SUFFICES ASSUME StopInv, NEW b \in Bots, NEW r \in Replicas,
                    Runs(b, r), row[b] = "deleted", b \notin Excepted, r \notin dropped
             PROVE  Destroyed(b) \/ ToldAfter(ChannelOf[b], r, 0)
  BY DEF RemovedIsStopped, ToldAfter, Excepted
<1>1. TypeOK
  BY DEF StopInv, OwnerInv
<1>2. ChannelOf[b] \in Channels /\ running[r][ChannelOf[b]] # None
  BY ChannelOfAssumption, NoneAssumption DEF Runs
<1>3. Good(r)
  BY <1>1, <1>2 DEF Good, TypeOK, StopInv, GoodInv, BadReplicas
<1>4. CASE Loose(b, r)
  BY <1>3, <1>4 DEF StopInv, LooseIsRoutable, Routable
<1>5. CASE ~Loose(b, r)
  BY <1>5 DEF Loose
<1> QED
  BY <1>4, <1>5

\* Steps that leave the replicas and what they have published alone.
LEMMA GoodSame ==
  ASSUME GoodInv, TypeOK', UNCHANGED <<link, dropped, retained>>, reaping' \subseteq reaping,
         \A r \in Replicas : /\ statuses'[r] = statuses[r] \/ statuses'[r] = <<>>
                                \/ statuses'[r] = <<retained[r]>>
                             /\ link[r] = "dead" => \A c \in Channels : running'[r][c] = None
  PROVE  GoodInv' /\ \A r \in Replicas : Good(r)' => Good(r)
<1>1. \A r \in Replicas : Good(r)' <=> Good(r)
  BY DEF Good
<1>2. BadReplicas'
  BY DEF GoodInv, BadReplicas
<1>3. ASSUME NEW r \in Replicas, Good(r)
      PROVE  \A i \in DOMAIN statuses'[r] : statuses'[r][i] = "online"
  <2>1. retained[r] = "online" /\ \A i \in DOMAIN statuses[r] : statuses[r][i] = "online"
    BY <1>3 DEF GoodInv, GoodIsOnline
  <2>2. DOMAIN <<>> = {} /\ DOMAIN <<"online">> = {1} /\ <<"online">>[1] = "online"
    OBVIOUS
  <2> QED
    BY <2>1, <2>2
<1>4. GoodIsOnline'
  BY <1>1, <1>3 DEF GoodInv, GoodIsOnline
<1> QED
  BY <1>1, <1>2, <1>4 DEF GoodInv

\* The Scheduler hears of good replicas only what they are, and none becomes good again.
LEMMA GoodStep ==
  ASSUME GoodInv, [Next]_vars
  PROVE  GoodInv' /\ \A r \in Replicas : Good(r)' => Good(r)
<1> USE DEF vars, database, memory, broker, service, history
<1>0. TypeOK /\ TypeOK'
  BY NextTypeOK DEF GoodInv
<1>1. CASE UNCHANGED vars
  BY <1>0, <1>1, GoodSame DEF GoodInv, BadReplicas
<1>2. ASSUME NEW b \in Bots, PostBot(b) \/ DeleteBot(b) \/ Start(b)
      PROVE  GoodInv' /\ \A r \in Replicas : Good(r)' => Good(r)
  <2>1. UNCHANGED <<link, dropped, retained, reaping, statuses, running>>
    BY <1>2 DEF PostBot, DeleteBot, Start, StartRead, StartNone, StartWrite, StartFails,
                StartPublish, StartSelect
  <2> QED
    BY <1>0, <2>1, GoodSame DEF GoodInv, BadReplicas
<1>3. ASSUME NEW b \in Bots, NEW sender \in Senders,
             \/ StopRead(b, sender) \/ StopDestroy(b, sender) \/ StopOrphan(b, sender)
             \/ StopFails(b, sender) \/ StopRoute(b, sender)
      PROVE  GoodInv' /\ \A r \in Replicas : Good(r)' => Good(r)
  <2>1. UNCHANGED <<link, dropped, retained, reaping, statuses, running>>
    BY <1>3 DEF StopRead, StopDestroy, StopOrphan, StopFails, StopRoute
  <2> QED
    BY <1>0, <2>1, GoodSame DEF GoodInv, BadReplicas
<1>4. ASSUME NEW r \in Replicas, Register(r) \/ Unregister(r)
      PROVE  GoodInv' /\ \A q \in Replicas : Good(q)' => Good(q)
  <2>1. /\ UNCHANGED <<link, dropped, retained, running>>
        /\ statuses[r] # <<>> /\ statuses' = [statuses EXCEPT ![r] = Tail(statuses[r])]
        /\ reaping' = reaping \/ (Head(statuses[r]) = "offline" /\ reaping' = reaping \cup {r})
    BY <1>4 DEF Register, Unregister
  <2>2. \A q \in Replicas : Good(q)' <=> Good(q)
    BY <2>1 DEF Good
  <2>3. BadReplicas'
    BY <2>1 DEF GoodInv, BadReplicas
  <2>4. /\ Head(statuses[r]) = statuses[r][1] /\ 1 \in DOMAIN statuses[r]
        /\ \A i \in DOMAIN Tail(statuses[r]) :
               i + 1 \in DOMAIN statuses[r] /\ Tail(statuses[r])[i] = statuses[r][i + 1]
    <3>1. statuses[r] \in Seq({"online", "offline"}) /\ statuses[r] # <<>>
      BY <1>0, <2>1 DEF TypeOK
    <3>2. /\ Tail(statuses[r]) \in Seq({"online", "offline"})
          /\ Len(Tail(statuses[r])) = Len(statuses[r]) - 1
          /\ \A i \in 1 .. Len(Tail(statuses[r])) : Tail(statuses[r])[i] = statuses[r][i + 1]
      BY <3>1, TailOf
    <3> QED
      BY <3>1, <3>2
  <2>5. /\ statuses'[r] = Tail(statuses[r])
        /\ \A q \in Replicas \ {r} : statuses'[q] = statuses[q]
    BY <1>0, <2>1 DEF TypeOK
  <2>6. Good(r) => reaping' = reaping
    BY <2>1, <2>4 DEF GoodInv, GoodIsOnline
  <2>7. GoodIsOnline'
    BY <2>1, <2>2, <2>4, <2>5, <2>6 DEF GoodInv, GoodIsOnline
  <2> QED
    BY <1>0, <2>2, <2>3, <2>7 DEF GoodInv
<1>5. ASSUME NEW r \in Replicas, Reap(r)
      PROVE  GoodInv' /\ \A q \in Replicas : Good(q)' => Good(q)
  <2>1. UNCHANGED <<link, dropped, retained, statuses, running>> /\ reaping' \subseteq reaping
    BY <1>5 DEF Reap
  <2> QED
    BY <1>0, <2>1, GoodSame DEF GoodInv, BadReplicas
<1>6. CASE SchedulerCrash \/ SchedulerAway \/ SchedulerReady
  <2>1. UNCHANGED <<link, dropped, retained, running>> /\ reaping' \subseteq reaping
    BY <1>6 DEF SchedulerCrash, SchedulerAway, SchedulerReady
  <2>2. \A r \in Replicas : statuses'[r] = <<>> \/ statuses'[r] = <<retained[r]>>
    BY <1>6 DEF SchedulerCrash, SchedulerAway, SchedulerReady
  <2> QED
    BY <1>0, <2>1, <2>2, GoodSame DEF GoodInv, BadReplicas
<1>7. ASSUME NEW r \in Replicas,
             \/ Deliver(r) \/ Refuse(r)
             \/ \E c \in Channels : Stream(r, c) \/ BotLeaves(r, c) \/ BotFails(r, c)
      PROVE  GoodInv' /\ \A q \in Replicas : Good(q)' => Good(q)
  <2>1. UNCHANGED <<link, dropped, retained, statuses, reaping>>
    BY <1>7 DEF Deliver, Refuse, Stream, BotLeaves, BotFails
  <2>2. \A q \in Replicas : link[q] = "dead" => \A d \in Channels : running'[q][d] = None
    <3>1. running \in [Replicas -> [Channels -> Bots \cup {None}]]
      BY <1>0 DEF TypeOK
    <3>2. ASSUME NEW c \in Channels, BotLeaves(r, c) \/ BotFails(r, c)
          PROVE  \A q \in Replicas, d \in Channels : running[q][d] = None => running'[q][d] = None
      <4>1. running' = [running EXCEPT ![r][c] = None]
        BY <3>2 DEF BotLeaves, BotFails, Vacate
      <4> QED
        BY <3>1, <4>1
    <3>3. CASE Deliver(r)
      <4>1. link[r] = "up" /\ \E c, x : running' = [running EXCEPT ![r][c] = x]
        BY <3>3 DEF Deliver, Vacate
      <4>2. \A q \in Replicas \ {r} : running'[q] = running[q]
        BY <3>1, <4>1
      <4> QED
        BY <4>1, <4>2 DEF GoodInv, BadReplicas
    <3>4. CASE Refuse(r) \/ \E c \in Channels : Stream(r, c)
      <4>1. running' = running
        BY <3>4 DEF Refuse, Stream
      <4> QED
        BY <4>1 DEF GoodInv, BadReplicas
    <3> QED
      BY <1>7, <3>2, <3>3, <3>4 DEF GoodInv, BadReplicas
  <2> QED
    BY <1>0, <2>1, <2>2, GoodSame
<1>8. ASSUME NEW r \in Replicas, ReplicaDies(r) \/ ReplicaAway(r) \/ ReplicaBack(r)
      PROVE  GoodInv' /\ \A q \in Replicas : Good(q)' => Good(q)
  <2>1. PICK s \in {"online", "offline"}, l \in {"up", "away", "dead"} :
          PublishStatus(r, s) /\ link' = [link EXCEPT ![r] = l]
    BY <1>8 DEF ReplicaDies, ReplicaAway, ReplicaBack
  <2>2. \A q \in Replicas \ {r} : /\ link'[q] = link[q] /\ retained'[q] = retained[q]
                                  /\ statuses'[q] = statuses[q]
    BY <1>0, <2>1 DEF PublishStatus, TypeOK
  <2>3. reaping' = reaping /\ dropped \subseteq dropped' /\ dropped' \subseteq dropped \cup {r}
    BY <1>8 DEF ReplicaDies, ReplicaAway, ReplicaBack
  <2>4. ~Good(r)'
    BY <1>0, <1>8 DEF ReplicaDies, ReplicaAway, ReplicaBack, Good, GoodInv, BadReplicas, TypeOK
  <2>5. \A q \in Replicas : Good(q)' => Good(q) /\ q # r
    BY <2>2, <2>3, <2>4 DEF Good
  <2>6. GoodIsOnline'
    BY <2>2, <2>3, <2>5 DEF GoodInv, GoodIsOnline
  <2>7. \A q \in Replicas : link'[q] = "away" => q \in dropped'
    BY <1>0, <1>8, <2>2, <2>3
       DEF ReplicaDies, ReplicaAway, ReplicaBack, GoodInv, BadReplicas, TypeOK
  <2>8. \A q \in Replicas : link'[q] = "dead" => \A c \in Channels : running'[q][c] = None
    <3>1. CASE ReplicaDies(r)
      <4>1. /\ running' = [running EXCEPT ![r] = [c \in Channels |-> None]]
            /\ running \in [Replicas -> [Channels -> Bots \cup {None}]]
        BY <1>0, <3>1 DEF ReplicaDies, TypeOK
      <4> QED
        BY <2>2, <4>1 DEF GoodInv, BadReplicas
    <3>2. CASE ReplicaAway(r) \/ ReplicaBack(r)
      <4>1. running' = running /\ link'[r] # "dead"
        BY <1>0, <3>2 DEF ReplicaAway, ReplicaBack, TypeOK
      <4> QED
        BY <2>2, <4>1 DEF GoodInv, BadReplicas
    <3> QED
      BY <1>8, <3>1, <3>2
  <2> QED
    BY <1>0, <2>5, <2>6, <2>7, <2>8 DEF GoodInv, BadReplicas
<1>9. ASSUME NEW c \in Channels, DeleteChannel(c)
      PROVE  GoodInv' /\ \A r \in Replicas : Good(r)' => Good(r)
  <2>1. UNCHANGED <<link, dropped, retained, reaping, statuses, running>>
    BY <1>9 DEF DeleteChannel
  <2> QED
    BY <1>0, <2>1, GoodSame DEF GoodInv, BadReplicas
<1> QED
  BY <1>1, <1>2, <1>3, <1>4, <1>5, <1>6, <1>7, <1>8, <1>9 DEF Next

\* A step that has k[r] messages of replica r handled: a bot is nowhere it was not before, and
\* the stops that remain on their way to a good replica stay behind what they are to stop.
Consumes(k) ==
    /\ \A b \in Bots, r \in Replicas, i \in Nat :
           Starts(b, r, i)' => /\ Starts(b, r, i + k[r])
                               /\ inbox'[r][i].channel = inbox[r][i + k[r]].channel
    /\ \A b \in Bots, r \in Replicas, c \in Channels :
           running'[r][c] = b => \/ running[r][c] = b
                                 \/ k[r] = 1 /\ Starts(b, r, 1) /\ inbox[r][1].channel = c
    /\ \A r \in Replicas, c \in Channels, i \in Nat :
           Good(r)' /\ ToldAfter(c, r, i + k[r]) => ToldAfter(c, r, i)'
    /\ \A b \in Bots, r \in Replicas :
           Good(r)' /\ Runs(b, r)' /\ Runs(b, r) /\ ToldAfter(ChannelOf[b], r, 0)
           => ToldAfter(ChannelOf[b], r, 0)'

\* Bots may have left, or a replica that is not good may have lost what was sent to it.
LEMMA NothingConsumed ==
  ASSUME TypeOK, TypeOK',
         \A r \in Replicas, c \in Channels : running'[r][c] \in {running[r][c], None},
         \A r \in Replicas : inbox'[r] = inbox[r] \/ (inbox'[r] = <<>> /\ ~Good(r)')
  PROVE  Consumes([r \in Replicas |-> 0])
<1> DEFINE k == [r \in Replicas |-> 0]
<1>1. \A r \in Replicas, i \in Nat : k[r] = 0 /\ i + k[r] = i
  OBVIOUS
<1>2. DOMAIN <<>> = {}
  OBVIOUS
<1>3. \A b \in Bots, r \in Replicas, i \in Nat :
        Starts(b, r, i)' => Starts(b, r, i) /\ inbox'[r][i].channel = inbox[r][i].channel
  BY <1>2 DEF Starts
<1>4. \A b \in Bots, r \in Replicas, c \in Channels :
        running'[r][c] = b => running[r][c] = b
  BY NoneAssumption
<1>5. \A r \in Replicas, c \in Channels, i \in Nat :
        Good(r)' /\ ToldAfter(c, r, i) => ToldAfter(c, r, i)'
  BY DEF ToldAfter
<1>6. \A b \in Bots, r \in Replicas :
        Good(r)' /\ ToldAfter(ChannelOf[b], r, 0) => ToldAfter(ChannelOf[b], r, 0)'
  BY <1>5, ChannelOfAssumption
<1> HIDE DEF k
<1>7. Consumes(k)
  BY <1>1, <1>3, <1>4, <1>5, <1>6 DEF Consumes
<1> QED
  BY <1>7 DEF k

\* A stopbot is sent.
LEMMA StopConsumes ==
  ASSUME TypeOK, TypeOK', NEW to \in Replicas, NEW m \in Messages, m.kind = "stopbot",
         Send(to, m), running' = running
  PROVE  Consumes([r \in Replicas |-> 0])
<1> DEFINE k == [r \in Replicas |-> 0]
<1>1. \A r \in Replicas, i \in Nat : k[r] = 0 /\ i + k[r] = i
  OBVIOUS
<1>2. \A r \in Replicas :
        /\ \A i \in DOMAIN inbox[r] : i \in DOMAIN inbox'[r] /\ inbox'[r][i] = inbox[r][i]
        /\ \A i \in DOMAIN inbox'[r] : i \in DOMAIN inbox[r] \/ inbox'[r][i].kind = "stopbot"
  <2> SUFFICES ASSUME NEW r \in Replicas
               PROVE  /\ \A i \in DOMAIN inbox[r] : /\ i \in DOMAIN inbox'[r]
                                                    /\ inbox'[r][i] = inbox[r][i]
                      /\ \A i \in DOMAIN inbox'[r] :
                             i \in DOMAIN inbox[r] \/ inbox'[r][i].kind = "stopbot"
    OBVIOUS
  <2>1. CASE inbox'[r] = inbox[r]
    BY <2>1
  <2>2. CASE inbox'[r] # inbox[r]
    <3>1. inbox'[r] = Append(inbox[r], m) /\ inbox[r] \in Seq(Messages)
      BY <2>2 DEF Send, TypeOK
    <3> QED
      BY <3>1
  <2> QED
    BY <2>1, <2>2
<1>3. \A b \in Bots, r \in Replicas, i \in Nat :
        Starts(b, r, i)' => Starts(b, r, i) /\ inbox'[r][i].channel = inbox[r][i].channel
  BY <1>2 DEF Starts
<1>4. \A r \in Replicas, c \in Channels, i \in Nat : ToldAfter(c, r, i) => ToldAfter(c, r, i)'
  BY <1>2 DEF ToldAfter
<1>5. \A b \in Bots, r \in Replicas :
        ToldAfter(ChannelOf[b], r, 0) => ToldAfter(ChannelOf[b], r, 0)'
  BY <1>4, ChannelOfAssumption
<1> HIDE DEF k
<1>6. Consumes(k)
  BY <1>1, <1>3, <1>4, <1>5 DEF Consumes
<1> QED
  BY <1>6 DEF k

\* The first message of a replica is handled.
LEMMA HeadConsumed ==
  ASSUME TypeOK, TypeOK', NEW to \in Replicas, Deliver(to) \/ Refuse(to)
  PROVE  Consumes([r \in Replicas |-> IF r = to THEN 1 ELSE 0])
<1> DEFINE k == [r \in Replicas |-> IF r = to THEN 1 ELSE 0]
<1>1. \A r \in Replicas : k[r] = IF r = to THEN 1 ELSE 0
  OBVIOUS
<1> HIDE DEF k
<1>2. inbox[to] # <<>> /\ inbox' = [inbox EXCEPT ![to] = Tail(inbox[to])]
  BY DEF Deliver, Refuse
<1>3. inbox[to] \in Seq(Messages)
  BY DEF TypeOK
<1>4. /\ Len(Tail(inbox[to])) = Len(inbox[to]) - 1
      /\ \A i \in 1 .. Len(Tail(inbox[to])) : Tail(inbox[to])[i] = inbox[to][i + 1]
      /\ Tail(inbox[to]) \in Seq(Messages)
  BY <1>2, <1>3, TailOf
<1>5. /\ inbox'[to] = Tail(inbox[to])
      /\ \A r \in Replicas \ {to} : inbox'[r] = inbox[r]
  BY <1>2 DEF TypeOK
<1>6. /\ DOMAIN inbox[to] = 1 .. Len(inbox[to]) /\ Len(inbox[to]) \in Nat
      /\ DOMAIN inbox'[to] = 1 .. Len(inbox[to]) - 1
      /\ \A i \in DOMAIN inbox'[to] : inbox'[to][i] = inbox[to][i + 1]
      /\ Len(inbox[to]) # 0
  <2>1. DOMAIN inbox[to] = 1 .. Len(inbox[to]) /\ Len(inbox[to]) \in Nat
    BY <1>3, LenProperties
  <2>2. Len(inbox[to]) # 0
    BY <1>2, <1>3, EmptySeq
  <2>3. DOMAIN Tail(inbox[to]) = 1 .. Len(Tail(inbox[to]))
    BY <1>4, LenProperties
  <2>4. DOMAIN inbox'[to] = 1 .. Len(inbox[to]) - 1
    BY <1>4, <1>5, <2>3, Zenon
  <2>5. \A i \in DOMAIN inbox'[to] : inbox'[to][i] = inbox[to][i + 1]
    BY <1>4, <1>5, <2>3, Zenon
  <2> QED
    BY <2>1, <2>2, <2>4, <2>5
<1>8. \A b \in Bots, r \in Replicas, i \in Nat :
        Starts(b, r, i)' => /\ Starts(b, r, i + k[r])
                            /\ inbox'[r][i].channel = inbox[r][i + k[r]].channel
  <2> SUFFICES ASSUME NEW b \in Bots, NEW r \in Replicas, NEW i \in Nat, Starts(b, r, i)'
               PROVE  /\ Starts(b, r, i + k[r])
                      /\ inbox'[r][i].channel = inbox[r][i + k[r]].channel
    OBVIOUS
  <2>1. CASE r = to
    <3>1. i \in DOMAIN inbox'[r] /\ inbox'[r][i].kind = "startbot" /\ inbox'[r][i].bot = b
      BY DEF Starts
    <3>2. i + 1 \in DOMAIN inbox[r] /\ inbox'[r][i] = inbox[r][i + 1] /\ k[r] = 1
      BY <1>1, <1>6, <2>1, <3>1
    <3> QED
      BY <3>1, <3>2 DEF Starts
  <2>2. CASE r # to
    <3>1. i + k[r] = i /\ inbox'[r] = inbox[r]
      BY <1>1, <1>5, <2>2
    <3> QED
      BY <3>1 DEF Starts
  <2> QED
    BY <2>1, <2>2
<1>9. \A r \in Replicas, c \in Channels, i \in Nat :
        ToldAfter(c, r, i + k[r]) => ToldAfter(c, r, i)'
  <2> SUFFICES ASSUME NEW r \in Replicas, NEW c \in Channels, NEW i \in Nat,
                      ToldAfter(c, r, i + k[r])
               PROVE  ToldAfter(c, r, i)'
    OBVIOUS
  <2>1. PICK j \in DOMAIN inbox[r] :
          j > i + k[r] /\ inbox[r][j].kind = "stopbot" /\ inbox[r][j].channel = c
    BY DEF ToldAfter
  <2>2. CASE r = to
    <3>1. j \in 1 .. Len(inbox[r]) /\ j > i + 1
      BY <1>1, <1>6, <2>1, <2>2
    <3>2. j - 1 \in DOMAIN inbox'[r] /\ j - 1 > i /\ (j - 1) + 1 = j
      BY <1>6, <2>2, <3>1
    <3>3. inbox'[r][j - 1] = inbox[r][j]
      BY <1>6, <2>2, <3>2
    <3> QED
      BY <2>1, <3>2, <3>3 DEF ToldAfter
  <2>3. CASE r # to
    <3>1. i + k[r] = i /\ inbox'[r] = inbox[r]
      BY <1>1, <1>5, <2>3
    <3> QED
      BY <2>1, <3>1 DEF ToldAfter
  <2> QED
    BY <2>2, <2>3
<1> DEFINE h == inbox[to][1]
<1>10. h = Head(inbox[to]) /\ 1 \in DOMAIN inbox[to] /\ h \in Messages
  BY <1>2, <1>3, <1>6
<1>11. \/ h.kind = "startbot" /\ running' = running
       \/ h.kind = "startbot" /\ running' = [running EXCEPT ![to][h.channel] = h.bot]
       \/ h.kind # "startbot" /\ running' = [running EXCEPT ![to][h.channel] = None]
  BY <1>10 DEF Deliver, Refuse, Vacate, service
<1>12. /\ running \in [Replicas -> [Channels -> Bots \cup {None}]]
       /\ h.channel \in Channels /\ h.kind \in {"startbot", "stopbot"}
  BY <1>10 DEF TypeOK, Messages
<1>13. \A b \in Bots, r \in Replicas, c \in Channels :
         running'[r][c] = b => \/ running[r][c] = b
                               \/ k[r] = 1 /\ Starts(b, r, 1) /\ inbox[r][1].channel = c
  <2> SUFFICES ASSUME NEW b \in Bots, NEW r \in Replicas, NEW c \in Channels,
                      running'[r][c] = b, running[r][c] # b
               PROVE  k[r] = 1 /\ Starts(b, r, 1) /\ inbox[r][1].channel = c
    OBVIOUS
  <2>1. r = to /\ c = h.channel /\ h.kind = "startbot" /\ h.bot = b
    BY <1>11, <1>12, NoneAssumption
  <2> QED
    BY <1>1, <1>10, <2>1 DEF Starts
<1>14. \A b \in Bots, r \in Replicas :
         Runs(b, r)' /\ ToldAfter(ChannelOf[b], r, 0) => ToldAfter(ChannelOf[b], r, 0)'
  <2> SUFFICES ASSUME NEW b \in Bots, NEW r \in Replicas,
                      Runs(b, r)', ToldAfter(ChannelOf[b], r, 0)
               PROVE  ToldAfter(ChannelOf[b], r, 0)'
    OBVIOUS
  <2>1. ChannelOf[b] \in Channels
    BY ChannelOfAssumption
  <2>2. CASE r # to
    BY <1>5, <2>2 DEF ToldAfter
  <2>3. CASE r = to
    <3>1. PICK j \in DOMAIN inbox[r] :
            j > 0 /\ inbox[r][j].kind = "stopbot" /\ inbox[r][j].channel = ChannelOf[b]
      BY DEF ToldAfter
    <3>2. j # 1
      <4>1. SUFFICES ASSUME h.kind = "stopbot", h.channel = ChannelOf[b]
                     PROVE  FALSE
        BY <2>3, <3>1
      <4>2. running'[to][ChannelOf[b]] = None
        BY <1>11, <1>12, <2>1, <4>1
      <4> QED
        BY <2>3, <4>2, NoneAssumption DEF Runs
    <3>3. j > 0 + k[r]
      BY <1>1, <1>6, <2>3, <3>1, <3>2
    <3>4. ToldAfter(ChannelOf[b], r, 0 + k[r])
      BY <3>1, <3>3 DEF ToldAfter
    <3> QED
      BY <1>9, <2>1, <3>4
  <2> QED
    BY <2>2, <2>3
<1>15. Consumes(k)
  BY <1>8, <1>9, <1>13, <1>14 DEF Consumes
<1> QED
  BY <1>15 DEF k

\* Every step but a startbot that is sent is of that kind.
LEMMA AllConsume ==
  ASSUME GoodInv, [Next]_vars, \A b \in Bots : ~StartPublish(b)
  PROVE  \E k \in [Replicas -> {0, 1}] : Consumes(k)
<1> USE DEF vars, database, memory, broker, service, history
<1>0. TypeOK /\ TypeOK'
  BY NextTypeOK DEF GoodInv
<1> DEFINE z == [r \in Replicas |-> 0]
<1>1. SUFFICES ASSUME \A r \in Replicas : ~Deliver(r) /\ ~Refuse(r)
               PROVE  Consumes(z)
  <2>1. ASSUME NEW to \in Replicas, Deliver(to) \/ Refuse(to)
        PROVE  \E k \in [Replicas -> {0, 1}] : Consumes(k)
    BY <1>0, <2>1, HeadConsumed
  <2> QED
    BY <2>1
<1>2. ASSUME NEW b \in Bots, NEW sender \in Senders, StopRoute(b, sender)
      PROVE  Consumes(z)
  <2> DEFINE to == RouteTo(b, sender)
             m  == [kind |-> "stopbot", channel |-> ChannelOf[b], bot |-> None]
  <2>1. running' = running /\ (inbox' = inbox \/ (to # None /\ Send(to, m)))
    BY <1>2 DEF StopRoute
  <2>2. m \in Messages /\ m.kind = "stopbot"
    BY ChannelOfAssumption DEF Messages
  <2>5. to \in Replicas \cup {None}
    <3>1. ownership[ChannelOf[b]] \in Replicas \cup {None}
      BY <1>0, ChannelOfAssumption DEF TypeOK
    <3>2. stopping[b][sender].owner \in Replicas \cup {None}
      BY <1>0 DEF TypeOK
    <3> QED
      BY <3>1, <3>2 DEF RouteTo
  <2> HIDE DEF to, m
  <2>3. CASE inbox' = inbox
    BY <1>0, <2>1, <2>3, NothingConsumed
  <2>4. CASE inbox' # inbox
    BY <1>0, <2>1, <2>2, <2>4, <2>5, StopConsumes
  <2> QED
    BY <2>3, <2>4
<1>3. CASE UNCHANGED <<running, inbox>>
  BY <1>0, <1>3, NothingConsumed
<1>4. ASSUME NEW r \in Replicas, ReplicaDies(r) \/ ReplicaAway(r)
      PROVE  Consumes(z)
  <2>1. ~Good(r)'
    BY <1>0, <1>4 DEF ReplicaDies, ReplicaAway, Good, TypeOK
  <2>2. \A q \in Replicas : inbox'[q] = inbox[q] \/ (inbox'[q] = <<>> /\ ~Good(q)')
    BY <1>0, <1>4, <2>1 DEF ReplicaDies, ReplicaAway, TypeOK
  <2>3. \A q \in Replicas, c \in Channels : running'[q][c] \in {running[q][c], None}
    <3>1. running \in [Replicas -> [Channels -> Bots \cup {None}]]
      BY <1>0 DEF TypeOK
    <3>2. \/ running' = running
          \/ running' = [running EXCEPT ![r] = [c \in Channels |-> None]]
      BY <1>4 DEF ReplicaDies, ReplicaAway
    <3> QED
      BY <3>1, <3>2
  <2> QED
    BY <1>0, <2>2, <2>3, NothingConsumed
<1>5. ASSUME NEW r \in Replicas, NEW c \in Channels, BotLeaves(r, c) \/ BotFails(r, c)
      PROVE  Consumes(z)
  <2>1. running' = [running EXCEPT ![r][c] = None] /\ inbox' = inbox
    BY <1>5 DEF BotLeaves, BotFails, Vacate
  <2>2. \A q \in Replicas, d \in Channels : running'[q][d] \in {running[q][d], None}
    BY <1>0, <2>1 DEF TypeOK
  <2> QED
    BY <1>0, <2>1, <2>2, NothingConsumed
<1>6. ASSUME NEW b \in Bots, PostBot(b) \/ DeleteBot(b) \/ Start(b)
      PROVE  UNCHANGED <<running, inbox>>
  BY <1>6 DEF PostBot, DeleteBot, Start, StartRead, StartNone, StartWrite, StartFails, StartSelect
<1>7. ASSUME NEW b \in Bots, NEW sender \in Senders,
             \/ StopRead(b, sender) \/ StopDestroy(b, sender) \/ StopOrphan(b, sender)
             \/ StopFails(b, sender)
      PROVE  UNCHANGED <<running, inbox>>
  BY <1>7 DEF StopRead, StopDestroy, StopOrphan, StopFails
<1>8. ASSUME \/ \E r \in Replicas : \/ Register(r) \/ Unregister(r) \/ Reap(r) \/ ReplicaBack(r)
                                    \/ \E c \in Channels : Stream(r, c)
             \/ \E c \in Channels : DeleteChannel(c)
             \/ SchedulerCrash \/ SchedulerAway \/ SchedulerReady
      PROVE  UNCHANGED <<running, inbox>>
  BY <1>8 DEF Register, Unregister, Reap, ReplicaBack, Stream, DeleteChannel,
              SchedulerCrash, SchedulerAway, SchedulerReady
<1> QED
  BY <1>1, <1>2, <1>3, <1>4, <1>5, <1>6, <1>7, <1>8 DEF Next

\* A bot stays where it is, or goes from the inbox to the replica.
LEMMA PlaceStep ==
  ASSUME TypeOK, TypeOK', WellPlaced, InOnePlace,
         NEW k \in [Replicas -> {0, 1}], Consumes(k)
  PROVE  WellPlaced' /\ InOnePlace'
<1>1. \A r \in Replicas : k[r] \in {0, 1}
  OBVIOUS
<1>2. \A r \in Replicas :
        /\ \A i \in DOMAIN inbox[r] : i \in Nat /\ i >= 1
        /\ \A i \in DOMAIN inbox'[r] : i \in Nat /\ i >= 1
  BY DEF TypeOK
<1>3. \A b \in Bots, r \in Replicas, i \in Nat : Starts(b, r, i)' =>
        i >= 1 /\ i + k[r] \in Nat /\ Starts(b, r, i + k[r])
  BY <1>1, <1>2 DEF Consumes, Starts
<1>4. WellPlaced'
  <2>1. ASSUME NEW b \in Bots, NEW r \in Replicas, NEW c \in Channels, running'[r][c] = b
        PROVE  ChannelOf[b] = c
    BY <2>1 DEF Consumes, WellPlaced, Starts
  <2>2. ASSUME NEW b \in Bots, NEW r \in Replicas, NEW i \in DOMAIN inbox'[r], Starts(b, r, i)'
        PROVE  inbox'[r][i].channel = ChannelOf[b]
    <3>1. i \in Nat /\ Starts(b, r, i + k[r])
      BY <1>2, <1>3, <2>2
    <3>2. inbox'[r][i].channel = inbox[r][i + k[r]].channel
      BY <2>2, <3>1 DEF Consumes
    <3> QED
      BY <3>1, <3>2 DEF WellPlaced, Starts
  <2> QED
    BY <2>1, <2>2 DEF WellPlaced
<1>5. \A b \in Bots, r \in Replicas :
        Runs(b, r)' => Runs(b, r) \/ (k[r] = 1 /\ Starts(b, r, 1))
  BY ChannelOfAssumption DEF Consumes, Runs
<1>6. \A b \in Bots, r \in Replicas, i \in Nat : Starts(b, r, i) => StartSent(b, r)
  BY DEF Starts, StartSent
<1>7. ASSUME NEW b \in Bots, NEW r \in Replicas, NEW q \in Replicas, NEW i \in Nat, NEW j \in Nat,
             Starts(b, r, i)', Starts(b, q, j)'
      PROVE  q = r /\ i = j
  <2>1. /\ Starts(b, r, i + k[r]) /\ i + k[r] \in Nat
        /\ Starts(b, q, j + k[q]) /\ j + k[q] \in Nat
    BY <1>3, <1>7
  <2>2. q = r /\ i + k[r] = j + k[q]
    BY <2>1 DEF InOnePlace
  <2> QED
    BY <1>1, <2>2
<1>8. ASSUME NEW b \in Bots, NEW r \in Replicas, NEW q \in Replicas, Runs(b, r)'
      PROVE  ~StartSent(b, q)'
  <2>1. SUFFICES ASSUME NEW i \in Nat, Starts(b, q, i)' PROVE FALSE
    BY <1>2 DEF StartSent, Starts
  <2>2. Starts(b, q, i + k[q]) /\ i \in Nat /\ i >= 1 /\ i + k[q] \in Nat
    BY <1>3, <2>1
  <2>3. CASE Runs(b, r)
    BY <1>6, <2>2, <2>3 DEF InOnePlace
  <2>4. CASE k[r] = 1 /\ Starts(b, r, 1)
    <3>1. q = r /\ i + k[q] = 1
      BY <2>2, <2>4 DEF InOnePlace
    <3> QED
      BY <2>2, <2>4, <3>1
  <2> QED
    BY <1>5, <1>8, <2>3, <2>4
<1>9. ASSUME NEW b \in Bots, NEW r \in Replicas, NEW q \in Replicas, Runs(b, r)', Runs(b, q)'
      PROVE  q = r
  <2>1. /\ Runs(b, r) \/ Starts(b, r, 1)
        /\ Runs(b, q) \/ Starts(b, q, 1)
    BY <1>5, <1>9
  <2> QED
    BY <1>6, <2>1 DEF InOnePlace
<1>10. InOnePlace'
  BY <1>7, <1>8, <1>9 DEF InOnePlace
<1> QED
  BY <1>4, <1>10

\* What is launched by startBot.
LEMMA StartAppends ==
  ASSUME TypeOK, TypeOK', NEW b \in Bots, StartPublish(b)
  PROVE  /\ \A d \in Bots, r \in Replicas, i \in Nat :
              Starts(d, r, i)' =>
                \/ Starts(d, r, i) /\ inbox'[r][i] = inbox[r][i]
                \/ /\ d = b /\ r = starting[b].replica /\ i = Len(inbox[r]) + 1
                   /\ inbox'[r][i].channel = ChannelOf[b]
         /\ \A c \in Channels, r \in Replicas, i \in Nat : ToldAfter(c, r, i) => ToldAfter(c, r, i)'
<1> DEFINE m == [kind |-> "startbot", channel |-> ChannelOf[b], bot |-> b]
<1>1. \A r \in Replicas :
        /\ inbox[r] \in Seq(Messages)
        /\ inbox'[r] = inbox[r] \/ (r = starting[b].replica /\ inbox'[r] = Append(inbox[r], m))
  BY DEF StartPublish, Send, TypeOK
<1>2. m.kind = "startbot" /\ m.channel = ChannelOf[b] /\ m.bot = b
  OBVIOUS
<1> HIDE DEF m
<1>3. \A r \in Replicas :
        /\ \A i \in DOMAIN inbox[r] : i \in DOMAIN inbox'[r] /\ inbox'[r][i] = inbox[r][i]
        /\ \A i \in DOMAIN inbox'[r] :
             \/ i \in DOMAIN inbox[r]
             \/ r = starting[b].replica /\ i = Len(inbox[r]) + 1 /\ inbox'[r][i] = m
  <2> SUFFICES ASSUME NEW r \in Replicas
               PROVE  /\ \A i \in DOMAIN inbox[r] : /\ i \in DOMAIN inbox'[r]
                                                    /\ inbox'[r][i] = inbox[r][i]
                      /\ \A i \in DOMAIN inbox'[r] :
                           \/ i \in DOMAIN inbox[r]
                           \/ /\ r = starting[b].replica
                              /\ i = Len(inbox[r]) + 1 /\ inbox'[r][i] = m
    OBVIOUS
  <2>1. CASE inbox'[r] = inbox[r]
    BY <2>1
  <2>2. CASE r = starting[b].replica /\ inbox'[r] = Append(inbox[r], m)
    BY <1>1, <2>2
  <2> QED
    BY <1>1, <2>1, <2>2
<1>4. \A d \in Bots, r \in Replicas, i \in Nat :
        Starts(d, r, i)' =>
          \/ Starts(d, r, i) /\ inbox'[r][i] = inbox[r][i]
          \/ /\ d = b /\ r = starting[b].replica /\ i = Len(inbox[r]) + 1
             /\ inbox'[r][i].channel = ChannelOf[b]
  BY <1>2, <1>3 DEF Starts
<1>5. \A c \in Channels, r \in Replicas, i \in Nat : ToldAfter(c, r, i) => ToldAfter(c, r, i)'
  BY <1>3 DEF ToldAfter
<1> QED
  BY <1>4, <1>5

\* It was nowhere before.
LEMMA PlacePublish ==
  ASSUME TypeOK, TypeOK', StartedOnce, WellPlaced, InOnePlace, NEW b \in Bots, StartPublish(b)
  PROVE  WellPlaced' /\ InOnePlace'
<1>1. running' = running
  BY DEF StartPublish, service
<1>2. \A r \in Replicas : ~Runs(b, r) /\ ~StartSent(b, r)
  BY DEF StartPublish, StartedOnce, Launched
<1>3. \A r \in Replicas, i \in Nat : ~Starts(b, r, i)
  BY <1>2 DEF Starts, StartSent
<1>4. \A r \in Replicas : Len(inbox[r]) \in Nat /\ \A i \in DOMAIN inbox'[r] : i \in Nat
  BY DEF TypeOK
<1>5. \A d \in Bots, r \in Replicas, i \in Nat :
        Starts(d, r, i)' =>
          \/ Starts(d, r, i) /\ inbox'[r][i] = inbox[r][i]
          \/ /\ d = b /\ r = starting[b].replica /\ i = Len(inbox[r]) + 1
             /\ inbox'[r][i].channel = ChannelOf[b]
  BY StartAppends
<1>6. WellPlaced'
  <2>1. ASSUME NEW d \in Bots, NEW r \in Replicas, NEW i \in DOMAIN inbox'[r], Starts(d, r, i)'
        PROVE  inbox'[r][i].channel = ChannelOf[d]
    BY <1>4, <1>5, <2>1 DEF WellPlaced, Starts
  <2> QED
    BY <1>1, <2>1 DEF WellPlaced
<1>7. ASSUME NEW d \in Bots, NEW r \in Replicas, NEW q \in Replicas, NEW i \in Nat, NEW j \in Nat,
             Starts(d, r, i)', Starts(d, q, j)'
      PROVE  q = r /\ i = j
  <2>1. CASE d = b
    BY <1>3, <1>5, <1>7, <2>1
  <2>2. CASE d # b
    <3>1. Starts(d, r, i) /\ Starts(d, q, j)
      BY <1>5, <1>7, <2>2
    <3> QED
      BY <3>1 DEF InOnePlace
  <2> QED
    BY <2>1, <2>2
<1>8. ASSUME NEW d \in Bots, NEW r \in Replicas, NEW q \in Replicas, Runs(d, r)'
      PROVE  ~StartSent(d, q)' /\ (Runs(d, q)' => q = r)
  <2>1. \A p \in Replicas : Runs(d, p)' <=> Runs(d, p)
    BY <1>1 DEF Runs
  <2>2. Runs(d, r) /\ d # b
    BY <1>2, <1>8, <2>1
  <2>3. \A i \in Nat : ~Starts(d, q, i)'
    BY <1>5, <2>2 DEF InOnePlace, Starts, StartSent
  <2>4. ~StartSent(d, q)'
    BY <1>4, <2>3 DEF StartSent, Starts
  <2> QED
    BY <2>1, <2>2, <2>4 DEF InOnePlace
<1>9. InOnePlace'
  BY <1>7, <1>8 DEF InOnePlace
<1> QED
  BY <1>6, <1>9

\* startBot selects no replica for bot b.
NotSelected(b) ==
    starting'[b].at \in {"selected", "written"} =>
        starting[b].at \in {"selected", "written"} /\ starting'[b].replica = starting[b].replica

\* On a good replica no bot is loose that was not before, but for what is selected.
LEMMA LooseShrinks ==
  ASSUME TypeOK, TypeOK', NEW k \in [Replicas -> {0, 1}], Consumes(k),
         NEW b \in Bots, NotSelected(b), NEW r \in Replicas, Good(r)', Loose(b, r)'
  PROVE  Loose(b, r)
<1>0. k[r] \in {0, 1} /\ ChannelOf[b] \in Channels
  BY ChannelOfAssumption
<1>1. CASE starting'[b].at \in {"selected", "written"} /\ starting'[b].replica = r
  BY <1>1 DEF NotSelected, Loose
<1>2. CASE Runs(b, r)' /\ ~ToldAfter(ChannelOf[b], r, 0)'
  <2>1. CASE Runs(b, r)
    BY <1>2, <2>1 DEF Consumes, Loose
  <2>2. CASE k[r] = 1 /\ Starts(b, r, 1)
    <3>1. ~ToldAfter(ChannelOf[b], r, 0 + k[r])
      BY <1>0, <1>2 DEF Consumes
    <3>2. ~ToldAfter(ChannelOf[b], r, 1) /\ 1 \in DOMAIN inbox[r]
      BY <2>2, <3>1 DEF Starts
    <3> QED
      BY <2>2, <3>2 DEF Loose
  <2> QED
    BY <1>0, <1>2, <2>1, <2>2 DEF Consumes, Runs
<1>3. ASSUME NEW i \in DOMAIN inbox'[r], Starts(b, r, i)', ~ToldAfter(ChannelOf[b], r, i)'
      PROVE  Loose(b, r)
  <2>1. i \in Nat
    BY DEF TypeOK
  <2>2. Starts(b, r, i + k[r]) /\ ~ToldAfter(ChannelOf[b], r, i + k[r])
    BY <1>0, <1>3, <2>1 DEF Consumes
  <2>3. i + k[r] \in DOMAIN inbox[r]
    BY <2>2 DEF Starts
  <2> QED
    BY <2>2, <2>3 DEF Loose
<1> QED
  BY <1>1, <1>2, <1>3 DEF Loose

LEMMA LoosePublish ==
  ASSUME TypeOK, TypeOK', NEW b \in Bots, StartPublish(b),
         NEW d \in Bots, NEW r \in Replicas, Loose(d, r)'
  PROVE  Loose(d, r)
<1>0. running' = running /\ ChannelOf[d] \in Channels
  BY ChannelOfAssumption DEF StartPublish, service
<1>1. /\ starting'[b].at = "no" /\ starting[b].at = "written"
      /\ \A e \in Bots \ {b} : starting'[e] = starting[e]
  BY DEF StartPublish, TypeOK, NotStarting
<1>2. CASE starting'[d].at \in {"selected", "written"} /\ starting'[d].replica = r
  BY <1>1, <1>2 DEF Loose
<1>3. CASE Runs(d, r)' /\ ~ToldAfter(ChannelOf[d], r, 0)'
  BY <1>0, <1>3, StartAppends DEF Loose, Runs
<1>4. ASSUME NEW i \in DOMAIN inbox'[r], Starts(d, r, i)', ~ToldAfter(ChannelOf[d], r, i)'
      PROVE  Loose(d, r)
  <2>1. i \in Nat
    BY DEF TypeOK
  <2>2. Starts(d, r, i) \/ (d = b /\ r = starting[b].replica)
    BY <1>4, <2>1, StartAppends
  <2>3. ~ToldAfter(ChannelOf[d], r, i)
    BY <1>0, <1>4, <2>1, StartAppends
  <2> QED
    BY <1>1, <2>2, <2>3 DEF Loose, Starts
<1> QED
  BY <1>2, <1>3, <1>4 DEF Loose

\* On good replicas no bot becomes loose.
Shrinks == \A b \in Bots, r \in Replicas : Good(r)' => Good(r) /\ (Loose(b, r)' => Loose(b, r))

\* What a stop has read stays, or it reads the row now.
StopKept(b, sender) ==
    \/ stopping'[b][sender] = stopping[b][sender]
    \/ stopping'[b][sender].at \in {"no", "sent"}
    \/ /\ stopping'[b][sender].at \in {"read", "orphan"}
       /\ stopping'[b][sender].owner = owner[b]
       /\ row[b] = "present"
       /\ starting[b].at # "no" => b \in contested'

\* A step that changes no row, assigns no bot, and ends the stop of a destroyed row only if the
\* bot is no longer loose or becomes an exception.
Calm ==
    /\ UNCHANGED <<row, owner>>
    /\ contested \subseteq contested' /\ unstopped \subseteq unstopped'
    /\ \A b \in Bots : \/ starting'[b] = starting[b] \/ starting'[b].at = "no"
                       \/ starting[b].at = "sent" /\ starting'[b].at = "read"
    /\ \A b \in Bots, sender \in Senders : StopKept(b, sender)
    /\ \A b \in Bots : \/ b \in Excepted' \/ (Destroyed(b) => Destroyed(b)')
                       \/ \A r \in Replicas : Good(r)' => ~Loose(b, r)'
    /\ \A c \in Channels : ownership'[c] \in {ownership[c], None}

LEMMA CalmStep ==
  ASSUME StopInv, Shrinks, Calm
  PROVE  NotYetOwned' /\ StopAfterStart' /\ LooseIsRoutable' /\ OneOpen'
<1>0. /\ UNCHANGED <<row, owner>> /\ contested \subseteq contested' /\ Excepted \subseteq Excepted'
      /\ \A b \in Bots : \/ starting'[b] = starting[b] \/ starting'[b].at = "no"
                         \/ starting[b].at = "sent" /\ starting'[b].at = "read"
  BY DEF Calm, Excepted
<1>1. NotYetOwned'
  BY <1>0 DEF StopInv, NotYetOwned
<1>2. ASSUME NEW b \in Bots, Reading(b)'
      PROVE  row[b] # "unposted" /\ (b \notin contested' => starting'[b].at = "no")
  <2>1. PICK sender \in Senders : stopping'[b][sender].at \in {"read", "orphan", "destroyed"}
    BY <1>2 DEF Reading
  <2>2. CASE stopping'[b][sender] = stopping[b][sender]
    <3>1. Reading(b)
      BY <2>1, <2>2 DEF Reading
    <3> QED
      BY <1>0, <3>1 DEF StopInv, StopAfterStart
  <2>3. CASE row[b] = "present" /\ (starting[b].at # "no" => b \in contested')
    BY <1>0, <2>3
  <2> QED
    BY <2>1, <2>2, <2>3 DEF Calm, StopKept
<1>3. StopAfterStart'
  BY <1>0, <1>2 DEF StopAfterStart
<1>4. ASSUME NEW b \in Bots, NEW r \in Replicas, b \notin Excepted', Good(r)', Loose(b, r)'
      PROVE  Routable(b, r)'
  <2>1. b \notin Excepted /\ b \notin contested' /\ Good(r) /\ Loose(b, r)
    BY <1>0, <1>4 DEF Shrinks, Excepted
  <2>2. Routable(b, r)
    BY <2>1 DEF StopInv, LooseIsRoutable
  <2>3. (row[b] = "present" \/ Destroyed(b))'
    BY <1>0, <1>4, <2>2 DEF Routable, Calm
  <2>4. (ownership[ChannelOf[b]] \in {None, r})'
    BY <2>2, ChannelOfAssumption DEF Routable, Calm
  <2>5. ASSUME NEW sender \in Senders, stopping'[b][sender].at \in {"read", "destroyed"}
        PROVE  stopping'[b][sender].owner = r
    <3>1. CASE stopping'[b][sender] = stopping[b][sender]
      BY <2>2, <2>5, <3>1 DEF Routable
    <3>2. CASE /\ stopping'[b][sender].owner = owner[b]
               /\ row[b] = "present" /\ starting[b].at = "no"
      <4>1. Launched(b, r)
        BY <2>1, <3>2 DEF Loose, Launched, Starts, StartSent
      <4> QED
        BY <3>2, <4>1 DEF StopInv, OwnerInv, LaunchedIsOwned
    <3> QED
      BY <2>1, <2>5, <3>1, <3>2 DEF Calm, StopKept
  <2> QED
    BY <2>3, <2>4, <2>5 DEF Routable
<1>5. LooseIsRoutable'
  BY <1>4 DEF LooseIsRoutable
<1>6. \A b \in Bots : Open(b)' => Open(b)
  BY <1>0 DEF Open, Shrinks
<1>7. \A b \in Bots : starting[b].at = "no" => starting'[b].at = "no"
  BY <1>0
<1>8. OneOpen'
  BY <1>0, <1>6, <1>7 DEF StopInv, OneOpen
<1> QED
  BY <1>1, <1>3, <1>5, <1>8

\* POST /bots.
LEMMA PostStep ==
  ASSUME StopInv, Shrinks, NEW b \in Bots, PostBot(b)
  PROVE  NotYetOwned' /\ StopAfterStart' /\ LooseIsRoutable' /\ OneOpen'
<1>0. TypeOK
  BY DEF StopInv, OwnerInv
<1>1. /\ UNCHANGED <<owner, ownership, stopping>>
      /\ row[b] = "unposted" /\ row'[b] = "present" /\ starting'[b].at \in {"no", "sent"}
      /\ \A d \in Bots \ {b} : row'[d] = row[d] /\ starting'[d] = starting[d]
      /\ contested \subseteq contested' /\ Excepted \subseteq Excepted'
  BY <1>0 DEF PostBot, TypeOK, StopInv, OwnerInv, StartedOnce, Excepted
<1>2. NotYetOwned'
  BY <1>1 DEF StopInv, NotYetOwned
<1>3. \A d \in Bots : /\ Reading(d)' <=> Reading(d)
                      /\ Destroyed(d)' <=> Destroyed(d)
  BY <1>1 DEF Reading, Destroyed
<1>4. StopAfterStart'
  BY <1>1, <1>3 DEF StopInv, StopAfterStart
<1>5. \A d \in Bots, r \in Replicas : Routable(d, r) => Routable(d, r)'
  BY <1>1, <1>3 DEF Routable
<1>6. LooseIsRoutable'
  BY <1>1, <1>5 DEF StopInv, LooseIsRoutable, Shrinks
<1>7. ASSUME NEW d \in Bots, NEW e \in Bots, d \notin Excepted', Open(d)', e # d,
             ChannelOf[e] = ChannelOf[d]
      PROVE  starting'[e].at = "no"
  <2>1. CASE d = b
    <3>1. ~Occupied(ChannelOf[b])
      BY <1>7, <2>1 DEF PostBot, Excepted
    <3>2. starting[e].at = "no"
      BY <1>7, <2>1, <3>1 DEF Occupied
    <3> QED
      BY <1>1, <1>7, <2>1, <3>2
  <2>2. CASE d # b
    <3>1. Open(d)
      BY <1>1, <1>7, <2>2 DEF Open, Shrinks
    <3>2. starting[e].at = "no"
      BY <1>1, <1>7, <3>1 DEF StopInv, OneOpen
    <3>3. Occupied(ChannelOf[d])
      <4>1. CASE starting[d].at \in {"sent", "read"}
        BY <4>1 DEF Occupied
      <4>2. ASSUME NEW r \in Replicas, Good(r), Loose(d, r)
            PROVE  Occupied(ChannelOf[d])
        <5>1. Routable(d, r)
          BY <1>1, <1>7, <4>2 DEF StopInv, LooseIsRoutable
        <5> QED
          BY <5>1 DEF Routable, Occupied
      <4> QED
        BY <3>1, <4>1, <4>2 DEF Open
    <3>4. ChannelOf[d] # ChannelOf[b]
      BY <1>7, <3>3 DEF PostBot, Excepted
    <3>5. e # b
      BY <1>7, <3>4
    <3> QED
      BY <1>1, <3>2, <3>5
  <2> QED
    BY <2>1, <2>2
<1>8. OneOpen'
  BY <1>7 DEF OneOpen
<1> QED
  BY <1>2, <1>4, <1>6, <1>8

\* selectBotService: no other bot of the channel is loose, and the row is still there.
LEMMA SelectStep ==
  ASSUME StopInv, TypeOK', \A r \in Replicas : Good(r)' => Good(r),
         NEW b \in Bots, NEW to \in Replicas, StartSelect(b, to)
  PROVE  NotYetOwned' /\ StopAfterStart' /\ LooseIsRoutable' /\ OneOpen'
<1>0. TypeOK
  BY DEF StopInv, OwnerInv
<1>1. /\ UNCHANGED <<row, owner, stopping, contested, Excepted, inbox, running>>
      /\ starting[b].at = "read" /\ starting'[b] = [at |-> "selected", replica |-> to]
      /\ \A d \in Bots \ {b} : starting'[d] = starting[d]
      /\ ownership'[ChannelOf[b]] = to
      /\ \A c \in Channels \ {ChannelOf[b]} : ownership'[c] = ownership[c]
  BY <1>0, ChannelOfAssumption
     DEF StartSelect, TypeOK, database, broker, service, history, Excepted
<1>2. NotYetOwned'
  BY <1>1 DEF StopInv, NotYetOwned
<1>3. \A d \in Bots : /\ Reading(d)' <=> Reading(d)
                      /\ Destroyed(d)' <=> Destroyed(d)
  BY <1>1 DEF Reading, Destroyed
<1>4. StopAfterStart'
  BY <1>1, <1>3 DEF StopInv, StopAfterStart
<1>5. \A r \in Replicas : ~Launched(b, r)
  BY <1>1 DEF StopInv, OwnerInv, StartedOnce
<1>6. \A d \in Bots, r \in Replicas :
        Loose(d, r)' => (d # b /\ Loose(d, r)) \/ (d = b /\ r = to)
  <2>1. \A d \in Bots, r \in Replicas : Loose(d, r)' /\ d # b => Loose(d, r)
    BY <1>1 DEF Loose, Runs, ToldAfter, Starts
  <2>2. \A r \in Replicas : Loose(b, r)' => r = to
    BY <1>1, <1>5 DEF Loose, Launched, Runs, StartSent, Starts
  <2> QED
    BY <2>1, <2>2
<1>7. ASSUME NEW d \in Bots, NEW r \in Replicas, d \notin Excepted', Good(r)', Loose(d, r)'
      PROVE  Routable(d, r)'
  <2>1. CASE d # b /\ Loose(d, r)
    <3>1. Routable(d, r) /\ Open(d) /\ d \notin Excepted
      BY <1>1, <1>7, <2>1 DEF StopInv, LooseIsRoutable, Open
    <3>2. ChannelOf[d] # ChannelOf[b]
      BY <1>1, <2>1, <3>1 DEF StopInv, OneOpen
    <3>3. ownership'[ChannelOf[d]] = ownership[ChannelOf[d]]
      BY <1>1, <3>2, ChannelOfAssumption
    <3> QED
      BY <1>1, <1>3, <3>1, <3>3 DEF Routable
  <2>2. CASE d = b /\ r = to
    <3>1. row[b] = "present"
      BY <1>1, <1>7, <2>2 DEF StopInv, NotYetOwned
    <3>2. ~Reading(b)
      BY <1>1, <1>7, <2>2 DEF StopInv, StopAfterStart, Excepted
    <3>3. \A sender \in Senders : stopping[b][sender].at \notin {"read", "destroyed"}
      BY <3>2 DEF Reading
    <3> QED
      BY <1>1, <2>2, <3>1, <3>3 DEF Routable
  <2> QED
    BY <1>6, <1>7, <2>1, <2>2
<1>8. LooseIsRoutable'
  BY <1>7 DEF LooseIsRoutable
<1>9. \A d \in Bots : Open(d)' => Open(d)
  <2>1. Open(b)
    BY <1>1 DEF Open
  <2>2. ASSUME NEW d \in Bots, d # b, Open(d)'
        PROVE  Open(d)
    BY <1>1, <1>6, <2>2 DEF Open
  <2> QED
    BY <2>1, <2>2
<1>10. OneOpen'
  BY <1>1, <1>9 DEF StopInv, OneOpen
<1> QED
  BY <1>2, <1>4, <1>8, <1>10

\* Bot.update: what is written is what was selected.
LEMMA WriteStep ==
  ASSUME StopInv, Shrinks, NEW b \in Bots, StartWrite(b)
  PROVE  NotYetOwned' /\ StopAfterStart' /\ LooseIsRoutable' /\ OneOpen'
<1>0. TypeOK
  BY DEF StopInv, OwnerInv
<1>1. /\ UNCHANGED <<row, stopping, ownership>>
      /\ contested \subseteq contested' /\ Excepted \subseteq Excepted'
      /\ starting[b].at = "selected" /\ starting'[b].at = "written"
      /\ \A d \in Bots \ {b} : starting'[d] = starting[d] /\ owner'[d] = owner[d]
  BY <1>0 DEF StartWrite, TypeOK, Excepted
<1>2. row[b] # "unposted"
  BY <1>1 DEF StopInv, OwnerInv, StartedOnce
<1>3. NotYetOwned'
  BY <1>1, <1>2 DEF StopInv, NotYetOwned
<1>4. \A d \in Bots : /\ Reading(d)' <=> Reading(d)
                      /\ Destroyed(d)' <=> Destroyed(d)
  BY <1>1 DEF Reading, Destroyed
<1>5. StopAfterStart'
  BY <1>1, <1>4 DEF StopInv, StopAfterStart
<1>6. \A d \in Bots, r \in Replicas : Routable(d, r) => Routable(d, r)'
  BY <1>1, <1>4 DEF Routable
<1>7. LooseIsRoutable'
  BY <1>1, <1>6 DEF StopInv, LooseIsRoutable, Shrinks
<1>8. \A d \in Bots : Open(d)' => Open(d)
  BY <1>1 DEF Open, Shrinks
<1>9. OneOpen'
  BY <1>1, <1>8 DEF StopInv, OneOpen
<1> QED
  BY <1>3, <1>5, <1>7, <1>9

\* The row of a bot is destroyed; its stop will be routed.
LEMMA DestroyStep ==
  ASSUME StopInv, Shrinks, NEW b \in Bots, NEW s \in Senders, StopDestroy(b, s)
  PROVE  NotYetOwned' /\ StopAfterStart' /\ LooseIsRoutable' /\ OneOpen'
<1>0. TypeOK
  BY DEF StopInv, OwnerInv
<1>1. /\ UNCHANGED <<starting, ownership, contested, Excepted>>
      /\ row'[b] = "deleted" /\ owner'[b] = None
      /\ \A d \in Bots \ {b} : row'[d] = row[d] /\ owner'[d] = owner[d]
  BY <1>0 DEF StopDestroy, TypeOK, history, Excepted
<1>2. /\ stopping[b][s].at = "read" /\ stopping'[b][s].at = "destroyed"
      /\ stopping'[b][s].owner = stopping[b][s].owner
      /\ \A d \in Bots, t \in Senders : d # b \/ t # s => stopping'[d][t] = stopping[d][t]
  BY <1>0 DEF StopDestroy, TypeOK
<1>3. \A d \in Bots : Reading(d)' => Reading(d)
  BY <1>2 DEF Reading
<1>4. Reading(b) /\ Destroyed(b)' /\ \A d \in Bots : Destroyed(d) => Destroyed(d)'
  BY <1>2 DEF Reading, Destroyed
<1>5. StopAfterStart'
  <2>1. \A d \in Bots : row'[d] = "unposted" => row[d] = "unposted"
    BY <1>1
  <2> QED
    BY <1>1, <1>3, <2>1 DEF StopInv, StopAfterStart
<1>6. NotYetOwned'
  BY <1>1, <1>4 DEF StopInv, NotYetOwned, StopAfterStart, Excepted
<1>7. \A d \in Bots, r \in Replicas : Routable(d, r) => Routable(d, r)'
  <2> SUFFICES ASSUME NEW d \in Bots, NEW r \in Replicas, Routable(d, r)
               PROVE  Routable(d, r)'
    OBVIOUS
  <2>1. (row[d] = "present" \/ Destroyed(d))'
    BY <1>1, <1>4 DEF Routable
  <2>2. ASSUME NEW t \in Senders, stopping'[d][t].at \in {"read", "destroyed"}
        PROVE  stopping'[d][t].owner = r
    BY <1>2, <2>2 DEF Routable
  <2> QED
    BY <1>1, <2>1, <2>2 DEF Routable
<1>8. LooseIsRoutable'
  BY <1>1, <1>7 DEF StopInv, LooseIsRoutable, Shrinks
<1>9. \A d \in Bots : Open(d)' => Open(d)
  BY <1>1 DEF Open, Shrinks
<1>10. OneOpen'
  BY <1>1, <1>9 DEF StopInv, OneOpen
<1> QED
  BY <1>5, <1>6, <1>8, <1>10

\* The rows that are deleted without a stop belong to exceptions.
LEMMA LossStep ==
  ASSUME StopInv, Shrinks, UNCHANGED <<starting, ownership, contested>>,
         unstopped \subseteq unstopped',
         \A d \in Bots : \/ row'[d] = row[d] /\ owner'[d] = owner[d]
                         \/ /\ row'[d] = "deleted" /\ owner'[d] = None
                            /\ d \in unstopped',
         \A d \in Bots, t \in Senders :
             \/ stopping'[d][t] = stopping[d][t]
             \/ stopping[d][t].at = "orphan" /\ stopping'[d][t].at = "no"
  PROVE  NotYetOwned' /\ StopAfterStart' /\ LooseIsRoutable' /\ OneOpen'
<1>1. Excepted \subseteq Excepted' /\ unstopped' \subseteq Excepted'
  BY DEF Excepted
<1>2. NotYetOwned'
  BY <1>1 DEF StopInv, NotYetOwned
<1>3. \A d \in Bots : /\ Reading(d)' => Reading(d)
                      /\ Destroyed(d) => Destroyed(d)'
  BY DEF Reading, Destroyed
<1>4. StopAfterStart'
  BY <1>3 DEF StopInv, StopAfterStart
<1>5. ASSUME NEW d \in Bots, NEW r \in Replicas, d \notin Excepted', Good(r)', Loose(d, r)'
      PROVE  Routable(d, r)'
  <2>1. Routable(d, r) /\ row'[d] = row[d]
    BY <1>1, <1>5 DEF StopInv, Shrinks, LooseIsRoutable
  <2>2. ASSUME NEW t \in Senders, stopping'[d][t].at \in {"read", "destroyed"}
        PROVE  stopping'[d][t].owner = r
    BY <2>1, <2>2 DEF Routable
  <2> QED
    BY <1>3, <2>1, <2>2 DEF Routable
<1>6. LooseIsRoutable'
  BY <1>5 DEF LooseIsRoutable
<1>7. \A d \in Bots : Open(d)' => Open(d)
  BY DEF Open, Shrinks
<1>8. OneOpen'
  BY <1>1, <1>7 DEF StopInv, OneOpen
<1> QED
  BY <1>2, <1>4, <1>6, <1>8

LEMMA OrphanStep ==
  ASSUME StopInv, Shrinks, NEW b \in Bots, NEW s \in Senders, StopOrphan(b, s)
  PROVE  NotYetOwned' /\ StopAfterStart' /\ LooseIsRoutable' /\ OneOpen'
<1>0. TypeOK
  BY DEF StopInv, OwnerInv
<1>1. /\ UNCHANGED <<starting, ownership, contested>> /\ unstopped' = unstopped \cup {b}
      /\ row'[b] = "deleted" /\ owner'[b] = None
      /\ \A d \in Bots \ {b} : row'[d] = row[d] /\ owner'[d] = owner[d]
  BY <1>0 DEF StopOrphan, TypeOK
<1>2. /\ stopping[b][s].at = "orphan" /\ stopping'[b][s].at = "no"
      /\ \A d \in Bots, t \in Senders : d # b \/ t # s => stopping'[d][t] = stopping[d][t]
  BY <1>0 DEF StopOrphan, TypeOK, NotStopping
<1> QED
  BY <1>1, <1>2, LossStep

LEMMA DeleteChannelStep ==
  ASSUME StopInv, Shrinks, NEW c \in Channels, DeleteChannel(c)
  PROVE  NotYetOwned' /\ StopAfterStart' /\ LooseIsRoutable' /\ OneOpen'
<1>1. UNCHANGED <<starting, ownership, contested, stopping>> /\ unstopped \subseteq unstopped'
  BY DEF DeleteChannel, memory
<1>2. \A d \in Bots : \/ row'[d] = row[d] /\ owner'[d] = owner[d]
                      \/ row'[d] = "deleted" /\ owner'[d] = None /\ d \in unstopped'
  BY DEF DeleteChannel
<1> QED
  BY <1>1, <1>2, LossStep

\* Bot.destroy of what a replica owns: it is not a good one.
LEMMA ReapStep ==
  ASSUME StopInv, Shrinks, NEW q \in Replicas, Reap(q)
  PROVE  NotYetOwned' /\ StopAfterStart' /\ LooseIsRoutable' /\ OneOpen'
<1>1. /\ UNCHANGED <<starting, stopping, ownership, contested, Excepted>> /\ q \in reaping
      /\ \A d \in Bots : \/ owner[d] = q /\ row'[d] = "deleted" /\ owner'[d] = None
                         \/ owner[d] # q /\ row'[d] = row[d] /\ owner'[d] = owner[d]
  BY DEF Reap, history, Excepted
<1>2. NotYetOwned'
  BY <1>1, NoneAssumption DEF StopInv, NotYetOwned
<1>3. \A d \in Bots : /\ Reading(d)' <=> Reading(d)
                      /\ Destroyed(d)' <=> Destroyed(d)
  BY <1>1 DEF Reading, Destroyed
<1>4. StopAfterStart'
  BY <1>1, <1>3 DEF StopInv, StopAfterStart
<1>5. ASSUME NEW d \in Bots, NEW r \in Replicas, d \notin Excepted', Good(r)', Loose(d, r)'
      PROVE  Routable(d, r)'
  <2>1. Good(r) /\ Loose(d, r) /\ Routable(d, r) /\ r # q
    BY <1>1, <1>5 DEF StopInv, Shrinks, LooseIsRoutable, GoodInv, GoodIsOnline
  <2>2. row[d] = "present" => owner[d] # q
    <3>1. CASE starting[d].at = "selected"
      BY <3>1, NoneAssumption DEF StopInv, NotYetOwned
    <3>2. CASE starting[d].at = "written" /\ starting[d].replica = r
      BY <2>1, <3>2 DEF StopInv, OwnerInv, WrittenIsOwned
    <3>3. CASE Launched(d, r)
      BY <2>1, <3>3 DEF StopInv, OwnerInv, LaunchedIsOwned
    <3> QED
      BY <2>1, <3>1, <3>2, <3>3 DEF Loose, Launched, Starts, StartSent
  <2> QED
    BY <1>1, <1>3, <2>1, <2>2 DEF Routable
<1>6. LooseIsRoutable'
  BY <1>5 DEF LooseIsRoutable
<1>7. \A d \in Bots : Open(d)' => Open(d)
  BY <1>1 DEF Open, Shrinks
<1>8. OneOpen'
  BY <1>1, <1>7 DEF StopInv, OneOpen
<1> QED
  BY <1>2, <1>4, <1>6, <1>8

\* The stop of bot b is sent to the replica where it is loose, if there is one, by a Scheduler
\* that is connected.
LEMMA RouteStops ==
  ASSUME StopInv, TypeOK', Shrinks, NEW b \in Bots, NEW s \in Senders, StopRoute(b, s),
         b \notin Excepted', NEW r \in Replicas, Good(r)'
  PROVE  ~Loose(b, r)'
<1> SUFFICES ASSUME Loose(b, r)' PROVE FALSE
  OBVIOUS
<1>0. TypeOK /\ ChannelOf[b] \in Channels
  BY ChannelOfAssumption DEF StopInv, OwnerInv
<1>1. scheduler = "up" /\ b \notin Excepted
  BY DEF StopRoute, Excepted
<1>2. Good(r) /\ Loose(b, r) /\ Routable(b, r)
  BY <1>1 DEF Shrinks, StopInv, LooseIsRoutable
<1>3. stopping[b][s].at = "destroyed" /\ starting' = starting
  BY DEF StopRoute
<1>4. Reading(b) /\ stopping[b][s].owner = r
  BY <1>2, <1>3 DEF Reading, Routable
<1>5. starting'[b].at = "no"
  BY <1>1, <1>3, <1>4 DEF StopInv, StopAfterStart, Excepted
<1>6. RouteTo(b, s) = r /\ r # None
  BY <1>2, <1>4, NoneAssumption DEF RouteTo, Routable
<1> DEFINE m == [kind |-> "stopbot", channel |-> ChannelOf[b], bot |-> None]
<1>7. inbox[r] \in Seq(Messages) /\ inbox'[r] = Append(inbox[r], m)
  BY <1>0, <1>1, <1>2, <1>6 DEF StopRoute, Send, Good, TypeOK
<1>8. m.kind = "stopbot" /\ m.channel = ChannelOf[b]
  OBVIOUS
<1> HIDE DEF m
<1>9. /\ Len(inbox[r]) \in Nat /\ DOMAIN inbox'[r] = 1 .. Len(inbox[r]) + 1
      /\ inbox'[r][Len(inbox[r]) + 1] = m
  BY <1>7
<1>10. \A i \in 0 .. Len(inbox[r]) : ToldAfter(ChannelOf[b], r, i)'
  BY <1>8, <1>9 DEF ToldAfter
<1>11. \A i \in DOMAIN inbox'[r] : Starts(b, r, i)' => i \in 0 .. Len(inbox[r])
  BY <1>8, <1>9 DEF Starts
<1> QED
  BY <1>5, <1>9, <1>10, <1>11 DEF Loose

\* A bot that leaves is nowhere.
LEMMA LeftIsGone ==
  ASSUME StopInv, NEW r \in Replicas, NEW c \in Channels, NEW b \in Bots,
         running[r][c] = b, BotLeaves(r, c), NEW q \in Replicas
  PROVE  ~Loose(b, q)'
<1>0. TypeOK /\ ChannelOf[b] = c
  BY DEF StopInv, OwnerInv, WellPlaced
<1>1. inbox' = inbox /\ starting' = starting /\ running' = [running EXCEPT ![r][c] = None]
  BY DEF BotLeaves, Vacate, broker
<1>2. Runs(b, r)
  BY <1>0 DEF Runs
<1>3. starting[b].at = "no"
  BY <1>0, <1>2 DEF StopInv, OwnerInv, StartedOnce, Launched, TypeOK
<1>4. ~StartSent(b, q) /\ (Runs(b, q) => q = r)
  BY <1>2 DEF StopInv, InOnePlace
<1>5. ~Runs(b, q)'
  <2>1. running'[r][c] = None /\ (q # r => running'[q] = running[q])
    BY <1>0, <1>1 DEF TypeOK
  <2> QED
    BY <1>0, <1>4, <2>1, NoneAssumption DEF Runs
<1>6. \A i : ~Starts(b, q, i)'
  BY <1>1, <1>4 DEF Starts, StartSent
<1> QED
  BY <1>1, <1>3, <1>5, <1>6 DEF Loose

\* Only the selection of a replica makes a bot loose.
LEMMA NextShrinks ==
  ASSUME StopInv, [Next]_vars, \A b \in Bots, r \in Replicas : ~StartSelect(b, r)
  PROVE  Shrinks
<1> USE DEF vars, database, memory, broker, service, history
<1>0. GoodInv /\ TypeOK /\ TypeOK'
  BY NextTypeOK DEF StopInv, GoodInv
<1>1. \A r \in Replicas : Good(r)' => Good(r)
  BY <1>0, GoodStep
<1>2. ASSUME NEW b \in Bots, StartPublish(b)
      PROVE  Shrinks
  BY <1>0, <1>1, <1>2, LoosePublish DEF Shrinks
<1>3. ASSUME \A b \in Bots : ~StartPublish(b)
      PROVE  Shrinks
  <2>1. PICK k \in [Replicas -> {0, 1}] : Consumes(k)
    BY <1>0, <1>3, AllConsume
  <2>2. \A b \in Bots : NotSelected(b)
    <3>1. CASE starting' = starting
      BY <3>1 DEF NotSelected
    <3>2. ASSUME NEW d \in Bots, PostBot(d)
          PROVE  \A b \in Bots : NotSelected(b)
      BY <1>0, <3>2 DEF PostBot, NotSelected, TypeOK
    <3>3. ASSUME NEW d \in Bots, StartRead(d) \/ StartNone(d) \/ StartFails(d)
          PROVE  \A b \in Bots : NotSelected(b)
      <4>1. \A b \in Bots : starting'[b] = starting[b] \/ starting'[b].at \in {"no", "read"}
        BY <1>0, <3>3 DEF StartRead, StartNone, StartFails, TypeOK, NotStarting
      <4> QED
        BY <4>1 DEF NotSelected
    <3>4. ASSUME NEW d \in Bots, StartWrite(d)
          PROVE  \A b \in Bots : NotSelected(b)
      BY <1>0, <3>4 DEF StartWrite, NotSelected, TypeOK
    <3>5. CASE SchedulerCrash \/ SchedulerAway
      BY <3>5 DEF SchedulerCrash, SchedulerAway, NotSelected, NotStarting
    <3>6. ASSUME NEW d \in Bots, DeleteBot(d)
          PROVE  starting' = starting
      BY <3>6 DEF DeleteBot
    <3>7. ASSUME NEW d \in Bots, NEW s \in Senders,
                 \/ StopRead(d, s) \/ StopDestroy(d, s) \/ StopOrphan(d, s)
                 \/ StopFails(d, s) \/ StopRoute(d, s)
          PROVE  starting' = starting
      BY <3>7 DEF StopRead, StopDestroy, StopOrphan, StopFails, StopRoute
    <3>8. ASSUME NEW r \in Replicas,
                 \/ Register(r) \/ Unregister(r) \/ Reap(r)
                 \/ Deliver(r) \/ Refuse(r) \/ ReplicaDies(r) \/ ReplicaAway(r) \/ ReplicaBack(r)
                 \/ \E c \in Channels : Stream(r, c) \/ BotLeaves(r, c) \/ BotFails(r, c)
          PROVE  starting' = starting
      BY <3>8 DEF Register, Unregister, Reap, Deliver, Refuse, ReplicaDies, ReplicaAway,
                  ReplicaBack, Stream, BotLeaves, BotFails
    <3>9. CASE SchedulerReady \/ \E c \in Channels : DeleteChannel(c)
      BY <3>9 DEF SchedulerReady, DeleteChannel, NotSelected
    <3> QED
      BY <1>3, <3>1, <3>2, <3>3, <3>4, <3>5, <3>6, <3>7, <3>8, <3>9 DEF Next, Start
  <2>3. ASSUME NEW b \in Bots, NEW r \in Replicas, Good(r)', Loose(b, r)'
        PROVE  Loose(b, r)
    BY <1>0, <2>1, <2>2, <2>3, LooseShrinks
  <2> QED
    BY <1>1, <2>3 DEF Shrinks
<1> QED
  BY <1>2, <1>3

\* A stop that is sent replaces what its sender had asked for that bot, nothing else.
LEMMA SentStop ==
  ASSUME TypeOK, NEW b \in Bots, NEW s \in Senders,
         stopping' = [stopping EXCEPT ![b][s] = [at |-> "sent", owner |-> None]]
  PROVE  \A d \in Bots, t \in Senders :
           IF d = b /\ t = s THEN stopping'[d][t].at = "sent"
                             ELSE stopping'[d][t] = stopping[d][t]
<1>1. /\ DOMAIN stopping = Bots
      /\ \A d \in Bots : DOMAIN stopping[d] = Senders
  BY DEF TypeOK
<1> QED
  BY <1>1

\* What is left is calm: it changes no row and assigns no bot.
LEMMA BotsCalm ==
  ASSUME StopInv, TypeOK', Shrinks, NEW b \in Bots,
         \/ DeleteBot(b) \/ StartRead(b) \/ StartNone(b) \/ StartFails(b) \/ StartPublish(b)
         \/ \E s \in Senders : StopRead(b, s) \/ StopFails(b, s) \/ StopRoute(b, s)
  PROVE  Calm
<1> USE DEF database, broker, service, history
<1>0. TypeOK
  BY DEF StopInv, OwnerInv
<1>1. CASE DeleteBot(b)
  <2>1. /\ UNCHANGED <<row, owner, starting, ownership, contested, unstopped>>
        /\ stopping' = stopping \/
             /\ stopping' = [stopping EXCEPT ![b]["api"] = [at |-> "sent", owner |-> None]]
             /\ stopping[b]["api"].at = "no"
    BY <1>1 DEF DeleteBot, RequestStop
  <2>2. \A d \in Bots, t \in Senders :
          \/ stopping'[d][t] = stopping[d][t]
          \/ stopping[d][t].at = "no" /\ stopping'[d][t].at = "sent"
    BY <1>0, <2>1, SentStop DEF Senders
  <2>3. \A d \in Bots : Destroyed(d) => Destroyed(d)'
    BY <2>2 DEF Destroyed
  <2> QED
    BY <2>1, <2>2, <2>3 DEF Calm, StopKept
<1>2. CASE StartRead(b) \/ StartNone(b) \/ StartFails(b) \/ StartPublish(b)
  <2>1. UNCHANGED <<row, owner, stopping, ownership, contested, unstopped>>
    BY <1>2 DEF StartRead, StartNone, StartFails, StartPublish
  <2>2. \A d \in Bots : \/ starting'[d] = starting[d] \/ starting'[d].at = "no"
                        \/ starting[d].at = "sent" /\ starting'[d].at = "read"
    BY <1>0, <1>2 DEF StartRead, StartNone, StartFails, StartPublish, NotStarting, TypeOK
  <2>3. \A d \in Bots : Destroyed(d) => Destroyed(d)'
    BY <2>1 DEF Destroyed
  <2> QED
    BY <2>1, <2>2, <2>3 DEF Calm, StopKept
<1>3. ASSUME NEW s \in Senders, StopRead(b, s) \/ StopFails(b, s) \/ StopRoute(b, s)
      PROVE  Calm
  <2>1. /\ UNCHANGED <<row, owner, starting>>
        /\ contested \subseteq contested' /\ unstopped \subseteq unstopped'
    BY <1>3 DEF StopRead, StopFails, StopRoute
  <2>2. \A c \in Channels : ownership'[c] \in {ownership[c], None}
    BY <1>0, <1>3, ChannelOfAssumption DEF StopRead, StopFails, StopRoute, TypeOK
  <2>3. \A d \in Bots, t \in Senders : d # b \/ t # s => stopping'[d][t] = stopping[d][t]
    BY <1>0, <1>3 DEF StopRead, StopFails, StopRoute, TypeOK
  <2>4. StopKept(b, s)
    BY <1>0, <1>3 DEF StopRead, StopFails, StopRoute, NotStopping, StopKept, TypeOK
  <2>5. \A d \in Bots, t \in Senders : StopKept(d, t)
    BY <2>3, <2>4 DEF StopKept
  <2>6. \A d \in Bots : \/ d \in Excepted' \/ (Destroyed(d) => Destroyed(d)')
                        \/ \A r \in Replicas : Good(r)' => ~Loose(d, r)'
    <3>1. CASE StopRead(b, s) \/ StopFails(b, s)
      <4>1. stopping[b][s].at # "destroyed"
        BY <3>1 DEF StopRead, StopFails
      <4> QED
        BY <2>3, <4>1 DEF Destroyed
    <3>2. CASE StopRoute(b, s)
      <4>2. \A d \in Bots : d # b => (Destroyed(d) => Destroyed(d)')
        BY <2>3 DEF Destroyed
      <4>3. b \notin Excepted' => \A r \in Replicas : Good(r)' => ~Loose(b, r)'
        BY <3>2, RouteStops
      <4> QED
        BY <4>2, <4>3
    <3> QED
      BY <1>3, <3>1, <3>2
  <2> QED
    BY <2>1, <2>2, <2>5, <2>6 DEF Calm
<1> QED
  BY <1>1, <1>2, <1>3

LEMMA OthersCalm ==
  ASSUME StopInv, TypeOK',
         \/ \E r \in Replicas :
              \/ Register(r) \/ Unregister(r)
              \/ Deliver(r) \/ Refuse(r) \/ ReplicaDies(r) \/ ReplicaAway(r) \/ ReplicaBack(r)
              \/ \E c \in Channels : Stream(r, c) \/ BotLeaves(r, c) \/ BotFails(r, c)
         \/ SchedulerCrash \/ SchedulerAway \/ SchedulerReady \/ UNCHANGED vars
  PROVE  Calm
<1> USE DEF vars, database, memory, broker, service, history
<1>0. TypeOK
  BY DEF StopInv, OwnerInv
<1>1. CASE SchedulerCrash
  <2>1. /\ UNCHANGED <<row, owner, contested>>
        /\ unstopped' = unstopped \cup {b \in Bots : Destroyed(b)}
    BY <1>1 DEF SchedulerCrash
  <2>2. /\ \A b \in Bots : starting'[b].at = "no"
        /\ \A b \in Bots, s \in Senders : stopping'[b][s].at = "no"
        /\ \A c \in Channels : ownership'[c] = None
    BY <1>1 DEF SchedulerCrash, NotStarting, NotStopping
  <2> QED
    BY <2>1, <2>2 DEF Calm, StopKept, Excepted
<1>2. ASSUME NEW r \in Replicas, NEW c \in Channels, BotLeaves(r, c)
      PROVE  Calm
  <2>1. UNCHANGED <<row, owner, starting, ownership, contested, unstopped>>
    BY <1>2 DEF BotLeaves
  <2>2. PICK b \in Bots : running[r][c] = b
    BY <1>0, <1>2 DEF BotLeaves, TypeOK
  <2>3. \/ stopping' = stopping
        \/ stopping' = [stopping EXCEPT ![b]["bot"] = [at |-> "sent", owner |-> None]]
    BY <1>2, <2>2 DEF BotLeaves, RequestStop
  <2>4. \A d \in Bots, t \in Senders :
          \/ stopping'[d][t] = stopping[d][t]
          \/ d = b /\ stopping'[d][t].at = "sent"
    BY <1>0, <2>3, SentStop DEF Senders
  <2>5. \A d \in Bots : d # b => (Destroyed(d) => Destroyed(d)')
    BY <2>4 DEF Destroyed
  <2>6. \A q \in Replicas : ~Loose(b, q)'
    BY <1>2, <2>2, LeftIsGone
  <2> QED
    BY <2>1, <2>4, <2>5, <2>6 DEF Calm, StopKept
<1>3. CASE /\ UNCHANGED <<row, owner, starting, stopping, contested, unstopped>>
           /\ \A c \in Channels : ownership'[c] \in {ownership[c], None}
  BY <1>3 DEF Calm, StopKept, Destroyed
<1>4. ASSUME NEW r \in Replicas, Register(r) \/ Unregister(r)
      PROVE  Calm
  BY <1>3, <1>4 DEF Register, Unregister
<1>5. ASSUME \/ \E r \in Replicas :
                  \/ Deliver(r) \/ Refuse(r) \/ ReplicaDies(r) \/ ReplicaAway(r) \/ ReplicaBack(r)
                  \/ \E c \in Channels : Stream(r, c) \/ BotFails(r, c)
             \/ SchedulerReady \/ UNCHANGED vars
      PROVE  Calm
  BY <1>3, <1>5 DEF Deliver, Refuse, ReplicaDies, ReplicaAway, ReplicaBack, Stream, BotFails,
                    SchedulerReady
<1>6. CASE SchedulerAway
  <2>1. /\ UNCHANGED <<row, owner, ownership, contested, unstopped>>
        /\ \A b \in Bots : starting'[b] = starting[b] \/ starting'[b].at = "no"
        /\ \A b \in Bots, s \in Senders :
             \/ stopping'[b][s] = stopping[b][s]
             \/ stopping[b][s].at = "sent" /\ stopping'[b][s].at = "no"
    BY <1>6 DEF SchedulerAway, NotStarting, NotStopping
  <2>2. \A b \in Bots : Destroyed(b) => Destroyed(b)'
    BY <2>1 DEF Destroyed
  <2> QED
    BY <2>1, <2>2 DEF Calm, StopKept
<1> QED
  BY <1>1, <1>2, <1>4, <1>5, <1>6

LEMMA StopStep == StopInv /\ [Next]_vars => StopInv'
<1> SUFFICES ASSUME StopInv, [Next]_vars PROVE StopInv'
  OBVIOUS
<1>0. OwnerInv /\ GoodInv /\ TypeOK /\ TypeOK'
  BY NextTypeOK DEF StopInv, OwnerInv
<1>1. OwnerInv'
  BY <1>0, OwnerStep
<1>2. GoodInv' /\ \A r \in Replicas : Good(r)' => Good(r)
  BY <1>0, GoodStep
<1>3. WellPlaced' /\ InOnePlace'
  <2>1. ASSUME NEW b \in Bots, StartPublish(b)
        PROVE  WellPlaced' /\ InOnePlace'
    BY <1>0, <2>1, PlacePublish DEF StopInv, OwnerInv
  <2>2. ASSUME \A b \in Bots : ~StartPublish(b)
        PROVE  WellPlaced' /\ InOnePlace'
    BY <1>0, <2>2, AllConsume, PlaceStep DEF StopInv
  <2> QED
    BY <2>1, <2>2
<1> DEFINE Rest == NotYetOwned' /\ StopAfterStart' /\ LooseIsRoutable' /\ OneOpen'
<1>4. ASSUME NEW b \in Bots, NEW r \in Replicas, StartSelect(b, r)
      PROVE  Rest
  BY <1>0, <1>2, <1>4, SelectStep
<1>5. ASSUME \A b \in Bots, r \in Replicas : ~StartSelect(b, r)
      PROVE  Rest
  <2>1. Shrinks
    BY <1>5, NextShrinks
  <2>2. ASSUME Calm
        PROVE  Rest
    BY <2>1, <2>2, CalmStep
  <2>3. ASSUME NEW b \in Bots, PostBot(b) \/ StartWrite(b)
        PROVE  Rest
    BY <2>1, <2>3, PostStep, WriteStep
  <2>4. ASSUME NEW b \in Bots, NEW s \in Senders, StopDestroy(b, s) \/ StopOrphan(b, s)
        PROVE  Rest
    BY <2>1, <2>4, DestroyStep, OrphanStep
  <2>5. ASSUME NEW c \in Channels, DeleteChannel(c)
        PROVE  Rest
    BY <2>1, <2>5, DeleteChannelStep
  <2>6. ASSUME NEW r \in Replicas, Reap(r)
        PROVE  Rest
    BY <2>1, <2>6, ReapStep
  <2>7. ASSUME NEW b \in Bots,
               \/ DeleteBot(b) \/ StartRead(b) \/ StartNone(b) \/ StartFails(b) \/ StartPublish(b)
               \/ \E s \in Senders : StopRead(b, s) \/ StopFails(b, s) \/ StopRoute(b, s)
        PROVE  Calm
    BY <1>0, <2>1, <2>7, BotsCalm
  <2> HIDE DEF Rest
  <2>8. CASE \/ \E b \in Bots : PostBot(b) \/ DeleteBot(b) \/ Start(b)
             \/ \E b \in Bots, s \in Senders :
                  \/ StopRead(b, s) \/ StopDestroy(b, s) \/ StopOrphan(b, s)
                  \/ StopFails(b, s) \/ StopRoute(b, s)
             \/ \E r \in Replicas : Reap(r)
             \/ \E c \in Channels : DeleteChannel(c)
    BY <1>5, <2>2, <2>3, <2>4, <2>5, <2>6, <2>7, <2>8 DEF Start
  <2>9. CASE \/ \E r \in Replicas :
                  \/ Register(r) \/ Unregister(r) \/ Deliver(r) \/ Refuse(r)
                  \/ ReplicaDies(r) \/ ReplicaAway(r) \/ ReplicaBack(r)
                  \/ \E c \in Channels : Stream(r, c) \/ BotLeaves(r, c) \/ BotFails(r, c)
             \/ SchedulerCrash \/ SchedulerAway \/ SchedulerReady \/ UNCHANGED vars
    BY <1>0, <2>2, <2>9, OthersCalm
  <2> QED
    BY <2>8, <2>9 DEF Next
<1> QED
  BY <1>1, <1>2, <1>3, <1>4, <1>5 DEF StopInv

LEMMA StopInit == Init => StopInv
<1> SUFFICES ASSUME Init PROVE StopInv
  OBVIOUS
<1>1. OwnerInv /\ TypeOK
  BY OwnerInit, InitTypeOK
<1>2. \A b \in Bots, r \in Replicas : /\ ~Runs(b, r) /\ ~StartSent(b, r) /\ ~Loose(b, r)
                                      /\ \A i : ~Starts(b, r, i)
  BY NoneAssumption, ChannelOfAssumption
     DEF Init, NotStarting, Runs, StartSent, Loose, Starts
<1>3. GoodInv
  BY <1>1 DEF Init, GoodInv, BadReplicas, GoodIsOnline
<1>4. WellPlaced /\ InOnePlace
  BY <1>2, NoneAssumption DEF Init, WellPlaced, InOnePlace
<1>5. \A b \in Bots : starting[b].at = "no" /\ owner[b] = None /\ ~Reading(b)
  BY DEF Init, NotStarting, NotStopping, Reading
<1> QED
  BY <1>1, <1>2, <1>3, <1>4, <1>5
     DEF StopInv, NotYetOwned, StopAfterStart, LooseIsRoutable, OneOpen

\* A bot whose row is gone does not run on untold, whatever was restarted and whatever stop came
\* from whom, but for the cases RemovedIsStopped names.
THEOREM RemovedBotsAreStopped == Spec => []RemovedIsStopped
BY StopInit, StopStep, StopInvImplies, PTL DEF Spec
=============================================================================
