----------------------- MODULE SessionLifecycleProofs -----------------------
(***************************************************************************)
(* Proofs about SessionLifecycle, for any number of channels, Transcribers *)
(* and clients and without a bound that matters.                           *)
(***************************************************************************)
EXTENDS SessionLifecycle, SequenceTheorems, TLAPS

-----------------------------------------------------------------------------
(* Types *)

\* The initial states are well typed and have nothing pending.
LEMMA InitTypeInv == Init => TypeInv
<1> SUFFICES ASSUME Init PROVE TypeInv
  OBVIOUS
<1>1. DatabaseType
  BY DEF Init, DatabaseType, Statuses, Owners
<1>2. ChainType
  BY DEF Init, ChainType, Transaction, NoTransaction, Owners, Statuses
<1>3. HandlerType
  BY DEF Init, HandlerType
<1>4. RequestType /\ BrokerType
  BY DEF Init, RequestType, BrokerType, Snapshots
<1>5. StreamType /\ UsedType
  BY DEF Init, StreamType, UsedType, Owners
<1>6. ChainDiscipline
  BY DEF Init, ChainDiscipline, Publishers
<1> QED
  BY <1>1, <1>2, <1>3, <1>4, <1>5, <1>6 DEF TypeInv, TypeOK

\* Counting an event keeps the counters natural.
LEMMA SpendType ==
  ASSUME UsedType, NEW k \in Kinds, Spend(k)
  PROVE  UsedType'
BY DEF UsedType, Spend

\* A message leaves a chain of tasks, and the first task of each chain.
LEMMA ChainTaskType ==
  ASSUME ChainType, NEW c \in Channels, NEW t \in Transcribers,
         NEW op \in {"active", "inactive", "final"}, ChainTask(c, op, t)
  PROVE  /\ chain' \in [Channels -> Seq(Tasks)]
         /\ \A d \in Channels : chain[d] # <<>> =>
               chain'[d] # <<>> /\ Head(chain'[d]) = Head(chain[d])
<1>1. [op |-> op, by |-> t] \in Tasks
  BY DEF Tasks
<1>2. CASE chain' = chain
  BY <1>2 DEF ChainType
<1>3. CASE chain' = [chain EXCEPT ![c] = Append(@, [op |-> op, by |-> t])]
  <2>1. chain[c] \in Seq(Tasks)
    BY DEF ChainType
  <2>2. /\ Append(chain[c], [op |-> op, by |-> t]) \in Seq(Tasks)
        /\ Append(chain[c], [op |-> op, by |-> t]) # <<>>
        /\ chain[c] # <<>> =>
             Head(Append(chain[c], [op |-> op, by |-> t])) = Head(chain[c])
    BY <1>1, <2>1, AppendProperties, HeadTailAppend, Zenon
  <2> QED
    BY <1>3, <2>2 DEF ChainType
<1> QED
  BY <1>2, <1>3 DEF ChainTask

\* The end of a task leaves a chain of tasks.
LEMMA TailType ==
  ASSUME ChainType, NEW c \in Channels, chain[c] # <<>>
  PROVE  [chain EXCEPT ![c] = Tail(@)] \in [Channels -> Seq(Tasks)]
BY DEF ChainType

\* An updateSession that has written nothing yet is well typed.
LEMMA NoTransactionType == NoTransaction \in Transaction
BY DEF NoTransaction, Transaction, Owners, Statuses

\* updateSession computes a status that a session may have.
LEMMA StatusAfterCountType ==
  ASSUME NEW old \in Statuses, NEW anyActive \in BOOLEAN
  PROVE  StatusAfterCount(old, anyActive) \in Statuses
BY DEF StatusAfterCount, Statuses

\* An updateSession that has begun has a channel update to carry out.
LEMMA HeadTask ==
  ASSUME TypeInv, NEW c \in Channels, worker[c] # "idle"
  PROVE  /\ Head(chain[c]).op \in {"active", "inactive"}
         /\ Head(chain[c]).by \in Transcribers
<1>1. Head(chain[c]) \in Tasks /\ Head(chain[c]).op # "final"
  BY DEF TypeInv, TypeOK, ChainType, ChainDiscipline
<1> QED
  BY <1>1 DEF Tasks

\* What updateSession writes fits the two rows.
LEMMA WriteType ==
  ASSUME TypeInv, NEW c \in Channels, UpdateSessionWrite(c)
  PROVE  txn' \in [Channels -> Transaction]
<1> DEFINE tk     == Head(chain[c])
           hit    == UpdatesChannel(c, tk)
           stream == IF hit THEN tk.op ELSE streamStatus[c]
           owner  == IF tk.op = "active" THEN tk.by
                     ELSE IF hit THEN None ELSE transcriberId[c]
           anyActive == \/ stream = "active"
                        \/ \E d \in Channels \ {c} : streamStatus[d] = "active"
<1> USE DEF TypeInv, TypeOK
<1>2. tk.op \in {"active", "inactive"} /\ tk.by \in Transcribers
  BY HeadTask DEF UpdateSessionWrite
<1>3. stream \in {"active", "inactive"} /\ owner \in Owners
  BY <1>2 DEF DatabaseType, Owners
<1>4. StatusAfterCount(status, anyActive) \in Statuses
  BY StatusAfterCountType DEF DatabaseType
<1>5. hit \in BOOLEAN
  BY DEF UpdatesChannel
<1>6. [hit |-> hit, stream |-> stream, owner |-> owner,
       status |-> StatusAfterCount(status, anyActive)] \in Transaction
  BY <1>3, <1>4, <1>5 DEF Transaction
<1>7. txn' = [txn EXCEPT ![c] = [hit |-> hit, stream |-> stream, owner |-> owner,
                                 status |-> StatusAfterCount(status, anyActive)]]
  BY DEF UpdateSessionWrite
<1> HIDE DEF tk, hit, stream, owner, anyActive
<1> QED
  BY <1>6, <1>7 DEF ChainType

\* Entering publishSessions() only affects the caller's publication.
LEMMA PublishType ==
  ASSUME NEW p \in Publishers, Publish(p),
         publication \in [Publishers -> {"none", "due"} \cup Snapshots]
  PROVE  /\ publication' \in [Publishers -> {"none", "due"} \cup Snapshots]
         /\ \A q \in Publishers \ {p} : publication'[q] = publication[q]
BY DEF Publish

\* A publication of a caller other than a chain leaves the chains alone.
LEMMA PublishKeepsChains ==
  ASSUME BrokerType, ChainDiscipline, NEW p \in Publishers, p \notin Channels,
         \/ Publish(p)
         \/ UNCHANGED publication,
         UNCHANGED <<chain, worker>>
  PROVE  ChainDiscipline'
BY PublishType DEF BrokerType, ChainDiscipline, Publishers

\* A destroyed session has no channel state left.
LEMMA DestroyType ==
  ASSUME DatabaseType, DestroySession, UNCHANGED rowLock
  PROVE  DatabaseType'
BY DEF DatabaseType, DestroySession, AllInactive, Statuses, Owners

\* What the Transcribers do keeps the types.
LEMMA StreamsTypeInv == TypeInv /\ Streams => TypeInv'
<1> SUFFICES ASSUME TypeInv, Streams
             PROVE  TypeInv'
  OBVIOUS
<1> USE DEF TypeInv, TypeOK, database, chains, handlers, scheduler, broker, streams
<1>1. ASSUME NEW t \in Transcribers, NEW c \in Channels, StartStream(t, c)
      PROVE  TypeInv'
  <2>1. ChainType'
    BY <1>1, ChainTaskType DEF StartStream, ChainType, Tasks
  <2>2. StreamType'
    BY <1>1 DEF StartStream, Claim, StreamType, Owners
  <2>3. UsedType'
    BY <1>1, SpendType DEF StartStream, UsedType, Kinds
  <2>4. ChainDiscipline'
    BY <1>1, ChainTaskType DEF StartStream, ChainDiscipline, Tasks
  <2>5. DatabaseType' /\ HandlerType' /\ RequestType' /\ BrokerType'
    BY <1>1 DEF StartStream, DatabaseType, HandlerType, RequestType, BrokerType
  <2> QED
    BY <2>1, <2>2, <2>3, <2>4, <2>5
<1>2. ASSUME NEW t \in Transcribers, NEW c \in Channels, StopStream(t, c)
      PROVE  TypeInv'
  <2>1. ChainType'
    BY <1>2, ChainTaskType DEF StopStream, ChainType, Tasks
  <2>2. StreamType'
    BY <1>2 DEF StopStream, StreamType, Owners
  <2>3. ChainDiscipline'
    BY <1>2, ChainTaskType DEF StopStream, ChainDiscipline, Tasks
  <2>4. DatabaseType' /\ HandlerType' /\ RequestType' /\ BrokerType' /\ UsedType'
    BY <1>2 DEF StopStream, DatabaseType, HandlerType, RequestType, BrokerType,
       UsedType
  <2> QED
    BY <2>1, <2>2, <2>3, <2>4
<1>3. ASSUME NEW t \in Transcribers, NEW c \in Channels, PublishFinal(t, c)
      PROVE  TypeInv'
  <2>1. ChainType'
    BY <1>3, ChainTaskType DEF PublishFinal, ChainType, Tasks
  <2>2. UsedType'
    BY <1>3, SpendType DEF PublishFinal, UsedType, Kinds
  <2>3. ChainDiscipline'
    BY <1>3, ChainTaskType DEF PublishFinal, ChainDiscipline, Tasks
  <2>4. DatabaseType' /\ HandlerType' /\ RequestType' /\ BrokerType' /\ StreamType'
    BY <1>3 DEF PublishFinal, DatabaseType, HandlerType, RequestType,
       BrokerType, StreamType
  <2> QED
    BY <2>1, <2>2, <2>3, <2>4
<1>4. ASSUME NEW t \in Transcribers, Crash(t)
      PROVE  TypeInv'
  <2>1. HandlerType'
    BY <1>4 DEF Crash, HandlerType, Will
  <2>2. StreamType'
    BY <1>4 DEF Crash, StreamType, Owners
  <2>3. UsedType'
    BY <1>4, SpendType DEF Crash, UsedType, Kinds
  <2>4. DatabaseType' /\ ChainType' /\ RequestType' /\ BrokerType' /\ ChainDiscipline'
    BY <1>4 DEF Crash, DatabaseType, ChainType, RequestType, BrokerType,
       ChainDiscipline
  <2> QED
    BY <2>1, <2>2, <2>3, <2>4
<1>5. ASSUME NEW t \in Transcribers, NEW c \in Channels, ReplaceStream(t, c)
      PROVE  TypeInv'
  <2>1. ChainType'
    BY <1>5, ChainTaskType DEF ReplaceStream, ChainType, Tasks
  <2>2. StreamType'
    BY <1>5 DEF ReplaceStream, Claim, StreamType, Owners
  <2>3. UsedType'
    BY <1>5, SpendType DEF ReplaceStream, UsedType, Kinds
  <2>4. ChainDiscipline'
    BY <1>5, ChainTaskType DEF ReplaceStream, ChainDiscipline, Tasks
  <2>5. DatabaseType' /\ HandlerType' /\ RequestType' /\ BrokerType'
    BY <1>5 DEF ReplaceStream, DatabaseType, HandlerType, RequestType, BrokerType
  <2> QED
    BY <2>1, <2>2, <2>3, <2>4, <2>5
<1>6. ASSUME NEW t \in Transcribers, NEW c \in Channels, FlushEnd(t, c)
      PROVE  TypeInv'
  <2>1. ChainType'
    BY <1>6, ChainTaskType DEF FlushEnd, ChainType, Tasks
  <2>2. StreamType'
    BY <1>6 DEF FlushEnd, StreamType
  <2>3. ChainDiscipline'
    BY <1>6, ChainTaskType DEF FlushEnd, ChainDiscipline, Tasks
  <2>4. DatabaseType' /\ HandlerType' /\ RequestType' /\ BrokerType' /\ UsedType'
    BY <1>6 DEF FlushEnd, DatabaseType, HandlerType, RequestType, BrokerType,
       UsedType
  <2> QED
    BY <2>1, <2>2, <2>3, <2>4
<1> QED
  BY <1>1, <1>2, <1>3, <1>4, <1>5, <1>6 DEF Streams

\* The tasks of a chain keep the types.
LEMMA ChainTypeInv == ASSUME TypeInv, NEW c \in Channels, ChainStep(c) PROVE TypeInv'
<1> USE DEF TypeInv, TypeOK, database, chains, handlers, scheduler, broker, streams
<1>1. CASE SaveTranscription(c)
  <2>1. DatabaseType'
    BY <1>1 DEF SaveTranscription, DatabaseType, Statuses
  <2>2. ChainType'
    BY <1>1, TailType DEF SaveTranscription, ChainType, NextTask
  <2>3. ChainDiscipline'
    BY <1>1, TailType DEF SaveTranscription, ChainDiscipline, NextTask
  <2>4. HandlerType' /\ RequestType' /\ BrokerType' /\ StreamType' /\ UsedType'
    BY <1>1 DEF SaveTranscription, HandlerType, RequestType, BrokerType,
       StreamType, UsedType
  <2> QED
    BY <2>1, <2>2, <2>3, <2>4
<1>2. CASE UpdateSessionLock(c)
  <2>1. DatabaseType'
    BY <1>2 DEF UpdateSessionLock, DatabaseType
  <2>2. ChainType'
    BY <1>2 DEF UpdateSessionLock, ChainType
  <2>3. ChainDiscipline'
    BY <1>2 DEF UpdateSessionLock, ChainDiscipline, NextTask
  <2>4. HandlerType' /\ RequestType' /\ BrokerType' /\ StreamType' /\ UsedType'
    BY <1>2 DEF UpdateSessionLock, HandlerType, RequestType, BrokerType,
       StreamType, UsedType
  <2> QED
    BY <2>1, <2>2, <2>3, <2>4
<1>3. CASE UpdateSessionGone(c)
  <2>1. ChainType'
    BY <1>3, TailType DEF UpdateSessionGone, ChainType, NextTask
  <2>2. ChainDiscipline'
    BY <1>3, TailType DEF UpdateSessionGone, ChainDiscipline, NextTask
  <2>3. DatabaseType' /\ HandlerType' /\ RequestType' /\ BrokerType' /\ StreamType' /\ UsedType'
    BY <1>3 DEF UpdateSessionGone, DatabaseType, HandlerType, RequestType,
       BrokerType, StreamType, UsedType
  <2> QED
    BY <2>1, <2>2, <2>3
<1>4. CASE UpdateSessionWrite(c)
  <2>1. ChainType'
    BY <1>4, WriteType DEF UpdateSessionWrite, ChainType
  <2>2. ChainDiscipline'
    BY <1>4 DEF UpdateSessionWrite, ChainDiscipline
  <2>3. DatabaseType' /\ HandlerType' /\ RequestType' /\ BrokerType' /\ StreamType' /\ UsedType'
    BY <1>4 DEF UpdateSessionWrite, DatabaseType, HandlerType, RequestType,
       BrokerType, StreamType, UsedType
  <2> QED
    BY <2>1, <2>2, <2>3
<1>5. CASE UpdateSessionCommit(c)
  <2>1. DatabaseType'
    BY <1>5 DEF UpdateSessionCommit, DatabaseType, ChainType, Transaction
  <2>2. ChainType'
    BY <1>5, NoTransactionType DEF UpdateSessionCommit, ChainType
  <2>3. BrokerType'
    BY <1>5, PublishType DEF UpdateSessionCommit, BrokerType, Publishers
  <2>4. ChainDiscipline'
    BY <1>5 DEF UpdateSessionCommit, ChainDiscipline, ChainType, BrokerType,
       Publish, Publishers
  <2>5. HandlerType' /\ RequestType' /\ StreamType' /\ UsedType'
    BY <1>5 DEF UpdateSessionCommit, HandlerType, RequestType, StreamType,
       UsedType
  <2> QED
    BY <2>1, <2>2, <2>3, <2>4, <2>5
<1> QED
  BY <1>1, <1>2, <1>3, <1>4, <1>5 DEF ChainStep

\* Publications keep the types.
LEMMA PublishTypeInv == ASSUME TypeInv, NEW p \in Publishers, PublishStep(p) PROVE TypeInv'
<1> USE DEF TypeInv, TypeOK, database, chains, handlers, scheduler, broker, streams
<1>1. CASE PublishRead(p)
  <2>1. BrokerType'
    BY <1>1 DEF PublishRead, BrokerType, Snapshot, Snapshots
  <2>2. ChainDiscipline'
    BY <1>1 DEF PublishRead, ChainDiscipline, Publishers
  <2>3. DatabaseType' /\ ChainType' /\ HandlerType' /\ RequestType' /\ StreamType' /\ UsedType'
    BY <1>1 DEF PublishRead, DatabaseType, ChainType, HandlerType, RequestType,
       StreamType, UsedType
  <2> QED
    BY <2>1, <2>2, <2>3
<1>2. CASE PublishSend(p)
  <2>1. BrokerType'
    BY <1>2 DEF PublishSend, BrokerType, Snapshots
  <2>2. ChainType'
    BY <1>2, TailType DEF PublishSend, ChainType, ChainDiscipline, Publishers,
       Snapshots
  <2>3. ChainDiscipline'
    BY <1>2 DEF PublishSend, ChainDiscipline, ChainType, BrokerType, Publishers,
       Snapshots
  <2>4. DatabaseType' /\ HandlerType' /\ RequestType' /\ StreamType' /\ UsedType'
    BY <1>2 DEF PublishSend, DatabaseType, HandlerType, RequestType, StreamType,
       UsedType
  <2> QED
    BY <2>1, <2>2, <2>3, <2>4
<1> QED
  BY <1>1, <1>2 DEF PublishStep

\* unregisterTranscriber keeps the types.
LEMMA UnregisterTypeInv == ASSUME TypeInv, NEW t \in Transcribers, Unregister(t) PROVE TypeInv'
<1> USE DEF TypeInv, TypeOK, database, chains, handlers, scheduler, broker, streams
<1>1. CASE UnregisterChannels(t)
  <2>1. DatabaseType'
    BY <1>1 DEF UnregisterChannels, DatabaseType, Owners
  <2>2. HandlerType'
    BY <1>1 DEF UnregisterChannels, HandlerType
  <2>3. ChainType' /\ RequestType' /\ BrokerType' /\ StreamType' /\ UsedType' /\ ChainDiscipline'
    BY <1>1 DEF UnregisterChannels, ChainType, RequestType, BrokerType,
       StreamType, UsedType, ChainDiscipline
  <2> QED
    BY <2>1, <2>2, <2>3
<1>2. CASE UnregisterSession(t)
  <2>1. DatabaseType'
    BY <1>2 DEF UnregisterSession, DatabaseType, Statuses,
       PausedAtAfterUnregister
  <2>2. HandlerType'
    BY <1>2 DEF UnregisterSession, HandlerType
  <2>3. BrokerType'
    BY <1>2, PublishType DEF UnregisterSession, BrokerType, Publishers
  <2>4. ChainDiscipline'
    BY <1>2, PublishKeepsChains, NoneAssumption DEF UnregisterSession,
       ChainDiscipline, Publishers
  <2>5. ChainType' /\ RequestType' /\ StreamType' /\ UsedType'
    BY <1>2 DEF UnregisterSession, ChainType, RequestType, StreamType, UsedType
  <2> QED
    BY <2>1, <2>2, <2>3, <2>4, <2>5
<1> QED
  BY <1>1, <1>2 DEF Unregister

\* The tick keeps the types.
LEMMA TickTypeInv == TypeInv /\ TickStep => TypeInv'
<1> SUFFICES ASSUME TypeInv, TickStep
             PROVE  TypeInv'
  OBVIOUS
<1> USE DEF TypeInv, TypeOK, database, chains, handlers, scheduler, broker, streams
<1>1. CASE TickAutoStart
  <2>1. DatabaseType'
    BY <1>1 DEF TickAutoStart, TickUnchanged, DatabaseType, Statuses
  <2>2. HandlerType'
    BY <1>1 DEF TickAutoStart, TickUnchanged, HandlerType
  <2>3. ChainType' /\ RequestType' /\ BrokerType' /\ StreamType' /\ UsedType' /\ ChainDiscipline'
    BY <1>1 DEF TickAutoStart, TickUnchanged, ChainType, RequestType,
       BrokerType, StreamType, UsedType, ChainDiscipline
  <2> QED
    BY <2>1, <2>2, <2>3
<1>2. CASE TickAutoEnd
  <2>1. DatabaseType'
    BY <1>2 DEF TickAutoEnd, TickUnchanged, DatabaseType, Statuses, AllInactive
  <2>2. HandlerType'
    BY <1>2 DEF TickAutoEnd, TickUnchanged, HandlerType
  <2>3. BrokerType'
    BY <1>2 DEF TickAutoEnd, TickUnchanged, BrokerType, Announce
  <2>4. ChainType' /\ RequestType' /\ StreamType' /\ UsedType' /\ ChainDiscipline'
    BY <1>2 DEF TickAutoEnd, TickUnchanged, ChainType, RequestType, StreamType,
       UsedType, ChainDiscipline
  <2> QED
    BY <2>1, <2>2, <2>3, <2>4
<1>3. CASE TickFindStuck
  <2>1. HandlerType'
    BY <1>3 DEF TickFindStuck, TickUnchanged, HandlerType
  <2>2. DatabaseType' /\ ChainType' /\ RequestType' /\ BrokerType' /\ StreamType' /\ UsedType' /\ ChainDiscipline'
    BY <1>3 DEF TickFindStuck, TickUnchanged, DatabaseType, ChainType,
       RequestType, BrokerType, StreamType, UsedType, ChainDiscipline
  <2> QED
    BY <2>1, <2>2
<1>4. CASE TickNotStuck
  <2>1. HandlerType'
    BY <1>4 DEF TickNotStuck, TickUnchanged, HandlerType, TickDone
  <2>2. BrokerType'
    BY <1>4 DEF TickNotStuck, TickUnchanged, BrokerType, TickDone, Publishers
  <2>3. ChainDiscipline'
    BY <1>4, NoneAssumption DEF TickNotStuck, TickUnchanged, ChainDiscipline,
       TickDone, Publishers
  <2>4. DatabaseType' /\ ChainType' /\ RequestType' /\ StreamType' /\ UsedType'
    BY <1>4 DEF TickNotStuck, TickUnchanged, DatabaseType, ChainType,
       RequestType, StreamType, UsedType
  <2> QED
    BY <2>1, <2>2, <2>3, <2>4
<1>5. CASE TickHeal
  <2>1. DatabaseType'
    BY <1>5 DEF TickHeal, TickUnchanged, DatabaseType, Statuses
  <2>2. HandlerType'
    BY <1>5 DEF TickHeal, TickUnchanged, HandlerType, TickDone
  <2>3. BrokerType'
    BY <1>5 DEF TickHeal, TickUnchanged, BrokerType, TickDone, Publishers
  <2>4. ChainDiscipline'
    BY <1>5, NoneAssumption DEF TickHeal, TickUnchanged, ChainDiscipline,
       TickDone, Publishers
  <2>5. ChainType' /\ RequestType' /\ StreamType' /\ UsedType'
    BY <1>5 DEF TickHeal, TickUnchanged, ChainType, RequestType, StreamType,
       UsedType
  <2> QED
    BY <2>1, <2>2, <2>3, <2>4, <2>5
<1> QED
  BY <1>1, <1>2, <1>3, <1>4, <1>5 DEF TickStep

\* endBotSession keeps the types.
LEMMA BotEndTypeInv == ASSUME TypeInv, NEW c \in Channels, BotEnd(c) PROVE TypeInv'
<1> USE DEF TypeInv, TypeOK, database, chains, handlers, scheduler, broker, streams
<1>1. CASE BotEndRead(c)
  <2>1. HandlerType'
    BY <1>1 DEF BotEndRead, HandlerType
  <2>2. UsedType'
    BY <1>1, SpendType DEF BotEndRead, UsedType, Kinds
  <2>3. DatabaseType' /\ ChainType' /\ RequestType' /\ BrokerType' /\ StreamType' /\ ChainDiscipline'
    BY <1>1 DEF BotEndRead, DatabaseType, ChainType, RequestType, BrokerType,
       StreamType, ChainDiscipline
  <2> QED
    BY <2>1, <2>2, <2>3
<1>2. CASE BotEndCommit(c)
  <2>1. DatabaseType'
    BY <1>2 DEF BotEndCommit, DatabaseType, Statuses, AllInactive
  <2>2. HandlerType'
    BY <1>2 DEF BotEndCommit, HandlerType
  <2>3. BrokerType'
    BY <1>2 DEF BotEndCommit, BrokerType, Announce
  <2>4. ChainType' /\ RequestType' /\ StreamType' /\ UsedType' /\ ChainDiscipline'
    BY <1>2 DEF BotEndCommit, ChainType, RequestType, StreamType, UsedType,
       ChainDiscipline
  <2> QED
    BY <2>1, <2>2, <2>3, <2>4
<1> QED
  BY <1>1, <1>2 DEF BotEnd

\* Faults, and the resets that follow, keep the types.
LEMMA FaultsTypeInv == TypeInv /\ Faults => TypeInv'
<1> SUFFICES ASSUME TypeInv, Faults
             PROVE  TypeInv'
  OBVIOUS
<1> USE DEF TypeInv, TypeOK, database, chains, handlers, scheduler, broker, streams
<1>1. CASE SchedulerOffline
  <2>1. HandlerType'
    BY <1>1 DEF SchedulerOffline, HandlerType
  <2>2. UsedType'
    BY <1>1, SpendType DEF SchedulerOffline, UsedType, Kinds
  <2>3. DatabaseType' /\ ChainType' /\ RequestType' /\ BrokerType' /\ StreamType' /\ ChainDiscipline'
    BY <1>1 DEF SchedulerOffline, DatabaseType, ChainType, RequestType,
       BrokerType, StreamType, ChainDiscipline
  <2> QED
    BY <2>1, <2>2, <2>3
<1>2. CASE SchedulerCrash
  <2>1. DatabaseType'
    BY <1>2 DEF SchedulerCrash, DatabaseType
  <2>2. ChainType'
    BY <1>2, NoTransactionType DEF SchedulerCrash, ChainType
  <2>3. HandlerType'
    BY <1>2 DEF SchedulerCrash, HandlerType
  <2>4. BrokerType'
    BY <1>2 DEF SchedulerCrash, BrokerType
  <2>5. UsedType'
    BY <1>2, SpendType DEF SchedulerCrash, UsedType, Kinds
  <2>6. ChainDiscipline'
    BY <1>2, NoneAssumption DEF SchedulerCrash, ChainDiscipline, Publishers
  <2>7. RequestType' /\ StreamType'
    BY <1>2 DEF SchedulerCrash, RequestType, StreamType
  <2> QED
    BY <2>1, <2>2, <2>3, <2>4, <2>5, <2>6, <2>7
<1>3. CASE SchedulerReady
  <2>1. HandlerType'
    BY <1>3 DEF SchedulerReady, HandlerType
  <2>2. DatabaseType' /\ ChainType' /\ RequestType' /\ BrokerType' /\ StreamType' /\ UsedType' /\ ChainDiscipline'
    BY <1>3 DEF SchedulerReady, DatabaseType, ChainType, RequestType,
       BrokerType, StreamType, UsedType, ChainDiscipline
  <2> QED
    BY <2>1, <2>2
<1>4. CASE ResetChannels
  <2>1. DatabaseType'
    BY <1>4 DEF ResetChannels, DatabaseType, AllInactive
  <2>2. HandlerType'
    BY <1>4 DEF ResetChannels, HandlerType
  <2>3. ChainType' /\ RequestType' /\ BrokerType' /\ StreamType' /\ UsedType' /\ ChainDiscipline'
    BY <1>4 DEF ResetChannels, ChainType, RequestType, BrokerType, StreamType,
       UsedType, ChainDiscipline
  <2> QED
    BY <2>1, <2>2, <2>3
<1>5. CASE ResetSession
  <2>1. DatabaseType'
    BY <1>5 DEF ResetSession, DatabaseType, Statuses
  <2>2. HandlerType'
    BY <1>5 DEF ResetSession, HandlerType
  <2>3. ChainType' /\ RequestType' /\ BrokerType' /\ StreamType' /\ UsedType' /\ ChainDiscipline'
    BY <1>5 DEF ResetSession, ChainType, RequestType, BrokerType, StreamType,
       UsedType, ChainDiscipline
  <2> QED
    BY <2>1, <2>2, <2>3
<1>6. ASSUME NEW t \in Transcribers, Disconnect(t)
      PROVE  TypeInv'
  <2>1. HandlerType'
    BY <1>6 DEF Disconnect, HandlerType, Will
  <2>2. StreamType'
    BY <1>6 DEF Disconnect, StreamType, Owners
  <2>3. UsedType'
    BY <1>6, SpendType DEF Disconnect, UsedType, Kinds
  <2>4. DatabaseType' /\ ChainType' /\ RequestType' /\ BrokerType' /\ ChainDiscipline'
    BY <1>6 DEF Disconnect, DatabaseType, ChainType, RequestType, BrokerType,
       ChainDiscipline
  <2> QED
    BY <2>1, <2>2, <2>3, <2>4
<1>7. ASSUME NEW t \in Transcribers, Reconnect(t)
      PROVE  TypeInv'
  <2>1. StreamType'
    BY <1>7 DEF Reconnect, StreamType
  <2>2. BrokerType'
    BY <1>7, PublishType DEF Reconnect, BrokerType, Publishers
  <2>3. ChainDiscipline'
    BY <1>7, PublishKeepsChains, NoneAssumption DEF Reconnect, ChainDiscipline,
       Publishers
  <2>4. DatabaseType' /\ ChainType' /\ HandlerType' /\ RequestType' /\ UsedType'
    BY <1>7 DEF Reconnect, DatabaseType, ChainType, HandlerType, RequestType,
       UsedType
  <2> QED
    BY <2>1, <2>2, <2>3, <2>4
<1>8. ASSUME NEW c \in Channels, UpdateSessionRollback(c)
      PROVE  TypeInv'
  <2>1. DatabaseType'
    BY <1>8 DEF UpdateSessionRollback, DatabaseType
  <2>2. ChainType'
    BY <1>8, TailType, NoTransactionType DEF UpdateSessionRollback, ChainType,
       ChainDiscipline
  <2>3. UsedType'
    BY <1>8, SpendType DEF UpdateSessionRollback, UsedType, Kinds
  <2>4. ChainDiscipline'
    BY <1>8 DEF UpdateSessionRollback, ChainDiscipline, ChainType
  <2>5. HandlerType' /\ RequestType' /\ BrokerType' /\ StreamType'
    BY <1>8 DEF UpdateSessionRollback, HandlerType, RequestType, BrokerType,
       StreamType
  <2> QED
    BY <2>1, <2>2, <2>3, <2>4, <2>5
<1> QED
  BY <1>1, <1>2, <1>3, <1>4, <1>5, <1>6, <1>7, <1>8 DEF Faults

\* A new request keeps the types.
LEMMA NewRequestsTypeInv == ASSUME TypeInv, NEW a \in Clients, NewRequests(a) PROVE TypeInv'
<1> USE DEF TypeInv, TypeOK, database, chains, handlers, scheduler, broker, streams
<1>1. CASE Pause(a)
  <2>1. DatabaseType'
    BY <1>1 DEF Pause, NewRequest, DatabaseType, Statuses
  <2>2. BrokerType'
    BY <1>1, PublishType DEF Pause, NewRequest, BrokerType, Publishers
  <2>3. UsedType'
    BY <1>1, SpendType DEF Pause, NewRequest, UsedType, Kinds
  <2>4. ChainDiscipline'
    BY <1>1, PublishKeepsChains, NoneAssumption DEF Pause, NewRequest,
       ChainDiscipline, Publishers
  <2>5. ChainType' /\ HandlerType' /\ RequestType' /\ StreamType'
    BY <1>1 DEF Pause, NewRequest, ChainType, HandlerType, RequestType,
       StreamType
  <2> QED
    BY <2>1, <2>2, <2>3, <2>4, <2>5
<1>2. CASE Resume(a)
  <2>1. DatabaseType'
    BY <1>2 DEF Resume, NewRequest, DatabaseType, Statuses
  <2>2. BrokerType'
    BY <1>2, PublishType DEF Resume, NewRequest, BrokerType, Publishers
  <2>3. UsedType'
    BY <1>2, SpendType DEF Resume, NewRequest, UsedType, Kinds
  <2>4. ChainDiscipline'
    BY <1>2, PublishKeepsChains, NoneAssumption DEF Resume, NewRequest,
       ChainDiscipline, Publishers
  <2>5. ChainType' /\ HandlerType' /\ RequestType' /\ StreamType'
    BY <1>2 DEF Resume, NewRequest, ChainType, HandlerType, RequestType,
       StreamType
  <2> QED
    BY <2>1, <2>2, <2>3, <2>4, <2>5
<1>3. CASE ClearCheck(a)
  <2>1. RequestType'
    BY <1>3 DEF ClearCheck, NewRequest, Proceed, RequestType
  <2>2. UsedType'
    BY <1>3, SpendType DEF ClearCheck, NewRequest, Proceed, UsedType, Kinds
  <2>3. DatabaseType' /\ ChainType' /\ HandlerType' /\ BrokerType' /\ StreamType' /\ ChainDiscipline'
    BY <1>3 DEF ClearCheck, NewRequest, Proceed, DatabaseType, ChainType,
       HandlerType, BrokerType, StreamType, ChainDiscipline
  <2> QED
    BY <2>1, <2>2, <2>3
<1>4. ASSUME NEW force, NEW waitFinal, StopCheck(a, force, waitFinal)
      PROVE  TypeInv'
  <2>1. RequestType'
    BY <1>4 DEF StopCheck, NewRequest, Proceed, RequestType
  <2>2. UsedType'
    BY <1>4, SpendType DEF StopCheck, NewRequest, Proceed, UsedType, Kinds
  <2>3. DatabaseType' /\ ChainType' /\ HandlerType' /\ BrokerType' /\ StreamType' /\ ChainDiscipline'
    BY <1>4 DEF StopCheck, NewRequest, Proceed, DatabaseType, ChainType,
       HandlerType, BrokerType, StreamType, ChainDiscipline
  <2> QED
    BY <2>1, <2>2, <2>3
<1>5. ASSUME NEW force, DeleteCheck(a, force)
      PROVE  TypeInv'
  <2>1. RequestType'
    BY <1>5 DEF DeleteCheck, NewRequest, Proceed, RequestType
  <2>2. UsedType'
    BY <1>5, SpendType DEF DeleteCheck, NewRequest, Proceed, UsedType, Kinds
  <2>3. DatabaseType' /\ ChainType' /\ HandlerType' /\ BrokerType' /\ StreamType' /\ ChainDiscipline'
    BY <1>5 DEF DeleteCheck, NewRequest, Proceed, DatabaseType, ChainType,
       HandlerType, BrokerType, StreamType, ChainDiscipline
  <2> QED
    BY <2>1, <2>2, <2>3
<1>6. ASSUME NEW force, Purge(a, force)
      PROVE  TypeInv'
  <2>1. DatabaseType'
    BY <1>6, DestroyType DEF Purge, NewRequest, DatabaseType
  <2>2. BrokerType'
    BY <1>6, PublishType DEF Purge, NewRequest, BrokerType, Publishers
  <2>3. UsedType'
    BY <1>6, SpendType DEF Purge, NewRequest, UsedType, Kinds
  <2>4. ChainDiscipline'
    BY <1>6, PublishKeepsChains, NoneAssumption DEF Purge, NewRequest,
       ChainDiscipline, Publishers
  <2>5. ChainType' /\ HandlerType' /\ RequestType' /\ StreamType'
    BY <1>6 DEF Purge, NewRequest, ChainType, HandlerType, RequestType,
       StreamType
  <2> QED
    BY <2>1, <2>2, <2>3, <2>4, <2>5
<1> QED
  BY <1>1, <1>2, <1>3, <1>4, <1>5, <1>6 DEF NewRequests

\* The later steps of a request keep the types.
LEMMA RequestTypeInv == ASSUME TypeInv, NEW a \in Clients, RequestStep(a) PROVE TypeInv'
<1> USE DEF TypeInv, TypeOK, database, chains, handlers, scheduler, broker, streams
<1>1. CASE StopTerminate(a)
  <2>1. DatabaseType'
    BY <1>1 DEF StopTerminate, Proceed, DatabaseType, Statuses
  <2>2. RequestType'
    BY <1>1 DEF StopTerminate, Proceed, RequestType
  <2>3. BrokerType'
    BY <1>1, PublishType DEF StopTerminate, Proceed, BrokerType, Publishers
  <2>4. ChainDiscipline'
    BY <1>1, PublishKeepsChains, NoneAssumption DEF StopTerminate, Proceed,
       ChainDiscipline, Publishers
  <2>5. ChainType' /\ HandlerType' /\ StreamType' /\ UsedType'
    BY <1>1 DEF StopTerminate, Proceed, ChainType, HandlerType, StreamType,
       UsedType
  <2> QED
    BY <2>1, <2>2, <2>3, <2>4, <2>5
<1>2. CASE StopChannels(a)
  <2>1. DatabaseType'
    BY <1>2 DEF StopChannels, Proceed, DatabaseType, ForceInactive, AllInactive
  <2>2. RequestType'
    BY <1>2 DEF StopChannels, Proceed, RequestType
  <2>3. BrokerType'
    BY <1>2, PublishType DEF StopChannels, Proceed, BrokerType, Publishers
  <2>4. ChainDiscipline'
    BY <1>2, PublishKeepsChains, NoneAssumption DEF StopChannels, Proceed,
       ChainDiscipline, Publishers
  <2>5. ChainType' /\ HandlerType' /\ StreamType' /\ UsedType'
    BY <1>2 DEF StopChannels, Proceed, ChainType, HandlerType, StreamType,
       UsedType
  <2> QED
    BY <2>1, <2>2, <2>3, <2>4, <2>5
<1>3. CASE Drained(a)
  <2>1. RequestType'
    BY <1>3 DEF Drained, Proceed, RequestType
  <2>2. DatabaseType' /\ ChainType' /\ HandlerType' /\ BrokerType' /\ StreamType' /\ UsedType' /\ ChainDiscipline'
    BY <1>3 DEF Drained, Proceed, DatabaseType, ChainType, HandlerType,
       BrokerType, StreamType, UsedType, ChainDiscipline
  <2> QED
    BY <2>1, <2>2
<1>4. CASE DrainTimeout(a)
  <2>1. RequestType'
    BY <1>4 DEF DrainTimeout, Proceed, RequestType
  <2>2. DatabaseType' /\ ChainType' /\ HandlerType' /\ BrokerType' /\ StreamType' /\ UsedType' /\ ChainDiscipline'
    BY <1>4 DEF DrainTimeout, Proceed, DatabaseType, ChainType, HandlerType,
       BrokerType, StreamType, UsedType, ChainDiscipline
  <2> QED
    BY <2>1, <2>2
<1>5. CASE StopNormalize(a)
  <2>1. DatabaseType'
    BY <1>5 DEF StopNormalize, Proceed, DatabaseType, ForceInactive, AllInactive
  <2>2. RequestType'
    BY <1>5 DEF StopNormalize, Proceed, RequestType
  <2>3. ChainType' /\ HandlerType' /\ BrokerType' /\ StreamType' /\ UsedType' /\ ChainDiscipline'
    BY <1>5 DEF StopNormalize, Proceed, ChainType, HandlerType, BrokerType,
       StreamType, UsedType, ChainDiscipline
  <2> QED
    BY <2>1, <2>2, <2>3
<1>6. CASE ClearWipe(a)
  <2>1. DatabaseType'
    BY <1>6 DEF ClearWipe, Proceed, DatabaseType
  <2>2. RequestType'
    BY <1>6 DEF ClearWipe, Proceed, RequestType
  <2>3. BrokerType'
    BY <1>6, PublishType DEF ClearWipe, Proceed, BrokerType, Publishers
  <2>4. ChainDiscipline'
    BY <1>6, PublishKeepsChains, NoneAssumption DEF ClearWipe, Proceed,
       ChainDiscipline, Publishers
  <2>5. ChainType' /\ HandlerType' /\ StreamType' /\ UsedType'
    BY <1>6 DEF ClearWipe, Proceed, ChainType, HandlerType, StreamType, UsedType
  <2> QED
    BY <2>1, <2>2, <2>3, <2>4, <2>5
<1>7. CASE DeleteDestroy(a)
  <2>1. DatabaseType'
    BY <1>7, DestroyType DEF DeleteDestroy, Proceed, DatabaseType
  <2>2. RequestType'
    BY <1>7 DEF DeleteDestroy, Proceed, RequestType
  <2>3. BrokerType'
    BY <1>7, PublishType DEF DeleteDestroy, Proceed, BrokerType, Publishers
  <2>4. ChainDiscipline'
    BY <1>7, PublishKeepsChains, NoneAssumption DEF DeleteDestroy, Proceed,
       ChainDiscipline, Publishers
  <2>5. ChainType' /\ HandlerType' /\ StreamType' /\ UsedType'
    BY <1>7 DEF DeleteDestroy, Proceed, ChainType, HandlerType, StreamType,
       UsedType
  <2> QED
    BY <2>1, <2>2, <2>3, <2>4, <2>5
<1> QED
  BY <1>1, <1>2, <1>3, <1>4, <1>5, <1>6, <1>7 DEF RequestStep


\* No step leaves the types.
LEMMA NextTypeInv == TypeInv /\ [Next]_vars => TypeInv'
<1> SUFFICES ASSUME TypeInv, [Next]_vars
             PROVE  TypeInv'
  OBVIOUS
<1>1. CASE UNCHANGED vars
  BY <1>1 DEF TypeInv, TypeOK, ChainDiscipline, DatabaseType, ChainType,
     HandlerType, RequestType, BrokerType, StreamType, UsedType, vars, database,
     scheduler, chains, handlers, broker, streams
<1>2. CASE SteadyNext
  BY <1>2, StreamsTypeInv, ChainTypeInv, BotEndTypeInv, UnregisterTypeInv,
     PublishTypeInv, TickTypeInv, NewRequestsTypeInv, RequestTypeInv DEF SteadyNext
<1>3. CASE Faults
  BY <1>3, FaultsTypeInv
<1> QED
  BY <1>1, <1>2, <1>3 DEF Next

\* The chains of the Scheduler are disciplined and every variable keeps its
\* type: in particular a final is never handled as a channel update.
THEOREM TypeCorrectness == Spec => []TypeInv
  BY InitTypeInv, NextTypeInv, PTL DEF Spec

-----------------------------------------------------------------------------
(* The session's row: who writes it, and what survives a write *)

\* The session's row, its lock, and the transactions that hold it.
row == <<status, pausedAt, rowLock, worker, txn>>

WritesRow ==
    \/ \E c \in Channels :
         \/ UpdateSessionLock(c) \/ UpdateSessionWrite(c) \/ UpdateSessionCommit(c)
         \/ UpdateSessionRollback(c) \/ BotEndCommit(c)
    \/ \E p \in Publishers : PublishSend(p)
    \/ \E t \in Transcribers : UnregisterSession(t)
    \/ TickAutoStart \/ TickAutoEnd \/ TickHeal
    \/ SchedulerCrash \/ ResetSession
    \/ \E a \in Clients :
         \/ Pause(a) \/ Resume(a) \/ StopTerminate(a) \/ DeleteDestroy(a)
         \/ \E force \in Forces : Purge(a, force)

\* Every other step leaves the session's row alone.
LEMMA OnlyWriters == [Next]_vars => WritesRow \/ UNCHANGED row
<1> SUFFICES ASSUME [Next]_vars, ~WritesRow
             PROVE  UNCHANGED row
  OBVIOUS
<1> USE DEF row, WritesRow, database, scheduler, chains, handlers
<1>1. CASE UNCHANGED vars
  BY <1>1 DEF vars
<1>2. CASE Streams
  BY <1>2 DEF Streams, StartStream, StopStream, PublishFinal, Crash,
       ReplaceStream, FlushEnd
<1>3. ASSUME NEW c \in Channels, ChainStep(c) \/ BotEnd(c)
      PROVE  UNCHANGED row
  BY <1>3 DEF ChainStep, SaveTranscription, UpdateSessionGone, BotEnd, BotEndRead
<1>4. ASSUME NEW t \in Transcribers, Unregister(t)
      PROVE  UNCHANGED row
  BY <1>4 DEF Unregister, UnregisterChannels
<1>5. ASSUME NEW p \in Publishers, PublishStep(p)
      PROVE  UNCHANGED row
  BY <1>5 DEF PublishStep, PublishRead
<1>6. CASE TickStep
  BY <1>6 DEF TickStep, TickFindStuck, TickNotStuck, TickUnchanged
<1>7. ASSUME NEW a \in Clients, NewRequests(a)
      PROVE  UNCHANGED row
  BY <1>7 DEF NewRequests, ClearCheck, StopCheck, DeleteCheck
<1>8. ASSUME NEW a \in Clients, RequestStep(a)
      PROVE  UNCHANGED row
  BY <1>8 DEF RequestStep, StopChannels, Drained, DrainTimeout, StopNormalize, ClearWipe
<1>9. CASE Faults
  BY <1>9 DEF Faults, SchedulerOffline, SchedulerReady, ResetChannels, Disconnect, Reconnect
<1> QED
  BY <1>1, <1>2, <1>3, <1>4, <1>5, <1>6, <1>7, <1>8, <1>9 DEF Next, SteadyNext

\* A write that had to wait for the row's lock finds no transaction open, so
\* it cannot make one stale.
LEMMA UnlockedWrite ==
  ASSUME TypeInv, RowLockDiscipline, SessionUnlocked, UNCHANGED <<rowLock, worker, txn>>
  PROVE  RowLockDiscipline'
<1>1. \A c \in Channels : worker[c] \notin {"locked", "written"}
  BY NoneAssumption DEF RowLockDiscipline, SessionUnlocked
<1> QED
  BY <1>1 DEF RowLockDiscipline

\* Taking, keeping and releasing the lock.
LEMMA RowLockStep == TypeInv /\ RowLockDiscipline /\ [Next]_vars => RowLockDiscipline'
<1> SUFFICES ASSUME TypeInv, RowLockDiscipline, [Next]_vars
             PROVE  RowLockDiscipline'
  OBVIOUS
<1> USE DEF TypeInv, TypeOK
<1>1. CASE UNCHANGED row
  BY <1>1 DEF row, RowLockDiscipline
<1>2. ASSUME NEW c \in Channels, UpdateSessionLock(c)
      PROVE  RowLockDiscipline'
  <2>1. \A d \in Channels : worker[d] \notin {"locked", "written"}
    BY <1>2, NoneAssumption DEF UpdateSessionLock, RowLockDiscipline, SessionUnlocked
  <2> QED
    BY <1>2, <2>1 DEF UpdateSessionLock, RowLockDiscipline, ChainType
<1>3. ASSUME NEW c \in Channels, UpdateSessionWrite(c)
      PROVE  RowLockDiscipline'
  <2>1. \A d \in Channels \ {c} : worker[d] \notin {"locked", "written"}
    BY <1>3 DEF UpdateSessionWrite, RowLockDiscipline
  <2>2. PICK anyActive \in BOOLEAN : txn'[c].status = StatusAfterCount(status, anyActive)
    BY <1>3 DEF UpdateSessionWrite, ChainType
  <2>3. rowLock' = c /\ status' = status /\ status # "deleted"
    BY <1>3 DEF UpdateSessionWrite, RowLockDiscipline, database
  <2>4. worker' = [worker EXCEPT ![c] = "written"]
    BY <1>3 DEF UpdateSessionWrite
  <2> QED
    BY <2>1, <2>2, <2>3, <2>4 DEF RowLockDiscipline, ChainType, StatusAfterCount
<1>4. ASSUME NEW c \in Channels, UpdateSessionCommit(c) \/ UpdateSessionRollback(c)
      PROVE  RowLockDiscipline'
  <2>1. \A d \in Channels \ {c} : worker[d] \notin {"locked", "written"}
    BY <1>4 DEF UpdateSessionCommit, UpdateSessionRollback, RowLockDiscipline
  <2> QED
    BY <1>4, <2>1 DEF UpdateSessionCommit, UpdateSessionRollback, RowLockDiscipline, ChainType
<1>5. ASSUME NEW p \in Publishers, PublishSend(p)
      PROVE  RowLockDiscipline'
  BY <1>5 DEF PublishSend, RowLockDiscipline, ChainType, database
<1>6. CASE SchedulerCrash
  BY <1>6 DEF SchedulerCrash, RowLockDiscipline
<1>7. CASE \/ TickAutoStart \/ TickAutoEnd \/ TickHeal \/ ResetSession
           \/ \E c \in Channels : BotEndCommit(c)
           \/ \E t \in Transcribers : UnregisterSession(t)
  <2>1. SessionUnlocked \/ UNCHANGED row
    BY <1>7 DEF TickAutoStart, TickAutoEnd, TickHeal, ResetSession, BotEndCommit,
       UnregisterSession, TickUnchanged, row
  <2>2. UNCHANGED <<rowLock, worker, txn>>
    BY <1>7 DEF TickAutoStart, TickAutoEnd, TickHeal, ResetSession, BotEndCommit,
       UnregisterSession, TickUnchanged
  <2> QED
    BY <1>1, <2>1, <2>2, UnlockedWrite
<1>8. ASSUME NEW a \in Clients,
             \/ Pause(a) \/ Resume(a) \/ StopTerminate(a) \/ DeleteDestroy(a)
             \/ \E force \in Forces : Purge(a, force)
      PROVE  RowLockDiscipline'
  <2>1. SessionUnlocked
    BY <1>8 DEF Pause, Resume, StopTerminate, DeleteDestroy, Purge
  <2>2. UNCHANGED <<rowLock, worker, txn>>
    BY <1>8 DEF Pause, Resume, StopTerminate, DeleteDestroy, Purge, scheduler, chains
  <2> QED
    BY <2>1, <2>2, UnlockedWrite
<1> QED
  BY <1>1, <1>2, <1>3, <1>4, <1>5, <1>6, <1>7, <1>8, OnlyWriters DEF WritesRow

\* At most one updateSession holds the session's row, and what it has computed
\* from the row is not stale when it commits.
THEOREM RowLockSafety == Spec => []RowLockDiscipline
<1>1. Init => RowLockDiscipline
  BY DEF Init, RowLockDiscipline
<1>2. Spec => []TypeInv
  BY InitTypeInv, NextTypeInv, PTL DEF Spec
<1> QED
  BY <1>1, <1>2, RowLockStep, PTL DEF Spec

-----------------------------------------------------------------------------
(* What a write may do to the status *)

\* No step but a resume takes a session out of a pause, and none at all out of
\* its end, except for a will once no channel streams: the recount of
\* updateSession keeps both because its transaction is not stale.
LEMMA StatusStep ==
  ASSUME TypeInv, RowLockDiscipline, [Next]_vars
  PROVE  /\ status = "terminated" => status' \in {"terminated", "deleted"}
         /\ status = "paused" =>
              \/ status' \in {"paused", "terminated", "deleted"}
              \/ status' = "ready" /\ NoneActive
              \/ status' = "active" /\ \E a \in Clients : Resume(a)
<1> DEFINE Kept ==
      /\ status = "terminated" => status' \in {"terminated", "deleted"}
      /\ status = "paused" =>
           \/ status' \in {"paused", "terminated", "deleted"}
           \/ status' = "ready" /\ NoneActive
           \/ status' = "active" /\ \E a \in Clients : Resume(a)
<1>1. CASE UNCHANGED row
  BY <1>1 DEF row
<1>2. ASSUME NEW c \in Channels,
             \/ UpdateSessionLock(c) \/ UpdateSessionWrite(c)
             \/ UpdateSessionRollback(c) \/ BotEndCommit(c)
      PROVE  Kept
  BY <1>2 DEF UpdateSessionLock, UpdateSessionWrite, UpdateSessionRollback,
     BotEndCommit, database
<1>3. ASSUME NEW c \in Channels, UpdateSessionCommit(c)
      PROVE  Kept
  BY <1>3 DEF UpdateSessionCommit, RowLockDiscipline
<1>4. ASSUME NEW p \in Publishers, PublishSend(p)
      PROVE  Kept
  BY <1>4 DEF PublishSend, database
<1>5. ASSUME NEW t \in Transcribers, UnregisterSession(t)
      PROVE  Kept
  BY <1>5 DEF UnregisterSession, Downgraded
<1>6. CASE TickAutoStart \/ TickAutoEnd \/ TickHeal \/ SchedulerCrash \/ ResetSession
  BY <1>6 DEF TickAutoStart, TickAutoEnd, TickHeal, SchedulerCrash, ResetSession
<1>7. ASSUME NEW a \in Clients, Pause(a) \/ Resume(a) \/ StopTerminate(a) \/ DeleteDestroy(a)
      PROVE  Kept
  BY <1>7 DEF Pause, Resume, StopTerminate, DeleteDestroy, DestroySession
<1>8. ASSUME NEW a \in Clients, NEW force \in Forces, Purge(a, force)
      PROVE  Kept
  BY <1>8 DEF Purge, DestroySession
<1> QED
  BY <1>1, <1>2, <1>3, <1>4, <1>5, <1>6, <1>7, <1>8, OnlyWriters DEF WritesRow

\* 'terminated' is sticky, whatever is late, lost or restarted.
THEOREM TerminatedForGood == Spec => TerminatedIsFinal
<1>1. TypeInv /\ RowLockDiscipline /\ [Next]_vars
        => [status = "terminated" => status' \in {"terminated", "deleted"}]_vars
  BY StatusStep
<1>2. Spec => []TypeInv
  BY InitTypeInv, NextTypeInv, PTL DEF Spec
<1> QED
  BY <1>1, <1>2, RowLockSafety, PTL DEF Spec, TerminatedIsFinal

\* A pause ends only by a resume, by the end of the session, or by a will when
\* no channel streams.
THEOREM PauseIsKept == Spec => PauseSurvives
<1>1. TypeInv /\ RowLockDiscipline /\ [Next]_vars
        => [status = "paused" =>
              \/ status' \in {"paused", "terminated", "deleted"}
              \/ status' = "ready" /\ NoneActive
              \/ status' = "active" /\ \E a \in Clients : Resume(a)]_vars
  BY StatusStep
<1>2. Spec => []TypeInv
  BY InitTypeInv, NextTypeInv, PTL DEF Spec
<1> QED
  BY <1>1, <1>2, RowLockSafety, PTL DEF Spec, PauseSurvives

\* pausedAt follows the status.
LEMMA PausedAtStep ==
  ASSUME TypeInv, RowLockDiscipline, PausedAtMatchesStatus, [Next]_vars
  PROVE  PausedAtMatchesStatus'
<1> USE DEF TypeInv, TypeOK, DatabaseType, PausedAtMatchesStatus
<1>1. CASE UNCHANGED row
  BY <1>1 DEF row
<1>2. ASSUME NEW c \in Channels,
             UpdateSessionLock(c) \/ UpdateSessionWrite(c) \/ UpdateSessionRollback(c)
      PROVE  PausedAtMatchesStatus'
  <2>1. UNCHANGED <<status, pausedAt>>
    BY <1>2 DEF UpdateSessionLock, UpdateSessionWrite, UpdateSessionRollback, database
  <2> QED
    BY <2>1
<1>3. ASSUME NEW c \in Channels, UpdateSessionCommit(c)
      PROVE  PausedAtMatchesStatus'
  BY <1>3 DEF UpdateSessionCommit, RowLockDiscipline, Statuses
<1>4. ASSUME NEW p \in Publishers, PublishSend(p)
      PROVE  PausedAtMatchesStatus'
  BY <1>4 DEF PublishSend, database
<1>5. ASSUME NEW t \in Transcribers, UnregisterSession(t)
      PROVE  PausedAtMatchesStatus'
  BY <1>5 DEF UnregisterSession, Downgraded, PausedAtAfterUnregister
<1>6. CASE TickAutoStart \/ TickAutoEnd \/ TickHeal \/ SchedulerCrash \/ ResetSession
  BY <1>6 DEF TickAutoStart, TickAutoEnd, TickHeal, SchedulerCrash, ResetSession
<1>7. ASSUME NEW a \in Clients, Pause(a) \/ Resume(a) \/ StopTerminate(a) \/ DeleteDestroy(a)
      PROVE  PausedAtMatchesStatus'
  BY <1>7 DEF Pause, Resume, StopTerminate, DeleteDestroy, DestroySession
<1>8. ASSUME NEW a \in Clients, NEW force \in Forces, Purge(a, force)
      PROVE  PausedAtMatchesStatus'
  BY <1>8 DEF Purge, DestroySession
<1>9. ASSUME NEW c \in Channels, BotEndCommit(c)
      PROVE  PausedAtMatchesStatus'
  <2>1. CASE status = "deleted"
    BY <1>9, <2>1 DEF BotEndCommit
  <2>2. CASE status # "deleted"
    BY <1>9, <2>2 DEF BotEndCommit
  <2> QED
    BY <2>1, <2>2
<1> QED
  BY <1>1, <1>2, <1>3, <1>4, <1>5, <1>6, <1>7, <1>8, <1>9, OnlyWriters DEF WritesRow

\* REST consumers never see pausedAt on a session that runs or waits, nor a
\* paused session without it.
THEOREM PausedAtTruthful == Spec => []PausedAtMatchesStatus
<1>1. Init => PausedAtMatchesStatus
  BY DEF Init, PausedAtMatchesStatus
<1>2. Spec => []TypeInv
  BY InitTypeInv, NextTypeInv, PTL DEF Spec
<1> QED
  BY <1>1, <1>2, RowLockSafety, PausedAtStep, PTL DEF Spec

-----------------------------------------------------------------------------
(* The contract with the users of a session *)

\* Every other step leaves the captions alone.
LEMMA OnlyCaptionWriters ==
  [Next]_vars => \/ \E c \in Channels : SaveTranscription(c)
                 \/ \E a \in Clients :
                      \/ ClearWipe(a) \/ DeleteDestroy(a)
                      \/ \E force \in Forces : Purge(a, force)
                 \/ UNCHANGED captions
<1> SUFFICES ASSUME [Next]_vars
             PROVE  \/ \E c \in Channels : SaveTranscription(c)
                    \/ \E a \in Clients :
                         \/ ClearWipe(a) \/ DeleteDestroy(a)
                         \/ \E force \in Forces : Purge(a, force)
                    \/ UNCHANGED captions
  OBVIOUS
<1> USE DEF database
<1>1. CASE UNCHANGED vars
  BY <1>1 DEF vars
<1>2. CASE Streams
  BY <1>2 DEF Streams, StartStream, StopStream, PublishFinal, Crash, ReplaceStream, FlushEnd
<1>3. ASSUME NEW c \in Channels, ChainStep(c) \/ BotEnd(c)
      PROVE  SaveTranscription(c) \/ UNCHANGED captions
  BY <1>3 DEF ChainStep, UpdateSessionLock, UpdateSessionGone, UpdateSessionWrite,
     UpdateSessionCommit, BotEnd, BotEndRead, BotEndCommit
<1>4. ASSUME NEW t \in Transcribers, Unregister(t)
      PROVE  UNCHANGED captions
  BY <1>4 DEF Unregister, UnregisterChannels, UnregisterSession
<1>5. ASSUME NEW p \in Publishers, PublishStep(p)
      PROVE  UNCHANGED captions
  BY <1>5 DEF PublishStep, PublishRead, PublishSend
<1>6. CASE TickStep
  BY <1>6 DEF TickStep, TickAutoStart, TickAutoEnd, TickFindStuck, TickNotStuck, TickHeal,
     TickUnchanged
<1>7. ASSUME NEW a \in Clients, NewRequests(a)
      PROVE  (\E force \in Forces : Purge(a, force)) \/ UNCHANGED captions
  BY <1>7 DEF NewRequests, Pause, Resume, ClearCheck, StopCheck, DeleteCheck
<1>8. ASSUME NEW a \in Clients, RequestStep(a)
      PROVE  ClearWipe(a) \/ DeleteDestroy(a) \/ UNCHANGED captions
  BY <1>8 DEF RequestStep, StopTerminate, StopChannels, Drained, DrainTimeout, StopNormalize
<1>9. CASE Faults
  BY <1>9 DEF Faults, SchedulerOffline, SchedulerCrash, SchedulerReady, ResetChannels,
     ResetSession, Disconnect, Reconnect, UpdateSessionRollback
<1> QED
  BY <1>1, <1>2, <1>3, <1>4, <1>5, <1>6, <1>7, <1>8, <1>9 DEF Next, SteadyNext

\* A step that writes the session's row is a step of the contract, or none.
LEMMA RowContract ==
  ASSUME TypeInv, RowLockDiscipline, WritesRow, UNCHANGED captions
  PROVE  Contract!Next \/ UNCHANGED <<status, pausedAt>>
<1> USE DEF Contract!Next, TypeInv, TypeOK, DatabaseType
<1>1. ASSUME NEW c \in Channels,
             UpdateSessionLock(c) \/ UpdateSessionWrite(c) \/ UpdateSessionRollback(c)
      PROVE  UNCHANGED <<status, pausedAt>>
  BY <1>1 DEF UpdateSessionLock, UpdateSessionWrite, UpdateSessionRollback, database
<1>2. ASSUME NEW c \in Channels, UpdateSessionCommit(c)
      PROVE  Contract!Run \/ UNCHANGED <<status, pausedAt>>
  BY <1>2 DEF UpdateSessionCommit, RowLockDiscipline, Statuses, Contract!Run
<1>3. ASSUME NEW c \in Channels, BotEndCommit(c)
      PROVE  Contract!Terminate \/ UNCHANGED <<status, pausedAt>>
  BY <1>3 DEF BotEndCommit, Contract!Terminate
<1>4. ASSUME NEW p \in Publishers, PublishSend(p)
      PROVE  UNCHANGED <<status, pausedAt>>
  BY <1>4 DEF PublishSend, database
<1>5. ASSUME NEW t \in Transcribers, UnregisterSession(t)
      PROVE  Contract!Run \/ Contract!Unpause \/ UNCHANGED <<status, pausedAt>>
  BY <1>5 DEF UnregisterSession, Downgraded, PausedAtAfterUnregister, Contract!Run,
     Contract!Unpause
<1>6. CASE TickAutoStart \/ TickHeal \/ SchedulerCrash \/ ResetSession
  BY <1>6 DEF TickAutoStart, TickHeal, SchedulerCrash, ResetSession, Contract!Run
<1>7. CASE TickAutoEnd
  BY <1>7 DEF TickAutoEnd, Contract!Terminate
<1>8. ASSUME NEW a \in Clients, Pause(a) \/ Resume(a) \/ StopTerminate(a)
      PROVE  Contract!Next \/ UNCHANGED <<status, pausedAt>>
  BY <1>8 DEF Pause, Resume, StopTerminate, Contract!Pause, Contract!Unpause, Contract!Terminate
<1>9. ASSUME NEW a \in Clients, DeleteDestroy(a)
      PROVE  Contract!Delete
  BY <1>9 DEF DeleteDestroy, DestroySession, Contract!Delete, Contract!NoCaptions
<1>10. ASSUME NEW a \in Clients, NEW force \in Forces, Purge(a, force)
      PROVE  Contract!Delete \/ UNCHANGED <<status, pausedAt>>
  BY <1>10 DEF Purge, DestroySession, Contract!Delete, Contract!NoCaptions
<1> QED
  BY <1>1, <1>2, <1>3, <1>4, <1>5, <1>6, <1>7, <1>8, <1>9, <1>10 DEF WritesRow

\* And so is one that writes captions.
LEMMA ContractStep ==
  ASSUME TypeInv, RowLockDiscipline, [Next]_vars
  PROVE  Contract!Next \/ UNCHANGED Contract!contract
<1> USE DEF Contract!contract, Contract!Next
<1>1. ASSUME NEW c \in Channels, SaveTranscription(c)
      PROVE  Contract!Caption(c) \/ UNCHANGED <<status, pausedAt, captions>>
  BY <1>1 DEF SaveTranscription, Contract!Caption
<1>2. ASSUME NEW a \in Clients, ClearWipe(a)
      PROVE  Contract!Clear
  BY <1>2 DEF ClearWipe, Contract!Clear, Contract!NoCaptions
<1>3. ASSUME NEW a \in Clients, DeleteDestroy(a)
      PROVE  Contract!Delete
  BY <1>3 DEF DeleteDestroy, DestroySession, Contract!Delete, Contract!NoCaptions
<1>4. ASSUME NEW a \in Clients, NEW force \in Forces, Purge(a, force)
      PROVE  Contract!Delete \/ UNCHANGED <<status, pausedAt, captions>>
  BY <1>4 DEF Purge, DestroySession, Contract!Delete, Contract!NoCaptions
<1>5. CASE UNCHANGED captions
  BY <1>5, OnlyWriters, RowContract DEF row
<1> QED
  BY <1>1, <1>2, <1>3, <1>4, <1>5, OnlyCaptionWriters

\* The system implements the contract: whatever is interleaved, lost, late or restarted, users see
\* one legal step of their session at a time.
THEOREM ContractKept == Spec => KeepsContract
<1>1. Init => Contract!Init
  BY DEF Init, Contract!Init, Contract!NoCaptions
<1>2. TypeInv /\ RowLockDiscipline /\ [Next]_vars
        => [Contract!Next]_Contract!contract
  BY ContractStep
<1>3. Spec => []TypeInv
  BY InitTypeInv, NextTypeInv, PTL DEF Spec
<1> QED
  BY <1>1, <1>2, <1>3, RowLockSafety, PTL DEF Spec, KeepsContract, Contract!Spec

-----------------------------------------------------------------------------
(* While connections stay up: what the rows of the channels say *)

\* The rows that SteadyInv is about.
rows == <<status, streamStatus, transcriberId, worker, txn, request>>

\* A step that leaves these rows alone keeps SteadyInv.
LEMMA RowsKept == SteadyInv /\ UNCHANGED rows => SteadyInv'
BY DEF SteadyInv, rows, IdleMeansNoStream, OwnerMatchesStream, RecountHolds,
   WriteConsistent, StopHasEnded, DeletedHasNoChannel, NoneActive

\* While nobody holds the row's lock, only the rows themselves matter.
LEMMA NoTransactionOpen ==
  ASSUME RowLockDiscipline, SessionUnlocked, UNCHANGED <<worker, txn>>
  PROVE  RecountHolds' /\ WriteConsistent'
<1>1. \A c \in Channels : worker[c] \notin {"locked", "written"}
  BY NoneAssumption DEF RowLockDiscipline, SessionUnlocked
<1> QED
  BY <1>1 DEF RecountHolds, WriteConsistent

\* The steps of updateSession.  Its commit is where the recount must be right.
LEMMA UpdateSessionSteady ==
  ASSUME TypeInv, RowLockDiscipline, SteadyInv, NEW c \in Channels,
         UpdateSessionLock(c) \/ UpdateSessionWrite(c) \/ UpdateSessionCommit(c)
  PROVE  SteadyInv'
<1> USE DEF TypeInv, TypeOK, SteadyInv
<1>1. CASE UpdateSessionLock(c)
  <2>1. UNCHANGED <<status, streamStatus, transcriberId, txn, request>>
    BY <1>1 DEF UpdateSessionLock
  <2>2. \A d \in Channels : worker'[d] = "written" => worker[d] = "written"
    BY <1>1 DEF UpdateSessionLock, ChainType
  <2> QED
    BY <2>1, <2>2 DEF IdleMeansNoStream, OwnerMatchesStream, RecountHolds,
       WriteConsistent, StopHasEnded, DeletedHasNoChannel, NoneActive
<1>2. CASE UpdateSessionWrite(c)
  <2>1. UNCHANGED <<status, streamStatus, transcriberId, request>>
    BY <1>2 DEF UpdateSessionWrite, database
  <2>2. IdleMeansNoStream' /\ OwnerMatchesStream' /\ StopHasEnded' /\ DeletedHasNoChannel'
    BY <2>1 DEF IdleMeansNoStream, OwnerMatchesStream, StopHasEnded,
       DeletedHasNoChannel, NoneActive
  <2>3. \A d \in Channels \ {c} : worker'[d] # "written"
    BY <1>2 DEF UpdateSessionWrite, RowLockDiscipline, ChainType
  <2> DEFINE tk     == Head(chain[c])
             hit    == UpdatesChannel(c, tk)
             stream == IF hit THEN tk.op ELSE streamStatus[c]
             owner  == IF tk.op = "active" THEN tk.by
                       ELSE IF hit THEN None ELSE transcriberId[c]
             anyActive == \/ stream = "active"
                          \/ \E d \in Channels \ {c} : streamStatus[d] = "active"
  <2>4. tk.op \in {"active", "inactive"} /\ tk.by \in Transcribers
    BY <1>2, HeadTask DEF UpdateSessionWrite
  <2>5. txn'[c] = [hit |-> hit, stream |-> stream, owner |-> owner,
                   status |-> StatusAfterCount(status, anyActive)]
    BY <1>2 DEF UpdateSessionWrite, ChainType
  <2>6. txn'[c].status = "ready" => ~anyActive
    BY <2>5 DEF StatusAfterCount
  <2>7. RecountHolds'
    <3>1. txn'[c].status = "ready" =>
            /\ stream = "inactive"
            /\ \A d \in Channels \ {c} : streamStatus[d] = "inactive"
      BY <2>4, <2>6 DEF DatabaseType
    <3>2. txn'[c].hit = hit /\ txn'[c].stream = stream
      BY <2>5
    <3>3. txn'[c].status = "ready" =>
            /\ \A d \in Channels \ {c} : streamStatus'[d] = "inactive"
            /\ IF txn'[c].hit THEN txn'[c].stream = "inactive"
                              ELSE streamStatus'[c] = "inactive"
      BY <2>1, <3>1, <3>2
    <3> QED
      BY <2>3, <3>3 DEF RecountHolds
  <2>8. WriteConsistent'
    <3>1. hit => (stream = "active" <=> owner # None)
      BY <2>4, NoneAssumption
    <3>2. txn'[c].hit = hit /\ txn'[c].stream = stream /\ txn'[c].owner = owner
      BY <2>5
    <3> QED
      BY <2>3, <3>1, <3>2 DEF WriteConsistent
  <2> QED
    BY <2>2, <2>7, <2>8
<1>3. CASE UpdateSessionCommit(c)
  <2>1. \A d \in Channels : worker'[d] # "written"
    BY <1>3 DEF UpdateSessionCommit, RowLockDiscipline, ChainType
  <2>2. status # "deleted" /\ status' = txn[c].status /\ worker[c] = "written"
    BY <1>3 DEF UpdateSessionCommit, RowLockDiscipline
  <2>3. status' \in {"paused", "terminated", "active", "ready"}
    BY <2>2 DEF RowLockDiscipline
  <2>4. /\ streamStatus' = IF txn[c].hit THEN [streamStatus EXCEPT ![c] = txn[c].stream]
                                        ELSE streamStatus
        /\ transcriberId' = IF txn[c].hit THEN [transcriberId EXCEPT ![c] = txn[c].owner]
                                          ELSE transcriberId
        /\ request' = request
    BY <1>3 DEF UpdateSessionCommit
  <2>5. IdleMeansNoStream'
    BY <2>2, <2>3, <2>4 DEF IdleMeansNoStream, NoneActive, RecountHolds, DatabaseType
  <2>6. OwnerMatchesStream'
    <3>1. status' # "terminated" => status # "terminated"
      BY <2>2 DEF RowLockDiscipline
    <3> QED
      BY <2>2, <2>4, <3>1 DEF OwnerMatchesStream, WriteConsistent, DatabaseType
  <2>7. StopHasEnded'
    BY <2>2, <2>4 DEF StopHasEnded, RowLockDiscipline
  <2> QED
    BY <2>1, <2>3, <2>5, <2>6, <2>7 DEF RecountHolds, WriteConsistent, DeletedHasNoChannel
<1> QED
  BY <1>1, <1>2, <1>3

\* The other steps of the Scheduler.
LEMMA SchedulerSteady ==
  ASSUME TypeInv, RowLockDiscipline, SteadyInv,
         \/ \E p \in Publishers : PublishSend(p)
         \/ \E t \in Transcribers : Unregister(t)
         \/ TickAutoStart \/ TickAutoEnd \/ TickHeal
         \/ \E c \in Channels : BotEndCommit(c)
  PROVE  SteadyInv'
<1> USE DEF TypeInv, TypeOK, SteadyInv
<1>1. ASSUME NEW p \in Publishers, PublishSend(p)
      PROVE  SteadyInv'
  <2>1. UNCHANGED <<status, streamStatus, transcriberId, txn, request>>
    BY <1>1 DEF PublishSend, database
  <2>2. \A c \in Channels : worker'[c] = "written" => worker[c] = "written"
    BY <1>1 DEF PublishSend, ChainType
  <2> QED
    BY <2>1, <2>2 DEF IdleMeansNoStream, OwnerMatchesStream, RecountHolds,
       WriteConsistent, StopHasEnded, DeletedHasNoChannel, NoneActive
<1>2. ASSUME NEW t \in Transcribers, UnregisterChannels(t)
      PROVE  SteadyInv'
  <2>1. UNCHANGED <<status, worker, txn, request>>
    BY <1>2 DEF UnregisterChannels
  <2>2. \A c \in Channels :
          IF transcriberId[c] = t
          THEN streamStatus'[c] = "inactive" /\ transcriberId'[c] = None
          ELSE streamStatus'[c] = streamStatus[c] /\ transcriberId'[c] = transcriberId[c]
    BY <1>2 DEF UnregisterChannels
  <2>3. \A c \in Channels : streamStatus[c] = "inactive" => streamStatus'[c] = "inactive"
    BY <2>2
  <2>4. IdleMeansNoStream' /\ DeletedHasNoChannel'
    BY <2>1, <2>2, <2>3 DEF IdleMeansNoStream, DeletedHasNoChannel, NoneActive
  <2>5. OwnerMatchesStream'
    BY <2>1, <2>2 DEF OwnerMatchesStream
  <2>6. RecountHolds'
    BY <2>1, <2>3 DEF RecountHolds
  <2> QED
    BY <2>1, <2>4, <2>5, <2>6 DEF WriteConsistent, StopHasEnded
<1>3. ASSUME NEW t \in Transcribers, UnregisterSession(t)
      PROVE  SteadyInv'
  <2>1. UNCHANGED <<streamStatus, transcriberId, request>>
    BY <1>3 DEF UnregisterSession
  <2>2. status' = IF Downgraded THEN "ready" ELSE status
    BY <1>3 DEF UnregisterSession
  <2>3. IdleMeansNoStream' /\ OwnerMatchesStream' /\ StopHasEnded' /\ DeletedHasNoChannel'
    BY <2>1, <2>2 DEF Downgraded, IdleMeansNoStream, OwnerMatchesStream, StopHasEnded,
       DeletedHasNoChannel, NoneActive
  <2> QED
    BY <1>3, <2>3, NoTransactionOpen DEF UnregisterSession
<1>4. CASE TickAutoStart
  <2>1. UNCHANGED <<streamStatus, transcriberId, request, worker, txn>>
    BY <1>4 DEF TickAutoStart, TickUnchanged
  <2>2. CASE status' = status
    BY <2>1, <2>2, RowsKept DEF rows
  <2>3. CASE status = "on_schedule" /\ SessionUnlocked /\ status' = "ready"
    BY <2>1, <2>3, NoTransactionOpen DEF IdleMeansNoStream, OwnerMatchesStream,
       StopHasEnded, DeletedHasNoChannel, NoneActive
  <2> QED
    BY <1>4, <2>2, <2>3 DEF TickAutoStart
<1>5. CASE TickAutoEnd
  <2>1. UNCHANGED <<transcriberId, request, worker, txn>>
    BY <1>5 DEF TickAutoEnd, TickUnchanged
  <2>2. CASE status' = status /\ streamStatus' = streamStatus
    BY <2>1, <2>2, RowsKept DEF rows
  <2>3. CASE SessionUnlocked /\ status' = "terminated"
    BY <2>1, <2>3, NoTransactionOpen DEF IdleMeansNoStream, OwnerMatchesStream,
       StopHasEnded, DeletedHasNoChannel
  <2> QED
    BY <1>5, <2>2, <2>3 DEF TickAutoEnd
<1>6. CASE TickHeal
  <2>1. UNCHANGED <<streamStatus, transcriberId, request, worker, txn>>
    BY <1>6 DEF TickHeal, TickUnchanged
  <2>2. status' = IF status = "active" /\ NoneActive THEN "ready" ELSE status
    BY <1>6 DEF TickHeal
  <2>3. IdleMeansNoStream' /\ OwnerMatchesStream' /\ StopHasEnded' /\ DeletedHasNoChannel'
    BY <2>1, <2>2 DEF IdleMeansNoStream, OwnerMatchesStream, StopHasEnded,
       DeletedHasNoChannel, NoneActive
  <2> QED
    BY <1>6, <2>1, <2>3, NoTransactionOpen DEF TickHeal
<1>7. ASSUME NEW c \in Channels, BotEndCommit(c)
      PROVE  SteadyInv'
  <2>1. UNCHANGED <<transcriberId, request, worker, txn>> /\ SessionUnlocked
    BY <1>7 DEF BotEndCommit
  <2>2. /\ status' = IF status = "deleted" THEN status ELSE "terminated"
        /\ \A d \in Channels : streamStatus'[d] = "inactive"
    BY <1>7 DEF BotEndCommit, AllInactive
  <2>3. IdleMeansNoStream' /\ OwnerMatchesStream' /\ StopHasEnded' /\ DeletedHasNoChannel'
    BY <2>1, <2>2 DEF IdleMeansNoStream, OwnerMatchesStream, StopHasEnded,
       DeletedHasNoChannel, NoneActive
  <2> QED
    BY <2>1, <2>3, NoTransactionOpen
<1> QED
  BY <1>1, <1>2, <1>3, <1>4, <1>5, <1>6, <1>7 DEF Unregister

\* The requests.  A stop forces channels inactive only once the session is over.
LEMMA RequestsSteady ==
  ASSUME TypeInv, RowLockDiscipline, SteadyInv, NEW a \in Clients,
         NewRequests(a) \/ RequestStep(a)
  PROVE  SteadyInv'
<1> USE DEF TypeInv, TypeOK, SteadyInv
<1>1. CASE Pause(a) \/ Resume(a)
  <2>1. UNCHANGED <<streamStatus, transcriberId, request, worker, txn>> /\ SessionUnlocked
    BY <1>1 DEF Pause, Resume, scheduler, chains
  <2>2. status \in {"active", "paused"} /\ status' \in {"active", "paused"}
    BY <1>1 DEF Pause, Resume
  <2> QED
    BY <2>1, <2>2, NoTransactionOpen DEF IdleMeansNoStream, OwnerMatchesStream,
       StopHasEnded, DeletedHasNoChannel
<1>2. CASE \/ ClearCheck(a)
           \/ \E force \in Forces : \/ DeleteCheck(a, force)
                                    \/ \E waitFinal \in BOOLEAN : StopCheck(a, force, waitFinal)
           \/ ClearWipe(a)
  <2>1. UNCHANGED <<status, streamStatus, transcriberId, worker, txn>>
    BY <1>2 DEF ClearCheck, DeleteCheck, StopCheck, ClearWipe, database, scheduler, chains
  <2>2. \A b \in Clients : request'[b] # request[b] =>
          request'[b] \notin {"channels", "drain", "normalize"}
    BY <1>2 DEF ClearCheck, DeleteCheck, StopCheck, ClearWipe, Proceed, RequestType
  <2> QED
    BY <2>1, <2>2 DEF IdleMeansNoStream, OwnerMatchesStream, RecountHolds,
       WriteConsistent, StopHasEnded, DeletedHasNoChannel, NoneActive
<1>3. CASE StopTerminate(a)
  <2>1. UNCHANGED <<streamStatus, transcriberId, worker, txn>> /\ SessionUnlocked
    BY <1>3 DEF StopTerminate, scheduler, chains
  <2>2. status' = IF status = "deleted" THEN status ELSE "terminated"
    BY <1>3 DEF StopTerminate
  <2> QED
    BY <2>1, <2>2, NoTransactionOpen DEF IdleMeansNoStream, OwnerMatchesStream,
       StopHasEnded, DeletedHasNoChannel, NoneActive
<1>4. CASE StopChannels(a) \/ StopNormalize(a)
  <2>1. UNCHANGED <<status, transcriberId, worker, txn>>
    BY <1>4 DEF StopChannels, StopNormalize, scheduler, chains
  <2>2. status \in {"terminated", "deleted"}
    BY <1>4 DEF StopChannels, StopNormalize, Proceed, StopHasEnded
  <2>3. \A c \in Channels : streamStatus'[c] = "inactive"
    BY <1>4 DEF StopChannels, StopNormalize, ForceInactive, AllInactive
  <2>4. RecountHolds'
    BY <2>1, <2>3 DEF RecountHolds
  <2> QED
    BY <2>1, <2>2, <2>3, <2>4 DEF IdleMeansNoStream, OwnerMatchesStream,
       WriteConsistent, StopHasEnded, DeletedHasNoChannel, NoneActive
<1>5. CASE Drained(a) \/ DrainTimeout(a)
  <2>1. UNCHANGED <<status, streamStatus, transcriberId, worker, txn>>
    BY <1>5 DEF Drained, DrainTimeout, database, scheduler, chains
  <2>2. request[a] = "drain" /\ request' = [request EXCEPT ![a] = "normalize"]
    BY <1>5 DEF Drained, DrainTimeout, Proceed
  <2>3. StopHasEnded'
    BY <2>1, <2>2 DEF StopHasEnded, RequestType
  <2> QED
    BY <2>1, <2>3 DEF IdleMeansNoStream, OwnerMatchesStream, RecountHolds,
       WriteConsistent, DeletedHasNoChannel, NoneActive
<1>6. CASE DeleteDestroy(a) \/ \E force \in Forces : Purge(a, force)
  <2>1. UNCHANGED <<worker, txn>> /\ SessionUnlocked
    BY <1>6 DEF DeleteDestroy, Purge, scheduler, chains
  <2>2. CASE DestroySession
    <3>1. /\ status' = "deleted"
          /\ \A c \in Channels : streamStatus'[c] = "inactive" /\ transcriberId'[c] = None
      BY <2>2 DEF DestroySession, AllInactive
    <3> QED
      BY <2>1, <3>1, NoTransactionOpen DEF IdleMeansNoStream, OwnerMatchesStream,
         StopHasEnded, DeletedHasNoChannel, NoneActive
  <2>3. CASE UNCHANGED <<status, streamStatus, transcriberId, request>>
    BY <2>1, <2>3, RowsKept DEF rows
  <2> QED
    BY <1>6, <2>2, <2>3 DEF DeleteDestroy, Purge
<1> QED
  BY <1>1, <1>2, <1>3, <1>4, <1>5, <1>6 DEF NewRequests, RequestStep

\* No step of a steady system breaks the invariant.
LEMMA SteadyStep ==
  ASSUME TypeInv, RowLockDiscipline, SteadyInv, [SteadyNext]_vars
  PROVE  SteadyInv'
<1> USE DEF rows, database, scheduler, chains, handlers
<1>1. CASE UNCHANGED vars
  BY <1>1, RowsKept DEF vars
<1>2. CASE Streams
  <2>1. UNCHANGED rows
    BY <1>2 DEF Streams, StartStream, StopStream, PublishFinal, Crash,
       ReplaceStream, FlushEnd
  <2> QED
    BY <2>1, RowsKept
<1>3. ASSUME NEW c \in Channels, SaveTranscription(c) \/ UpdateSessionGone(c) \/ BotEndRead(c)
      PROVE  SteadyInv'
  BY <1>3, RowsKept DEF SaveTranscription, UpdateSessionGone, BotEndRead
<1>4. ASSUME NEW p \in Publishers, PublishRead(p)
      PROVE  SteadyInv'
  BY <1>4, RowsKept DEF PublishRead
<1>5. CASE TickFindStuck \/ TickNotStuck
  BY <1>5, RowsKept DEF TickFindStuck, TickNotStuck, TickUnchanged
<1> QED
  BY <1>1, <1>2, <1>3, <1>4, <1>5, UpdateSessionSteady, SchedulerSteady, RequestsSteady
  DEF SteadyNext, ChainStep, BotEnd, PublishStep, TickStep

LEMMA SteadyInvariance == SteadySpec => []SteadyInv
<1>1. [SteadyNext]_vars => [Next]_vars
  BY DEF Next
<1>2. Init => SteadyInv
  BY NoneAssumption DEF Init, SteadyInv, IdleMeansNoStream, OwnerMatchesStream,
     RecountHolds, WriteConsistent, StopHasEnded, DeletedHasNoChannel, NoneActive
<1>3. SteadySpec => []TypeInv
  BY <1>1, InitTypeInv, NextTypeInv, PTL DEF SteadySpec
<1>4. Init => RowLockDiscipline
  BY DEF Init, RowLockDiscipline
<1>5. SteadySpec => []RowLockDiscipline
  BY <1>1, <1>3, <1>4, RowLockStep, PTL DEF SteadySpec
<1> QED
  BY <1>2, <1>3, <1>5, SteadyStep, PTL DEF SteadySpec

\* As long as connections stay up, an idle session has no streaming channel: what
\* updateSession, unregisterTranscriber and the routes decide on a recount holds when
\* it is written.
THEOREM IdleHasNoStream == SteadySpec => []IdleMeansNoStream
<1>1. SteadyInv => IdleMeansNoStream
  BY DEF SteadyInv
<1> QED
  BY SteadyInvariance, <1>1, PTL

\* As long as connections stay up, a channel of a session that is not over streams
\* exactly when it has an owner, whichever of its streams ended or took over.
THEOREM OwnersStream == SteadySpec => []OwnerMatchesStream
<1>1. SteadyInv => OwnerMatchesStream
  BY DEF SteadyInv
<1> QED
  BY SteadyInvariance, <1>1, PTL

-----------------------------------------------------------------------------
(* While connections stay up: what the chains say of the streams *)

\* While connections stay up, a Transcriber is there or dead; a dead one streams nothing, and
\* only a dead one is unregistered.
Connected ==
    /\ schedulerLink = "up"
    /\ \A t \in Transcribers :
           /\ link[t] \in {"up", "dead"}
           /\ unregister[t] # "idle" => link[t] = "dead"
           /\ link[t] = "dead" => streaming[t] = {} /\ flushing[t] = {}

\* The claimant of a channel streams it, and none of its streams is being flushed.
ClaimantStreams ==
    \A c \in Channels, t \in Transcribers :
        claimant[c] = t => c \in streaming[t] /\ c \notin flushing[t]

\* What a transaction has written to its channel's row comes from the task at the head.
WrittenFromHead ==
    \A c \in Channels :
        worker[c] = "written" =>
            /\ Head(chain[c]).op = "active" =>
                   /\ txn[c].hit
                   /\ txn[c].stream = "active" /\ txn[c].owner = Head(chain[c]).by
            /\ txn[c].hit /\ Head(chain[c]).op = "inactive" =>
                   /\ transcriberId[c] = Head(chain[c]).by
                   /\ txn[c].stream = "inactive" /\ txn[c].owner = None

\* The first task of channel c that is not committed.
FirstPending(c) == IF worker[c] = "publishing" THEN 2 ELSE 1

\* A task that leaves a stream of Transcriber t active.
Harmless(tk, t) == tk.op = "final" \/ (tk.op = "inactive" /\ tk.by # t)

HarmlessFrom(c, t, i) == \A j \in DOMAIN chain[c] : j >= i => Harmless(chain[c][j], t)

\* The activation by Transcriber t is committed, or will be, and nothing undoes it.
Wins(c, t) ==
    \/ /\ streamStatus[c] = "active" /\ transcriberId[c] = t
       /\ HarmlessFrom(c, t, FirstPending(c))
    \/ \E i \in DOMAIN chain[c] :
           /\ i >= FirstPending(c)
           /\ chain[c][i].op = "active" /\ chain[c][i].by = t
           /\ HarmlessFrom(c, t, i + 1)

ClaimantWins ==
    \A c \in Channels, t \in Transcribers :
        claimant[c] = t /\ status \notin {"terminated", "deleted"} => Wins(c, t)

\* Behind element i of the chain of channel c, and up to element j, Transcriber t activates it.
ActivatedBetween(c, t, i, j) ==
    \E k \in DOMAIN chain[c] :
        i < k /\ k <= j /\ chain[c][k].op = "active" /\ chain[c][k].by = t

\* Behind its deactivation by Transcriber t channel c has no caption of t, unless t has
\* activated it again.
EndBehindFinals(c, t) ==
    \A i, j \in DOMAIN chain[c] :
        /\ i < j /\ chain[c][i].op = "inactive" /\ chain[c][i].by = t
        /\ chain[c][j].op = "final" /\ chain[c][j].by = t
        => ActivatedBetween(c, t, i, j)

\* Transcriber t has activated channel c behind every deactivation.
ActivatedLast(c, t) ==
    \A i \in DOMAIN chain[c] :
        chain[c][i].op = "inactive" /\ chain[c][i].by = t
        => ActivatedBetween(c, t, i, Len(chain[c]))

\* No stream is replaced: what a stream publishes stands before its deactivation.
FinalsBeforeEnd ==
    used["replace"] = 0 =>
        \A c \in Channels, t \in Transcribers :
            /\ c \notin flushing[t]
            /\ EndBehindFinals(c, t)
            /\ c \in streaming[t] => ActivatedLast(c, t)

ChainInv ==
    /\ TypeInv /\ RowLockDiscipline /\ SteadyInv
    /\ Connected /\ ClaimantStreams /\ WrittenFromHead /\ ClaimantWins /\ FinalsBeforeEnd

LEMMA ChainInvImplies == ChainInv => LiveStreamIsActive
<1> SUFFICES ASSUME ChainInv, NEW c \in Channels, Settled(c), claimant[c] # None,
                    status \notin {"terminated", "deleted"}
             PROVE  streamStatus[c] = "active" /\ transcriberId[c] = claimant[c]
  BY DEF LiveStreamIsActive
<1>1. claimant[c] \in Transcribers
  BY DEF ChainInv, TypeInv, TypeOK, StreamType, Owners
<1>2. Wins(c, claimant[c])
  BY <1>1 DEF ChainInv, ClaimantWins
<1>3. DOMAIN chain[c] = {}
  BY DEF Settled
<1> QED
  BY <1>2, <1>3 DEF Wins

\* The session is over.
Over == status \in {"terminated", "deleted"}

LEMMA OverStays ==
  ASSUME TypeInv, RowLockDiscipline, [Next]_vars, Over
  PROVE  Over'
<1>0. CASE status = "terminated"
  BY <1>0, StatusStep DEF Over
<1> SUFFICES ASSUME status = "deleted" PROVE status' = "deleted"
  BY <1>0 DEF Over
<1>1. CASE UNCHANGED row
  BY <1>1 DEF row
<1>2. ASSUME NEW c \in Channels,
             \/ UpdateSessionLock(c) \/ UpdateSessionWrite(c)
             \/ UpdateSessionRollback(c) \/ BotEndCommit(c)
      PROVE  status' = "deleted"
  BY <1>2 DEF UpdateSessionLock, UpdateSessionWrite, UpdateSessionRollback,
     BotEndCommit, database
<1>3. ASSUME NEW c \in Channels, UpdateSessionCommit(c)
      PROVE  status' = "deleted"
  BY <1>3 DEF UpdateSessionCommit, RowLockDiscipline
<1>4. ASSUME NEW p \in Publishers, PublishSend(p)
      PROVE  status' = "deleted"
  BY <1>4 DEF PublishSend, database
<1>5. ASSUME NEW t \in Transcribers, UnregisterSession(t)
      PROVE  status' = "deleted"
  BY <1>5 DEF UnregisterSession, Downgraded
<1>6. CASE TickAutoStart \/ TickAutoEnd \/ TickHeal \/ SchedulerCrash \/ ResetSession
  BY <1>6 DEF TickAutoStart, TickAutoEnd, TickHeal, SchedulerCrash, ResetSession
<1>7. ASSUME NEW a \in Clients, Pause(a) \/ Resume(a) \/ StopTerminate(a) \/ DeleteDestroy(a)
      PROVE  status' = "deleted"
  BY <1>7 DEF Pause, Resume, StopTerminate, DeleteDestroy, DestroySession
<1>8. ASSUME NEW a \in Clients, NEW force \in Forces, Purge(a, force)
      PROVE  status' = "deleted"
  BY <1>8 DEF Purge, DestroySession
<1> QED
  BY <1>1, <1>2, <1>3, <1>4, <1>5, <1>6, <1>7, <1>8, OnlyWriters DEF WritesRow

\* A step that touches no chain and no stream.  If it changes the row of a channel the session
\* is over.
RowsOnly ==
    /\ UNCHANGED <<chain, txn, streaming, flushing, link, claimant, schedulerLink>>
    /\ used'["replace"] = used["replace"]
    /\ \A t \in Transcribers : unregister'[t] # "idle" => unregister[t] # "idle"
    /\ \A c \in Channels : \/ worker'[c] = worker[c]
                           \/ worker[c] = "idle" /\ worker'[c] = "locked"
    /\ transcriberId' = transcriberId \/ (SessionUnlocked /\ status' = "deleted")
    /\ Over' \/ (~Over /\ UNCHANGED <<streamStatus, transcriberId>>)

LEMMA SpendOther ==
  ASSUME UsedType, NEW k \in Kinds \ {"replace"}, Spend(k)
  PROVE  used'["replace"] = used["replace"]
BY DEF UsedType, Spend, Kinds

\* The steps of a steady system.
LEMMA SteadyCases ==
  ASSUME TypeInv, RowLockDiscipline, SteadyInv, [SteadyNext]_vars
  PROVE  \/ Streams
         \/ \E c \in Channels : \/ UpdateSessionWrite(c) \/ UpdateSessionCommit(c)
                                \/ SaveTranscription(c) \/ UpdateSessionGone(c)
                                \/ PublishSend(c)
         \/ \E t \in Transcribers : UnregisterChannels(t)
         \/ RowsOnly
<1> USE DEF database, scheduler, chains, handlers, broker, streams, TypeInv, TypeOK
<1>0. Over => Over'
  <2>1. [Next]_vars
    BY DEF Next
  <2> QED
    BY <2>1, OverStays
<1>1. CASE UNCHANGED vars
  BY <1>0, <1>1 DEF vars, RowsOnly
<1>2. ASSUME NEW c \in Channels, UpdateSessionLock(c)
      PROVE  RowsOnly
  <2>1. UNCHANGED <<status, streamStatus, transcriberId, chain, txn, streaming, flushing, link,
                    claimant, schedulerLink, unregister, used>>
    BY <1>2 DEF UpdateSessionLock
  <2>2. \A d \in Channels : \/ worker'[d] = worker[d]
                            \/ worker[d] = "idle" /\ worker'[d] = "locked"
    BY <1>2 DEF UpdateSessionLock, NextTask, ChainType
  <2> QED
    BY <1>0, <2>1, <2>2 DEF RowsOnly
<1>3. ASSUME NEW c \in Channels, BotEnd(c)
      PROVE  RowsOnly
  <2>1. CASE BotEndRead(c)
    <3>1. used'["replace"] = used["replace"]
      BY <2>1, SpendOther DEF BotEndRead, Kinds
    <3> QED
      BY <1>0, <2>1, <3>1 DEF BotEndRead, RowsOnly
  <2>2. CASE BotEndCommit(c)
    BY <2>2 DEF BotEndCommit, RowsOnly, Over
  <2> QED
    BY <1>3, <2>1, <2>2 DEF BotEnd
<1>4. ASSUME NEW t \in Transcribers, UnregisterSession(t)
      PROVE  RowsOnly
  <2>1. unregister[t] = "session" /\ unregister' = [unregister EXCEPT ![t] = "idle"]
    BY <1>4 DEF UnregisterSession
  <2>2. \A u \in Transcribers : unregister'[u] # "idle" => unregister[u] # "idle"
    BY <2>1 DEF HandlerType
  <2> QED
    BY <1>0, <1>4, <2>2 DEF UnregisterSession, RowsOnly
<1>5. ASSUME NEW p \in Publishers, PublishRead(p) \/ (p \notin Channels /\ PublishSend(p))
      PROVE  RowsOnly
  BY <1>0, <1>5 DEF PublishRead, PublishSend, RowsOnly
<1>6. CASE TickStep
  <2>1. CASE TickAutoStart \/ TickFindStuck \/ TickNotStuck \/ TickHeal
    BY <1>0, <2>1 DEF TickAutoStart, TickFindStuck, TickNotStuck, TickHeal, TickUnchanged, RowsOnly
  <2>2. CASE TickAutoEnd
    <3>1. \/ Over' 
          \/ UNCHANGED <<status, streamStatus>>
      BY <2>2 DEF TickAutoEnd, Over
    <3> QED
      BY <1>0, <2>2, <3>1 DEF TickAutoEnd, TickUnchanged, RowsOnly
  <2> QED
    BY <1>6, <2>1, <2>2 DEF TickStep
<1>7. ASSUME NEW a \in Clients, NewRequests(a)
      PROVE  RowsOnly
  <2>1. used'["replace"] = used["replace"]
    <3>1. Spend("request")
      BY <1>7 DEF NewRequests, Pause, Resume, ClearCheck, StopCheck, DeleteCheck, Purge, NewRequest
    <3> QED
      BY <3>1, SpendOther DEF Kinds
  <2>2. CASE Pause(a) \/ Resume(a)
    BY <1>0, <2>1, <2>2 DEF Pause, Resume, RowsOnly
  <2>3. CASE \/ ClearCheck(a)
             \/ \E force \in Forces : \/ DeleteCheck(a, force)
                                      \/ \E waitFinal \in BOOLEAN : StopCheck(a, force, waitFinal)
    BY <1>0, <2>1, <2>3 DEF ClearCheck, DeleteCheck, StopCheck, RowsOnly
  <2>4. ASSUME NEW force \in Forces, Purge(a, force)
        PROVE  RowsOnly
    BY <1>0, <2>1, <2>4 DEF Purge, DestroySession, RowsOnly, Over
  <2> QED
    BY <1>7, <2>2, <2>3, <2>4 DEF NewRequests
<1>8. ASSUME NEW a \in Clients, RequestStep(a)
      PROVE  RowsOnly
  <2>1. CASE StopTerminate(a) \/ Drained(a) \/ DrainTimeout(a) \/ ClearWipe(a)
    BY <1>0, <2>1 DEF StopTerminate, Drained, DrainTimeout, ClearWipe, RowsOnly
  <2>2. CASE StopChannels(a) \/ StopNormalize(a)
    <3>1. Over
      BY <2>2 DEF StopChannels, StopNormalize, Proceed, SteadyInv, StopHasEnded, Over
    <3> QED
      BY <1>0, <2>2, <3>1 DEF StopChannels, StopNormalize, RowsOnly
  <2>3. CASE DeleteDestroy(a)
    BY <2>3 DEF DeleteDestroy, DestroySession, RowsOnly, Over
  <2> QED
    BY <1>8, <2>1, <2>2, <2>3 DEF RequestStep
<1> QED
  BY <1>1, <1>2, <1>3, <1>4, <1>5, <1>6, <1>7, <1>8
     DEF SteadyNext, ChainStep, Unregister, PublishStep

\* What a message appends to the chain of channel c.
Grown(c, op, t) ==
    /\ \A d \in Channels \ {c} : chain'[d] = chain[d]
    /\ Len(chain'[c]) = Len(chain[c]) + 1
    /\ \A i \in 1..Len(chain[c]) : chain'[c][i] = chain[c][i]
    /\ chain'[c][Len(chain[c]) + 1].op = op
    /\ chain'[c][Len(chain[c]) + 1].by = t

\* The end of the task at the head of the chain of channel c.
Shrunk(c) ==
    /\ \A d \in Channels \ {c} : chain'[d] = chain[d]
    /\ Len(chain'[c]) = Len(chain[c]) - 1
    /\ \A i \in 1..(Len(chain[c]) - 1) : chain'[c][i] = chain[c][i + 1]

\* The elements of a chain are tasks.
LEMMA ChainElements ==
  ASSUME TypeInv, NEW c \in Channels
  PROVE  /\ Len(chain[c]) \in Nat
         /\ DOMAIN chain[c] = 1..Len(chain[c])
         /\ \A i \in 1..Len(chain[c]) :
               /\ chain[c][i].op \in {"active", "inactive", "final"}
               /\ chain[c][i].by \in Transcribers
         /\ chain[c] # <<>> => Len(chain[c]) > 0 /\ Head(chain[c]) = chain[c][1]
<1>1. chain[c] \in Seq(Tasks)
  BY DEF TypeInv, TypeOK, ChainType
<1>2. Len(chain[c]) \in Nat /\ DOMAIN chain[c] = 1..Len(chain[c])
  BY <1>1, LenProperties
<1>3. \A i \in 1..Len(chain[c]) : chain[c][i] \in Tasks
  BY <1>1, ElementOfSeq
<1>4. chain[c] # <<>> => Len(chain[c]) > 0 /\ Head(chain[c]) = chain[c][1]
  BY <1>1
<1> QED
  BY <1>2, <1>3, <1>4 DEF Tasks

\* A message that is not lost is appended.
LEMMA ChainTaskGrows ==
  ASSUME TypeInv, NEW c \in Channels, NEW t \in Transcribers,
         NEW op \in {"active", "inactive", "final"}, ChainTask(c, op, t),
         link[t] = "up", schedulerLink = "up"
  PROVE  Grown(c, op, t)
<1>1. chain[c] \in Seq(Tasks) /\ chain \in [Channels -> Seq(Tasks)]
  BY DEF TypeInv, TypeOK, ChainType
<1>2. [op |-> op, by |-> t] \in Tasks
  BY DEF Tasks
<1>3. chain' = [chain EXCEPT ![c] = Append(chain[c], [op |-> op, by |-> t])]
  BY DEF ChainTask
<1>4. chain'[c] = Append(chain[c], [op |-> op, by |-> t])
  BY <1>1, <1>3
<1>5. /\ Len(chain'[c]) = Len(chain[c]) + 1
      /\ \A i \in 1..Len(chain[c]) : chain'[c][i] = chain[c][i]
      /\ chain'[c][Len(chain[c]) + 1] = [op |-> op, by |-> t]
  BY <1>1, <1>2, <1>4, AppendProperties
<1> QED
  BY <1>1, <1>3, <1>5 DEF Grown

\* A task that ends is removed.
LEMMA TailShrinks ==
  ASSUME TypeInv, NEW c \in Channels, chain[c] # <<>>,
         chain' = [chain EXCEPT ![c] = Tail(@)]
  PROVE  Shrunk(c)
<1>1. chain[c] \in Seq(Tasks) /\ chain \in [Channels -> Seq(Tasks)]
  BY DEF TypeInv, TypeOK, ChainType
<1>2. chain'[c] = Tail(chain[c])
  BY <1>1
<1>3. /\ Len(chain'[c]) = Len(chain[c]) - 1
      /\ \A i \in 1..Len(chain'[c]) : chain'[c][i] = chain[c][i + 1]
  BY <1>1, <1>2, HeadTailProperties
<1> QED
  BY <1>1, <1>3 DEF Shrunk

\* Only what the Transcribers do touches their streams.
LEMMA ConnectedKept ==
  ASSUME Connected, ClaimantStreams, RowsOnly \/ UNCHANGED <<streams, handlers>>
  PROVE  Connected' /\ ClaimantStreams'
BY DEF Connected, ClaimantStreams, RowsOnly, streams, handlers

LEMMA StreamsConnected ==
  ASSUME TypeInv, Connected, ClaimantStreams, Streams
  PROVE  Connected' /\ ClaimantStreams'
<1> USE DEF TypeInv, TypeOK, StreamType, HandlerType, Connected, ClaimantStreams
<1>1. ASSUME NEW t \in Transcribers, NEW c \in Channels, StartStream(t, c)
      PROVE  Connected' /\ ClaimantStreams'
  <2>1. Connected'
    BY <1>1 DEF StartStream, handlers
  <2>2. ClaimantStreams'
    BY <1>1, NoneAssumption DEF StartStream, Claim
  <2> QED
    BY <2>1, <2>2
<1>2. ASSUME NEW t \in Transcribers, NEW c \in Channels, ReplaceStream(t, c)
      PROVE  Connected' /\ ClaimantStreams'
  <2>1. Connected'
    BY <1>2 DEF ReplaceStream, handlers
  <2>2. ClaimantStreams'
    BY <1>2, NoneAssumption DEF ReplaceStream, Claim
  <2> QED
    BY <2>1, <2>2
<1>3. ASSUME NEW t \in Transcribers, NEW c \in Channels, FlushEnd(t, c)
      PROVE  Connected' /\ ClaimantStreams'
  BY <1>3 DEF FlushEnd, handlers
<1>4. ASSUME NEW t \in Transcribers, NEW c \in Channels, StopStream(t, c)
      PROVE  Connected' /\ ClaimantStreams'
  <2>1. Connected'
    BY <1>4 DEF StopStream, handlers
  <2>2. ClaimantStreams'
    BY <1>4, NoneAssumption DEF StopStream
  <2> QED
    BY <2>1, <2>2
<1>5. ASSUME NEW t \in Transcribers, NEW c \in Channels, PublishFinal(t, c)
      PROVE  Connected' /\ ClaimantStreams'
  BY <1>5 DEF PublishFinal, handlers, streams
<1>6. ASSUME NEW t \in Transcribers, Crash(t)
      PROVE  Connected' /\ ClaimantStreams'
  <2>1. Connected'
    BY <1>6 DEF Crash, Will
  <2>2. ClaimantStreams'
    BY <1>6, NoneAssumption DEF Crash
  <2> QED
    BY <2>1, <2>2
<1> QED
  BY <1>1, <1>2, <1>3, <1>4, <1>5, <1>6 DEF Streams

\* What the Transcribers do changes no row; it leaves the chains alone or adds a message.
LEMMA StreamsEffect ==
  ASSUME Streams
  PROVE  /\ UNCHANGED <<database, worker, txn>>
         /\ \/ UNCHANGED chain
            \/ \E c \in Channels, t \in Transcribers, op \in {"active", "inactive", "final"} :
                   ChainTask(c, op, t)
BY DEF Streams, StartStream, ReplaceStream, FlushEnd, StopStream, PublishFinal, Crash, chains

\* The task at the head of a chain stays there when messages arrive.
LEMMA StreamsKeepHeads ==
  ASSUME TypeInv, Streams, NEW c \in Channels, chain[c] # <<>>
  PROVE  Head(chain'[c]) = Head(chain[c])
<1>1. ASSUME NEW d \in Channels, NEW t \in Transcribers,
             NEW op \in {"active", "inactive", "final"}, ChainTask(d, op, t)
      PROVE  Head(chain'[c]) = Head(chain[c])
  BY <1>1, ChainTaskType DEF TypeInv, TypeOK
<1> QED
  BY <1>1, StreamsEffect

LEMMA WrittenFromHeadStep ==
  ASSUME TypeInv, RowLockDiscipline, WrittenFromHead,
         \/ Streams
         \/ \E c \in Channels : \/ UpdateSessionWrite(c) \/ UpdateSessionCommit(c)
                                \/ SaveTranscription(c) \/ UpdateSessionGone(c)
                                \/ PublishSend(c)
         \/ \E t \in Transcribers : UnregisterChannels(t)
         \/ RowsOnly
  PROVE  WrittenFromHead'
<1>1. CASE Streams
  <2>1. \A c \in Channels : worker[c] = "written" => Head(chain'[c]) = Head(chain[c])
    BY <1>1, StreamsKeepHeads DEF TypeInv, ChainDiscipline
  <2>2. UNCHANGED <<worker, txn, transcriberId>>
    BY <1>1, StreamsEffect DEF database
  <2> QED
    BY <2>1, <2>2 DEF WrittenFromHead
<1>2. ASSUME NEW c \in Channels, UpdateSessionWrite(c)
      PROVE  WrittenFromHead'
  <2>1. \A d \in Channels \ {c} : worker'[d] # "written"
    BY <1>2 DEF UpdateSessionWrite, RowLockDiscipline, TypeInv, TypeOK, ChainType
  <2>2. UNCHANGED <<chain, transcriberId>>
    BY <1>2 DEF UpdateSessionWrite, database
  <2> DEFINE tk  == Head(chain[c])
             hit == UpdatesChannel(c, tk)
  <2>3. /\ txn'[c].hit = hit
        /\ txn'[c].stream = IF hit THEN tk.op ELSE streamStatus[c]
        /\ txn'[c].owner = IF tk.op = "active" THEN tk.by
                           ELSE IF hit THEN None ELSE transcriberId[c]
    BY <1>2 DEF UpdateSessionWrite, TypeInv, TypeOK, ChainType
  <2>4. tk.op = "active" => hit
    BY DEF UpdatesChannel
  <2>5. tk.op = "inactive" /\ hit => transcriberId[c] = tk.by
    BY DEF UpdatesChannel
  <2>6. tk = Head(chain'[c])
    BY <2>2
  <2> HIDE DEF tk, hit
  <2>7. worker'[c] = "written" =>
            /\ tk.op = "active" =>
                   /\ txn'[c].hit
                   /\ txn'[c].stream = "active" /\ txn'[c].owner = tk.by
            /\ txn'[c].hit /\ tk.op = "inactive" =>
                   /\ transcriberId'[c] = tk.by
                   /\ txn'[c].stream = "inactive" /\ txn'[c].owner = None
    BY <2>2, <2>3, <2>4, <2>5
  <2> QED
    BY <2>1, <2>6, <2>7 DEF WrittenFromHead
<1>3. ASSUME NEW c \in Channels, UpdateSessionCommit(c)
      PROVE  WrittenFromHead'
  <2>1. \A d \in Channels : worker'[d] # "written"
    BY <1>3 DEF UpdateSessionCommit, RowLockDiscipline, TypeInv, TypeOK, ChainType
  <2> QED
    BY <2>1 DEF WrittenFromHead
<1>4. ASSUME NEW c \in Channels,
             SaveTranscription(c) \/ UpdateSessionGone(c) \/ PublishSend(c)
      PROVE  WrittenFromHead'
  <2>1. worker'[c] # "written"
    BY <1>4 DEF SaveTranscription, UpdateSessionGone, PublishSend, NextTask,
       TypeInv, TypeOK, ChainType
  <2>2. /\ UNCHANGED <<txn, transcriberId>>
        /\ \A d \in Channels \ {c} : worker'[d] = worker[d] /\ chain'[d] = chain[d]
    BY <1>4 DEF SaveTranscription, UpdateSessionGone, PublishSend, database,
       TypeInv, TypeOK, ChainType
  <2> QED
    BY <2>1, <2>2 DEF WrittenFromHead
<1>5. ASSUME NEW t \in Transcribers, UnregisterChannels(t)
      PROVE  WrittenFromHead'
  <2>1. UNCHANGED <<chain, worker, txn>>
    BY <1>5 DEF UnregisterChannels
  <2>2. \A c \in Channels : ChannelLocked(c) => transcriberId'[c] = transcriberId[c]
    BY <1>5 DEF UnregisterChannels
  <2> QED
    BY <2>1, <2>2 DEF WrittenFromHead, ChannelLocked
<1>6. CASE RowsOnly
  <2>1. UNCHANGED <<chain, txn>>
    BY <1>6 DEF RowsOnly
  <2>2. \A c \in Channels : worker'[c] = "written" =>
            worker[c] = "written" /\ transcriberId' = transcriberId
    BY <1>6, NoneAssumption DEF RowsOnly, RowLockDiscipline, SessionUnlocked
  <2> QED
    BY <2>1, <2>2 DEF WrittenFromHead
<1> QED
  BY <1>1, <1>2, <1>3, <1>4, <1>5, <1>6

\* The order of deactivations and captions survives the end of a task ...
LEMMA ShrunkOrder ==
  ASSUME TypeInv, TypeInv', NEW c \in Channels, NEW t \in Transcribers, Shrunk(c)
  PROVE  /\ EndBehindFinals(c, t) => EndBehindFinals(c, t)'
         /\ ActivatedLast(c, t) => ActivatedLast(c, t)'
<1>1. PICK n \in Nat : n = Len(chain[c]) /\ DOMAIN chain[c] = 1..n
  BY ChainElements
<1>2. chain'[c] \in Seq(Tasks)
  BY DEF TypeInv, TypeOK, ChainType
<1>3. Len(chain'[c]) = n - 1 /\ \A i \in 1..(n - 1) : chain'[c][i] = chain[c][i + 1]
  BY <1>1 DEF Shrunk
<1>4. DOMAIN chain'[c] = 1..(n - 1)
  BY <1>2, <1>3, LenProperties
<1>5. ASSUME NEW i \in 1..(n - 1), NEW j \in 1..(n - 1), ActivatedBetween(c, t, i + 1, j + 1)
      PROVE  ActivatedBetween(c, t, i, j)'
  <2>1. PICK k \in 1..n : /\ i + 1 < k /\ k <= j + 1
                          /\ chain[c][k].op = "active" /\ chain[c][k].by = t
    BY <1>1, <1>5 DEF ActivatedBetween
  <2>2. k - 1 \in 1..(n - 1) /\ (k - 1) + 1 = k /\ i < k - 1 /\ k - 1 <= j
    BY <1>1, <2>1
  <2>3. chain'[c][k - 1] = chain[c][k]
    BY <1>3, <2>2
  <2> QED
    BY <1>4, <2>1, <2>2, <2>3 DEF ActivatedBetween
<1>6. \A i \in 1..(n - 1) : i + 1 \in 1..n
  BY <1>1
<1>7. ASSUME EndBehindFinals(c, t) PROVE EndBehindFinals(c, t)'
  <2> SUFFICES ASSUME NEW i \in 1..(n - 1), NEW j \in 1..(n - 1), i < j,
                      chain[c][i + 1].op = "inactive", chain[c][i + 1].by = t,
                      chain[c][j + 1].op = "final", chain[c][j + 1].by = t
               PROVE  ActivatedBetween(c, t, i, j)'
    BY <1>3, <1>4 DEF EndBehindFinals
  <2>1. i + 1 < j + 1
    BY <1>1
  <2>2. ActivatedBetween(c, t, i + 1, j + 1)
    BY <1>1, <1>6, <1>7, <2>1 DEF EndBehindFinals
  <2> QED
    BY <1>5, <2>2
<1>8. ASSUME ActivatedLast(c, t) PROVE ActivatedLast(c, t)'
  <2> SUFFICES ASSUME NEW i \in 1..(n - 1),
                      chain[c][i + 1].op = "inactive", chain[c][i + 1].by = t
               PROVE  ActivatedBetween(c, t, i, n - 1)'
    BY <1>3, <1>4 DEF ActivatedLast
  <2>1. ActivatedBetween(c, t, i + 1, n)
    BY <1>1, <1>6, <1>8 DEF ActivatedLast
  <2>2. n - 1 \in 1..(n - 1) /\ (n - 1) + 1 = n
    BY <1>1
  <2> QED
    BY <1>5, <2>1, <2>2
<1> QED
  BY <1>7, <1>8

\* ... and a message that is neither a caption of Transcriber t nor its deactivation.
LEMMA GrownOrder ==
  ASSUME TypeInv, TypeInv', NEW c \in Channels, NEW t \in Transcribers,
         NEW op \in {"active", "inactive", "final"}, NEW u \in Transcribers, Grown(c, op, u)
  PROVE  /\ EndBehindFinals(c, t) /\ (op = "final" /\ u = t => ActivatedLast(c, t))
            => EndBehindFinals(c, t)'
         /\ ActivatedLast(c, t) /\ ~(op = "inactive" /\ u = t) => ActivatedLast(c, t)'
         /\ op = "active" /\ u = t => ActivatedLast(c, t)'
<1>1. PICK n \in Nat : n = Len(chain[c]) /\ DOMAIN chain[c] = 1..n
  BY ChainElements
<1>2. chain'[c] \in Seq(Tasks)
  BY DEF TypeInv, TypeOK, ChainType
<1>3. /\ Len(chain'[c]) = n + 1
      /\ \A i \in 1..n : chain'[c][i] = chain[c][i]
      /\ chain'[c][n + 1].op = op /\ chain'[c][n + 1].by = u
  BY <1>1 DEF Grown
<1>4. DOMAIN chain'[c] = 1..(n + 1)
  BY <1>2, <1>3, LenProperties
<1>5. \A i \in 1..(n + 1) : i \in 1..n \/ i = n + 1
  BY <1>1
<1>6. ASSUME NEW i \in 1..n, NEW j \in Nat, NEW m \in Nat, j <= m, ActivatedBetween(c, t, i, j)
      PROVE  ActivatedBetween(c, t, i, m)'
  <2>1. PICK k \in 1..n : /\ i < k /\ k <= j
                          /\ chain[c][k].op = "active" /\ chain[c][k].by = t
    BY <1>1, <1>6 DEF ActivatedBetween
  <2>2. k \in 1..(n + 1) /\ k <= m /\ chain'[c][k] = chain[c][k]
    BY <1>1, <1>3, <1>6, <2>1
  <2> QED
    BY <1>4, <2>1, <2>2 DEF ActivatedBetween
<1>7. ASSUME EndBehindFinals(c, t), op = "final" /\ u = t => ActivatedLast(c, t)
      PROVE  EndBehindFinals(c, t)'
  <2> SUFFICES ASSUME NEW i \in 1..(n + 1), NEW j \in 1..(n + 1), i < j,
                      chain'[c][i].op = "inactive", chain'[c][i].by = t,
                      chain'[c][j].op = "final", chain'[c][j].by = t
               PROVE  ActivatedBetween(c, t, i, j)'
    BY <1>4 DEF EndBehindFinals
  <2>1. i \in 1..n /\ chain[c][i] = chain'[c][i]
    BY <1>1, <1>3
  <2>2. CASE j \in 1..n
    <3>1. chain[c][j] = chain'[c][j]
      BY <1>3, <2>2
    <3>2. ActivatedBetween(c, t, i, j)
      BY <1>1, <1>7, <2>1, <2>2, <3>1 DEF EndBehindFinals
    <3> QED
      BY <1>6, <2>1, <3>2
  <2>3. CASE j = n + 1
    <3>1. ActivatedLast(c, t)
      BY <1>3, <1>7, <2>3
    <3>2. ActivatedBetween(c, t, i, n)
      BY <1>1, <2>1, <3>1 DEF ActivatedLast
    <3> QED
      BY <1>6, <2>1, <2>3, <3>2
  <2> QED
    BY <1>5, <2>2, <2>3
<1>8. ASSUME ActivatedLast(c, t), ~(op = "inactive" /\ u = t)
      PROVE  ActivatedLast(c, t)'
  <2> SUFFICES ASSUME NEW i \in 1..(n + 1), chain'[c][i].op = "inactive", chain'[c][i].by = t
               PROVE  ActivatedBetween(c, t, i, n + 1)'
    BY <1>3, <1>4 DEF ActivatedLast
  <2>1. i \in 1..n /\ chain[c][i] = chain'[c][i]
    BY <1>3, <1>5, <1>8
  <2>2. ActivatedBetween(c, t, i, n)
    BY <1>1, <1>8, <2>1 DEF ActivatedLast
  <2>3. n + 1 \in Nat /\ n <= n + 1
    OBVIOUS
  <2> QED
    BY <1>6, <2>1, <2>2, <2>3
<1>9. ASSUME op = "active", u = t
      PROVE  ActivatedLast(c, t)'
  <2> SUFFICES ASSUME NEW i \in 1..(n + 1), chain'[c][i].op = "inactive"
               PROVE  ActivatedBetween(c, t, i, n + 1)'
    BY <1>3, <1>4 DEF ActivatedLast
  <2>1. i < n + 1 /\ n + 1 \in 1..(n + 1) /\ n + 1 <= n + 1
    BY <1>3, <1>5, <1>9
  <2> QED
    BY <1>3, <1>4, <1>9, <2>1 DEF ActivatedBetween
<1> QED
  BY <1>7, <1>8, <1>9

\* A channel whose chain does not change keeps its order.
LEMMA SameOrder ==
  ASSUME NEW c \in Channels, NEW t \in Transcribers, chain'[c] = chain[c]
  PROVE  /\ EndBehindFinals(c, t) => EndBehindFinals(c, t)'
         /\ ActivatedLast(c, t) => ActivatedLast(c, t)'
BY DEF EndBehindFinals, ActivatedLast, ActivatedBetween

\* The tasks at the head of their chains end.
LEMMA TasksEnd ==
  ASSUME TypeInv, NEW c \in Channels,
         SaveTranscription(c) \/ UpdateSessionGone(c) \/ PublishSend(c)
  PROVE  Shrunk(c) /\ UNCHANGED <<streams, handlers, used, streamStatus, transcriberId, txn>>
<1>1. chain[c] # <<>> /\ chain' = [chain EXCEPT ![c] = Tail(@)]
  BY DEF SaveTranscription, UpdateSessionGone, PublishSend, NextTask, Snapshots,
     TypeInv, ChainDiscipline
<1>2. UNCHANGED <<streams, handlers, used, streamStatus, transcriberId, txn>>
  BY DEF SaveTranscription, UpdateSessionGone, PublishSend, database
<1> QED
  BY <1>1, <1>2, TailShrinks

\* A stream that is not replaced ends with its deactivation, behind all it has published.
LEMMA FinalsBeforeEndStep ==
  ASSUME TypeInv, TypeInv', Connected, FinalsBeforeEnd,
         \/ Streams
         \/ \E c \in Channels : \/ UpdateSessionWrite(c) \/ UpdateSessionCommit(c)
                                \/ SaveTranscription(c) \/ UpdateSessionGone(c)
                                \/ PublishSend(c)
         \/ \E t \in Transcribers : UnregisterChannels(t)
         \/ RowsOnly
  PROVE  FinalsBeforeEnd'
<1>1. CASE RowsOnly \/ UNCHANGED <<chain, streaming, flushing, used>>
  <2>1. used'["replace"] = used["replace"] /\ UNCHANGED <<chain, streaming, flushing>>
    BY <1>1 DEF RowsOnly
  <2> QED
    BY <2>1, SameOrder DEF FinalsBeforeEnd
<1>2. ASSUME NEW c \in Channels,
             SaveTranscription(c) \/ UpdateSessionGone(c) \/ PublishSend(c)
      PROVE  FinalsBeforeEnd'
  <2>1. Shrunk(c) /\ UNCHANGED <<used, streaming, flushing>>
    BY <1>2, TasksEnd DEF streams
  <2>2. \A d \in Channels \ {c} : chain'[d] = chain[d]
    BY <2>1 DEF Shrunk
  <2>3. \A d \in Channels, t \in Transcribers :
            /\ EndBehindFinals(d, t) => EndBehindFinals(d, t)'
            /\ ActivatedLast(d, t) => ActivatedLast(d, t)'
    BY <2>1, <2>2, ShrunkOrder, SameOrder
  <2> QED
    BY <2>1, <2>3 DEF FinalsBeforeEnd
<1>3. ASSUME NEW c \in Channels, UpdateSessionWrite(c) \/ UpdateSessionCommit(c)
      PROVE  FinalsBeforeEnd'
  BY <1>1, <1>3 DEF UpdateSessionWrite, UpdateSessionCommit, streams
<1>4. ASSUME NEW t \in Transcribers, UnregisterChannels(t)
      PROVE  FinalsBeforeEnd'
  BY <1>1, <1>4 DEF UnregisterChannels, streams
<1>5. ASSUME NEW t \in Transcribers, NEW c \in Channels, StartStream(t, c)
      PROVE  FinalsBeforeEnd'
  <2>1. link[t] = "up" /\ schedulerLink = "up" /\ ChainTask(c, "active", t)
    BY <1>5 DEF StartStream, Connected
  <2>2. Grown(c, "active", t)
    BY <2>1, ChainTaskGrows
  <2>3. \A d \in Channels \ {c} : chain'[d] = chain[d]
    BY <2>2 DEF Grown
  <2>4. /\ used'["replace"] = used["replace"] /\ flushing' = flushing
        /\ streaming' = [streaming EXCEPT ![t] = @ \cup {c}]
    BY <1>5, SpendOther DEF StartStream, Kinds, TypeInv, TypeOK
  <2>5. \A d \in Channels, u \in Transcribers : EndBehindFinals(d, u) => EndBehindFinals(d, u)'
    BY <2>2, <2>3, GrownOrder, SameOrder
  <2>6. \A d \in Channels, u \in Transcribers : ActivatedLast(d, u) => ActivatedLast(d, u)'
    BY <2>2, <2>3, GrownOrder, SameOrder
  <2>7. ActivatedLast(c, t)'
    BY <2>2, GrownOrder
  <2> QED
    BY <2>4, <2>5, <2>6, <2>7 DEF FinalsBeforeEnd, TypeInv, TypeOK, StreamType
<1>6. ASSUME NEW t \in Transcribers, NEW c \in Channels, StopStream(t, c)
      PROVE  FinalsBeforeEnd'
  <2>1. link[t] = "up" /\ schedulerLink = "up" /\ ChainTask(c, "inactive", t)
    BY <1>6 DEF StopStream, Connected
  <2>2. Grown(c, "inactive", t)
    BY <2>1, ChainTaskGrows
  <2>3. \A d \in Channels \ {c} : chain'[d] = chain[d]
    BY <2>2 DEF Grown
  <2>4. /\ used' = used /\ flushing' = flushing
        /\ streaming' = [streaming EXCEPT ![t] = @ \ {c}]
    BY <1>6 DEF StopStream
  <2>5. \A d \in Channels, u \in Transcribers : EndBehindFinals(d, u) => EndBehindFinals(d, u)'
    BY <2>2, <2>3, GrownOrder, SameOrder
  <2>6. \A d \in Channels, u \in Transcribers :
            ActivatedLast(d, u) /\ ~(d = c /\ u = t) => ActivatedLast(d, u)'
    BY <2>2, <2>3, GrownOrder, SameOrder
  <2> QED
    BY <2>4, <2>5, <2>6 DEF FinalsBeforeEnd, TypeInv, TypeOK, StreamType
<1>7. ASSUME NEW t \in Transcribers, NEW c \in Channels, PublishFinal(t, c)
      PROVE  FinalsBeforeEnd'
  <2>1. link[t] = "up" /\ schedulerLink = "up" /\ ChainTask(c, "final", t)
    BY <1>7 DEF PublishFinal, Connected
  <2>2. Grown(c, "final", t)
    BY <2>1, ChainTaskGrows
  <2>3. \A d \in Channels \ {c} : chain'[d] = chain[d]
    BY <2>2 DEF Grown
  <2>4. used'["replace"] = used["replace"] /\ UNCHANGED <<flushing, streaming>>
    BY <1>7, SpendOther DEF PublishFinal, Kinds, TypeInv, TypeOK, streams
  <2>5. \A d \in Channels, u \in Transcribers : ActivatedLast(d, u) => ActivatedLast(d, u)'
    BY <2>2, <2>3, GrownOrder, SameOrder
  <2>6. \A d \in Channels, u \in Transcribers :
            EndBehindFinals(d, u) /\ (d = c /\ u = t => ActivatedLast(d, u))
            => EndBehindFinals(d, u)'
    BY <2>2, <2>3, GrownOrder, SameOrder
  <2>7. c \in streaming[t] \/ c \in flushing[t]
    BY <1>7 DEF PublishFinal
  <2> QED
    BY <2>4, <2>5, <2>6, <2>7 DEF FinalsBeforeEnd
<1>8. ASSUME NEW t \in Transcribers, NEW c \in Channels, ReplaceStream(t, c)
      PROVE  FinalsBeforeEnd'
  <2>1. used'["replace"] # 0
    BY <1>8 DEF ReplaceStream, Spend, TypeInv, TypeOK, UsedType, Kinds
  <2> QED
    BY <2>1 DEF FinalsBeforeEnd
<1>9. ASSUME NEW t \in Transcribers, NEW c \in Channels, FlushEnd(t, c)
      PROVE  FinalsBeforeEnd'
  BY <1>9 DEF FlushEnd, FinalsBeforeEnd
<1>10. ASSUME NEW t \in Transcribers, Crash(t)
       PROVE  FinalsBeforeEnd'
  <2>1. /\ used'["replace"] = used["replace"] /\ chain' = chain
        /\ streaming' = [streaming EXCEPT ![t] = {}]
        /\ flushing' = [flushing EXCEPT ![t] = {}]
    BY <1>10, SpendOther DEF Crash, chains, Kinds, TypeInv, TypeOK
  <2> QED
    BY <2>1, SameOrder DEF FinalsBeforeEnd, TypeInv, TypeOK, StreamType
<1> QED
  BY <1>1, <1>2, <1>3, <1>4, <1>5, <1>6, <1>7, <1>8, <1>9, <1>10 DEF Streams

\* A channel wins on while neither its row nor its chain changes ...
LEMMA SameWins ==
  ASSUME NEW c \in Channels, NEW t \in Transcribers, Wins(c, t), chain'[c] = chain[c],
         worker'[c] = "publishing" <=> worker[c] = "publishing",
         streamStatus'[c] = streamStatus[c], transcriberId'[c] = transcriberId[c]
  PROVE  Wins(c, t)'
<1>1. FirstPending(c)' = FirstPending(c)
  BY DEF FirstPending
<1>2. CASE streamStatus[c] = "active" /\ transcriberId[c] = t /\ HarmlessFrom(c, t, FirstPending(c))
  BY <1>1, <1>2 DEF Wins, HarmlessFrom, Harmless
<1>3. ASSUME NEW i \in DOMAIN chain[c], i >= FirstPending(c), chain[c][i].op = "active",
             chain[c][i].by = t, HarmlessFrom(c, t, i + 1)
      PROVE  Wins(c, t)'
  BY <1>1, <1>3 DEF Wins, HarmlessFrom, Harmless
<1> QED
  BY <1>2, <1>3 DEF Wins

\* ... when a task ends that is committed, or that leaves the stream alone ...
LEMMA ShrunkWins ==
  ASSUME TypeInv, TypeInv', NEW c \in Channels, NEW t \in Transcribers, Wins(c, t), Shrunk(c),
         worker[c] = "publishing" \/ (Len(chain[c]) > 0 => chain[c][1].op = "final"),
         worker'[c] # "publishing",
         streamStatus'[c] = streamStatus[c], transcriberId'[c] = transcriberId[c]
  PROVE  Wins(c, t)'
<1>1. PICK n \in Nat : n = Len(chain[c]) /\ DOMAIN chain[c] = 1..n
  BY ChainElements
<1>2. chain'[c] \in Seq(Tasks)
  BY DEF TypeInv, TypeOK, ChainType
<1>3. Len(chain'[c]) = n - 1 /\ \A i \in 1..(n - 1) : chain'[c][i] = chain[c][i + 1]
  BY <1>1 DEF Shrunk
<1>4. DOMAIN chain'[c] = 1..(n - 1)
  BY <1>2, <1>3, LenProperties
<1>5. FirstPending(c)' = 1 /\ FirstPending(c) \in {1, 2}
  BY DEF FirstPending
<1>6. ASSUME NEW i \in Nat, NEW m \in Nat, i <= m + 1, HarmlessFrom(c, t, i)
      PROVE  HarmlessFrom(c, t, m)'
  <2> SUFFICES ASSUME NEW j \in 1..(n - 1), j >= m
               PROVE  Harmless(chain[c][j + 1], t)
    BY <1>3, <1>4 DEF HarmlessFrom, Harmless
  <2>1. j + 1 \in 1..n /\ j + 1 >= i
    BY <1>1, <1>6
  <2> QED
    BY <1>1, <1>6, <2>1 DEF HarmlessFrom
<1>7. CASE streamStatus[c] = "active" /\ transcriberId[c] = t /\ HarmlessFrom(c, t, FirstPending(c))
  <2>1. HarmlessFrom(c, t, 1)'
    BY <1>5, <1>6, <1>7
  <2>2. HarmlessFrom(c, t, FirstPending(c))'
    BY <1>5, <2>1 DEF HarmlessFrom
  <2> QED
    BY <1>7, <2>2 DEF Wins
<1>8. ASSUME NEW i \in 1..n, i >= FirstPending(c), chain[c][i].op = "active",
             chain[c][i].by = t, HarmlessFrom(c, t, i + 1)
      PROVE  Wins(c, t)'
  <2>1. i >= 2
    BY <1>1, <1>5, <1>8 DEF FirstPending
  <2>2. PICK k \in 1..(n - 1) : k + 1 = i
    <3>1. i - 1 \in 1..(n - 1) /\ (i - 1) + 1 = i
      BY <1>1, <2>1
    <3> QED
      BY <3>1
  <2>3. chain'[c][k] = chain[c][i] /\ k >= 1
    BY <1>3, <2>2
  <2>4. HarmlessFrom(c, t, k + 1)'
    BY <1>6, <1>8, <2>2
  <2> QED
    BY <1>4, <1>5, <1>8, <2>2, <2>3, <2>4 DEF Wins
<1> QED
  BY <1>1, <1>7, <1>8 DEF Wins

\* ... and when a message arrives that is an activation by the same Transcriber, or that
\* leaves the stream alone.
LEMMA GrownWins ==
  ASSUME TypeInv, TypeInv', NEW c \in Channels, NEW t \in Transcribers,
         NEW op \in {"active", "inactive", "final"}, NEW u \in Transcribers, Grown(c, op, u),
         \/ op = "active" /\ u = t
         \/ Wins(c, t) /\ Harmless([op |-> op, by |-> u], t),
         worker'[c] = worker[c],
         streamStatus'[c] = streamStatus[c], transcriberId'[c] = transcriberId[c]
  PROVE  Wins(c, t)'
<1>1. PICK n \in Nat : n = Len(chain[c]) /\ DOMAIN chain[c] = 1..n
  BY ChainElements
<1>2. chain'[c] \in Seq(Tasks)
  BY DEF TypeInv, TypeOK, ChainType
<1>3. /\ Len(chain'[c]) = n + 1
      /\ \A i \in 1..n : chain'[c][i] = chain[c][i]
      /\ chain'[c][n + 1].op = op /\ chain'[c][n + 1].by = u
  BY <1>1 DEF Grown
<1>4. DOMAIN chain'[c] = 1..(n + 1)
  BY <1>2, <1>3, LenProperties
<1>5. \A i \in 1..(n + 1) : i \in 1..n \/ i = n + 1
  BY <1>1
<1>6. FirstPending(c)' = FirstPending(c) /\ FirstPending(c) \in {1, 2}
  BY DEF FirstPending
<1>7. ASSUME op = "active", u = t
      PROVE  Wins(c, t)'
  <2>1. FirstPending(c) <= n + 1
    BY <1>1, ChainElements DEF FirstPending, TypeInv, ChainDiscipline
  <2>2. n + 1 \in 1..(n + 1)
    OBVIOUS
  <2>3. HarmlessFrom(c, t, (n + 1) + 1)'
    BY <1>4 DEF HarmlessFrom
  <2> QED
    BY <1>3, <1>4, <1>6, <1>7, <2>1, <2>2, <2>3 DEF Wins
<1>8. ASSUME NEW i \in Nat, HarmlessFrom(c, t, i), Harmless([op |-> op, by |-> u], t)
      PROVE  HarmlessFrom(c, t, i)'
  <2> SUFFICES ASSUME NEW j \in 1..(n + 1), j >= i
               PROVE  Harmless(chain'[c][j], t)
    BY <1>4 DEF HarmlessFrom, Harmless
  <2>1. CASE j = n + 1
    BY <1>3, <1>8, <2>1 DEF Harmless
  <2>2. CASE j \in 1..n
    BY <1>1, <1>3, <1>8, <2>2 DEF HarmlessFrom
  <2> QED
    BY <1>5, <2>1, <2>2
<1>9. CASE /\ streamStatus[c] = "active" /\ transcriberId[c] = t
           /\ HarmlessFrom(c, t, FirstPending(c)) /\ Harmless([op |-> op, by |-> u], t)
  <2>1. PICK f \in Nat : f = FirstPending(c)
    BY <1>6
  <2>2. HarmlessFrom(c, t, f)'
    BY <1>8, <1>9, <2>1
  <2>3. HarmlessFrom(c, t, FirstPending(c))'
    BY <1>6, <2>1, <2>2 DEF HarmlessFrom
  <2> QED
    BY <1>9, <2>3 DEF Wins
<1>10. ASSUME NEW i \in 1..n, i >= FirstPending(c), chain[c][i].op = "active",
              chain[c][i].by = t, HarmlessFrom(c, t, i + 1), Harmless([op |-> op, by |-> u], t)
       PROVE  Wins(c, t)'
  <2>1. HarmlessFrom(c, t, i + 1)'
    BY <1>8, <1>10
  <2>2. i \in 1..(n + 1) /\ chain'[c][i] = chain[c][i]
    BY <1>1, <1>3
  <2> QED
    BY <1>4, <1>6, <1>10, <2>1, <2>2 DEF Wins
<1> QED
  BY <1>1, <1>7, <1>9, <1>10 DEF Wins

\* The commit of an activation by Transcriber t, or of another task that leaves its stream alone.
LEMMA CommitWins ==
  ASSUME TypeInv, WrittenFromHead, NEW c \in Channels, NEW t \in Transcribers, Wins(c, t),
         UpdateSessionCommit(c)
  PROVE  Wins(c, t)'
<1>1. /\ worker[c] = "written" /\ worker'[c] = "publishing" /\ chain' = chain
      /\ streamStatus'[c] = IF txn[c].hit THEN txn[c].stream ELSE streamStatus[c]
      /\ transcriberId'[c] = IF txn[c].hit THEN txn[c].owner ELSE transcriberId[c]
  BY DEF UpdateSessionCommit, TypeInv, TypeOK, ChainType, DatabaseType
<1>2. PICK n \in Nat : n = Len(chain[c]) /\ DOMAIN chain[c] = 1..n
  BY ChainElements
<1>3. n > 0 /\ Head(chain[c]) = chain[c][1] /\ chain[c][1].op # "final"
  BY <1>1, <1>2, ChainElements DEF TypeInv, ChainDiscipline
<1>4. FirstPending(c) = 1 /\ FirstPending(c)' = 2
  BY <1>1 DEF FirstPending
<1>5. ASSUME streamStatus'[c] = "active", transcriberId'[c] = t, HarmlessFrom(c, t, 2)
      PROVE  Wins(c, t)'
  <2>1. HarmlessFrom(c, t, FirstPending(c))'
    BY <1>1, <1>4, <1>5 DEF HarmlessFrom, Harmless
  <2> QED
    BY <1>5, <2>1 DEF Wins
<1>6. CASE streamStatus[c] = "active" /\ transcriberId[c] = t /\ HarmlessFrom(c, t, FirstPending(c))
  <2>1. chain[c][1].op = "inactive" /\ chain[c][1].by # t
    BY <1>2, <1>3, <1>4, <1>6 DEF HarmlessFrom, Harmless
  <2>2. ~txn[c].hit
    BY <1>1, <1>3, <1>6, <2>1 DEF WrittenFromHead
  <2>3. HarmlessFrom(c, t, 2)
    BY <1>2, <1>4, <1>6 DEF HarmlessFrom
  <2> QED
    BY <1>1, <1>5, <1>6, <2>2, <2>3
<1>7. ASSUME chain[c][1].op = "active", chain[c][1].by = t, HarmlessFrom(c, t, 2)
      PROVE  Wins(c, t)'
  <2>1. txn[c].hit /\ txn[c].stream = "active" /\ txn[c].owner = t
    BY <1>1, <1>3, <1>7 DEF WrittenFromHead
  <2> QED
    BY <1>1, <1>5, <1>7, <2>1
<1>8. ASSUME NEW i \in 1..n, i >= 2, chain[c][i].op = "active", chain[c][i].by = t,
             HarmlessFrom(c, t, i + 1)
      PROVE  Wins(c, t)'
  <2>1. HarmlessFrom(c, t, i + 1)'
    BY <1>1, <1>8 DEF HarmlessFrom, Harmless
  <2> QED
    BY <1>1, <1>2, <1>4, <1>8, <2>1 DEF Wins
<1>9. \A i \in 1..n : i = 1 \/ i >= 2
  BY <1>2
<1> QED
  BY <1>2, <1>6, <1>7, <1>8, <1>9 DEF Wins

\* The last Transcriber to start a stream that still runs wins its channel, whatever step is taken.
LEMMA ClaimantWinsStep ==
  ASSUME TypeInv, TypeInv', Connected, ClaimantStreams, WrittenFromHead, ClaimantWins,
         Over => Over',
         \/ Streams
         \/ \E c \in Channels : \/ UpdateSessionWrite(c) \/ UpdateSessionCommit(c)
                                \/ SaveTranscription(c) \/ UpdateSessionGone(c)
                                \/ PublishSend(c)
         \/ \E t \in Transcribers : UnregisterChannels(t)
         \/ RowsOnly
  PROVE  ClaimantWins'
<1> SUFFICES ASSUME NEW d \in Channels, NEW t \in Transcribers, claimant'[d] = t, ~Over'
             PROVE  Wins(d, t)'
  BY DEF ClaimantWins, Over
<1>1. claimant[d] = t => Wins(d, t) /\ d \in streaming[t] /\ d \notin flushing[t] /\ link[t] # "dead"
  BY DEF ClaimantWins, ClaimantStreams, Connected, Over
<1>2. t # None
  BY NoneAssumption
<1>3. CASE RowsOnly
  BY <1>1, <1>3, SameWins DEF RowsOnly
<1>4. ASSUME NEW c \in Channels, UpdateSessionWrite(c)
      PROVE  Wins(d, t)'
  <2>1. /\ UNCHANGED <<chain, streamStatus, transcriberId, claimant>>
        /\ worker'[d] = "publishing" <=> worker[d] = "publishing"
    BY <1>4 DEF UpdateSessionWrite, database, streams, TypeInv, TypeOK, ChainType
  <2> QED
    BY <1>1, <2>1, SameWins
<1>5. ASSUME NEW c \in Channels, UpdateSessionCommit(c)
      PROVE  Wins(d, t)'
  <2>1. claimant' = claimant
    BY <1>5 DEF UpdateSessionCommit, streams
  <2>2. CASE d # c
    <3>1. /\ chain' = chain /\ worker'[d] = worker[d]
          /\ streamStatus'[d] = streamStatus[d] /\ transcriberId'[d] = transcriberId[d]
      BY <1>5, <2>2 DEF UpdateSessionCommit, TypeInv, TypeOK, ChainType, DatabaseType
    <3> QED
      BY <1>1, <2>1, <3>1, SameWins
  <2> QED
    BY <1>1, <1>5, <2>1, <2>2, CommitWins
<1>6. ASSUME NEW c \in Channels, SaveTranscription(c) \/ UpdateSessionGone(c) \/ PublishSend(c)
      PROVE  Wins(d, t)'
  <2>1. Shrunk(c) /\ UNCHANGED <<claimant, streamStatus, transcriberId>>
    BY <1>6, TasksEnd DEF streams
  <2>2. CASE d # c
    <3>1. chain'[d] = chain[d]
      BY <2>1, <2>2 DEF Shrunk
    <3>2. worker'[d] = worker[d]
      BY <1>6, <2>2 DEF SaveTranscription, UpdateSessionGone, PublishSend, TypeInv, TypeOK, ChainType
    <3> QED
      BY <1>1, <2>1, <3>1, <3>2, SameWins
  <2>3. CASE d = c
    <3>1. ~UpdateSessionGone(c)
      BY DEF UpdateSessionGone, database, Over
    <3>2. worker'[c] # "publishing"
      BY <1>6, <3>1 DEF SaveTranscription, PublishSend, NextTask, TypeInv, TypeOK, ChainType
    <3>3. worker[c] = "publishing" \/ (Len(chain[c]) > 0 => chain[c][1].op = "final")
      <4>1. CASE SaveTranscription(c)
        BY <4>1, ChainElements DEF SaveTranscription, NextTask
      <4>2. CASE PublishSend(c)
        BY <4>2 DEF PublishSend, Snapshots, TypeInv, ChainDiscipline
      <4> QED
        BY <1>6, <3>1, <4>1, <4>2
    <3> QED
      BY <1>1, <2>1, <2>3, <3>2, <3>3, ShrunkWins
  <2> QED
    BY <2>2, <2>3
<1>7. ASSUME NEW u \in Transcribers, UnregisterChannels(u)
      PROVE  Wins(d, t)'
  <2>1. UNCHANGED <<claimant, chain, worker>> /\ link[u] = "dead"
    BY <1>7 DEF UnregisterChannels, streams, Connected
  <2>2. u # t
    BY <1>1, <2>1
  <2>3. Wins(d, t)
    BY <1>1, <2>1
  <2>4. CASE transcriberId[d] = u
    <3>1. PICK i \in DOMAIN chain[d] : /\ i >= FirstPending(d)
                                       /\ chain[d][i].op = "active" /\ chain[d][i].by = t
                                       /\ HarmlessFrom(d, t, i + 1)
      BY <2>2, <2>3, <2>4 DEF Wins
    <3>2. FirstPending(d)' = FirstPending(d) /\ HarmlessFrom(d, t, i + 1)'
      BY <2>1, <3>1 DEF FirstPending, HarmlessFrom, Harmless
    <3> QED
      BY <2>1, <3>1, <3>2 DEF Wins
  <2>5. CASE transcriberId[d] # u
    <3>1. streamStatus'[d] = streamStatus[d] /\ transcriberId'[d] = transcriberId[d]
      BY <1>7, <2>5 DEF UnregisterChannels
    <3> QED
      BY <2>1, <2>3, <3>1, SameWins
  <2> QED
    BY <2>4, <2>5
<1>8. CASE Streams
  <2>1. UNCHANGED <<worker, streamStatus, transcriberId>>
    BY <1>8, StreamsEffect DEF database
  <2>2. ASSUME claimant[d] = t, chain'[d] = chain[d] PROVE Wins(d, t)'
    BY <1>1, <2>1, <2>2, SameWins
  <2>3. ASSUME NEW u \in Transcribers, NEW op \in {"active", "inactive", "final"}, Grown(d, op, u),
               \/ op = "active" /\ u = t
               \/ claimant[d] = t /\ (op = "final" \/ (op = "inactive" /\ u # t))
        PROVE  Wins(d, t)'
    BY <1>1, <2>1, <2>3, GrownWins DEF Harmless
  <2>4. ASSUME NEW u \in Transcribers, NEW c \in Channels, StartStream(u, c)
        PROVE  Wins(d, t)'
    <3>1. link[u] = "up" /\ schedulerLink = "up" /\ ChainTask(c, "active", u)
      BY <2>4 DEF StartStream, Connected
    <3>2. Grown(c, "active", u)
      BY <3>1, ChainTaskGrows
    <3>3. /\ d = c => t = u
          /\ d # c => claimant[d] = t
      BY <1>2, <2>4, <3>1 DEF StartStream, Claim, TypeInv, TypeOK, StreamType
    <3>4. d # c => chain'[d] = chain[d]
      BY <3>2 DEF Grown
    <3> QED
      BY <2>2, <2>3, <3>2, <3>3, <3>4
  <2>5. ASSUME NEW u \in Transcribers, NEW c \in Channels, ReplaceStream(u, c)
        PROVE  Wins(d, t)'
    <3>1. link[u] = "up" /\ schedulerLink = "up" /\ ChainTask(c, "active", u)
      BY <2>5 DEF ReplaceStream, Connected
    <3>2. Grown(c, "active", u)
      BY <3>1, ChainTaskGrows
    <3>3. d # c /\ claimant[d] = t
      BY <1>2, <2>5, <3>1 DEF ReplaceStream, Claim, TypeInv, TypeOK, StreamType
    <3> QED
      BY <2>2, <3>2, <3>3 DEF Grown
  <2>6. ASSUME NEW u \in Transcribers, NEW c \in Channels, FlushEnd(u, c) \/ StopStream(u, c)
        PROVE  Wins(d, t)'
    <3>1. link[u] = "up" /\ schedulerLink = "up" /\ ChainTask(c, "inactive", u)
      BY <2>6 DEF FlushEnd, StopStream, Connected
    <3>2. Grown(c, "inactive", u)
      BY <3>1, ChainTaskGrows
    <3>3. claimant[d] = t /\ (d = c => u # t)
      <4>1. CASE FlushEnd(u, c)
        BY <1>1, <4>1 DEF FlushEnd
      <4>2. CASE StopStream(u, c)
        BY <1>2, <4>2 DEF StopStream, TypeInv, TypeOK, StreamType
      <4> QED
        BY <2>6, <4>1, <4>2
    <3>4. d # c => chain'[d] = chain[d]
      BY <3>2 DEF Grown
    <3> QED
      BY <2>2, <2>3, <3>2, <3>3, <3>4
  <2>7. ASSUME NEW u \in Transcribers, NEW c \in Channels, PublishFinal(u, c)
        PROVE  Wins(d, t)'
    <3>1. link[u] = "up" /\ schedulerLink = "up" /\ ChainTask(c, "final", u) /\ claimant' = claimant
      BY <2>7 DEF PublishFinal, Connected, streams
    <3>2. Grown(c, "final", u)
      BY <3>1, ChainTaskGrows
    <3>3. d # c => chain'[d] = chain[d]
      BY <3>2 DEF Grown
    <3> QED
      BY <2>2, <2>3, <3>1, <3>2, <3>3
  <2>8. ASSUME NEW u \in Transcribers, Crash(u)
        PROVE  Wins(d, t)'
    <3>1. chain' = chain /\ claimant[d] = t
      BY <1>2, <2>8 DEF Crash, chains, TypeInv, TypeOK, StreamType
    <3> QED
      BY <2>2, <3>1
  <2> QED
    BY <1>8, <2>4, <2>5, <2>6, <2>7, <2>8 DEF Streams
<1> QED
  BY <1>3, <1>4, <1>5, <1>6, <1>7, <1>8

\* No step of a steady system breaks the invariant of the chains.
LEMMA ChainInvStep == ChainInv /\ [SteadyNext]_vars => ChainInv'
<1> SUFFICES ASSUME ChainInv, [SteadyNext]_vars
             PROVE  ChainInv'
  OBVIOUS
<1> USE DEF ChainInv
<1>1. [Next]_vars
  BY DEF Next
<1>2. TypeInv' /\ RowLockDiscipline' /\ SteadyInv'
  BY <1>1, NextTypeInv, RowLockStep, SteadyStep
<1>3. Over => Over'
  BY <1>1, OverStays
<1>4. Connected' /\ ClaimantStreams'
  <2>1. ASSUME NEW t \in Transcribers, UnregisterChannels(t)
        PROVE  Connected' /\ ClaimantStreams'
    <3>1. /\ unregister[t] # "idle" /\ unregister' = [unregister EXCEPT ![t] = "session"]
          /\ UNCHANGED <<streams, schedulerLink>>
      BY <2>1 DEF UnregisterChannels
    <3>2. \A u \in Transcribers : unregister'[u] # "idle" => unregister[u] # "idle"
      BY <3>1 DEF TypeInv, TypeOK, HandlerType
    <3> QED
      BY <3>1, <3>2 DEF Connected, ClaimantStreams, streams
  <2>2. ASSUME NEW c \in Channels, UpdateSessionWrite(c) \/ UpdateSessionCommit(c)
        PROVE  UNCHANGED <<streams, handlers>>
    BY <2>2 DEF UpdateSessionWrite, UpdateSessionCommit
  <2> QED
    BY <2>1, <2>2, SteadyCases, StreamsConnected, TasksEnd, ConnectedKept
<1>5. WrittenFromHead'
  BY SteadyCases, WrittenFromHeadStep
<1>6. FinalsBeforeEnd'
  BY <1>2, SteadyCases, FinalsBeforeEndStep
<1>7. ClaimantWins'
  BY <1>2, <1>3, SteadyCases, ClaimantWinsStep
<1> QED
  BY <1>2, <1>4, <1>5, <1>6, <1>7

LEMMA ChainInvariance == SteadySpec => []ChainInv
<1>1. Init => ChainInv
  <2> SUFFICES ASSUME Init PROVE ChainInv
    OBVIOUS
  <2>1. TypeInv
    BY InitTypeInv
  <2>2. RowLockDiscipline
    BY DEF Init, RowLockDiscipline
  <2>3. SteadyInv
    BY NoneAssumption DEF Init, SteadyInv, IdleMeansNoStream, OwnerMatchesStream,
       RecountHolds, WriteConsistent, StopHasEnded, DeletedHasNoChannel, NoneActive
  <2>4. Connected /\ WrittenFromHead
    BY DEF Init, Connected, WrittenFromHead
  <2>5. ClaimantStreams /\ ClaimantWins
    BY NoneAssumption DEF Init, ClaimantStreams, ClaimantWins
  <2>6. FinalsBeforeEnd
    <3>1. ASSUME NEW c \in Channels PROVE DOMAIN chain[c] = {}
      <4>1. Len(chain[c]) = 0
        BY EmptySeq DEF Init
      <4>2. DOMAIN chain[c] = 1..Len(chain[c])
        BY <2>1, ChainElements
      <4> QED
        BY <4>1, <4>2
    <3> QED
      BY <3>1 DEF Init, FinalsBeforeEnd, EndBehindFinals, ActivatedLast
  <2> QED
    BY <2>1, <2>2, <2>3, <2>4, <2>5, <2>6 DEF ChainInv
<1> QED
  BY <1>1, ChainInvStep, PTL DEF SteadySpec

\* As long as connections stay up, a channel whose most recent stream still runs is active
\* and owned by that stream's Transcriber once the Scheduler has caught up, however many
\* Transcribers have taken it over from each other, died, or ended their streams late.
THEOREM LastWriteWins == SteadySpec => []LiveStreamIsActive
BY ChainInvariance, ChainInvImplies, PTL

\* As long as connections stay up and no stream has been replaced on its own Transcriber: in the
\* step in which a channel of a session that exists loses the living Transcriber that owns it,
\* every caption of that Transcriber that is still in the channel's chain was published by a
\* stream whose own activation is still ahead of it there.  This is about the order of commits
\* in one chain, which the drain of PUT /stop builds on; it does not say that a drain misses
\* no final.
THEOREM FinalsCommitBeforeEnd == SteadySpec => DrainBarrier
<1>1. ASSUME ChainInv, [SteadyNext]_vars, NEW c \in Channels, NEW t \in Transcribers,
             used["replace"] = 0, transcriberId[c] = t, transcriberId'[c] = None,
             link[t] = "up", status' # "deleted"
      PROVE  OnlyNewStreamsPending(c, t)
  <2> USE DEF ChainInv
  <2>1. transcriberId' # transcriberId
    BY <1>1, NoneAssumption
  <2>2. ~Streams /\ ~RowsOnly
    BY <1>1, <2>1, StreamsEffect DEF RowsOnly, database
  <2>3. \A u \in Transcribers : ~UnregisterChannels(u)
    BY <1>1, NoneAssumption DEF UnregisterChannels, Connected
  <2>4. PICK d \in Channels : UpdateSessionCommit(d)
    <3>1. \A d \in Channels : ~UpdateSessionWrite(d)
      BY <2>1 DEF UpdateSessionWrite, database
    <3> QED
      BY <1>1, <2>1, <2>2, <2>3, <3>1, SteadyCases, TasksEnd
  <2>5. d = c /\ worker[c] = "written" /\ txn[c].hit /\ txn[c].owner = None
    BY <1>1, <2>1, <2>4, NoneAssumption
       DEF UpdateSessionCommit, TypeInv, TypeOK, DatabaseType
  <2>6. Head(chain[c]).op = "inactive" /\ Head(chain[c]).by = t
    BY <1>1, <2>5, HeadTask, NoneAssumption DEF WrittenFromHead
  <2>7. chain[c] # <<>>
    BY <1>1, <2>5 DEF TypeInv, ChainDiscipline
  <2>8. PICK n \in Nat : n = Len(chain[c]) /\ DOMAIN chain[c] = 1..n /\ n > 0
    BY <1>1, <2>7, ChainElements
  <2>9. 1 \in 1..n /\ chain[c][1].op = "inactive" /\ chain[c][1].by = t
    BY <1>1, <2>6, <2>7, <2>8, ChainElements
  <2>10. EndBehindFinals(c, t)
    BY <1>1 DEF FinalsBeforeEnd
  <2> SUFFICES ASSUME NEW j \in 1..n, chain[c][j].op = "final", chain[c][j].by = t
               PROVE  \E k \in 1..j : chain[c][k].op = "active" /\ chain[c][k].by = t
    BY <2>8 DEF OnlyNewStreamsPending
  <2>11. 1 < j
    BY <2>8, <2>9
  <2>12. ActivatedBetween(c, t, 1, j)
    BY <2>8, <2>9, <2>10, <2>11 DEF EndBehindFinals
  <2> QED
    BY <2>8, <2>12 DEF ActivatedBetween
<1>2. ChainInv /\ [SteadyNext]_vars =>
        [\A c \in Channels, t \in Transcribers :
             /\ used["replace"] = 0
             /\ transcriberId[c] = t /\ transcriberId'[c] = None
             /\ link[t] = "up" /\ status' # "deleted"
             => OnlyNewStreamsPending(c, t)]_vars
  BY <1>1
<1> QED
  BY <1>2, ChainInvariance, PTL DEF SteadySpec, DrainBarrier

=============================================================================
