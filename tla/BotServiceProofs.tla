--------------------------- MODULE BotServiceProofs ----------------------------
(***************************************************************************)
(* The pool of Chromium contexts of a BotService is never overcommitted    *)
(* and loses no slot, and the records name bots that run, for any keys,    *)
(* any number of bots, any size of the pool and any number of events.      *)
(***************************************************************************)
EXTENDS BotService, FiniteSetTheorems, TLAPS

\* The bots whose createContext is in progress: each has reserved a slot.
Holders == {b \in Bots : start[b] \in {"launching", "opening"}}

\* A record is kept under the key of its bot, which has begun its init.
RecordsMatch ==
    \A k \in Keys : bots[k] # None =>
        key[bots[k]] = k /\ start[bots[k]] \notin {"unused", "replacing"}

\* A bot is not disposed before its init, nor while it is recorded and on its way.
DisposalFollows ==
    /\ \A b \in Bots : start[b] \in {"unused", "replacing"} => disposal[b] = "no"
    /\ \A k \in Keys, b \in Bots :
           /\ bots[k] = b
           /\ start[b] \in {"evicting", "launching", "opening", "joining", "running"}
           => disposal[b] = "no"

\* The invariant is inductive: what is said of a bot that runs must have been true
\* since its init began, and the pool's bound rests on the balance of its slots.
BotInv == TypeOK /\ RecordsMatch /\ DisposalFollows /\ SlotsBalance /\ PoolBound

-----------------------------------------------------------------------------
(* Finite sets *)

LEMMA BotsFinite == IsFiniteSet(Bots)
BY MaxBotsAssumption, FS_Interval DEF Bots

LEMMA HoldersFinite == IsFiniteSet(Holders) /\ Cardinality(Holders) \in Nat
BY BotsFinite, FS_Subset, FS_CardinalityType DEF Holders

LEMMA OccupiedFinite == IsFiniteSet(Occupied) /\ Cardinality(Occupied) \in Nat
BY KeysAssumption, FS_Subset, FS_CardinalityType DEF Occupied

\* A pool with fewer contexts has a smaller size.
LEMMA FewerContexts ==
    ASSUME Occupied' \subseteq Occupied
    PROVE  Cardinality(Occupied') \in Nat /\ Cardinality(Occupied') <= Cardinality(Occupied)
BY OccupiedFinite, FS_Subset, FS_CardinalityType

-----------------------------------------------------------------------------
(* What the helpers of the model do *)

\* dispose changes nothing but the disposal of its bots, and empties the pool's entry,
\* the handler and the page of those that are torn down at once.
LEMMA DisposeEffect ==
    ASSUME TypeOK, NEW B \in SUBSET Bots, Dispose(B)
    PROVE  /\ disposal' \in [Bots -> {"no", "leaving", "closing", "done"}]
           /\ \A b \in Bots : b \notin B => disposal'[b] = disposal[b]
           /\ page' \subseteq Bots /\ open' \subseteq Bots
           /\ handlers' \in [Keys -> Bots \cup {None}]
           /\ contexts' \in [Keys -> Bots \cup {None}]
           /\ Occupied' \subseteq Occupied
BY DEF Dispose, Teardown, TypeOK, Occupied

\* So does stopBot, which forgets the record first.
LEMMA StopKeyEffect ==
    ASSUME TypeOK, NEW k \in Keys, StopKey(k)
    PROVE  /\ bots' = [bots EXCEPT ![k] = None]
           /\ disposal' \in [Bots -> {"no", "leaving", "closing", "done"}]
           /\ \A b \in Bots : b # bots[k] => disposal'[b] = disposal[b]
           /\ page' \subseteq Bots /\ open' \subseteq Bots
           /\ handlers' \in [Keys -> Bots \cup {None}]
           /\ contexts' \in [Keys -> Bots \cup {None}]
           /\ Occupied' \subseteq Occupied
<1>1. {bots[k]} \ {None} \in SUBSET Bots
  BY DEF TypeOK
<1>2. Dispose({bots[k]} \ {None}) /\ bots' = [bots EXCEPT ![k] = None]
  BY DEF StopKey
<1> QED
  BY <1>1, <1>2, DisposeEffect

\* A slot is reserved, or the bot is refused.
LEMMA ReserveEffect ==
    ASSUME TypeOK, NEW b \in Bots, Reserve(b, Cardinality(Occupied))
    PROVE  /\ browser' \in {"up", "down", "launching"}
           /\ \/ /\ start' = [start EXCEPT ![b] = "failed"]
                 /\ reserved' = reserved
              \/ /\ \/ start' = [start EXCEPT ![b] = "opening"]
                    \/ start' = [start EXCEPT ![b] = "launching"]
                 /\ reserved' = reserved + 1
                 /\ Cardinality(Occupied) + reserved < MaxContexts
<1>1. Cardinality(Occupied) \in Nat /\ reserved \in Nat /\ MaxContexts \in Nat
  BY OccupiedFinite, MaxContextsAssumption DEF TypeOK
<1>2. CASE Cardinality(Occupied) + reserved >= MaxContexts
  BY <1>2 DEF Reserve, TypeOK
<1>3. CASE ~(Cardinality(Occupied) + reserved >= MaxContexts)
  <2>1. Cardinality(Occupied) + reserved < MaxContexts
    BY <1>1, <1>3
  <2>2. QED
    BY <1>3, <2>1 DEF Reserve, TypeOK
<1> QED
  BY <1>2, <1>3

\* A start that begins its init is recorded and evicts the context of its key, or
\* reserves at once.
LEMMA BeginEffect ==
    ASSUME TypeOK, NEW b \in Bots, NEW k \in Keys, Begin(b, k)
    PROVE  /\ bots' = [bots EXCEPT ![k] = b]
           /\ contexts' \in [Keys -> Bots \cup {None}]
           /\ open' \subseteq Bots
           /\ browser' \in {"up", "down", "launching"}
           /\ Occupied' \subseteq Occupied
           /\ \/ /\ start' = [start EXCEPT ![b] = "evicting"]
                 /\ reserved' = reserved
              \/ /\ start' = [start EXCEPT ![b] = "failed"]
                 /\ reserved' = reserved
              \/ /\ \/ start' = [start EXCEPT ![b] = "opening"]
                    \/ start' = [start EXCEPT ![b] = "launching"]
                 /\ reserved' = reserved + 1
                 /\ Cardinality(Occupied) + reserved < MaxContexts
<1>1. CASE contexts[k] # None
  BY <1>1 DEF Begin, TypeOK, Occupied
<1>2. CASE contexts[k] = None
  <2>1. Reserve(b, Cardinality(Occupied)) /\ UNCHANGED <<contexts, open>>
    BY <1>2 DEF Begin
  <2>2. bots' = [bots EXCEPT ![k] = b]
    BY DEF Begin
  <2>3. Occupied' = Occupied
    BY <2>1 DEF Occupied
  <2>4. contexts' \in [Keys -> Bots \cup {None}] /\ open' \subseteq Bots
    BY <2>1 DEF TypeOK
  <2>5. QED
    BY <2>1, <2>2, <2>3, <2>4, ReserveEffect
<1> QED
  BY <1>1, <1>2

\* Bounded events stay within their bound.
LEMMA EventEffect == TypeOK /\ Event => events' \in 0 .. MaxEvents
BY MaxEventsAssumption DEF TypeOK, Event

-----------------------------------------------------------------------------
(* The slots of the pool *)

\* Nobody takes or leaves a slot.
LEMMA HoldersKept ==
    ASSUME TypeOK, SlotsBalance, reserved' = reserved,
           \A b \in Bots : (start'[b] \in {"launching", "opening"})
                             <=> (start[b] \in {"launching", "opening"})
    PROVE  SlotsBalance'
BY DEF SlotsBalance

\* A bot takes one.
LEMMA HolderAdded ==
    ASSUME TypeOK, SlotsBalance, NEW b \in Bots, b \notin Holders, reserved' = reserved + 1,
           NEW s \in {"launching", "opening"}, start' = [start EXCEPT ![b] = s]
    PROVE  SlotsBalance'
<1>1. Holders' = Holders \cup {b}
  BY DEF Holders, TypeOK
<1>2. Cardinality(Holders \cup {b}) = Cardinality(Holders) + 1
  BY HoldersFinite, FS_AddElement
<1> QED
  BY <1>1, <1>2 DEF SlotsBalance, Holders

\* Some of those that have one give theirs back.
LEMMA HoldersLeave ==
    ASSUME TypeOK, SlotsBalance, NEW B \in SUBSET Holders, reserved' = reserved - Cardinality(B),
           Holders' = Holders \ B
    PROVE  SlotsBalance'
<1>1. B = Holders \cap B
  OBVIOUS
<1>2. Cardinality(Holders \ B) = Cardinality(Holders) - Cardinality(B)
  BY <1>1, HoldersFinite, FS_Difference
<1> QED
  BY <1>2 DEF SlotsBalance, Holders

\* The error paths give back the slots of the bots they fail.
LEMMA GiveUpEffect ==
    ASSUME TypeOK, SlotsBalance, NEW B \in SUBSET Holders, GiveUpSlots(B)
    PROVE  /\ SlotsBalance'
           /\ start' \in [Bots -> Stages]
           /\ \A b \in Bots : start'[b] = start[b] \/ (start'[b] = "failed" /\ b \in Holders)
           /\ reserved' \in Int /\ reserved' <= reserved
<1>1. Holders' = Holders \ B
  BY DEF GiveUpSlots, Holders, TypeOK
<1>2. SlotsBalance'
  BY <1>1, HoldersLeave DEF GiveUpSlots
<1>3. Cardinality(B) \in Nat
  BY HoldersFinite, FS_Subset, FS_CardinalityType
<1>4. start' \in [Bots -> Stages] /\ \A b \in Bots : start'[b] = start[b] \/ (start'[b] = "failed" /\ b \in Holders)
  BY DEF GiveUpSlots, TypeOK, Stages, Holders
<1> QED
  BY <1>2, <1>3, <1>4 DEF GiveUpSlots, TypeOK

\* Every step keeps the balance: who leaves createContext, however, gives back what was reserved.
LEMMA SlotsStep == BotInv /\ [Next]_vars => SlotsBalance'
<1> SUFFICES ASSUME BotInv, [Next]_vars PROVE SlotsBalance'
  OBVIOUS
<1> USE DEF BotInv
<1>1. ASSUME NEW k \in Keys, StopBot(k) PROVE SlotsBalance'
  BY <1>1, HoldersKept DEF StopBot
<1>2. ASSUME NEW b \in Bots, StartBot(b) PROVE SlotsBalance'
  <2>0. b \notin Holders /\ key[b] \in Keys
    BY <1>2 DEF StartBot, Holders, TypeOK
  <2>1. CASE Begin(b, key[b])
    <3>1. CASE /\ start' = [start EXCEPT ![b] = "evicting"] \/ start' = [start EXCEPT ![b] = "failed"]
               /\ reserved' = reserved
      BY <2>0, <3>1, HoldersKept DEF Holders, TypeOK
    <3>2. CASE /\ start' = [start EXCEPT ![b] = "opening"] \/ start' = [start EXCEPT ![b] = "launching"]
               /\ reserved' = reserved + 1
      BY <2>0, <3>2, HolderAdded
    <3> QED
      BY <2>0, <2>1, <3>1, <3>2, BeginEffect
  <2>2. CASE start' = [start EXCEPT ![b] = "replacing"] /\ UNCHANGED reserved
    BY <2>0, <2>2, HoldersKept DEF Holders, TypeOK
  <2> QED
    BY <1>2, <2>1, <2>2 DEF StartBot
<1>3. ASSUME NEW b \in Bots, StartGoesOn(b) PROVE SlotsBalance'
  <2>0. b \notin Holders /\ key[b] \in Keys /\ Begin(b, key[b])
    BY <1>3 DEF StartGoesOn, Holders, TypeOK
  <2>1. CASE /\ start' = [start EXCEPT ![b] = "evicting"] \/ start' = [start EXCEPT ![b] = "failed"]
             /\ reserved' = reserved
    BY <2>0, <2>1, HoldersKept DEF Holders, TypeOK
  <2>2. CASE /\ start' = [start EXCEPT ![b] = "opening"] \/ start' = [start EXCEPT ![b] = "launching"]
             /\ reserved' = reserved + 1
    BY <2>0, <2>2, HolderAdded
  <2> QED
    BY <2>0, <2>1, <2>2, BeginEffect
<1>4. ASSUME NEW b \in Bots, Evicted(b) PROVE SlotsBalance'
  <2>0. b \notin Holders /\ Reserve(b, Cardinality(Occupied))
    BY <1>4 DEF Evicted, Holders, TypeOK
  <2>1. CASE start' = [start EXCEPT ![b] = "failed"] /\ reserved' = reserved
    BY <2>0, <2>1, HoldersKept DEF Holders, TypeOK
  <2>2. CASE /\ start' = [start EXCEPT ![b] = "opening"] \/ start' = [start EXCEPT ![b] = "launching"]
             /\ reserved' = reserved + 1
    BY <2>0, <2>2, HolderAdded
  <2> QED
    BY <2>0, <2>1, <2>2, ReserveEffect
<1>5. ASSUME NEW b \in Bots, ContextOpened(b) PROVE SlotsBalance'
  <2>1. {b} \in SUBSET Holders /\ Holders' = Holders \ {b}
    BY <1>5 DEF ContextOpened, Holders, TypeOK
  <2>2. reserved' = reserved - Cardinality({b})
    BY <1>5, FS_Singleton DEF ContextOpened
  <2> QED
    BY <2>1, <2>2, HoldersLeave
<1>6. ASSUME NEW b \in Bots, ContextFailed(b) PROVE SlotsBalance'
  <2>1. {b} \in SUBSET Holders /\ GiveUpSlots({b})
    BY <1>6 DEF ContextFailed, Holders
  <2> QED
    BY <2>1, GiveUpEffect
<1>7. ASSUME NEW b \in Bots, Joined(b) \/ JoinFailed(b) \/ Aborted(b) \/ InitFailed(b)
      PROVE  SlotsBalance'
  BY <1>7, HoldersKept DEF Joined, JoinFailed, Aborted, InitFailed, TypeOK, pool
<1>8. ASSUME NEW b \in Bots, LeaveDone(b) \/ CloseDone(b) \/ BotLeaves(b) \/ PageCrash(b)
      PROVE  SlotsBalance'
  BY <1>8, HoldersKept DEF LeaveDone, CloseDone, BotLeaves, PageCrash, records, pool
<1>9. ASSUME NEW b \in Bots, PageCrashUnheard(b) PROVE SlotsBalance'
  <2>1. Holders' = {} /\ reserved' = 0
    BY <1>9 DEF PageCrashUnheard, Holders
  <2> QED
    BY <2>1, FS_EmptySet DEF SlotsBalance, Holders
<1>10. CASE Launched
  BY <1>10, HoldersKept DEF Launched, TypeOK
<1>11. CASE LaunchFailed
  <2>1. {b \in Bots : start[b] = "launching"} \in SUBSET Holders
    BY DEF Holders
  <2> QED
    BY <1>11, <2>1, GiveUpEffect DEF LaunchFailed
<1>12. CASE BrowserCrash
  <2>1. {b \in Bots : start[b] = "opening"} \in SUBSET Holders
    BY DEF Holders
  <2> QED
    BY <1>12, <2>1, GiveUpEffect DEF BrowserCrash
<1>13. CASE UNCHANGED vars
  BY <1>13, HoldersKept DEF vars, records, pool
<1> QED
  BY <1>1, <1>2, <1>3, <1>4, <1>5, <1>6, <1>7, <1>8, <1>9, <1>10, <1>11, <1>12, <1>13
     DEF Next, Progress, Launch

-----------------------------------------------------------------------------
(* Types *)

LEMMA TypeStep == BotInv /\ [Next]_vars /\ SlotsBalance' => TypeOK'
<1> SUFFICES ASSUME BotInv, [Next]_vars, SlotsBalance' PROVE TypeOK'
  OBVIOUS
<1> USE DEF BotInv
<1>0. reserved' \in Nat
  <2>1. IsFiniteSet(Holders')
    BY BotsFinite, FS_Subset DEF Holders
  <2> QED
    BY <2>1, FS_CardinalityType DEF SlotsBalance, Holders
<1>1. ASSUME NEW k \in Keys, StopBot(k) PROVE TypeOK'
  BY <1>1, StopKeyEffect, EventEffect DEF StopBot, TypeOK
<1>2. ASSUME NEW b \in Bots, StartBot(b) PROVE TypeOK'
  <2>0. key[b] \in Keys
    BY DEF TypeOK
  <2>1. CASE Begin(b, key[b]) /\ UNCHANGED <<awaited, disposal, page, handlers>>
    <3>1. start' \in [Bots -> Stages]
      BY <2>0, <2>1, BeginEffect DEF TypeOK, Stages
    <3> QED
      BY <1>0, <1>2, <2>0, <2>1, <3>1, BeginEffect DEF StartBot, TypeOK
  <2>2. CASE /\ start' = [start EXCEPT ![b] = "replacing"]
             /\ awaited' = [awaited EXCEPT ![b] = bots[key[b]]]
             /\ StopKey(key[b])
             /\ UNCHANGED <<reserved, browser>>
    BY <1>2, <2>0, <2>2, StopKeyEffect DEF StartBot, TypeOK, Stages
  <2> QED
    BY <1>2, <2>1, <2>2 DEF StartBot
<1>3. ASSUME NEW b \in Bots, StartGoesOn(b) PROVE TypeOK'
  <2>0. key[b] \in Keys /\ Begin(b, key[b])
    BY <1>3 DEF StartGoesOn, TypeOK
  <2>1. start' \in [Bots -> Stages]
    BY <2>0, BeginEffect DEF TypeOK, Stages
  <2> QED
    BY <1>0, <1>3, <2>0, <2>1, BeginEffect DEF StartGoesOn, TypeOK
<1>4. ASSUME NEW b \in Bots, Evicted(b) PROVE TypeOK'
  <2>0. Reserve(b, Cardinality(Occupied))
    BY <1>4 DEF Evicted
  <2>1. start' \in [Bots -> Stages]
    BY <2>0, ReserveEffect DEF TypeOK, Stages
  <2> QED
    BY <1>0, <1>4, <2>0, <2>1, ReserveEffect DEF Evicted, TypeOK
<1>5. ASSUME NEW b \in Bots, ContextOpened(b) PROVE TypeOK'
  BY <1>0, <1>5 DEF ContextOpened, TypeOK, Stages
<1>6. ASSUME NEW b \in Bots, ContextFailed(b) PROVE TypeOK'
  <2>1. {b} \in SUBSET Holders /\ GiveUpSlots({b})
    BY <1>6 DEF ContextFailed, Holders
  <2> QED
    BY <1>0, <1>6, <2>1, GiveUpEffect, EventEffect DEF ContextFailed, TypeOK
<1>7. ASSUME NEW b \in Bots, Joined(b) PROVE TypeOK'
  BY <1>7, DisposeEffect DEF Joined, TypeOK, Stages
<1>8. ASSUME NEW b \in Bots, JoinFailed(b) PROVE TypeOK'
  BY <1>8, DisposeEffect, EventEffect DEF JoinFailed, TypeOK, Stages
<1>9. ASSUME NEW b \in Bots, InitFailed(b) PROVE TypeOK'
  <2>1. key[b] \in Keys /\ StopKey(key[b])
    BY <1>9 DEF InitFailed, TypeOK
  <2> QED
    BY <1>9, <2>1, StopKeyEffect DEF InitFailed, TypeOK, Stages
<1>10. ASSUME NEW b \in Bots, BotLeaves(b) \/ PageCrash(b) PROVE TypeOK'
  <2>1. key[b] \in Keys /\ StopKey(key[b])
    BY <1>10 DEF BotLeaves, PageCrash, TypeOK
  <2> QED
    BY <1>10, <2>1, StopKeyEffect, EventEffect DEF BotLeaves, PageCrash, TypeOK
<1>11. ASSUME NEW b \in Bots, Aborted(b) \/ CloseDone(b) PROVE TypeOK'
  BY <1>11 DEF Aborted, CloseDone, TypeOK, Stages, records, pool
<1>12. ASSUME NEW b \in Bots, LeaveDone(b) PROVE TypeOK'
  BY <1>12 DEF LeaveDone, Teardown, TypeOK, records
<1>13. ASSUME NEW b \in Bots, PageCrashUnheard(b) PROVE TypeOK'
  BY <1>13, EventEffect DEF PageCrashUnheard, TypeOK, Stages, None
<1>14. CASE Launched
  BY <1>14 DEF Launched, TypeOK, Stages
<1>15. CASE LaunchFailed
  <2>1. {b \in Bots : start[b] = "launching"} \in SUBSET Holders
    BY DEF Holders
  <2> QED
    BY <1>0, <1>15, <2>1, GiveUpEffect, EventEffect DEF LaunchFailed, TypeOK
<1>16. CASE BrowserCrash
  <2>1. {b \in Bots : start[b] = "opening"} \in SUBSET Holders
    BY DEF Holders
  <2>2. start' \in [Bots -> Stages]
    BY <1>16, <2>1, GiveUpEffect DEF BrowserCrash
  <2> QED
    BY <1>0, <1>16, <2>2, EventEffect DEF BrowserCrash, TypeOK
<1>17. CASE UNCHANGED vars
  BY <1>17 DEF vars, records, pool, TypeOK
<1> QED
  BY <1>1, <1>2, <1>3, <1>4, <1>5, <1>6, <1>7, <1>8, <1>9, <1>10, <1>11, <1>12, <1>13, <1>14,
     <1>15, <1>16, <1>17 DEF Next, Progress, Launch

-----------------------------------------------------------------------------
(* The bound of the pool *)

\* Fewer contexts and no more slots.
LEMMA PoolShrinks ==
    ASSUME BotInv, TypeOK', Occupied' \subseteq Occupied, reserved' <= reserved
    PROVE  PoolBound'
<1>1. Cardinality(Occupied') \in Nat /\ Cardinality(Occupied') <= Cardinality(Occupied)
  BY FewerContexts
<1>2. Cardinality(Occupied) \in Nat /\ MaxContexts \in Nat /\ reserved \in Nat /\ reserved' \in Nat
  BY OccupiedFinite, MaxContextsAssumption DEF BotInv, TypeOK
<1> QED
  BY <1>1, <1>2 DEF BotInv, PoolBound, Occupied

\* A slot more, reserved while there was room.
LEMMA PoolReserves ==
    ASSUME BotInv, TypeOK', Occupied' \subseteq Occupied, reserved' = reserved + 1,
           Cardinality(Occupied) + reserved < MaxContexts
    PROVE  PoolBound'
<1>1. Cardinality(Occupied') \in Nat /\ Cardinality(Occupied') <= Cardinality(Occupied)
  BY FewerContexts
<1>2. Cardinality(Occupied) \in Nat /\ MaxContexts \in Nat /\ reserved \in Nat
  BY OccupiedFinite, MaxContextsAssumption DEF BotInv, TypeOK
<1> QED
  BY <1>1, <1>2 DEF PoolBound, Occupied

\* Every step keeps the bound: a slot becomes a context, and both only become fewer otherwise,
\* except in the turn that has checked the cap.
LEMMA PoolStep == BotInv /\ [Next]_vars /\ TypeOK' => PoolBound'
<1> SUFFICES ASSUME BotInv, [Next]_vars, TypeOK' PROVE PoolBound'
  OBVIOUS
<1>0. TypeOK /\ SlotsBalance /\ reserved \in Nat
  BY DEF BotInv, TypeOK
<1>1. ASSUME NEW k \in Keys, StopKey(k), UNCHANGED reserved PROVE PoolBound'
  BY <1>0, <1>1, StopKeyEffect, PoolShrinks
<1>2. ASSUME NEW b \in Bots, Begin(b, key[b]) PROVE PoolBound'
  <2>1. key[b] \in Keys
    BY <1>0 DEF TypeOK
  <2>2. CASE Occupied' \subseteq Occupied /\ reserved' = reserved
    BY <1>0, <2>2, PoolShrinks
  <2> QED
    BY <1>0, <1>2, <2>1, <2>2, BeginEffect, PoolReserves
<1>3. ASSUME NEW b \in Bots, Reserve(b, Cardinality(Occupied)), UNCHANGED contexts PROVE PoolBound'
  <2>1. Occupied' \subseteq Occupied
    BY <1>3 DEF Occupied
  <2>2. CASE reserved' = reserved
    BY <1>0, <2>1, <2>2, PoolShrinks
  <2> QED
    BY <1>0, <1>3, <2>1, <2>2, ReserveEffect, PoolReserves
<1>4. ASSUME NEW B \in SUBSET Bots, Dispose(B), UNCHANGED reserved PROVE PoolBound'
  BY <1>0, <1>4, DisposeEffect, PoolShrinks
<1>5. ASSUME NEW B \in SUBSET Holders, GiveUpSlots(B), Occupied' \subseteq Occupied PROVE PoolBound'
  BY <1>0, <1>5, GiveUpEffect, PoolShrinks
<1>6. ASSUME UNCHANGED <<contexts, reserved>> PROVE PoolBound'
  BY <1>6 DEF BotInv, PoolBound, Occupied
<1>7. ASSUME NEW b \in Bots, ContextOpened(b) PROVE PoolBound'
  <2>1. Occupied' \subseteq Occupied \cup {key[b]}
    BY <1>0, <1>7 DEF ContextOpened, Occupied, TypeOK
  <2>2. /\ IsFiniteSet(Occupied \cup {key[b]})
        /\ Cardinality(Occupied \cup {key[b]}) <= Cardinality(Occupied) + 1
    BY OccupiedFinite, FS_AddElement
  <2>3. /\ Cardinality(Occupied') <= Cardinality(Occupied \cup {key[b]})
        /\ Cardinality(Occupied') \in Nat /\ Cardinality(Occupied \cup {key[b]}) \in Nat
    BY <2>1, <2>2, FS_Subset, FS_CardinalityType
  <2>4. reserved' = reserved - 1
    BY <1>7 DEF ContextOpened
  <2>5. Cardinality(Occupied) \in Nat /\ MaxContexts \in Nat
    BY OccupiedFinite, MaxContextsAssumption
  <2> QED
    BY <1>0, <2>2, <2>3, <2>4, <2>5 DEF BotInv, PoolBound, Occupied
<1>8. ASSUME NEW b \in Bots, PageCrashUnheard(b) PROVE PoolBound'
  <2>1. Occupied' \subseteq Occupied /\ reserved' <= reserved
    BY <1>0, <1>8 DEF PageCrashUnheard, Occupied
  <2> QED
    BY <2>1, PoolShrinks
<1>9. ASSUME NEW b \in Bots, LeaveDone(b) PROVE PoolBound'
  <2>1. Occupied' \subseteq Occupied /\ reserved' <= reserved
    BY <1>0, <1>9 DEF LeaveDone, Teardown, Occupied
  <2> QED
    BY <2>1, PoolShrinks
<1>10. ASSUME NEW b \in Bots, StartBot(b) PROVE PoolBound'
  <2>1. key[b] \in Keys
    BY <1>0 DEF TypeOK
  <2> QED
    BY <1>1, <1>2, <1>10, <2>1 DEF StartBot
<1>11. ASSUME NEW k \in Keys, StopBot(k) PROVE PoolBound'
  BY <1>1, <1>11 DEF StopBot
<1>12. ASSUME NEW b \in Bots, StartGoesOn(b) \/ Evicted(b) PROVE PoolBound'
  BY <1>2, <1>3, <1>12 DEF StartGoesOn, Evicted
<1>13. ASSUME NEW b \in Bots, InitFailed(b) \/ BotLeaves(b) \/ PageCrash(b) PROVE PoolBound'
  <2>1. key[b] \in Keys
    BY <1>0 DEF TypeOK
  <2> QED
    BY <1>1, <1>13, <2>1 DEF InitFailed, BotLeaves, PageCrash
<1>14. ASSUME NEW b \in Bots, Joined(b) \/ JoinFailed(b) PROVE PoolBound'
  BY <1>4, <1>6, <1>14 DEF Joined, JoinFailed
<1>15. ASSUME NEW b \in Bots, ContextFailed(b) PROVE PoolBound'
  <2>1. {b} \in SUBSET Holders /\ GiveUpSlots({b}) /\ Occupied' = Occupied
    BY <1>15 DEF ContextFailed, Holders, Occupied
  <2> QED
    BY <1>5, <2>1
<1>16. ASSUME NEW b \in Bots, Aborted(b) \/ CloseDone(b) PROVE PoolBound'
  BY <1>6, <1>16 DEF Aborted, CloseDone, pool
<1>17. CASE Launched
  BY <1>6, <1>17 DEF Launched
<1>18. CASE LaunchFailed
  <2>1. {b \in Bots : start[b] = "launching"} \in SUBSET Holders /\ Occupied' = Occupied
    BY <1>18 DEF LaunchFailed, Holders, Occupied
  <2> QED
    BY <1>5, <1>18, <2>1 DEF LaunchFailed
<1>19. CASE BrowserCrash
  <2>1. {b \in Bots : start[b] = "opening"} \in SUBSET Holders /\ Occupied' \subseteq Occupied
    BY <1>19 DEF BrowserCrash, Holders, Occupied
  <2> QED
    BY <1>5, <1>19, <2>1 DEF BrowserCrash
<1>20. CASE UNCHANGED vars
  BY <1>6, <1>20 DEF vars, pool
<1> QED
  BY <1>7, <1>8, <1>9, <1>10, <1>11, <1>12, <1>13, <1>14, <1>15, <1>16, <1>17, <1>18, <1>19, <1>20
     DEF Next, Progress, Launch

-----------------------------------------------------------------------------
(* The records *)

\* A bot that is disposed loses its record, or has none, in the same turn.
LEMMA DisposalStep ==
    ASSUME TypeOK, RecordsMatch, DisposalFollows, TypeOK',
           \A b \in Bots : \/ start'[b] = start[b]
                           \/ start'[b] \in {"aborting", "failed", "done"}
                              /\ start[b] \notin {"unused", "replacing"}
                           \/ /\ start[b] \in {"evicting", "launching", "opening", "joining"}
                              /\ start'[b] \in {"evicting", "launching", "opening", "joining", "running"},
           \A k \in Keys : bots'[k] \in {bots[k], None},
           \A b \in Bots : disposal'[b] # disposal[b] =>
               /\ start[b] \notin {"unused", "replacing"}
               /\ \A k \in Keys : bots'[k] # b
                                  \/ start'[b] \in {"aborting", "failed", "done"}
                                  \/ disposal[b] # "no",
           UNCHANGED key
    PROVE  RecordsMatch' /\ DisposalFollows'
<1>1. RecordsMatch'
  BY DEF RecordsMatch, TypeOK, None
<1>2. ASSUME NEW b \in Bots, start'[b] \in {"unused", "replacing"} PROVE disposal'[b] = "no"
  BY <1>2 DEF DisposalFollows
<1>3. ASSUME NEW k \in Keys, NEW b \in Bots, bots'[k] = b,
             start'[b] \in {"evicting", "launching", "opening", "joining", "running"}
      PROVE  disposal'[b] = "no"
  <2>1. bots[k] = b
    BY <1>3 DEF Bots, None
  <2>2. start[b] \in {"evicting", "launching", "opening", "joining", "running"}
    BY <1>3
  <2> QED
    BY <1>3, <2>1, <2>2 DEF DisposalFollows
<1> QED
  BY <1>1, <1>2, <1>3 DEF DisposalFollows

\* A start that begins records a bot that nobody has disposed.
LEMMA BeginRecords ==
    ASSUME TypeOK, RecordsMatch, DisposalFollows, NEW b \in Bots, Begin(b, key[b]),
           start[b] \in {"unused", "replacing"}, UNCHANGED <<key, disposal>>
    PROVE  RecordsMatch' /\ DisposalFollows'
<1>0. key[b] \in Keys /\ b # None
  BY DEF TypeOK, Bots, None
<1>1. PICK s \in {"evicting", "failed", "opening", "launching"} : start' = [start EXCEPT ![b] = s]
  BY <1>0, BeginEffect
<1>2. bots' = [bots EXCEPT ![key[b]] = b]
  BY <1>0, BeginEffect
<1>3. disposal[b] = "no"
  BY DEF DisposalFollows
<1>4. RecordsMatch'
  BY <1>0, <1>1, <1>2 DEF RecordsMatch, TypeOK
<1>5. ASSUME NEW c \in Bots, start'[c] \in {"unused", "replacing"} PROVE disposal'[c] = "no"
  BY <1>1, <1>5 DEF DisposalFollows, TypeOK
<1>6. ASSUME NEW k \in Keys, NEW c \in Bots, bots'[k] = c,
             start'[c] \in {"evicting", "launching", "opening", "joining", "running"}
      PROVE  disposal'[c] = "no"
  <2>1. CASE c = b
    BY <1>3, <2>1
  <2>2. CASE c # b
    <3>1. bots[k] = c /\ start'[c] = start[c]
      BY <1>0, <1>1, <1>2, <1>6, <2>2 DEF TypeOK
    <3> QED
      BY <1>6, <3>1 DEF DisposalFollows
  <2> QED
    BY <2>1, <2>2
<1> QED
  BY <1>4, <1>5, <1>6 DEF DisposalFollows

\* A stop forgets the record of the bot it disposes.
LEMMA StopRecords ==
    ASSUME TypeOK, RecordsMatch, DisposalFollows, TypeOK', NEW k \in Keys, StopKey(k),
           UNCHANGED key,
           \A b \in Bots : start'[b] = start[b] \/ (start[b] = "failed" /\ start'[b] = "done")
    PROVE  RecordsMatch' /\ DisposalFollows'
<1>1. /\ bots' = [bots EXCEPT ![k] = None]
      /\ \A b \in Bots : b # bots[k] => disposal'[b] = disposal[b]
  BY StopKeyEffect
<1>2. ASSUME NEW b \in Bots, disposal'[b] # disposal[b]
      PROVE  /\ start[b] \notin {"unused", "replacing"}
             /\ \A j \in Keys : bots'[j] # b
  <2>1. b = bots[k] /\ b # None
    BY <1>1, <1>2 DEF Bots, None
  <2>2. key[b] = k /\ start[b] \notin {"unused", "replacing"}
    BY <2>1 DEF RecordsMatch
  <2>3. ASSUME NEW j \in Keys, bots'[j] = b PROVE FALSE
    <3>1. j # k /\ bots[j] = b
      BY <1>1, <2>1, <2>3 DEF TypeOK
    <3> QED
      BY <2>1, <2>2, <3>1 DEF RecordsMatch
  <2> QED
    BY <2>2, <2>3
<1>3. \A j \in Keys : bots'[j] \in {bots[j], None}
  BY <1>1 DEF TypeOK
<1> QED
  BY <1>2, <1>3, DisposalStep

\* Every step keeps the records in step with the bots.
LEMMA RecordsStep == BotInv /\ [Next]_vars /\ TypeOK' => RecordsMatch' /\ DisposalFollows'
<1> SUFFICES ASSUME BotInv, [Next]_vars, TypeOK' PROVE RecordsMatch' /\ DisposalFollows'
  OBVIOUS
<1>0. TypeOK /\ RecordsMatch /\ DisposalFollows
  BY DEF BotInv
<1>1. ASSUME NEW k \in Keys, StopBot(k) PROVE RecordsMatch' /\ DisposalFollows'
  BY <1>0, <1>1, StopRecords DEF StopBot
<1>2. ASSUME NEW b \in Bots, StartBot(b) PROVE RecordsMatch' /\ DisposalFollows'
  <2>0. key[b] \in Keys /\ start[b] = "unused" /\ UNCHANGED key
    BY <1>0, <1>2 DEF StartBot, TypeOK
  <2>1. CASE Begin(b, key[b]) /\ UNCHANGED disposal
    BY <1>0, <2>0, <2>1, BeginRecords
  <2>2. CASE start' = [start EXCEPT ![b] = "replacing"] /\ StopKey(key[b])
    <3>1. /\ bots' = [bots EXCEPT ![key[b]] = None]
          /\ \A c \in Bots : c # bots[key[b]] => disposal'[c] = disposal[c]
      BY <1>0, <2>0, <2>2, StopKeyEffect
    <3>2. ASSUME NEW c \in Bots, c = bots[key[b]]
          PROVE  key[c] = key[b] /\ start[c] \notin {"unused", "replacing"} /\ c # b
      BY <1>0, <2>0, <3>2 DEF RecordsMatch, Bots, None
    <3>3. \A k \in Keys : bots'[k] = None \/ (bots'[k] = bots[k] /\ bots[k] # bots[key[b]])
      BY <1>0, <2>0, <3>1, <3>2 DEF TypeOK, RecordsMatch, Bots, None
    <3>4. RecordsMatch'
      BY <1>0, <2>0, <2>2, <3>3 DEF RecordsMatch, TypeOK, None, Bots
    <3>5. ASSUME NEW c \in Bots, start'[c] \in {"unused", "replacing"} PROVE disposal'[c] = "no"
      BY <1>0, <2>0, <2>2, <3>1, <3>2, <3>5 DEF DisposalFollows, TypeOK
    <3>6. ASSUME NEW k \in Keys, NEW c \in Bots, bots'[k] = c,
                 start'[c] \in {"evicting", "launching", "opening", "joining", "running"}
          PROVE  disposal'[c] = "no"
      <4>1. bots[k] = c /\ c # bots[key[b]]
        BY <3>3, <3>6 DEF Bots, None
      <4>2. start[c] \in {"evicting", "launching", "opening", "joining", "running"}
        BY <1>0, <2>2, <3>6 DEF TypeOK
      <4> QED
        BY <1>0, <3>1, <4>1, <4>2 DEF DisposalFollows
    <3> QED
      BY <3>4, <3>5, <3>6 DEF DisposalFollows
  <2> QED
    BY <1>2, <2>1, <2>2 DEF StartBot
<1>3. ASSUME NEW b \in Bots, StartGoesOn(b) PROVE RecordsMatch' /\ DisposalFollows'
  BY <1>0, <1>3, BeginRecords DEF StartGoesOn
<1>4. ASSUME NEW b \in Bots, Evicted(b) PROVE RecordsMatch' /\ DisposalFollows'
  <2>1. PICK s \in {"failed", "opening", "launching"} : start' = [start EXCEPT ![b] = s]
    BY <1>0, <1>4, ReserveEffect DEF Evicted
  <2> QED
    BY <1>0, <1>4, <2>1, DisposalStep DEF Evicted, TypeOK
<1>5. ASSUME NEW b \in Bots, ContextOpened(b) \/ ContextFailed(b)
      PROVE  RecordsMatch' /\ DisposalFollows'
  BY <1>0, <1>5, DisposalStep DEF ContextOpened, ContextFailed, GiveUpSlots, TypeOK
<1>6. ASSUME NEW b \in Bots, Joined(b) \/ JoinFailed(b) PROVE RecordsMatch' /\ DisposalFollows'
  <2>0. start[b] = "joining" /\ UNCHANGED <<bots, key>>
    BY <1>6 DEF Joined, JoinFailed
  <2>1. CASE start' = [start EXCEPT ![b] = "running"] /\ UNCHANGED disposal
    BY <1>0, <2>0, <2>1, DisposalStep DEF TypeOK
  <2>2. CASE (\E s \in {"done", "aborting", "failed"} : start' = [start EXCEPT ![b] = s]) /\ Dispose({b})
    <3>1. \A c \in Bots : c # b => disposal'[c] = disposal[c]
      BY <1>0, <2>2, DisposeEffect
    <3>2. start'[b] \in {"aborting", "failed", "done"}
      BY <1>0, <2>2 DEF TypeOK
    <3> QED
      BY <1>0, <2>0, <2>2, <3>1, <3>2, DisposalStep DEF TypeOK
  <2> QED
    BY <1>6, <2>1, <2>2 DEF Joined, JoinFailed
<1>7. ASSUME NEW b \in Bots, Aborted(b) PROVE RecordsMatch' /\ DisposalFollows'
  BY <1>0, <1>7, DisposalStep DEF Aborted, TypeOK
<1>8. ASSUME NEW b \in Bots, InitFailed(b) PROVE RecordsMatch' /\ DisposalFollows'
  <2>1. key[b] \in Keys /\ StopKey(key[b])
    BY <1>0, <1>8 DEF InitFailed, TypeOK
  <2>2. \A c \in Bots : start'[c] = start[c] \/ (start[c] = "failed" /\ start'[c] = "done")
    BY <1>0, <1>8 DEF InitFailed, TypeOK
  <2>3. UNCHANGED key
    BY <1>8 DEF InitFailed
  <2> QED
    BY <1>0, <2>1, <2>2, <2>3, StopRecords
<1>9. ASSUME NEW b \in Bots, BotLeaves(b) \/ PageCrash(b) PROVE RecordsMatch' /\ DisposalFollows'
  <2>1. key[b] \in Keys /\ StopKey(key[b]) /\ UNCHANGED <<key, start>>
    BY <1>0, <1>9 DEF BotLeaves, PageCrash, TypeOK
  <2> QED
    BY <1>0, <2>1, StopRecords
<1>10. ASSUME NEW b \in Bots, LeaveDone(b) \/ CloseDone(b) PROVE RecordsMatch' /\ DisposalFollows'
  <2>1. /\ disposal[b] # "no"
        /\ \A c \in Bots : c # b => disposal'[c] = disposal[c]
        /\ UNCHANGED records
    BY <1>0, <1>10 DEF LeaveDone, CloseDone, TypeOK
  <2>2. start[b] \notin {"unused", "replacing"}
    BY <1>0, <2>1 DEF DisposalFollows
  <2> QED
    BY <1>0, <2>1, <2>2, DisposalStep DEF records
<1>11. ASSUME NEW b \in Bots, PageCrashUnheard(b) PROVE RecordsMatch' /\ DisposalFollows'
  BY <1>0, <1>11 DEF PageCrashUnheard, RecordsMatch, DisposalFollows, Bots, None
<1>12. CASE Launched \/ LaunchFailed
  BY <1>0, <1>12, DisposalStep DEF Launched, LaunchFailed, GiveUpSlots, TypeOK
<1>13. CASE BrowserCrash
  <2>1. \A k \in Keys : bots'[k] = None
    BY <1>13 DEF BrowserCrash
  <2>2. ASSUME NEW b \in Bots PROVE disposal'[b] = disposal[b] \/ \E k \in Keys : bots[k] = b
    BY <1>0, <1>13 DEF BrowserCrash, TypeOK
  <2>3. \A b \in Bots : disposal'[b] # disposal[b] => start[b] \notin {"unused", "replacing"}
    BY <1>0, <2>2 DEF RecordsMatch, Bots, None
  <2>4. \A b \in Bots : start'[b] = start[b] \/ (start[b] = "opening" /\ start'[b] = "failed")
    BY <1>13 DEF BrowserCrash, GiveUpSlots
  <2>5. \A b \in Bots, k \in Keys : bots'[k] # b
    BY <2>1 DEF Bots, None
  <2>6. UNCHANGED key
    BY <1>13 DEF BrowserCrash
  <2> QED
    BY <1>0, <2>1, <2>3, <2>4, <2>5, <2>6, DisposalStep
<1>14. CASE UNCHANGED vars
  BY <1>0, <1>14, DisposalStep DEF vars, records
<1> QED
  BY <1>1, <1>2, <1>3, <1>4, <1>5, <1>6, <1>7, <1>8, <1>9, <1>10, <1>11, <1>12, <1>13, <1>14
     DEF Next, Progress, Launch

-----------------------------------------------------------------------------
(* The theorems *)

LEMMA BotInit == Init => BotInv
<1> SUFFICES ASSUME Init PROVE BotInv
  OBVIOUS
<1>1. TypeOK
  BY MaxEventsAssumption DEF Init, TypeOK, Stages
<1>2. RecordsMatch /\ DisposalFollows
  BY DEF Init, RecordsMatch, DisposalFollows, Bots, None
<1>3. Holders = {} /\ Occupied = {} /\ reserved = 0
  BY DEF Init, Holders, Occupied
<1>4. SlotsBalance /\ PoolBound
  BY <1>3, FS_EmptySet, MaxContextsAssumption DEF SlotsBalance, PoolBound, Holders
<1> QED
  BY <1>1, <1>2, <1>4 DEF BotInv

LEMMA BotInvariance == Spec => []BotInv
<1>1. BotInv /\ [Next]_vars => BotInv'
  BY SlotsStep, TypeStep, PoolStep, RecordsStep DEF BotInv
<1> QED
  BY BotInit, <1>1, PTL DEF Spec

\* createContext never overcommits the pool: at no time do the contexts in it and the
\* reservations of those still being made exceed MAX_CONCURRENT_BOTS.
THEOREM PoolNeverOvercommitted == Spec => []PoolBound
<1>1. BotInv => PoolBound
  BY DEF BotInv
<1> QED
  BY BotInvariance, <1>1, PTL

\* The pool's counter of reservations is the number of createContext calls in progress:
\* no path through launch, failure, crash or restart keeps a slot or returns it twice.
THEOREM SlotsAreReturned == Spec => []SlotsBalance
<1>1. BotInv => SlotsBalance
  BY DEF BotInv
<1> QED
  BY BotInvariance, <1>1, PTL

\* What startBot and stopBot keep in the map of bots: a recorded bot that runs is of that key and
\* nobody has begun its disposal.
THEOREM RecordedBotsRun == Spec => []RecordedRuns
<1>1. BotInv => RecordedRuns
  BY DEF BotInv, RecordsMatch, DisposalFollows, RecordedRuns, Bots, None
<1> QED
  BY BotInvariance, <1>1, PTL

=============================================================================
