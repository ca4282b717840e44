-------------------------- MODULE TranslationPipeline --------------------------
(***************************************************************************)
(* The translator of one channel into one language: a session, a channel   *)
(* and a target language make one key of the pipeline and of its           *)
(* scheduler.  The partials and finals of the channel come over MQTT, the  *)
(* sentences they close are translated by one task each, in turn on the    *)
(* lock of the key, the sentence under way (the tail) by a runner with a   *)
(* slot for one pending text, and a final by a task that reuses both.      *)
(*                                                                         *)
(* asyncio switches tasks only at an await, so each stretch between two    *)
(* awaits is one action.  Tasks start in the order of their creation and   *)
(* before the next message, so that a task that is created is at once in   *)
(* the queue of the lock.                                                  *)
(*                                                                         *)
(* The text of a segment is its closed sentences and a tail.  A sentence   *)
(* or a tail is named by its place and by how often the ASR had rewritten  *)
(* the segment; its translation is denoted by the same name.  The provider *)
(* and aiomqtt are external.                                               *)
(***************************************************************************)
EXTENDS Naturals, Sequences, FiniteSets

CONSTANTS
    Modes,          \* of {"eco", "punctuated", "live"}: the configuration
    MaxConcurrent,  \* max_concurrent of the scheduler
    MaxSentences,   \* bound on the closed sentences of a segment
    MaxTails,       \* bound on the words of a tail
    MaxSegments,    \* bound on the segments
    MaxMessages,    \* bound on the partials
    MaxTroubles     \* bound on rewrites by a partial, finals that are lost, requests that
                    \* fail and states that expire, together

ASSUME ModesAssumption == Modes \subseteq {"eco", "punctuated", "live"}
ASSUME PipelineLimits ==
    /\ MaxConcurrent \in Nat \ {0}
    /\ MaxSentences \in Nat /\ MaxTails \in Nat /\ MaxSegments \in Nat /\ MaxMessages \in Nat
    /\ MaxTroubles \in Nat

VARIABLES
    mode,       \* translate_partials and tail_live_ms
    said,       \* the ASR: its segment, the sentences it has closed, its revision
    channel,    \* ChannelState: the segment and what its assembler has frozen; segment 0 if none
    current,    \* the KeyState in _states, 0 if none
    states,     \* KeyStates made so far
    jobs,       \* the freeze and final tasks, by their names
    locks,      \* the queues of the locks that exist; the first is the holder, or is woken
    keyLock,    \* the lock in _key_locks
    slot,       \* _TailSlot
    finals,     \* what became of the final of each segment
    stopped,    \* stop() was called
    out,        \* what the last step has published
    partials,   \* partials so far
    troubles    \* the same, of what MaxTroubles bounds

Segments  == 1 .. MaxSegments
StateIds  == 1 .. (MaxSegments + MaxTroubles)
Locks     == 1 .. (MaxSegments + MaxTroubles + 1)
Revisions == 0 .. (MaxTroubles + 1)     \* the last one is that of a final that rewrites

vars == <<mode, said, channel, current, states, jobs, locks, keyLock, slot, finals,
          stopped, out, partials, troubles>>

-----------------------------------------------------------------------------
(* Text *)

Sentence(seg, rev, i) == [seg |-> seg, rev |-> rev, idx |-> i]
NoSentence == [seg |-> 0, rev |-> 0, idx |-> 0]
Sentences == [seg : Segments, rev : Revisions, idx : 0 .. (MaxSentences - 1)]

Tail_(seg, rev, n, words) == [seg |-> seg, rev |-> rev, after |-> n, words |-> words]
NoTail == [seg |-> 0, rev |-> 0, after |-> 0, words |-> 0]
Tails == [seg : Segments, rev : Revisions, after : 0 .. MaxSentences, words : 1 .. MaxTails] \cup {NoTail}

Texts == [prefix : Seq(Sentences), tail : Tails]
Text(seg, rev, n, words) ==
    [prefix |-> [i \in 1 .. n |-> Sentence(seg, rev, i - 1)],
     tail   |-> IF words = 0 THEN NoTail ELSE Tail_(seg, rev, n, words)]

Nothing == [what |-> "nothing", seg |-> 0, text |-> [prefix |-> <<>>, tail |-> NoTail]]

-----------------------------------------------------------------------------
(* State *)

KeyStates == [frozen    : [0 .. (MaxSentences - 1) -> Sentences \cup {NoSentence}],  \* frozen_dst
              submitted : Tails,            \* submitted_tail_src
              lastTail  : Tails,            \* last_tail_src and last_tail_dst
              version   : Nat,              \* tail_version
              published : BOOLEAN,          \* has_published
              finalized : BOOLEAN,
              voided    : BOOLEAN]          \* a rewrite came while freezes were under way

NewState == [frozen |-> [i \in 0 .. (MaxSentences - 1) |-> NoSentence], submitted |-> NoTail,
             lastTail |-> NoTail, version |-> 0, published |-> FALSE, finalized |-> FALSE,
             voided |-> FALSE]

\* A state that is no longer in _states and that no final uses; what is still written to
\* it is never read.
DeadState == [NewState EXCEPT !.finalized = TRUE]
Dropped(id) == IF id = 0 THEN states ELSE [states EXCEPT ![id] = DeadState]

\* A tail that was submitted: its version, and the KeyState its callback holds.
Items  == [tail : Tails, version : Nat, st : StateIds \cup {0}, seg : Segments \cup {0}]
NoItem == [tail |-> NoTail, version |-> 0, st |-> 0, seg |-> 0]

NoSlot == [pending |-> NoItem, runner |-> "none", item |-> NoItem]

\* Tasks: the translation of sentence idx, or of the final of the segment.
Freeze(st, seg, rev, i) == [what |-> "freeze", st |-> st, seg |-> seg, rev |-> rev, idx |-> i]
Final(st, seg)          == [what |-> "final", st |-> st, seg |-> seg, rev |-> 0, idx |-> 0]
IsFinal(j)              == j.what = "final"

\* Where a task is: it gathers the pending freezes, waits for the lock, holds it and
\* waits for the semaphore, waits for the provider, or for the broker.  frozen is the
\* number of sentences in the snapshot of a final, way what its request translates.
JobStates == [at : {"gather", "lock", "sem", "call", "publish"}, text : Texts,
              frozen : 0 .. MaxSentences, way : {"sentence", "rest", "whole"}]

TypeOK ==
    /\ mode \in Modes
    /\ said \in [seg : 1 .. (MaxSegments + 1), n : 0 .. MaxSentences, rev : 0 .. MaxTroubles]
    /\ channel \in [seg : Segments \cup {0}, n : 0 .. MaxSentences, rev : 0 .. MaxTroubles]
    /\ current \in 0 .. Len(states)
    /\ states \in Seq(KeyStates) /\ Len(states) <= MaxSegments + MaxTroubles
    /\ \A j \in DOMAIN jobs : jobs[j] \in JobStates
    /\ \A l \in Locks : \A i \in DOMAIN locks[l] : locks[l][i] \in DOMAIN jobs
    /\ keyLock \in Locks
    /\ slot.pending \in Items /\ slot.item \in Items /\ slot.runner \in {"none", "wait", "sem", "call"}
    /\ finals \in [Segments -> [at : {"none", "handled", "published", "lost"}, text : Texts,
                                voided : BOOLEAN]]
    /\ stopped \in BOOLEAN
    /\ out.what \in {"nothing", "freeze", "tail", "final"} /\ out.text \in Texts

Init ==
    /\ mode \in Modes
    /\ said = [seg |-> 1, n |-> 0, rev |-> 0]
    /\ channel = [seg |-> 0, n |-> 0, rev |-> 0]
    /\ current = 0
    /\ states = <<>>
    /\ jobs = <<>>
    /\ locks = [l \in Locks |-> <<>>]
    /\ keyLock = 1
    /\ slot = NoSlot
    /\ finals = [s \in Segments |-> [at |-> "none", text |-> Nothing.text, voided |-> FALSE]]
    /\ stopped = FALSE
    /\ out = Nothing
    /\ partials = 0
    /\ troubles = 0

-----------------------------------------------------------------------------
(* The scheduler *)

Inflight == Cardinality({j \in DOMAIN jobs : jobs[j].at = "call"})
                + (IF slot.runner = "call" THEN 1 ELSE 0)

\* lock.locked()
Locked(l) == locks[l] # <<>> /\ jobs[Head(locks[l])].at \in {"sem", "call"}

\* The lock that the key has after purge_key: a lock that is not held is forgotten, even
\* if a task has just been woken and is about to take it.  The task keeps the old one.
\* (A forgotten lock that no task uses is not told from a new one.)
PurgedLock == IF locks[keyLock] = <<>> \/ Locked(keyLock) THEN keyLock
              ELSE CHOOSE l \in Locks : locks[l] = <<>>

\* cancel_key: the pending tail is dropped.  purge_key also cancels the runner.
Canceled == [slot EXCEPT !.pending = NoItem]

\* The place of a task that comes to a lock with n others.
Comes(n) == IF n = 0 THEN "sem" ELSE "lock"

\* freeze(): the task that was woken takes the lock.
Acquire(l) ==
    /\ locks[l] # <<>> /\ jobs[Head(locks[l])].at = "lock"
    /\ jobs' = [jobs EXCEPT ![Head(locks[l])].at = "sem"]
    /\ out' = Nothing
    /\ UNCHANGED <<mode, said, channel, current, states, locks, keyLock, slot, finals,
                   stopped, partials, troubles>>

\* _translate: a place of the semaphore, and the request.
Request(j) ==
    /\ jobs[j].at = "sem" /\ Inflight < MaxConcurrent
    /\ jobs' = [jobs EXCEPT ![j].at = "call"]
    /\ out' = Nothing
    /\ UNCHANGED <<mode, said, channel, current, states, locks, keyLock, slot, finals,
                   stopped, partials, troubles>>

Without(j) == [k \in DOMAIN jobs \ {j} |-> jobs[k]]

\* The lock is released, and the next task is woken.
Released(j) == [l \in Locks |-> IF locks[l] # <<>> /\ Head(locks[l]) = j THEN Tail(locks[l]) ELSE locks[l]]

NextTrouble == troubles < MaxTroubles /\ troubles' = troubles + 1

\* submit_tail
Submit(s, tail, version, st, seg) ==
    [s EXCEPT !.pending = [tail |-> tail, version |-> version, st |-> st, seg |-> seg],
              !.runner = IF @ = "none" THEN "wait" ELSE @]

\* A task writes st to the state it holds.
Recorded(id, st) ==
    IF id = current \/ \E j \in DOMAIN jobs : IsFinal(j) /\ j.st = id /\ jobs[j].way = "rest"
    THEN [states EXCEPT ![id] = st] ELSE states

-----------------------------------------------------------------------------
(* Publications *)

\* Mutant: what comes after a missing sentence is joined to what comes before it.
Assemble_SkipsGaps(st, tail) ==
    [prefix |-> SelectSeq([i \in 1 .. MaxSentences |-> st.frozen[i - 1]], LAMBDA x : x # NoSentence),
     tail   |-> tail]

\* _assemble: the sentences frozen without a gap, and the tail.
Assemble(st, tail) ==
    LET n == CHOOSE k \in 0 .. MaxSentences :
                 /\ \A i \in 0 .. (k - 1) : st.frozen[i] # NoSentence
                 /\ k = MaxSentences \/ st.frozen[k] = NoSentence
    IN  [prefix |-> [i \in 1 .. n |-> st.frozen[i - 1]], tail |-> tail]

\* publish_translation
Publish(what, seg, text) == out' = [what |-> what, seg |-> seg, text |-> text]

-----------------------------------------------------------------------------
(* Partials *)

\* The pipeline ignores the partial of an eco configuration.  A partial of another
\* segment than the channel's voids what the final that never came has left.  The
\* assembler freezes the sentences that the partial closes, all of them if the text
\* no longer starts with what was frozen.
HandlePartial(n, rev, words, skip) ==
    LET seg    == said.seg
        new    == channel.seg # seg
        voids  == new /\ channel.seg # 0
        reset  == ~new /\ channel.n > 0 /\ rev # channel.rev
        base   == IF new \/ reset THEN 0 ELSE channel.n
        before == IF voids THEN 0 ELSE current
        id     == IF before = 0 THEN Len(states) + 1 ELSE before
        st     == IF before = 0 THEN NewState
                  ELSE IF ~reset THEN states[before]
                  ELSE [states[before] EXCEPT
                           !.frozen = NewState.frozen, !.version = @ + 1,
                           !.voided = @ \/ \E j \in DOMAIN jobs : ~IsFinal(j) /\ j.st = before]
        lock   == IF voids THEN PurgedLock ELSE keyLock
        old    == IF voids THEN NoSlot ELSE IF reset THEN Canceled ELSE slot
        made   == [i \in 1 .. (n - base) |-> Freeze(id, seg, rev, base + i - 1)]
        place(j) == Comes(Len(locks[lock]) + (j.idx - base))
        tail   == Tail_(seg, rev, n, words)
        live   == mode = "live" /\ words > 0
        after  == IF live /\ ~skip THEN [st EXCEPT !.submitted = tail, !.version = @ + 1] ELSE st
    IN  /\ mode # "eco" /\ ~stopped
        /\ partials < MaxMessages /\ partials' = partials + 1
        /\ seg <= MaxSegments
        /\ \/ rev = said.rev /\ n >= said.n
           \/ rev = said.rev + 1
        /\ IF rev = said.rev THEN UNCHANGED troubles ELSE NextTrouble
        /\ skip => live /\ st.submitted # NoTail     \* change_gate
        /\ live /\ st.submitted = tail => skip
        /\ said' = [said EXCEPT !.n = n, !.rev = rev]
        /\ channel' = [seg |-> seg, n |-> n, rev |-> rev]
        /\ current' = id
        /\ states' = IF before = 0 THEN Append(Dropped(current), after) ELSE [states EXCEPT ![id] = after]
        /\ keyLock' = lock
        /\ locks' = [locks EXCEPT ![lock] = @ \o made]
        /\ jobs' = [j \in DOMAIN jobs \cup {made[i] : i \in DOMAIN made} |->
                       IF j \in DOMAIN jobs THEN jobs[j]
                       ELSE [at |-> place(j), text |-> Nothing.text, frozen |-> 0, way |-> "sentence"]]
        /\ slot' = IF live /\ ~skip THEN Submit(old, tail, after.version, id, seg) ELSE old
        /\ out' = Nothing
        /\ UNCHANGED <<mode, finals, stopped>>

\* Mutant: a translation is published whatever has become of its state.
FreezeDone_Unchecked(j) ==
    LET st == [states[j.st] EXCEPT !.frozen[j.idx] = Sentence(j.seg, j.rev, j.idx), !.published = TRUE]
    IN  /\ ~IsFinal(j) /\ jobs[j].at = "call"
        /\ states' = [states EXCEPT ![j.st] = st]
        /\ Publish("freeze", j.seg, Assemble(st, st.lastTail))
        /\ jobs' = Without(j)
        /\ locks' = Released(j)
        /\ UNCHANGED <<mode, said, channel, current, keyLock, slot, finals, stopped,
                       partials, troubles>>

\* _freeze_and_publish after its request: a translation of a state that is no longer
\* that of the key is only recorded.
FreezeDone(j) ==
    LET st == [states[j.st] EXCEPT !.frozen[j.idx] = Sentence(j.seg, j.rev, j.idx)]
    IN  /\ ~IsFinal(j) /\ jobs[j].at = "call"
        /\ IF current = j.st /\ ~st.finalized
           THEN /\ states' = [states EXCEPT ![j.st] = [st EXCEPT !.published = TRUE]]
                /\ Publish("freeze", j.seg, Assemble(st, st.lastTail))
           ELSE states' = Recorded(j.st, st) /\ out' = Nothing
        /\ jobs' = Without(j)
        /\ locks' = Released(j)
        /\ UNCHANGED <<mode, said, channel, current, keyLock, slot, finals, stopped,
                       partials, troubles>>

\* Its request fails: the sentence stays missing.
FreezeFails(j) ==
    /\ ~IsFinal(j) /\ jobs[j].at = "call"
    /\ NextTrouble
    /\ jobs' = Without(j)
    /\ locks' = Released(j)
    /\ out' = Nothing
    /\ UNCHANGED <<mode, said, channel, current, states, keyLock, slot, finals, stopped,
                   partials>>

-----------------------------------------------------------------------------
(* The runner of the tail *)

\* _run_tail after its sleep: it takes the pending tail, or ends.
TailTake ==
    /\ slot.runner = "wait"
    /\ slot' = IF slot.pending = NoItem THEN NoSlot
               ELSE [pending |-> NoItem, runner |-> "sem", item |-> slot.pending]
    /\ out' = Nothing
    /\ UNCHANGED <<mode, said, channel, current, states, jobs, locks, keyLock, finals,
                   stopped, partials, troubles>>

TailRequest ==
    /\ slot.runner = "sem" /\ Inflight < MaxConcurrent
    /\ slot' = [slot EXCEPT !.runner = "call"]
    /\ out' = Nothing
    /\ UNCHANGED <<mode, said, channel, current, states, jobs, locks, keyLock, finals,
                   stopped, partials, troubles>>

\* The loop goes on while a tail is pending.
NextTail == [slot EXCEPT !.item = NoItem, !.runner = IF slot.pending = NoItem THEN "none" ELSE "wait"]

\* The guard of on_done.
IsStaleTail(item) ==
    \/ current # item.st \/ states[item.st].finalized
    \/ item.version < states[item.st].version

\* on_done: every translation is recorded, a stale one is not published, and the
\* stability gate may hold back one that is not the first (consecutive_holds, which
\* bounds how many it holds in a row, is left out).
TailDone ==
    LET item == slot.item
        st   == [states[item.st] EXCEPT !.lastTail = item.tail]
    IN  /\ slot.runner = "call"
        /\ \/ /\ IsStaleTail(item) \/ st.published
              /\ states' = Recorded(item.st, st)
              /\ out' = Nothing
           \/ /\ ~IsStaleTail(item)
              /\ states' = [states EXCEPT ![item.st] = [st EXCEPT !.published = TRUE]]
              /\ Publish("tail", item.seg, Assemble(st, item.tail))
        /\ slot' = NextTail
        /\ UNCHANGED <<mode, said, channel, current, jobs, locks, keyLock, finals,
                       stopped, partials, troubles>>

TailFails ==
    /\ slot.runner = "call"
    /\ NextTrouble
    /\ slot' = NextTail
    /\ out' = Nothing
    /\ UNCHANGED <<mode, said, channel, current, states, jobs, locks, keyLock, finals,
                   stopped, partials>>

-----------------------------------------------------------------------------
(* Finals *)

NextSegment == said' = [seg |-> said.seg + 1, n |-> 0, rev |-> 0]

\* A final is lost, or has no text: the ASR goes on with the next segment.
SkipFinal ==
    /\ said.seg <= MaxSegments
    /\ NextSegment
    /\ NextTrouble
    /\ out' = Nothing
    /\ UNCHANGED <<mode, channel, current, states, jobs, locks, keyLock, slot, finals,
                   stopped, partials>>

\* A task comes to the lock of the key with a request.
Queued(j, way) ==
    /\ jobs' = [jobs EXCEPT ![j].at = Comes(Len(locks[keyLock])), ![j].way = way]
    /\ locks' = [locks EXCEPT ![keyLock] = Append(@, j)]

\* handle_final: the state of the segment is detached, and a task is started.  If the
\* text starts with what was frozen the task gathers the freezes that are pending;
\* else it translates all of it.
HandleFinal(rev, words) ==
    LET seg   == said.seg
        text  == Text(seg, rev, said.n, words)
        j     == Final(current, seg)
        match == current # 0 /\ channel.seg = seg /\ channel.n > 0 /\ channel.rev = rev
        place == IF match THEN "gather" ELSE Comes(Len(locks[keyLock]))
    IN  /\ ~stopped
        /\ seg <= MaxSegments
        /\ rev = said.rev \/ (rev = MaxTroubles + 1 /\ words = 0)
        /\ NextSegment
        /\ channel' = [seg |-> 0, n |-> 0, rev |-> 0]
        /\ current' = 0
        /\ states' = IF match THEN [states EXCEPT ![current].finalized = TRUE] ELSE Dropped(current)
        /\ slot' = Canceled
        /\ jobs' = [k \in DOMAIN jobs \cup {j} |->
                       IF k # j THEN jobs[k]
                       ELSE [at |-> place, text |-> text, frozen |-> channel.n,
                             way |-> IF match THEN "rest" ELSE "whole"]]
        /\ locks' = IF match THEN locks ELSE [locks EXCEPT ![keyLock] = Append(@, j)]
        /\ finals' = [finals EXCEPT ![seg] = [at |-> "handled", text |-> text,
                                              voided |-> current # 0 /\ states[current].voided]]
        /\ out' = Nothing
        /\ UNCHANGED <<mode, keyLock, stopped, partials, troubles>>

\* _finalize_target publishes; the purge of the key comes when the broker has answered.
PublishFinal(j, text) ==
    /\ Publish("final", j.seg, text)
    /\ finals' = [finals EXCEPT ![j.seg].at = "published"]
    /\ jobs' = [jobs EXCEPT ![j].at = "publish"]

\* Mutant: it gathers all the tasks that are active, of which it is one.
Gathered_All(j) ==
    /\ IsFinal(j) /\ jobs[j].at = "gather"
    /\ ~\E k \in DOMAIN jobs : jobs[k].at # "publish"

\* No freeze of the state is pending.
Gathered(j) ==
    /\ IsFinal(j) /\ jobs[j].at = "gather"
    /\ ~\E k \in DOMAIN jobs : ~IsFinal(k) /\ k.st = j.st

\* Mutant: the sentences that are missing are not noticed.
FrozenComplete_Always(st, n) == TRUE

\* _frozen_complete
FrozenComplete(st, n) == \A i \in 0 .. (n - 1) : st.frozen[i] # NoSentence

\* _final_translation once the freezes are there: the frozen sentences and the last
\* tail are reused if they are all of the text, else the rest is translated, or all
\* of it if a sentence is missing.
Finalize(j) ==
    LET st   == states[j.st]
        rest == jobs[j].text.tail
    IN  /\ Gathered(j)
        /\ IF FrozenComplete(st, jobs[j].frozen) /\ rest \in {NoTail, st.lastTail}
           THEN PublishFinal(j, Assemble(st, rest)) /\ UNCHANGED locks
           ELSE /\ Queued(j, IF FrozenComplete(st, jobs[j].frozen) THEN "rest" ELSE "whole")
                /\ out' = Nothing
                /\ UNCHANGED finals
        /\ UNCHANGED <<mode, said, channel, current, states, keyLock, slot, stopped,
                       partials, troubles>>

\* The request of a final is answered.
FinalDone(j) ==
    /\ IsFinal(j) /\ jobs[j].at = "call"
    /\ PublishFinal(j, IF jobs[j].way = "whole" THEN jobs[j].text
                       ELSE Assemble(states[j.st], jobs[j].text.tail))
    /\ locks' = Released(j)
    /\ UNCHANGED <<mode, said, channel, current, states, keyLock, slot, stopped,
                   partials, troubles>>

\* It fails, and the segment has no final.
FinalFails(j) ==
    /\ IsFinal(j) /\ jobs[j].at = "call"
    /\ NextTrouble
    /\ finals' = [finals EXCEPT ![j.seg].at = "lost", ![j.seg].text = Nothing.text]
    /\ jobs' = Without(j)
    /\ locks' = Released(j)
    /\ out' = Nothing
    /\ UNCHANGED <<mode, said, channel, current, states, keyLock, slot, stopped,
                   partials>>

\* The publication is through: purge_key, whichever segment uses the key by now.
FinalPublished(j) ==
    /\ IsFinal(j) /\ jobs[j].at = "publish"
    /\ states' = Dropped(j.st)
    /\ finals' = [finals EXCEPT ![j.seg].text = Nothing.text]
    /\ jobs' = Without(j)
    /\ slot' = NoSlot
    /\ keyLock' = PurgedLock
    /\ out' = Nothing
    /\ UNCHANGED <<mode, said, channel, current, locks, stopped, partials, troubles>>

-----------------------------------------------------------------------------
(* Maintenance *)

\* _ttl_loop: the state of the key has been idle for state_ttl_s.
Reap ==
    /\ ~stopped /\ channel.seg # 0
    /\ NextTrouble
    /\ channel' = [seg |-> 0, n |-> 0, rev |-> 0]
    /\ current' = 0
    /\ states' = Dropped(current)
    /\ slot' = NoSlot
    /\ keyLock' = PurgedLock
    /\ out' = Nothing
    /\ UNCHANGED <<mode, said, jobs, locks, finals, stopped, partials>>

\* stop(), at the shutdown: everything is canceled.
Stop ==
    /\ ~stopped
    /\ stopped' = TRUE
    /\ channel' = [seg |-> 0, n |-> 0, rev |-> 0]
    /\ current' = 0
    /\ slot' = NoSlot
    /\ jobs' = <<>>
    /\ locks' = [l \in Locks |-> <<>>]
    /\ finals' = [s \in Segments |->
                     [finals[s] EXCEPT !.at = IF @ = "handled" THEN "lost" ELSE @,
                                       !.text = Nothing.text]]
    /\ out' = Nothing
    /\ states' = <<>>
    /\ UNCHANGED <<mode, said, keyLock, partials, troubles>>

-----------------------------------------------------------------------------
(* Specification *)

Answered(j) == FreezeDone(j) \/ FreezeFails(j) \/ FinalDone(j) \/ FinalFails(j)

Next ==
    \/ \E n \in 0 .. MaxSentences, rev \in Revisions, words \in 0 .. MaxTails, skip \in BOOLEAN :
           HandlePartial(n, rev, words, skip)
    \/ \E rev \in Revisions, words \in 0 .. MaxTails : HandleFinal(rev, words)
    \/ SkipFinal
    \/ \E l \in Locks : Acquire(l)
    \/ \E j \in DOMAIN jobs : Request(j) \/ Answered(j) \/ Finalize(j) \/ FinalPublished(j)
    \/ TailTake \/ TailRequest \/ TailFails
    \/ TailDone
    \/ Reap \/ Stop

Spec == Init /\ [][Next]_vars

\* What the event loop, the provider and the broker do for the tasks.
Tasks ==
    \/ \E l \in Locks : Acquire(l)
    \/ \E j \in DOMAIN jobs : Request(j) \/ Answered(j) \/ Finalize(j) \/ FinalPublished(j)
    \/ TailTake \/ TailRequest \/ TailFails
    \/ TailDone

\* The event loop always runs some task that can go on; the provider answers or fails
\* within the 30 seconds of its timeout.
FairSpec == Spec /\ WF_vars(Tasks)

-----------------------------------------------------------------------------
(* Properties *)

\* "Finals always win": once the final of a segment has been handled no partial of the
\* segment is published, whatever freezes and tails were under way.
FinalsWin == out.what \in {"freeze", "tail"} => finals[out.seg].at = "none"

\* The final that is published is a translation of the text of the final, sentence by
\* sentence, however it was put together from freezes, from the last tail and from a
\* request of its own, and whatever failed or expired on the way.  This does not hold
\* if the ASR rewrote the segment while freezes were under way: a sentence of the old
\* text may then be left behind the new ones.
FinalFaithful ==
    out.what = "final" /\ ~finals[out.seg].voided => out.text = finals[out.seg].text

\* A partial begins with sentences of the text that is current, in their order and
\* without a gap (with the same exception).  "Invalidate in-flight tail completions": it
\* is a tail's own only if that is the latest that was submitted and what precedes it
\* has not been rewritten since.
PartialFaithful ==
    /\ out.what \in {"freeze", "tail"} /\ ~states[current].voided =>
           /\ Len(out.text.prefix) <= channel.n
           /\ \A i \in DOMAIN out.text.prefix :
                  out.text.prefix[i] = Sentence(channel.seg, channel.rev, i - 1)
    /\ out.what = "tail" =>
           /\ out.text.tail = states[current].submitted
           /\ out.text.tail.after > 0 => out.text.tail.rev = channel.rev

\* Every final that was handled is published in the end, or its request has
\* failed, or the translator was stopped.  (A final that has left "handled" never returns,
\* so none is left there if again and again there is none.)
FinalsComplete == []<>(\A s \in Segments : finals[s].at # "handled")
=============================================================================
