----------------------- MODULE TranslationPipelineProofs -----------------------
(***************************************************************************)
(* Proofs about TranslationPipeline, for any numbers of segments,          *)
(* sentences, messages and troubles: finals win, and what is published is  *)
(* a translation of the text that was said.                                *)
(***************************************************************************)
EXTENDS TranslationPipeline, SequenceTheorems, NaturalsInduction, WellFoundedInduction, TLAPS

-----------------------------------------------------------------------------
(* The inductive invariant *)

Names == [what : {"freeze", "final"}, st : Nat, seg : Segments, rev : Revisions, idx : Nat]

TailItems == [tail : Tails, version : Nat, st : Nat, seg : Segments \cup {0}]

FinalStates == [at : {"none", "handled", "published", "lost"}, text : Texts, voided : BOOLEAN]

\* The types of what the properties depend on.
Types ==
    /\ said \in [seg : 1 .. (MaxSegments + 1), n : 0 .. MaxSentences, rev : 0 .. MaxTroubles]
    /\ channel \in [seg : Segments \cup {0}, n : 0 .. MaxSentences, rev : 0 .. MaxTroubles]
    /\ states \in Seq(KeyStates)
    /\ current \in 0 .. Len(states)
    /\ DOMAIN jobs \subseteq Names
    /\ jobs \in [DOMAIN jobs -> JobStates]
    /\ slot \in [pending : TailItems, runner : {"none", "wait", "sem", "call"}, item : TailItems]
    /\ finals \in [Segments -> FinalStates]
    /\ troubles \in 0 .. MaxTroubles

\* The channel is at the segment that is said, or a final was lost, and then behind it.
SegmentInv ==
    /\ (current = 0) <=> (channel.seg = 0)
    /\ channel.seg <= said.seg
    /\ channel.seg # 0 => finals[channel.seg].at = "none"
    /\ \A s \in Segments : s >= said.seg => finals[s].at = "none"
    /\ channel.seg = said.seg => channel.n = said.n /\ channel.rev = said.rev
    /\ said.rev <= troubles

TailsOf(s) == {s.pending, s.item}

\* No task refers to a state that is still to come, and a final to one that is past.
IdInv ==
    /\ \A j \in DOMAIN jobs : j.st <= Len(states) /\ (IsFinal(j) \/ j.st # 0)
    /\ \A j \in DOMAIN jobs : IsFinal(j) => (j.st # current) \/ (current = 0)
    /\ \A j, k \in DOMAIN jobs :
           IsFinal(j) /\ IsFinal(k) /\ (j.seg = k.seg \/ (j.st = k.st /\ j.st # 0)) => j = k
    /\ \A item \in TailsOf(slot) : item.st <= Len(states)
    /\ slot.pending = NoItem \/ slot.pending.st # 0
    /\ slot.runner \in {"sem", "call"} => slot.item.st # 0

\* What was frozen in a state, and what is being frozen, is of this text.
Matches(id, seg, rev, n) ==
    /\ \A i \in 0 .. (MaxSentences - 1) : states[id].frozen[i] # NoSentence =>
           (i < n) /\ (states[id].frozen[i] = Sentence(seg, rev, i))
    /\ \A k \in DOMAIN jobs : ~IsFinal(k) /\ k.st = id => (k.rev = rev) /\ (k.seg = seg) /\ (k.idx < n)

\* A tail that is not stale is the latest one, of the text as it is.
IsLatest(item) ==
    /\ item.version <= states[current].version
    /\ item.version = states[current].version =>
           /\ item.tail = states[current].submitted
           /\ item.tail.after <= channel.n
           /\ item.tail.after > 0 => item.tail.rev = channel.rev

\* What is under way for the current state is for the channel's segment.
CurrentOK ==
    /\ \A j \in DOMAIN jobs : ~IsFinal(j) /\ j.st = current => j.seg = channel.seg
    /\ \A item \in TailsOf(slot) : item.st = current => (item.seg = channel.seg) /\ IsLatest(item)
    /\ ~states[current].voided => Matches(current, channel.seg, channel.rev, channel.n)

CurrentInv == current # 0 => CurrentOK

\* A final that reuses what was frozen has a state of its own.  Once it has gathered the
\* freezes there are no more, and no sentence is missing.
Reuses(j) ==
    /\ j.st # 0
    /\ \E rev \in Revisions, words \in 0 .. MaxTails :
           /\ jobs[j].text = Text(j.seg, rev, jobs[j].frozen, words)
           /\ ~finals[j.seg].voided => Matches(j.st, j.seg, rev, jobs[j].frozen)
    /\ jobs[j].at # "gather" =>
           /\ FrozenComplete(states[j.st], jobs[j].frozen)
           /\ \A k \in DOMAIN jobs : IsFinal(k) \/ k.st # j.st

FinalOK(j) ==
    /\ j.seg < said.seg
    /\ finals[j.seg].at # "none" /\ finals[j.seg].text = jobs[j].text
    /\ jobs[j].way \in {"rest", "whole"}
    /\ jobs[j].at = "gather" => jobs[j].way = "rest"
    /\ jobs[j].way = "rest" => Reuses(j)

FinalInv == \A j \in DOMAIN jobs : IsFinal(j) => FinalOK(j)

TextInv == Types /\ SegmentInv /\ IdInv /\ CurrentInv /\ FinalInv

OutInv == FinalsWin /\ FinalFaithful /\ PartialFaithful

-----------------------------------------------------------------------------
(* Texts *)

LEMMA Limits ==
    /\ MaxSentences \in Nat /\ MaxTails \in Nat /\ MaxSegments \in Nat /\ MaxTroubles \in Nat
    /\ 0 \notin Segments /\ \A s \in Segments : s \in Nat
    /\ \A r \in 0 .. MaxTroubles : r \in Revisions /\ r + 1 \in Revisions
BY PipelineLimits DEF Segments, Revisions

LEMMA SentenceType ==
    ASSUME NEW seg \in Segments, NEW rev \in Revisions, NEW i \in 0 .. (MaxSentences - 1)
    PROVE  Sentence(seg, rev, i) \in Sentences /\ Sentence(seg, rev, i) # NoSentence
BY Limits DEF Sentence, Sentences, NoSentence

LEMMA NothingIsText == Nothing.text \in Texts /\ NoTail \in Tails
BY DEF Nothing, Texts, Tails

LEMMA TextType ==
    ASSUME NEW seg \in Segments, NEW rev \in Revisions, NEW n \in 0 .. MaxSentences,
           NEW words \in 0 .. MaxTails
    PROVE  Text(seg, rev, n, words) \in Texts
<1> DEFINE p == [i \in 1 .. n |-> Sentence(seg, rev, i - 1)]
           t == IF words = 0 THEN NoTail ELSE Tail_(seg, rev, n, words)
<1>1. \A i \in 1 .. n : i - 1 \in 0 .. (MaxSentences - 1)
  BY Limits
<1>2. \A i \in 1 .. n : Sentence(seg, rev, i - 1) \in Sentences
  BY <1>1, SentenceType
<1>3. p \in Seq(Sentences)
  BY <1>2
<1>4. t \in Tails
  BY Limits DEF Tails, Tail_
<1> QED
  BY <1>3, <1>4 DEF Text, Texts

LEMMA LeastNat ==
    ASSUME NEW T \in SUBSET Nat, T # {} PROVE \E x \in T : \A y \in T : x <= y
<1>1. PICK x \in T : \A y \in T : ~(<<y, x>> \in OpToRel(<, Nat))
  BY WFMin, NatLessThanWellFounded, Zenon
<1>2. \A y \in T : ~(y < x)
  BY <1>1 DEF OpToRel
<1> QED
  BY <1>2

\* What _assemble joins ends before the first sentence that is missing.
UpTo(st, n) ==
    /\ \A i \in 0 .. (n - 1) : st.frozen[i] # NoSentence
    /\ n = MaxSentences \/ st.frozen[n] = NoSentence

LEMMA AssembleEnds ==
    ASSUME NEW st, NEW tail
    PROVE  \E n \in 0 .. MaxSentences :
               /\ UpTo(st, n)
               /\ Assemble(st, tail) = [prefix |-> [i \in 1 .. n |-> st.frozen[i - 1]], tail |-> tail]
<1> DEFINE T == {k \in 0 .. MaxSentences : k = MaxSentences \/ st.frozen[k] = NoSentence}
<1>1. T \in SUBSET Nat /\ MaxSentences \in T
  BY Limits
<1>2. PICK n \in T : \A y \in T : n <= y
  BY <1>1, LeastNat
<1>3. n \in 0 .. MaxSentences /\ UpTo(st, n)
  BY <1>2, Limits DEF UpTo
<1>4. Assemble(st, tail) =
          LET m == CHOOSE k \in 0 .. MaxSentences : UpTo(st, k)
          IN  [prefix |-> [i \in 1 .. m |-> st.frozen[i - 1]], tail |-> tail]
  BY DEF Assemble, UpTo
<1> DEFINE m == CHOOSE k \in 0 .. MaxSentences : UpTo(st, k)
<1>5. m \in 0 .. MaxSentences /\ UpTo(st, m)
  BY <1>3
<1> QED
  BY <1>4, <1>5

\* Only sentences of this text are there.
Follows(st, seg, rev, n) ==
    \A i \in 0 .. (MaxSentences - 1) : st.frozen[i] # NoSentence =>
        (i < n) /\ (st.frozen[i] = Sentence(seg, rev, i))

\* Where all the sentences of a text are there and none after them, that is what is joined.
LEMMA AssembleIsText ==
    ASSUME NEW st, NEW seg, NEW rev, NEW n \in 0 .. MaxSentences, NEW words,
           Follows(st, seg, rev, n), FrozenComplete(st, n)
    PROVE  Assemble(st, Text(seg, rev, n, words).tail) = Text(seg, rev, n, words)
<1> DEFINE t == Text(seg, rev, n, words).tail
<1>1. PICK m \in 0 .. MaxSentences :
               /\ UpTo(st, m)
               /\ Assemble(st, t) = [prefix |-> [i \in 1 .. m |-> st.frozen[i - 1]], tail |-> t]
  BY AssembleEnds
<1>2. ~(m < n)
  BY <1>1, Limits DEF UpTo, FrozenComplete
<1>3. ~(n < m)
  <2>1. n < m => n \in 0 .. (m - 1) /\ n \in 0 .. (MaxSentences - 1)
    BY Limits
  <2> QED
    BY <1>1, <2>1 DEF UpTo, Follows
<1>4. m = n
  BY <1>2, <1>3, Limits
<1>5. \A i \in 1 .. n : st.frozen[i - 1] = Sentence(seg, rev, i - 1)
  <2>1. \A i \in 1 .. n : i - 1 \in 0 .. (n - 1) /\ i - 1 \in 0 .. (MaxSentences - 1)
    BY Limits
  <2> QED
    BY <2>1 DEF FrozenComplete, Follows
<1>6. [i \in 1 .. n |-> st.frozen[i - 1]] = [i \in 1 .. n |-> Sentence(seg, rev, i - 1)]
  BY <1>5
<1> QED
  BY <1>1, <1>4, <1>6 DEF Text

\* What is joined begins with sentences of the text, in order.
LEMMA AssembleBegins ==
    ASSUME NEW st, NEW seg, NEW rev, NEW n \in 0 .. MaxSentences, NEW tail,
           Follows(st, seg, rev, n)
    PROVE  LET text == Assemble(st, tail) IN
           /\ Len(text.prefix) <= n
           /\ \A i \in DOMAIN text.prefix : text.prefix[i] = Sentence(seg, rev, i - 1)
           /\ text.tail = tail
<1>1. PICK m \in 0 .. MaxSentences :
               /\ UpTo(st, m)
               /\ Assemble(st, tail) = [prefix |-> [i \in 1 .. m |-> st.frozen[i - 1]], tail |-> tail]
  BY AssembleEnds
<1> DEFINE p == [i \in 1 .. m |-> st.frozen[i - 1]]
<1>2. Assemble(st, tail).prefix = p /\ Assemble(st, tail).tail = tail
  BY <1>1
<1>3. Len(p) = m /\ DOMAIN p = 1 .. m
  <2>1. \E x : Len(p) = m /\ DOMAIN p = 1 .. m
    BY LenProperties, Limits
  <2> QED
    BY <2>1
<1>4. \A i \in 1 .. m : i - 1 \in 0 .. (m - 1) /\ i - 1 \in 0 .. (MaxSentences - 1)
  BY Limits
<1>5. \A i \in 1 .. m : (p[i] = Sentence(seg, rev, i - 1)) /\ (i - 1 < n)
  BY <1>1, <1>4 DEF UpTo, Follows
<1>6. m <= n
  <2>1. CASE m = 0
    BY <2>1
  <2>2. CASE m # 0
    <3>1. m \in 1 .. m
      BY <2>2
    <3>2. m - 1 < n
      BY <1>5, <3>1
    <3> QED
      BY <3>2
  <2> QED
    BY <2>1, <2>2
<1> HIDE DEF p
<1> QED
  BY <1>2, <1>3, <1>5, <1>6

-----------------------------------------------------------------------------
(* States and tasks *)

LEMMA StateTypes == NewState \in KeyStates /\ DeadState \in KeyStates
<1>1. NewState \in KeyStates
  BY NothingIsText DEF NewState, KeyStates
<1> QED
  BY <1>1 DEF DeadState, KeyStates

LEMMA DroppedKeeps ==
    ASSUME Types, NEW id \in 0 .. Len(states)
    PROVE  /\ Dropped(id) \in Seq(KeyStates) /\ Len(Dropped(id)) = Len(states)
           /\ \A k \in 1 .. Len(states) : k # id => Dropped(id)[k] = states[k]
<1>0. states \in Seq(KeyStates)
  BY DEF Types
<1>1. CASE id = 0
  BY <1>0, <1>1 DEF Dropped
<1>2. CASE id # 0
  <2>1. id \in 1 .. Len(states)
    BY <1>0, <1>2
  <2> QED
    BY <1>0, <1>2, <2>1, StateTypes, ExceptSeq DEF Dropped
<1> QED
  BY <1>1, <1>2

\* What the steps of the tasks do to a final that goes on, and to a state that is still used.
JobGoesOn(j) ==
    /\ jobs'[j].text = jobs[j].text /\ jobs'[j].frozen = jobs[j].frozen
    /\ jobs'[j].way \in {jobs[j].way, "whole"}
    /\ jobs'[j].at = "gather" => (jobs[j].at = "gather") /\ (jobs'[j].way = "rest")
    /\ jobs'[j].way = "rest" /\ jobs'[j].at # "gather" =>
           \/ jobs[j].at # "gather"
           \/ /\ FrozenComplete(states[j.st], jobs[j].frozen)
              /\ \A k \in DOMAIN jobs : IsFinal(k) \/ k.st # j.st
    /\ finals'[j.seg].at # "none"
    /\ finals'[j.seg].text = finals[j.seg].text /\ finals'[j.seg].voided = finals[j.seg].voided

StateGoesOn(id) ==
    /\ states'[id].submitted = states[id].submitted /\ states'[id].version = states[id].version
    /\ states'[id].voided = states[id].voided
    /\ \A i \in 0 .. (MaxSentences - 1) :
           \/ states'[id].frozen[i] = states[id].frozen[i]
           \/ \E k \in DOMAIN jobs : /\ ~IsFinal(k) /\ k.st = id /\ k.idx = i
                                     /\ states'[id].frozen[i] = Sentence(k.seg, k.rev, i)

SlotGoesOn ==
    /\ TailsOf(slot') \subseteq TailsOf(slot) \cup {NoItem}
    /\ slot'.pending \in {NoItem, slot.pending}
    /\ slot'.runner \in {"sem", "call"} => slot'.item.st # 0

LEMMA MatchesGoesOn ==
    ASSUME Types, NEW id, StateGoesOn(id), DOMAIN jobs' \subseteq DOMAIN jobs,
           NEW seg, NEW rev, NEW n, Matches(id, seg, rev, n)
    PROVE  Matches(id, seg, rev, n)'
BY DEF Matches, StateGoesOn

LEMMA CompleteGoesOn ==
    ASSUME Types, NEW id, StateGoesOn(id), NEW n \in 0 .. MaxSentences, FrozenComplete(states[id], n)
    PROVE  FrozenComplete(states'[id], n)
<1>1. SUFFICES ASSUME NEW i \in 0 .. (n - 1) PROVE states'[id].frozen[i] # NoSentence
  BY DEF FrozenComplete
<1>2. i \in 0 .. (MaxSentences - 1)
  BY Limits
<1>3. states[id].frozen[i] # NoSentence
  BY DEF FrozenComplete
<1>4. ASSUME NEW k \in DOMAIN jobs PROVE Sentence(k.seg, k.rev, i) # NoSentence
  <2>1. k \in Names
    BY DEF Types
  <2>2. k.seg # 0
    BY <2>1, Limits DEF Names
  <2> QED
    BY <2>2 DEF Sentence, NoSentence
<1> QED
  BY <1>2, <1>3, <1>4 DEF StateGoesOn

LEMMA Continues ==
    ASSUME TextInv, Types', SegmentInv', said'.seg >= said.seg,
           (current' = current /\ channel' = channel) \/ current' = 0,
           Len(states') = Len(states),
           DOMAIN jobs' \subseteq DOMAIN jobs,
           \A j \in DOMAIN jobs' : IsFinal(j) => JobGoesOn(j),
           \A id \in 1 .. Len(states) :
               (\/ id = current'
                \/ \E j \in DOMAIN jobs' : IsFinal(j) /\ j.st = id /\ jobs'[j].way = "rest")
               => StateGoesOn(id),
           SlotGoesOn
    PROVE  TextInv'
<1>0. Types /\ SegmentInv /\ IdInv /\ CurrentInv /\ FinalInv
  BY DEF TextInv
<1>1. \A j \in DOMAIN jobs : j \in Names /\ j.st \in Nat /\ j.seg \in Nat /\ jobs[j] \in JobStates
  BY <1>0, Limits DEF Types, Names
<1>2. current \in 0 .. Len(states) /\ Len(states) \in Nat
  BY <1>0 DEF Types
<1>3. IdInv'
  <2>1. (\A j \in DOMAIN jobs : j.st <= Len(states) /\ (IsFinal(j) \/ j.st # 0))'
    BY <1>0, <1>1 DEF IdInv, IsFinal
  <2>2. (\A j \in DOMAIN jobs : IsFinal(j) => (j.st # current) \/ (current = 0))'
    BY <1>0, <1>1 DEF IdInv, IsFinal
  <2>3. (\A j, k \in DOMAIN jobs :
           IsFinal(j) /\ IsFinal(k) /\ (j.seg = k.seg \/ (j.st = k.st /\ j.st # 0)) => j = k)'
    BY <1>0, <1>1 DEF IdInv, IsFinal
  <2>4. (\A item \in TailsOf(slot) : item.st <= Len(states))'
    <3>1. NoItem.st <= Len(states)
      BY <1>2 DEF NoItem
    <3> QED
      BY <1>0, <3>1 DEF IdInv, SlotGoesOn, TailsOf
  <2>5. (slot.pending = NoItem \/ slot.pending.st # 0)'
    BY <1>0 DEF IdInv, SlotGoesOn
  <2>6. (slot.runner \in {"sem", "call"} => slot.item.st # 0)'
    BY DEF SlotGoesOn
  <2> QED
    BY <2>1, <2>2, <2>3, <2>4, <2>5, <2>6 DEF IdInv
<1>4. CurrentInv'
  <2>1. SUFFICES ASSUME current' # 0 PROVE CurrentOK'
    BY DEF CurrentInv
  <2>2. current' = current /\ channel' = channel /\ current # 0 /\ current \in 1 .. Len(states)
    BY <1>2, <2>1
  <2>3. StateGoesOn(current)
    BY <2>2
  <2>4. (\A j \in DOMAIN jobs : ~IsFinal(j) /\ j.st = current => j.seg = channel.seg)'
    BY <1>0, <2>2 DEF CurrentInv, CurrentOK, IsFinal
  <2>5. (\A item \in TailsOf(slot) : item.st = current => (item.seg = channel.seg) /\ IsLatest(item))'
    <3>1. NoItem.st # current
      BY <2>2 DEF NoItem
    <3>2. \A item : IsLatest(item) => IsLatest(item)'
      BY <2>2, <2>3 DEF IsLatest, StateGoesOn
    <3> QED
      BY <1>0, <2>2, <3>1, <3>2 DEF CurrentInv, CurrentOK, SlotGoesOn
  <2>6. (~states[current].voided => Matches(current, channel.seg, channel.rev, channel.n))'
    <3>1. HAVE ~states'[current'].voided
    <3>2. Matches(current, channel.seg, channel.rev, channel.n)
      BY <1>0, <2>2, <2>3, <3>1 DEF CurrentInv, CurrentOK, StateGoesOn
    <3>3. Matches(current, channel.seg, channel.rev, channel.n)'
      <4>1. ASSUME NEW c, NEW s, NEW r, NEW n, c = current, s = channel.seg, r = channel.rev, n = channel.n
            PROVE  Matches(c, s, r, n)'
        BY <1>0, <2>3, <3>2, <4>1, MatchesGoesOn
      <4> QED
        BY <2>2, <4>1 DEF Matches
    <3> QED
      BY <3>3
  <2> QED
    BY <2>4, <2>5, <2>6 DEF CurrentOK
<1>5. FinalInv'
  <2>1. SUFFICES ASSUME NEW j \in DOMAIN jobs', IsFinal(j) PROVE FinalOK(j)'
    BY DEF FinalInv, IsFinal
  <2>2. j \in DOMAIN jobs /\ FinalOK(j) /\ JobGoesOn(j)
    BY <1>0, <2>1 DEF FinalInv
  <2>3. (j.seg < said.seg)'
    BY <1>0, <1>1, <2>2 DEF FinalOK, Types
  <2>4. (/\ finals[j.seg].at # "none" /\ finals[j.seg].text = jobs[j].text
         /\ jobs[j].way \in {"rest", "whole"}
         /\ jobs[j].at = "gather" => jobs[j].way = "rest")'
    BY <2>2 DEF FinalOK, JobGoesOn
  <2>5. ASSUME jobs'[j].way = "rest" PROVE Reuses(j)'
    <3>1. jobs[j].way = "rest"
      BY <2>2, <2>5 DEF JobGoesOn
    <3>2. j.st # 0 /\ j.st \in 1 .. Len(states)
      BY <1>0, <1>1, <1>2, <2>2, <3>1 DEF FinalOK, Reuses, IdInv
    <3>3. StateGoesOn(j.st)
      BY <2>1, <2>5, <3>2
    <3>4. PICK rev \in Revisions, words \in 0 .. MaxTails :
                  /\ jobs[j].text = Text(j.seg, rev, jobs[j].frozen, words)
                  /\ ~finals[j.seg].voided => Matches(j.st, j.seg, rev, jobs[j].frozen)
      BY <2>2, <3>1 DEF FinalOK, Reuses
    <3>5. (/\ jobs[j].text = Text(j.seg, rev, jobs[j].frozen, words)
           /\ ~finals[j.seg].voided => Matches(j.st, j.seg, rev, jobs[j].frozen))'
      <4>1. (jobs[j].text = Text(j.seg, rev, jobs[j].frozen, words))'
        BY <2>2, <3>4 DEF JobGoesOn
      <4>2. (~finals[j.seg].voided => Matches(j.st, j.seg, rev, jobs[j].frozen))'
        <5>1. HAVE ~finals'[j.seg].voided
        <5>2. PICK n : n = jobs[j].frozen
          OBVIOUS
        <5>3. Matches(j.st, j.seg, rev, n)
          BY <2>2, <3>4, <5>1, <5>2 DEF JobGoesOn
        <5>4. Matches(j.st, j.seg, rev, n)'
          BY <1>0, <3>3, <5>3, MatchesGoesOn
        <5>5. jobs'[j].frozen = n
          BY <2>2, <5>2 DEF JobGoesOn
        <5> QED
          BY <5>4, <5>5 DEF Matches
      <4> QED
        BY <4>1, <4>2
    <3>6. ASSUME jobs'[j].at # "gather"
          PROVE (/\ FrozenComplete(states[j.st], jobs[j].frozen)
                 /\ \A k \in DOMAIN jobs : IsFinal(k) \/ k.st # j.st)'
      <4>1. /\ FrozenComplete(states[j.st], jobs[j].frozen)
            /\ \A k \in DOMAIN jobs : IsFinal(k) \/ k.st # j.st
        BY <2>2, <2>5, <3>1, <3>6 DEF FinalOK, Reuses, JobGoesOn
      <4>2. jobs[j].frozen \in 0 .. MaxSentences
        BY <1>1, <2>2 DEF JobStates
      <4>3. FrozenComplete(states'[j.st], jobs[j].frozen)
        BY <1>0, <3>3, <4>1, <4>2, CompleteGoesOn
      <4>4. FrozenComplete(states'[j.st], jobs'[j].frozen)
        BY <2>2, <4>3 DEF JobGoesOn
      <4> QED
        BY <4>1, <4>4 DEF IsFinal
    <3> QED
      BY <3>2, <3>5, <3>6 DEF Reuses
  <2> QED
    BY <2>3, <2>4, <2>5 DEF FinalOK
<1> QED
  BY <1>3, <1>4, <1>5 DEF TextInv

LEMMA SegmentKept ==
    ASSUME Types, SegmentInv, said' = said, channel' = channel, current' = current,
           troubles' \in Nat, troubles <= troubles',
           \A s \in Segments : finals[s].at = "none" => finals'[s].at = "none"
    PROVE  SegmentInv'
<1>1. channel.seg # 0 => channel.seg \in Segments
  BY DEF Types
<1>2. said.rev \in Nat /\ troubles \in Nat
  BY Limits DEF Types
<1> QED
  BY <1>1, <1>2 DEF SegmentInv

-----------------------------------------------------------------------------
(* The steps of the tasks *)

LEMMA TaskMoves ==
    ASSUME TextInv, NEW x, NEW v \in {"sem", "call"},
           x \in DOMAIN jobs => jobs[x].at # "gather",
           jobs' = [jobs EXCEPT ![x].at = v],
           UNCHANGED <<said, channel, current, states, slot, finals, troubles>>
    PROVE  TextInv'
<1>0. Types /\ SegmentInv /\ IdInv /\ FinalInv
  BY DEF TextInv
<1>1. /\ DOMAIN jobs' = DOMAIN jobs
      /\ \A j \in DOMAIN jobs : jobs'[j] = IF j = x THEN [jobs[j] EXCEPT !.at = v] ELSE jobs[j]
  BY <1>0 DEF Types
<1>2. \A j \in DOMAIN jobs : jobs[j] \in JobStates
  BY <1>0 DEF Types
<1>3. Types'
  <2>1. \A j \in DOMAIN jobs : jobs'[j] \in JobStates
    BY <1>1, <1>2 DEF JobStates
  <2>2. jobs' \in [DOMAIN jobs' -> JobStates]
    BY <1>0, <1>1, <2>1 DEF Types
  <2> QED
    BY <1>0, <1>1, <2>2 DEF Types
<1>4. SegmentInv'
  BY <1>0, SegmentKept DEF Types
<1>5. \A j \in DOMAIN jobs' : IsFinal(j) => JobGoesOn(j)
  <2>1. SUFFICES ASSUME NEW j \in DOMAIN jobs', IsFinal(j) PROVE JobGoesOn(j)
    OBVIOUS
  <2>2. FinalOK(j) /\ jobs[j] \in JobStates
    BY <1>0, <1>1, <1>2, <2>1 DEF FinalInv
  <2> QED
    BY <1>1, <2>2 DEF FinalOK, JobGoesOn, JobStates
<1>6. \A id \in 1 .. Len(states) : StateGoesOn(id)
  BY DEF StateGoesOn
<1>7. SlotGoesOn
  BY <1>0 DEF SlotGoesOn, IdInv
<1>8. said'.seg >= said.seg
  BY <1>0 DEF Types
<1> QED
  BY <1>1, <1>3, <1>4, <1>5, <1>6, <1>7, <1>8, Continues

LEMMA AcquireStep == ASSUME TextInv, NEW l \in Locks, Acquire(l) PROVE TextInv'
<1>1. PICK x : x = Head(locks[l])
  OBVIOUS
<1>2. jobs[x].at = "lock" /\ jobs' = [jobs EXCEPT ![x].at = "sem"]
  BY <1>1 DEF Acquire
<1> QED
  BY <1>2, TaskMoves DEF Acquire

LEMMA RequestStep == ASSUME TextInv, NEW j \in DOMAIN jobs, Request(j) PROVE TextInv'
BY TaskMoves DEF Request

\* A task ends, and may have written to a state.
LEMMA TaskEnds ==
    ASSUME TextInv, NEW j \in DOMAIN jobs, jobs' = Without(j),
           states' \in Seq(KeyStates), Len(states') = Len(states),
           \A id \in 1 .. Len(states) :
               (\/ id = current
                \/ \E k \in DOMAIN jobs' : IsFinal(k) /\ k.st = id /\ jobs[k].way = "rest")
               => StateGoesOn(id),
           finals' \in [Segments -> FinalStates],
           \A s \in Segments : finals'[s].at = "none" <=> finals[s].at = "none",
           \A s \in Segments : (~IsFinal(j) \/ s # j.seg) => finals'[s] = finals[s],
           slot' = slot \/ slot' = NoSlot,
           troubles' \in 0 .. MaxTroubles, troubles <= troubles',
           UNCHANGED <<said, channel, current>>
    PROVE  TextInv'
<1>0. Types /\ SegmentInv /\ IdInv /\ FinalInv
  BY DEF TextInv
<1>1. DOMAIN jobs' = DOMAIN jobs \ {j} /\ \A k \in DOMAIN jobs \ {j} : jobs'[k] = jobs[k]
  BY DEF Without
<1>2. Types'
  <2>1. jobs' \in [DOMAIN jobs' -> JobStates] /\ DOMAIN jobs' \subseteq Names
    BY <1>0, <1>1 DEF Types, Without
  <2>2. NoSlot \in [pending : TailItems, runner : {"none", "wait", "sem", "call"}, item : TailItems]
    BY NothingIsText DEF NoSlot, NoItem, TailItems
  <2>3. slot' \in [pending : TailItems, runner : {"none", "wait", "sem", "call"}, item : TailItems]
    BY <1>0, <2>2 DEF Types
  <2> QED
    BY <1>0, <2>1, <2>3 DEF Types
<1>3. SegmentInv'
  BY <1>0, Limits, SegmentKept
<1>4. \A k \in DOMAIN jobs' : IsFinal(k) => JobGoesOn(k)
  <2>1. SUFFICES ASSUME NEW k \in DOMAIN jobs', IsFinal(k) PROVE JobGoesOn(k)
    OBVIOUS
  <2>2. k \in DOMAIN jobs /\ k # j /\ FinalOK(k) /\ k.seg \in Segments
    BY <1>0, <1>1, <2>1 DEF FinalInv, Types, Names
  <2>3. ~IsFinal(j) \/ k.seg # j.seg
    BY <1>0, <2>1, <2>2 DEF IdInv
  <2>4. finals'[k.seg] = finals[k.seg] /\ jobs'[k] = jobs[k]
    BY <1>1, <2>2, <2>3
  <2> QED
    BY <2>2, <2>4 DEF JobGoesOn, FinalOK
<1>5. \A id \in 1 .. Len(states) :
               (\/ id = current'
                \/ \E k \in DOMAIN jobs' : IsFinal(k) /\ k.st = id /\ jobs'[k].way = "rest")
               => StateGoesOn(id)
  BY <1>1
<1>6. SlotGoesOn
  BY <1>0 DEF SlotGoesOn, IdInv, NoSlot, TailsOf
<1>7. said'.seg >= said.seg
  BY <1>0 DEF Types
<1> QED
  BY <1>1, <1>2, <1>3, <1>4, <1>5, <1>6, <1>7, Continues

\* A sentence is recorded in the state of its task.
LEMMA SentenceRecorded ==
    ASSUME Types, NEW j \in DOMAIN jobs, j.st \in 1 .. Len(states), NEW st,
           st = [states[j.st] EXCEPT !.frozen[j.idx] = Sentence(j.seg, j.rev, j.idx)]
    PROVE  /\ st \in KeyStates /\ [st EXCEPT !.published = TRUE] \in KeyStates
           /\ st.submitted = states[j.st].submitted /\ st.version = states[j.st].version
           /\ st.voided = states[j.st].voided /\ st.lastTail = states[j.st].lastTail
           /\ \A i \in 0 .. (MaxSentences - 1) :
                  \/ st.frozen[i] = states[j.st].frozen[i]
                  \/ (i = j.idx) /\ (st.frozen[i] = Sentence(j.seg, j.rev, i))
<1>1. states[j.st] \in KeyStates /\ j \in Names
  BY ElementOfSeq DEF Types
<1>2. PICK old \in KeyStates : old = states[j.st]
  BY <1>1
<1>3. PICK f : f = [old.frozen EXCEPT ![j.idx] = Sentence(j.seg, j.rev, j.idx)]
  OBVIOUS
<1>4. \A i \in 0 .. (MaxSentences - 1) :
          f[i] = IF i = j.idx THEN Sentence(j.seg, j.rev, j.idx) ELSE old.frozen[i]
  BY <1>2, <1>3 DEF KeyStates
<1>5. f \in [0 .. (MaxSentences - 1) -> Sentences \cup {NoSentence}]
  <2>1. ASSUME j.idx \in 0 .. (MaxSentences - 1) PROVE Sentence(j.seg, j.rev, j.idx) \in Sentences
    BY <1>1, <2>1, SentenceType DEF Names
  <2> QED
    BY <1>2, <1>3, <2>1 DEF KeyStates
<1>6. st = [old EXCEPT !.frozen = f]
  BY <1>2, <1>3
<1>7. st \in KeyStates /\ [st EXCEPT !.published = TRUE] \in KeyStates
  BY <1>2, <1>5, <1>6 DEF KeyStates
<1>8. st.frozen = f /\ st.submitted = old.submitted /\ st.version = old.version
      /\ st.voided = old.voided /\ st.lastTail = old.lastTail
  BY <1>2, <1>6 DEF KeyStates
<1> QED
  BY <1>2, <1>4, <1>7, <1>8

LEMMA FreezeDoneStep ==
    ASSUME TextInv, NEW j \in DOMAIN jobs, FreezeDone(j) PROVE TextInv'
<1>0. Types /\ IdInv /\ ~IsFinal(j)
  BY DEF TextInv, FreezeDone
<1>1. j.st \in 1 .. Len(states) /\ states \in Seq(KeyStates) /\ Len(states) \in Nat
  BY <1>0 DEF IdInv, Types, Names
<1>2. PICK st : st = [states[j.st] EXCEPT !.frozen[j.idx] = Sentence(j.seg, j.rev, j.idx)]
  OBVIOUS
<1>3. states' \in {states, [states EXCEPT ![j.st] = st],
                  [states EXCEPT ![j.st] = [st EXCEPT !.published = TRUE]]}
  BY <1>2 DEF FreezeDone, Recorded
<1>4. ASSUME NEW new \in KeyStates, states' = [states EXCEPT ![j.st] = new],
             new.frozen = st.frozen, new.submitted = st.submitted, new.version = st.version,
             new.voided = st.voided
      PROVE  states' \in Seq(KeyStates) /\ Len(states') = Len(states)
             /\ \A id \in 1 .. Len(states) : StateGoesOn(id)
  <2>1. states' \in Seq(KeyStates) /\ Len(states') = Len(states)
        /\ \A id \in 1 .. Len(states) : states'[id] = IF id = j.st THEN new ELSE states[id]
    BY <1>1, <1>4, ExceptSeq
  <2>2. StateGoesOn(j.st)
    <3>1. states'[j.st] = new
      BY <1>1, <2>1
    <3>2. /\ st.submitted = states[j.st].submitted /\ st.version = states[j.st].version
          /\ st.voided = states[j.st].voided
          /\ \A i \in 0 .. (MaxSentences - 1) :
                  \/ st.frozen[i] = states[j.st].frozen[i]
                  \/ (i = j.idx) /\ (st.frozen[i] = Sentence(j.seg, j.rev, i))
      BY <1>0, <1>1, <1>2, SentenceRecorded
    <3> QED
      BY <1>0, <1>4, <3>1, <3>2 DEF StateGoesOn
  <2>3. \A id \in 1 .. Len(states) : id # j.st => StateGoesOn(id)
    BY <2>1 DEF StateGoesOn
  <2> QED
    BY <2>1, <2>2, <2>3
<1>5. states' \in Seq(KeyStates) /\ Len(states') = Len(states)
      /\ \A id \in 1 .. Len(states) : StateGoesOn(id)
  <2>1. CASE states' = states
    BY <1>1, <2>1 DEF StateGoesOn
  <2>2. st \in KeyStates /\ [st EXCEPT !.published = TRUE] \in KeyStates
    BY <1>0, <1>1, <1>2, SentenceRecorded
  <2>3. CASE states' = [states EXCEPT ![j.st] = st]
    BY <1>4, <2>2, <2>3
  <2>4. CASE states' = [states EXCEPT ![j.st] = [st EXCEPT !.published = TRUE]]
    <3>1. PICK new \in KeyStates : new = [st EXCEPT !.published = TRUE]
      BY <2>2
    <3>2. new.frozen = st.frozen /\ new.submitted = st.submitted /\ new.version = st.version
          /\ new.voided = st.voided
      BY <2>2, <3>1 DEF KeyStates
    <3> QED
      BY <1>4, <2>4, <3>1, <3>2
  <2> QED
    BY <1>3, <2>1, <2>3, <2>4
<1>6. finals' \in [Segments -> FinalStates] /\ troubles' \in 0 .. MaxTroubles /\ troubles <= troubles'
  BY <1>0, Limits DEF FreezeDone, Types
<1> QED
  BY <1>5, <1>6, TaskEnds DEF FreezeDone

LEMMA FreezeFailsStep ==
    ASSUME TextInv, NEW j \in DOMAIN jobs, FreezeFails(j) PROVE TextInv'
<1>0. Types
  BY DEF TextInv
<1>1. \A id \in 1 .. Len(states) : StateGoesOn(id)
  BY DEF FreezeFails, StateGoesOn
<1>2. finals' \in [Segments -> FinalStates] /\ troubles' \in 0 .. MaxTroubles /\ troubles <= troubles'
  BY <1>0, Limits DEF FreezeFails, NextTrouble, Types
<1>3. states' \in Seq(KeyStates) /\ Len(states') = Len(states)
  BY <1>0 DEF FreezeFails, Types
<1> QED
  BY <1>1, <1>2, <1>3, TaskEnds DEF FreezeFails

LEMMA FinalFailsStep ==
    ASSUME TextInv, NEW j \in DOMAIN jobs, FinalFails(j) PROVE TextInv'
<1>0. Types /\ FinalInv /\ IsFinal(j) /\ j.seg \in Segments
  BY DEF TextInv, FinalFails, Types, Names
<1>1. \A id \in 1 .. Len(states) : StateGoesOn(id)
  BY DEF FinalFails, StateGoesOn
<1>2. troubles' \in 0 .. MaxTroubles /\ troubles <= troubles'
  <2>1. NextTrouble /\ troubles \in 0 .. MaxTroubles
    BY <1>0 DEF FinalFails, Types
  <2> QED
    BY <2>1, Limits DEF NextTrouble
<1>3. states' \in Seq(KeyStates) /\ Len(states') = Len(states)
  BY <1>0 DEF FinalFails, Types
<1>4. finals[j.seg].at # "none"
  BY <1>0 DEF FinalInv, FinalOK
<1>5. PICK f \in FinalStates : f.at = "lost" /\ finals' = [finals EXCEPT ![j.seg] = f]
  <2>1. finals[j.seg] \in FinalStates
    BY <1>0 DEF Types
  <2>2. [finals[j.seg] EXCEPT !.at = "lost", !.text = Nothing.text] \in FinalStates
    BY <2>1, NothingIsText DEF FinalStates
  <2>3. finals' = [finals EXCEPT ![j.seg] = [finals[j.seg] EXCEPT !.at = "lost", !.text = Nothing.text]]
    BY <1>0 DEF FinalFails, Types
  <2>4. [finals[j.seg] EXCEPT !.at = "lost", !.text = Nothing.text].at = "lost"
    BY <2>1 DEF FinalStates
  <2> QED
    BY <2>2, <2>3, <2>4
<1>6. finals' \in [Segments -> FinalStates]
      /\ \A s \in Segments : finals'[s] = IF s = j.seg THEN f ELSE finals[s]
  BY <1>0, <1>5 DEF Types
<1> QED
  BY <1>0, <1>1, <1>2, <1>3, <1>4, <1>5, <1>6, TaskEnds DEF FinalFails

LEMMA FinalPublishedStep ==
    ASSUME TextInv, NEW j \in DOMAIN jobs, FinalPublished(j) PROVE TextInv'
<1>0. Types /\ IdInv /\ FinalInv /\ IsFinal(j) /\ j \in Names /\ j.seg \in Segments
  BY DEF TextInv, FinalPublished, Types, Names
<1>1. j.st \in 0 .. Len(states) /\ Len(states) \in Nat
  BY <1>0 DEF IdInv, Types, Names
<1>2. states' \in Seq(KeyStates) /\ Len(states') = Len(states)
      /\ \A id \in 1 .. Len(states) : id # j.st => states'[id] = states[id]
  BY <1>0, <1>1, DroppedKeeps DEF FinalPublished
<1>3. ASSUME NEW id \in 1 .. Len(states),
             \/ id = current
             \/ \E k \in DOMAIN jobs' : IsFinal(k) /\ k.st = id /\ jobs[k].way = "rest"
      PROVE  StateGoesOn(id)
  <2>1. DOMAIN jobs' = DOMAIN jobs \ {j}
    BY DEF FinalPublished, Without
  <2>2. id # j.st
    BY <1>0, <1>3, <2>1 DEF IdInv
  <2> QED
    BY <1>2, <2>2 DEF StateGoesOn
<1>4. finals' \in [Segments -> FinalStates]
      /\ \A s \in Segments : finals'[s].at = finals[s].at /\ (s # j.seg => finals'[s] = finals[s])
  <2>1. finals[j.seg] \in FinalStates
    BY <1>0 DEF Types
  <2>2. PICK f : f = [finals[j.seg] EXCEPT !.text = Nothing.text]
    OBVIOUS
  <2>3. f \in FinalStates /\ f.at = finals[j.seg].at
    BY <2>1, <2>2, NothingIsText DEF FinalStates
  <2>4. finals' = [finals EXCEPT ![j.seg] = f]
    BY <1>0, <2>2 DEF FinalPublished, Types
  <2> QED
    BY <1>0, <2>3, <2>4 DEF Types
<1>5. troubles' \in 0 .. MaxTroubles /\ troubles <= troubles'
  BY <1>0, Limits DEF FinalPublished, Types
<1> QED
  BY <1>0, <1>2, <1>3, <1>4, <1>5, TaskEnds DEF FinalPublished

\* The steps of the runner: it may have written to a state.
LEMMA RunnerSteps ==
    ASSUME TextInv,
           states' \in Seq(KeyStates), Len(states') = Len(states),
           \A id \in 1 .. Len(states) : StateGoesOn(id),
           slot' \in [pending : TailItems, runner : {"none", "wait", "sem", "call"}, item : TailItems],
           SlotGoesOn,
           troubles' \in 0 .. MaxTroubles, troubles <= troubles',
           UNCHANGED <<said, channel, current, jobs, finals>>
    PROVE  TextInv'
<1>0. Types /\ SegmentInv /\ FinalInv
  BY DEF TextInv
<1>1. Types'
  BY <1>0 DEF Types
<1>2. SegmentInv'
  BY <1>0, Limits, SegmentKept
<1>3. \A k \in DOMAIN jobs' : IsFinal(k) => JobGoesOn(k)
  BY <1>0 DEF FinalInv, FinalOK, JobGoesOn
<1>4. said'.seg >= said.seg
  BY <1>0 DEF Types
<1> QED
  BY <1>1, <1>2, <1>3, <1>4, Continues

LEMMA NoItemType ==
    /\ NoItem \in TailItems /\ NoItem.st = 0
    /\ NoSlot \in [pending : TailItems, runner : {"none", "wait", "sem", "call"}, item : TailItems]
BY NothingIsText DEF NoSlot, NoItem, TailItems

LEMMA NextTailGoesOn ==
    ASSUME Types, IdInv, slot' = NextTail
    PROVE  /\ slot' \in [pending : TailItems, runner : {"none", "wait", "sem", "call"}, item : TailItems]
           /\ SlotGoesOn
<1>1. slot' = [pending |-> slot.pending, runner |-> IF slot.pending = NoItem THEN "none" ELSE "wait",
               item |-> NoItem]
  BY DEF NextTail, Types
<1>2. slot'.runner \in {"none", "wait"} /\ slot'.pending = slot.pending /\ slot'.item = NoItem
  BY <1>1
<1> QED
  BY <1>1, <1>2, NoItemType DEF SlotGoesOn, TailsOf, Types

LEMMA TailTakeStep == ASSUME TextInv, TailTake PROVE TextInv'
<1>0. Types /\ IdInv
  BY DEF TextInv
<1>1. slot'\in [pending : TailItems, runner : {"none", "wait", "sem", "call"}, item : TailItems] /\ SlotGoesOn
  <2>1. CASE slot.pending = NoItem
    BY <2>1, NoItemType DEF TailTake, SlotGoesOn, NoSlot, TailsOf
  <2>2. CASE slot.pending # NoItem
    <3>1. slot' = [pending |-> NoItem, runner |-> "sem", item |-> slot.pending]
      BY <2>2 DEF TailTake
    <3>2. slot'.pending = NoItem /\ slot'.item = slot.pending /\ slot.pending.st # 0
      BY <1>0, <2>2, <3>1 DEF IdInv
    <3> QED
      BY <1>0, <3>1, <3>2, NoItemType DEF SlotGoesOn, TailsOf, Types
  <2> QED
    BY <2>1, <2>2
<1>2. \A id \in 1 .. Len(states) : StateGoesOn(id)
  BY DEF TailTake, StateGoesOn
<1>3. troubles' \in 0 .. MaxTroubles /\ troubles <= troubles' /\ states' \in Seq(KeyStates)
  BY <1>0, Limits DEF TailTake, Types
<1> QED
  BY <1>1, <1>2, <1>3, RunnerSteps DEF TailTake

LEMMA TailRequestStep == ASSUME TextInv, TailRequest PROVE TextInv'
<1>0. Types /\ IdInv
  BY DEF TextInv
<1>1. slot' = [pending |-> slot.pending, runner |-> "call", item |-> slot.item] /\ slot.runner = "sem"
  BY <1>0 DEF TailRequest, Types
<1>2. slot'.pending = slot.pending /\ slot'.item = slot.item
  BY <1>1
<1>3. slot'\in [pending : TailItems, runner : {"none", "wait", "sem", "call"}, item : TailItems] /\ SlotGoesOn
  BY <1>0, <1>1, <1>2 DEF SlotGoesOn, TailsOf, Types, IdInv
<1>4. \A id \in 1 .. Len(states) : StateGoesOn(id)
  BY DEF TailRequest, StateGoesOn
<1>5. troubles' \in 0 .. MaxTroubles /\ troubles <= troubles' /\ states' \in Seq(KeyStates)
  BY <1>0, Limits DEF TailRequest, Types
<1> QED
  BY <1>3, <1>4, <1>5, RunnerSteps DEF TailRequest

LEMMA TailFailsStep == ASSUME TextInv, TailFails PROVE TextInv'
<1>0. Types /\ IdInv
  BY DEF TextInv
<1>1. slot'\in [pending : TailItems, runner : {"none", "wait", "sem", "call"}, item : TailItems] /\ SlotGoesOn
  BY <1>0, NextTailGoesOn DEF TailFails
<1>2. \A id \in 1 .. Len(states) : StateGoesOn(id)
  BY DEF TailFails, StateGoesOn
<1>3. troubles' \in 0 .. MaxTroubles /\ troubles <= troubles' /\ states' \in Seq(KeyStates)
  <2>1. NextTrouble /\ troubles \in 0 .. MaxTroubles /\ states' = states
    BY <1>0 DEF TailFails, Types
  <2> QED
    BY <1>0, <2>1, Limits DEF NextTrouble, Types
<1> QED
  BY <1>1, <1>2, <1>3, RunnerSteps DEF TailFails

\* A tail is recorded in the state that its callback holds.
LEMMA TailRecorded ==
    ASSUME Types, IdInv, slot.runner = "call", NEW st,
           st = [states[slot.item.st] EXCEPT !.lastTail = slot.item.tail]
    PROVE  LET id == slot.item.st IN
           /\ id \in 1 .. Len(states)
           /\ st \in KeyStates /\ [st EXCEPT !.published = TRUE] \in KeyStates
           /\ st.submitted = states[id].submitted /\ st.version = states[id].version
           /\ st.voided = states[id].voided /\ st.frozen = states[id].frozen
<1>1. PICK item \in TailItems : item = slot.item
  BY DEF Types
<1>2. item.st \in 1 .. Len(states) /\ states \in Seq(KeyStates)
  <2>1. item.st \in Nat /\ item.st # 0 /\ item.st <= Len(states) /\ Len(states) \in Nat
    BY <1>1 DEF Types, TailItems, IdInv, TailsOf
  <2> QED
    BY <2>1 DEF Types
<1>3. PICK old \in KeyStates : old = states[item.st]
  BY <1>2, ElementOfSeq
<1>4. st = [old EXCEPT !.lastTail = item.tail] /\ item.tail \in Tails
  BY <1>1, <1>3 DEF TailItems
<1>5. st \in KeyStates /\ [st EXCEPT !.published = TRUE] \in KeyStates
  BY <1>3, <1>4 DEF KeyStates
<1>6. st.submitted = old.submitted /\ st.version = old.version /\ st.voided = old.voided
      /\ st.frozen = old.frozen
  BY <1>3, <1>4 DEF KeyStates
<1> QED
  BY <1>1, <1>2, <1>3, <1>5, <1>6

LEMMA TailDoneStep == ASSUME TextInv, TailDone PROVE TextInv'
<1>0. Types /\ IdInv /\ slot.runner = "call" /\ slot' = NextTail
  BY DEF TextInv, TailDone
<1>1. PICK id : id = slot.item.st
  OBVIOUS
<1>2. PICK st : st = [states[id] EXCEPT !.lastTail = slot.item.tail]
  OBVIOUS
<1>3. states' \in {states, [states EXCEPT ![id] = st],
                  [states EXCEPT ![id] = [st EXCEPT !.published = TRUE]]}
  BY <1>1, <1>2 DEF TailDone, Recorded
<1>4. /\ id \in 1 .. Len(states)
      /\ st \in KeyStates /\ [st EXCEPT !.published = TRUE] \in KeyStates
      /\ st.submitted = states[id].submitted /\ st.version = states[id].version
      /\ st.voided = states[id].voided /\ st.frozen = states[id].frozen
  BY <1>0, <1>1, <1>2, TailRecorded
<1>5. ASSUME NEW new \in KeyStates, states' = [states EXCEPT ![id] = new],
             new.frozen = st.frozen, new.submitted = st.submitted, new.version = st.version,
             new.voided = st.voided
      PROVE  states' \in Seq(KeyStates) /\ Len(states') = Len(states)
             /\ \A k \in 1 .. Len(states) : StateGoesOn(k)
  <2>1. states' \in Seq(KeyStates) /\ Len(states') = Len(states)
        /\ \A k \in 1 .. Len(states) : states'[k] = IF k = id THEN new ELSE states[k]
    BY <1>0, <1>4, <1>5, ExceptSeq DEF Types
  <2> QED
    BY <1>4, <1>5, <2>1 DEF StateGoesOn
<1>6. states' \in Seq(KeyStates) /\ Len(states') = Len(states)
      /\ \A k \in 1 .. Len(states) : StateGoesOn(k)
  <2>1. CASE states' = states
    BY <1>0, <2>1 DEF StateGoesOn, Types
  <2>2. CASE states' = [states EXCEPT ![id] = st]
    BY <1>4, <1>5, <2>2
  <2>3. CASE states' = [states EXCEPT ![id] = [st EXCEPT !.published = TRUE]]
    <3>1. PICK new \in KeyStates : new = [st EXCEPT !.published = TRUE]
      BY <1>4
    <3>2. new.frozen = st.frozen /\ new.submitted = st.submitted /\ new.version = st.version
          /\ new.voided = st.voided
      BY <1>4, <3>1 DEF KeyStates
    <3> QED
      BY <1>5, <2>3, <3>1, <3>2
  <2> QED
    BY <1>3, <2>1, <2>2, <2>3
<1>7. slot'\in [pending : TailItems, runner : {"none", "wait", "sem", "call"}, item : TailItems] /\ SlotGoesOn
  BY <1>0, NextTailGoesOn
<1>8. troubles' \in 0 .. MaxTroubles /\ troubles <= troubles'
  BY <1>0, Limits DEF TailDone, Types
<1> QED
  BY <1>6, <1>7, <1>8, RunnerSteps DEF TailDone

\* A final that has gathered the freezes, or has its answer, goes on.
LEMMA FinalMoves ==
    ASSUME TextInv, NEW j \in DOMAIN jobs, IsFinal(j),
           NEW v \in {"lock", "sem", "publish"}, NEW w \in {jobs[j].way, "whole"},
           jobs' = [jobs EXCEPT ![j].at = v, ![j].way = w],
           w = "rest" /\ jobs[j].at = "gather" =>
               /\ FrozenComplete(states[j.st], jobs[j].frozen)
               /\ \A k \in DOMAIN jobs : IsFinal(k) \/ k.st # j.st,
           finals' = finals \/ finals' = [finals EXCEPT ![j.seg].at = "published"],
           UNCHANGED <<said, channel, current, states, slot, troubles>>
    PROVE  TextInv'
<1>0. Types /\ SegmentInv /\ IdInv /\ FinalInv
  BY DEF TextInv
<1>1. \A k \in DOMAIN jobs : jobs[k] \in JobStates /\ k.seg \in Segments
  BY <1>0 DEF Types, Names
<1>2. /\ DOMAIN jobs' = DOMAIN jobs
      /\ \A k \in DOMAIN jobs : k # j => jobs'[k] = jobs[k]
      /\ jobs'[j] = [jobs[j] EXCEPT !.at = v, !.way = w]
  BY <1>0 DEF Types
<1>3. /\ jobs'[j].at = v /\ jobs'[j].way = w /\ jobs'[j].text = jobs[j].text
      /\ jobs'[j].frozen = jobs[j].frozen /\ jobs'[j] \in JobStates
  BY <1>1, <1>2 DEF JobStates
<1>4. /\ finals' \in [Segments -> FinalStates]
      /\ \A s \in Segments : /\ finals'[s].text = finals[s].text
                             /\ finals'[s].voided = finals[s].voided
                             /\ finals'[s].at = "none" => finals[s].at = "none"
                             /\ s # j.seg => finals'[s] = finals[s]
      /\ finals'[j.seg].at # "none"
  <2>1. finals[j.seg] \in FinalStates /\ finals[j.seg].at # "none"
    BY <1>0, <1>1 DEF Types, FinalInv, FinalOK
  <2>2. CASE finals' = finals
    BY <1>0, <2>1, <2>2 DEF Types
  <2>3. CASE finals' = [finals EXCEPT ![j.seg].at = "published"]
    <3>1. PICK f : f = [finals[j.seg] EXCEPT !.at = "published"]
      OBVIOUS
    <3>2. f \in FinalStates /\ f.at = "published" /\ f.text = finals[j.seg].text
          /\ f.voided = finals[j.seg].voided
      BY <2>1, <3>1 DEF FinalStates
    <3>3. finals' = [finals EXCEPT ![j.seg] = f]
      BY <1>0, <1>1, <2>3, <3>1 DEF Types
    <3>4. \A s \in Segments : finals'[s] = IF s = j.seg THEN f ELSE finals[s]
      BY <1>0, <3>3 DEF Types
    <3> QED
      BY <1>0, <1>1, <3>2, <3>3, <3>4 DEF Types
  <2> QED
    BY <2>2, <2>3
<1>5. Types'
  <2>1. \A k \in DOMAIN jobs : jobs'[k] \in JobStates
    BY <1>1, <1>2, <1>3
  <2>2. jobs' \in [DOMAIN jobs' -> JobStates]
    BY <1>0, <1>2, <2>1 DEF Types
  <2> QED
    BY <1>0, <1>2, <1>4, <2>2 DEF Types
<1>6. SegmentInv'
  <2>1. \A s \in Segments : finals[s].at = "none" => finals'[s].at = "none"
    BY <1>0, <1>4 DEF FinalInv, FinalOK
  <2> QED
    BY <1>0, <2>1, Limits, SegmentKept DEF Types
<1>7. \A k \in DOMAIN jobs' : IsFinal(k) => JobGoesOn(k)
  <2>1. JobGoesOn(j)
    BY <1>1, <1>3, <1>4 DEF JobGoesOn
  <2>2. ASSUME NEW k \in DOMAIN jobs, IsFinal(k), k # j PROVE JobGoesOn(k)
    <3>1. k.seg # j.seg
      BY <1>0, <2>2 DEF IdInv
    <3>2. finals'[k.seg] = finals[k.seg] /\ jobs'[k] = jobs[k] /\ FinalOK(k)
      BY <1>0, <1>1, <1>2, <1>4, <2>2, <3>1 DEF FinalInv
    <3> QED
      BY <3>2 DEF JobGoesOn, FinalOK
  <2> QED
    BY <1>2, <2>1, <2>2
<1>8. \A id \in 1 .. Len(states) : StateGoesOn(id)
  BY DEF StateGoesOn
<1>9. SlotGoesOn
  BY <1>0 DEF SlotGoesOn, IdInv
<1>10. said'.seg >= said.seg
  BY <1>0 DEF Types
<1> QED
  BY <1>2, <1>5, <1>6, <1>7, <1>8, <1>9, <1>10, Continues

LEMMA FinalizeStep == ASSUME TextInv, NEW j \in DOMAIN jobs, Finalize(j) PROVE TextInv'
<1>1. /\ IsFinal(j) /\ jobs[j].at = "gather" /\ \A k \in DOMAIN jobs : IsFinal(k) \/ k.st # j.st
      /\ jobs[j].way = "rest" /\ jobs[j] \in JobStates /\ jobs \in [DOMAIN jobs -> JobStates]
  BY DEF TextInv, Types, FinalInv, FinalOK, Finalize, Gathered
<1>2. CASE FrozenComplete(states[j.st], jobs[j].frozen)
           /\ jobs[j].text.tail \in {NoTail, states[j.st].lastTail}
  <2>1. jobs' = [jobs EXCEPT ![j].at = "publish"]
        /\ finals' = [finals EXCEPT ![j.seg].at = "published"]
    BY <1>2 DEF Finalize, PublishFinal
  <2>2. jobs' = [jobs EXCEPT ![j].at = "publish", ![j].way = jobs[j].way]
    BY <1>1, <2>1 DEF JobStates
  <2> QED
    BY <1>1, <1>2, <2>1, <2>2, FinalMoves DEF Finalize
<1>3. CASE ~(FrozenComplete(states[j.st], jobs[j].frozen)
           /\ jobs[j].text.tail \in {NoTail, states[j.st].lastTail})
  <2>1. PICK v, w : /\ v = Comes(Len(locks[keyLock]))
                    /\ w = IF FrozenComplete(states[j.st], jobs[j].frozen) THEN "rest" ELSE "whole"
    OBVIOUS
  <2>2. v \in {"lock", "sem", "publish"} /\ w \in {jobs[j].way, "whole"}
    BY <1>1, <2>1 DEF Comes
  <2>3. jobs' = [jobs EXCEPT ![j].at = v, ![j].way = w] /\ finals' = finals
    BY <1>3, <2>1 DEF Finalize, Queued
  <2>4. w = "rest" => FrozenComplete(states[j.st], jobs[j].frozen)
    BY <2>1
  <2> QED
    BY <1>1, <2>2, <2>3, <2>4, FinalMoves DEF Finalize
<1> QED
  BY <1>2, <1>3

LEMMA FinalDoneStep == ASSUME TextInv, NEW j \in DOMAIN jobs, FinalDone(j) PROVE TextInv'
<1>1. /\ IsFinal(j) /\ jobs[j].at = "call" /\ jobs[j] \in JobStates
      /\ jobs' = [jobs EXCEPT ![j].at = "publish"]
      /\ finals' = [finals EXCEPT ![j.seg].at = "published"]
  BY DEF TextInv, Types, FinalDone, PublishFinal
<1>2. jobs' = [jobs EXCEPT ![j].at = "publish", ![j].way = jobs[j].way]
  BY <1>1 DEF JobStates, TextInv, Types
<1> QED
  BY <1>1, <1>2, FinalMoves DEF FinalDone

-----------------------------------------------------------------------------
(* Lost finals, idle states and the shutdown *)

LEMMA SkipFinalStep == ASSUME TextInv, SkipFinal PROVE TextInv'
<1>0. Types /\ SegmentInv /\ IdInv /\ FinalInv
  BY DEF TextInv
<1>1. said' = [seg |-> said.seg + 1, n |-> 0, rev |-> 0] /\ NextTrouble /\ said.seg \in 1 .. MaxSegments
  BY <1>0, Limits DEF SkipFinal, NextSegment, Types
<1>2. said'.seg = said.seg + 1 /\ said'.n = 0 /\ said'.rev = 0 /\ troubles' \in 0 .. MaxTroubles
  BY <1>0, <1>1, Limits DEF NextTrouble, Types
<1>3. Types'
  <2>1. said' \in [seg : 1 .. (MaxSegments + 1), n : 0 .. MaxSentences, rev : 0 .. MaxTroubles]
    BY <1>1, Limits
  <2> QED
    BY <1>0, <1>2, <2>1 DEF Types, SkipFinal
<1>4. SegmentInv'
  <2>1. channel.seg \in Nat /\ \A s \in Segments : s \in Nat
    BY <1>0, Limits DEF Types
  <2>2. UNCHANGED <<channel, current, finals>>
    BY DEF SkipFinal
  <2> QED
    BY <1>0, <1>1, <1>2, <2>1, <2>2 DEF SegmentInv
<1>5. \A k \in DOMAIN jobs' : IsFinal(k) => JobGoesOn(k)
  BY <1>0 DEF FinalInv, FinalOK, JobGoesOn, SkipFinal
<1>6. \A id \in 1 .. Len(states) : StateGoesOn(id)
  BY DEF StateGoesOn, SkipFinal
<1>7. SlotGoesOn
  BY <1>0 DEF SlotGoesOn, IdInv, SkipFinal
<1> QED
  BY <1>1, <1>2, <1>3, <1>4, <1>5, <1>6, <1>7, Continues DEF SkipFinal

LEMMA ReapStep == ASSUME TextInv, Reap PROVE TextInv'
<1>0. Types /\ SegmentInv /\ IdInv /\ FinalInv
  BY DEF TextInv
<1>1. states' \in Seq(KeyStates) /\ Len(states') = Len(states)
      /\ \A id \in 1 .. Len(states) : id # current => states'[id] = states[id]
  BY <1>0, DroppedKeeps DEF Reap, Types
<1>2. /\ current' = 0 /\ channel' = [seg |-> 0, n |-> 0, rev |-> 0] /\ channel'.seg = 0
      /\ slot' = NoSlot /\ NextTrouble
      /\ said' = said /\ jobs' = jobs /\ finals' = finals
  BY DEF Reap
<1>3. troubles' \in 0 .. MaxTroubles /\ troubles < troubles'
  BY <1>0, <1>2, Limits DEF NextTrouble, Types
<1>4. Types'
  <2>1. channel' \in [seg : Segments \cup {0}, n : 0 .. MaxSentences, rev : 0 .. MaxTroubles]
    BY <1>2, Limits
  <2>2. current' \in 0 .. Len(states')
    BY <1>0, <1>1, <1>2 DEF Types
  <2> QED
    BY <1>0, <1>1, <1>2, <1>3, <2>1, <2>2, NoItemType DEF Types
<1>5. SegmentInv'
  <2>1. said.seg \in Nat /\ said.seg >= 1 /\ said.rev \in Nat /\ troubles \in Nat
    BY <1>0, Limits DEF Types
  <2> QED
    BY <1>0, <1>2, <1>3, <2>1 DEF SegmentInv
<1>6. \A k \in DOMAIN jobs' : IsFinal(k) => JobGoesOn(k)
  BY <1>0, <1>2 DEF FinalInv, FinalOK, JobGoesOn
<1>7. ASSUME NEW id \in 1 .. Len(states),
             \/ id = current'
             \/ \E j \in DOMAIN jobs' : IsFinal(j) /\ j.st = id /\ jobs'[j].way = "rest"
      PROVE  StateGoesOn(id)
  <2>1. id # current
    BY <1>0, <1>2, <1>7 DEF IdInv
  <2> QED
    BY <1>1, <2>1 DEF StateGoesOn
<1>8. SlotGoesOn
  BY <1>2 DEF SlotGoesOn, NoSlot, TailsOf
<1>9. said'.seg >= said.seg
  BY <1>0, <1>2 DEF Types
<1> QED
  BY <1>1, <1>2, <1>4, <1>5, <1>6, <1>7, <1>8, <1>9, Continues

LEMMA StopStep == ASSUME TextInv, Stop PROVE TextInv'
<1>0. Types /\ SegmentInv
  BY DEF TextInv
<1>1. /\ current' = 0 /\ channel' = [seg |-> 0, n |-> 0, rev |-> 0] /\ channel'.seg = 0
      /\ slot' = NoSlot /\ said' = said /\ jobs' = <<>> /\ states' = <<>> /\ troubles' = troubles
  BY DEF Stop
<1>2. DOMAIN jobs' = {} /\ Len(states') = 0 /\ states' \in Seq(KeyStates)
  BY <1>1
<1>3. finals' \in [Segments -> FinalStates]
      /\ \A s \in Segments : finals[s].at = "none" => finals'[s].at = "none"
  <2>1. \A s \in Segments : finals[s] \in FinalStates
    BY <1>0 DEF Types
  <2>2. \A s \in Segments :
            finals'[s] = [finals[s] EXCEPT !.at = IF @ = "handled" THEN "lost" ELSE @,
                                           !.text = Nothing.text]
    BY DEF Stop
  <2>3. \A s \in Segments : finals'[s] \in FinalStates /\ (finals[s].at = "none" => finals'[s].at = "none")
    <3>1. SUFFICES ASSUME NEW s \in Segments
                   PROVE  finals'[s] \in FinalStates /\ (finals[s].at = "none" => finals'[s].at = "none")
      OBVIOUS
    <3>2. PICK old \in FinalStates : old = finals[s]
      BY <2>1
    <3>3. CASE old.at = "handled"
      <4>1. finals'[s] = [old EXCEPT !.at = "lost", !.text = Nothing.text]
        BY <2>2, <3>2, <3>3
      <4> QED
        BY <3>2, <3>3, <4>1, NothingIsText DEF FinalStates
    <3>4. CASE old.at # "handled"
      <4>1. finals'[s] = [old EXCEPT !.at = old.at, !.text = Nothing.text]
        BY <2>2, <3>2, <3>4
      <4> QED
        BY <3>2, <3>4, <4>1, NothingIsText DEF FinalStates
    <3> QED
      BY <3>3, <3>4
  <2> QED
    BY <2>3 DEF Stop
<1>4. Types'
  <2>1. channel' \in [seg : Segments \cup {0}, n : 0 .. MaxSentences, rev : 0 .. MaxTroubles]
    BY <1>1, Limits
  <2>2. jobs' \in [DOMAIN jobs' -> JobStates]
    BY <1>1
  <2> QED
    BY <1>0, <1>1, <1>2, <1>3, <2>1, <2>2, NoItemType DEF Types
<1>5. SegmentInv'
  <2>1. said.seg \in Nat /\ said.seg >= 1 /\ said.rev \in Nat /\ troubles \in Nat
    BY <1>0, Limits DEF Types
  <2> QED
    BY <1>0, <1>1, <1>3, <2>1 DEF SegmentInv
<1>6. IdInv'
  BY <1>1, <1>2 DEF IdInv, NoSlot, NoItem, TailsOf
<1>7. CurrentInv' /\ FinalInv'
  BY <1>1, <1>2 DEF CurrentInv, FinalInv
<1> QED
  BY <1>4, <1>5, <1>6, <1>7 DEF TextInv

-----------------------------------------------------------------------------
(* A final *)

LEMMA HandleFinalStep ==
    ASSUME TextInv, NEW rev \in Revisions, NEW words \in 0 .. MaxTails, HandleFinal(rev, words)
    PROVE  TextInv'
<1>0. Types /\ SegmentInv /\ IdInv /\ FinalInv /\ CurrentInv
  BY DEF TextInv
<1>1. PICK seg \in Segments : seg = said.seg
  BY <1>0, Limits DEF HandleFinal, Types, Segments
<1>2. PICK text \in Texts : text = Text(seg, rev, said.n, words)
  BY <1>0, <1>1, TextType DEF Types
<1>3. PICK j : j = Final(current, seg)
  OBVIOUS
<1>4. PICK match \in BOOLEAN :
          match = (current # 0 /\ channel.seg = seg /\ channel.n > 0 /\ channel.rev = rev)
  OBVIOUS
<1>5. PICK place : place = IF match THEN "gather" ELSE Comes(Len(locks[keyLock]))
  OBVIOUS
<1>6. PICK v : v = (current # 0 /\ states[current].voided)
  OBVIOUS
<1>7. /\ said' = [seg |-> seg + 1, n |-> 0, rev |-> 0]
      /\ channel' = [seg |-> 0, n |-> 0, rev |-> 0] /\ current' = 0
      /\ states' = IF match THEN [states EXCEPT ![current].finalized = TRUE] ELSE Dropped(current)
      /\ slot' = Canceled
      /\ jobs' = [k \in DOMAIN jobs \cup {j} |->
                       IF k # j THEN jobs[k]
                       ELSE [at |-> place, text |-> text, frozen |-> channel.n,
                             way |-> IF match THEN "rest" ELSE "whole"]]
      /\ finals' = [finals EXCEPT ![seg] = [at |-> "handled", text |-> text, voided |-> v]]
      /\ troubles' = troubles
  BY <1>1, <1>2, <1>3, <1>4, <1>5, <1>6 DEF HandleFinal, NextSegment
<1>8. j \in Names /\ j.st = current /\ j.seg = seg /\ IsFinal(j) /\ j \notin DOMAIN jobs
  <2>1. j.st = current /\ j.seg = seg /\ IsFinal(j)
    BY <1>3 DEF Final, IsFinal
  <2>2. j \in Names
    BY <1>0, <1>1, <1>3, Limits DEF Final, Names, Types, Revisions
  <2>3. seg \in Nat
    BY Limits
  <2> QED
    BY <1>0, <1>1, <2>1, <2>2, <2>3 DEF FinalInv, FinalOK
<1>9. /\ states' \in Seq(KeyStates) /\ Len(states') = Len(states)
      /\ \A id \in 1 .. Len(states) : id # current => states'[id] = states[id]
      /\ match => states'[current].frozen = states[current].frozen
  <2>1. CASE ~match
    BY <1>0, <1>7, <2>1, DroppedKeeps DEF Types
  <2>2. CASE match
    <3>1. current \in 1 .. Len(states) /\ states \in Seq(KeyStates)
      <4>1. current # 0
        BY <1>4, <2>2
      <4> QED
        BY <1>0, <4>1 DEF Types
    <3>2. PICK st : st = [states[current] EXCEPT !.finalized = TRUE]
      OBVIOUS
    <3>3. st \in KeyStates /\ st.frozen = states[current].frozen
      <4>1. states[current] \in KeyStates
        BY <3>1, ElementOfSeq
      <4> QED
        BY <3>2, <4>1 DEF KeyStates
    <3>4. states' = [states EXCEPT ![current] = st]
      BY <1>7, <2>2, <3>1, <3>2
    <3> QED
      BY <3>1, <3>3, <3>4, ExceptSeq
  <2> QED
    BY <2>1, <2>2
<1>10. /\ DOMAIN jobs' = DOMAIN jobs \cup {j}
       /\ \A k \in DOMAIN jobs : jobs'[k] = jobs[k]
       /\ jobs'[j] = [at |-> place, text |-> text, frozen |-> channel.n,
                      way |-> IF match THEN "rest" ELSE "whole"]
  BY <1>7, <1>8
<1>11. jobs'[j] \in JobStates
  BY <1>0, <1>5, <1>10 DEF JobStates, Types, Comes
<1>12. /\ jobs'[j].at = place /\ jobs'[j].text = text /\ jobs'[j].frozen = channel.n
       /\ jobs'[j].way = IF match THEN "rest" ELSE "whole"
  BY <1>10
<1>13. /\ finals' \in [Segments -> FinalStates]
       /\ finals'[seg].at = "handled" /\ finals'[seg].text = text /\ finals'[seg].voided = v
       /\ \A s \in Segments : s # seg => finals'[s] = finals[s]
  <2>1. v \in BOOLEAN
    <3>1. current # 0 => states[current] \in KeyStates
      BY <1>0, ElementOfSeq DEF Types
    <3> QED
      BY <1>6, <3>1 DEF KeyStates
  <2>2. [at |-> "handled", text |-> text, voided |-> v] \in FinalStates
    BY <2>1 DEF FinalStates
  <2> QED
    BY <1>0, <1>7, <2>2 DEF Types
<1>14. slot'.pending = NoItem /\ slot'.runner = slot.runner /\ slot'.item = slot.item
       /\ slot' \in [pending : TailItems, runner : {"none", "wait", "sem", "call"}, item : TailItems]
  BY <1>0, <1>7, NoItemType DEF Canceled, Types
<1>15. said'.seg = said.seg + 1 /\ said.seg \in Nat /\ said'.rev = 0 /\ channel'.seg = 0
  BY <1>1, <1>7, Limits
<1>16. Types'
  <2>1. said' \in [seg : 1 .. (MaxSegments + 1), n : 0 .. MaxSentences, rev : 0 .. MaxTroubles]
    BY <1>7, Limits DEF Segments
  <2>2. channel' \in [seg : Segments \cup {0}, n : 0 .. MaxSentences, rev : 0 .. MaxTroubles]
    BY <1>7, Limits
  <2>3. current' \in 0 .. Len(states')
    BY <1>0, <1>7, <1>9 DEF Types
  <2>4. \A k \in DOMAIN jobs' : jobs'[k] \in JobStates /\ k \in Names
    BY <1>0, <1>8, <1>10, <1>11 DEF Types
  <2>5. jobs' \in [DOMAIN jobs' -> JobStates] /\ DOMAIN jobs' \subseteq Names
    BY <1>7, <1>10, <2>4
  <2> QED
    BY <1>0, <1>7, <1>9, <1>13, <1>14, <2>1, <2>2, <2>3, <2>5 DEF Types
<1>17. SegmentInv'
  <2>1. \A s \in Segments : s >= said'.seg => s # seg /\ s >= said.seg
    BY <1>1, <1>15, Limits
  <2>2. troubles \in Nat
    BY <1>0, Limits DEF Types
  <2> QED
    BY <1>0, <1>7, <1>13, <1>15, <2>1, <2>2 DEF SegmentInv
<1>18. IdInv'
  <2>1. current <= Len(states) /\ \A k \in DOMAIN jobs : IsFinal(k) => (k.seg # seg) /\ (k.st \in Nat)
    <3>1. \A k \in DOMAIN jobs : IsFinal(k) => (k.seg # seg) /\ (k.st \in Nat)
      BY <1>0, <1>1, <1>15 DEF FinalInv, FinalOK, Types, Names
    <3> QED
      BY <1>0, <3>1 DEF Types
  <2>2. (\A k \in DOMAIN jobs : k.st <= Len(states) /\ (IsFinal(k) \/ k.st # 0))'
    BY <1>0, <1>8, <1>9, <1>10, <2>1 DEF IdInv, IsFinal
  <2>3. (\A k \in DOMAIN jobs : IsFinal(k) => (k.st # current) \/ (current = 0))'
    BY <1>7
  <2>4. (\A k, m \in DOMAIN jobs :
           IsFinal(k) /\ IsFinal(m) /\ (k.seg = m.seg \/ (k.st = m.st /\ k.st # 0)) => k = m)'
    BY <1>0, <1>8, <1>10, <2>1 DEF IdInv, IsFinal
  <2>5. (\A item \in TailsOf(slot) : item.st <= Len(states))'
    <3>1. NoItem.st <= Len(states)
      BY <1>0, NoItemType DEF Types
    <3> QED
      BY <1>0, <1>9, <1>14, <3>1 DEF IdInv, TailsOf
  <2>6. (slot.pending = NoItem \/ slot.pending.st # 0)'
        /\ (slot.runner \in {"sem", "call"} => slot.item.st # 0)'
    BY <1>0, <1>14 DEF IdInv
  <2> QED
    BY <2>2, <2>3, <2>4, <2>5, <2>6 DEF IdInv
<1>19. CurrentInv'
  BY <1>7 DEF CurrentInv
<1>20. \A k \in DOMAIN jobs : ~IsFinal(k) => k # j
  BY <1>8
<1>21. FinalOK(j)'
  <2>1. (j.seg < said.seg)'
    BY <1>1, <1>8, <1>15
  <2>2. (/\ finals[j.seg].at # "none" /\ finals[j.seg].text = jobs[j].text
         /\ jobs[j].way \in {"rest", "whole"}
         /\ jobs[j].at = "gather" => jobs[j].way = "rest")'
    BY <1>5, <1>8, <1>12, <1>13 DEF Comes
  <2>3. ASSUME match PROVE Reuses(j)'
    <3>1. current # 0 /\ channel.seg = seg /\ channel.rev = rev /\ channel.n = said.n
      BY <1>0, <1>1, <1>4, <2>3 DEF SegmentInv
    <3>2. ~v => Matches(current, seg, rev, channel.n)
      BY <1>0, <1>6, <3>1 DEF CurrentInv, CurrentOK
    <3>3. ASSUME NEW c, NEW n, c = current, n = channel.n, ~v PROVE Matches(c, seg, rev, n)'
      BY <1>9, <1>10, <1>8, <2>3, <3>2, <3>3 DEF Matches, IsFinal
    <3>4. ~v => Matches(j.st, j.seg, rev, jobs[j].frozen)'
      <4>1. PICK c, n : c = current /\ n = channel.n
        OBVIOUS
      <4>2. ~v => Matches(c, seg, rev, n)'
        BY <3>3, <4>1
      <4>3. j.st = c /\ j.seg = seg /\ jobs'[j].frozen = n
        BY <1>8, <1>12, <4>1
      <4> QED
        BY <4>2, <4>3 DEF Matches
    <3>5. (jobs[j].text = Text(j.seg, rev, jobs[j].frozen, words))'
      BY <1>2, <1>8, <1>12, <3>1
    <3>6. jobs'[j].at = "gather"
      BY <1>5, <1>12, <2>3
    <3>7. finals'[j.seg].voided = v
      BY <1>8, <1>13
    <3> QED
      BY <1>8, <3>1, <3>4, <3>5, <3>6, <3>7 DEF Reuses
  <2> QED
    BY <1>12, <2>1, <2>2, <2>3 DEF FinalOK
<1>22. ASSUME NEW k \in DOMAIN jobs, IsFinal(k) PROVE FinalOK(k)'
  <2>1. FinalOK(k) /\ k.seg \in Segments /\ k.seg # seg /\ k \in Names
    BY <1>0, <1>1, <1>15, <1>22 DEF FinalInv, FinalOK, Types, Names
  <2>2. finals'[k.seg] = finals[k.seg] /\ jobs'[k] = jobs[k]
    BY <1>10, <1>13, <2>1
  <2>3. (k.seg < said.seg)'
    BY <1>15, <2>1, Limits DEF FinalOK
  <2>4. ASSUME jobs[k].way = "rest" PROVE Reuses(k)'
    <3>1. Reuses(k) /\ k.st \in 1 .. Len(states) /\ k.st # current
      <4>1. Reuses(k)
        BY <2>1, <2>4 DEF FinalOK
      <4>2. k.st \in Nat /\ k.st # 0 /\ k.st <= Len(states) /\ k.st # current
        BY <1>0, <1>22, <2>1, <4>1 DEF Reuses, IdInv, Names
      <4> QED
        BY <1>0, <4>1, <4>2 DEF Types
    <3>2. states'[k.st] = states[k.st]
      BY <1>9, <3>1
    <3>3. \A r, n : Matches(k.st, k.seg, r, n) => Matches(k.st, k.seg, r, n)'
      BY <1>8, <1>10, <3>2 DEF Matches, IsFinal
    <3>4. PICK r \in Revisions, w \in 0 .. MaxTails :
           /\ jobs[k].text = Text(k.seg, r, jobs[k].frozen, w)
           /\ ~finals[k.seg].voided => Matches(k.st, k.seg, r, jobs[k].frozen)
      BY <3>1 DEF Reuses
    <3>5. (/\ jobs[k].text = Text(k.seg, r, jobs[k].frozen, w)
           /\ ~finals[k.seg].voided => Matches(k.st, k.seg, r, jobs[k].frozen))'
      <4>1. PICK n : n = jobs[k].frozen
        OBVIOUS
      <4>2. ~finals[k.seg].voided => Matches(k.st, k.seg, r, n)'
        BY <3>3, <3>4, <4>1
      <4>3. ~finals'[k.seg].voided => Matches(k.st, k.seg, r, jobs[k].frozen)'
        BY <2>2, <4>1, <4>2 DEF Matches
      <4> QED
        BY <2>2, <3>4, <4>3
    <3>6. (jobs[k].at # "gather" =>
           /\ FrozenComplete(states[k.st], jobs[k].frozen)
           /\ \A m \in DOMAIN jobs : IsFinal(m) \/ m.st # k.st)'
      BY <1>8, <1>10, <2>2, <3>1, <3>2 DEF Reuses, IsFinal
    <3> QED
      BY <3>1, <3>5, <3>6 DEF Reuses
  <2> QED
    BY <2>1, <2>2, <2>3, <2>4 DEF FinalOK
<1>23. FinalInv'
  <2>1. \A k \in DOMAIN jobs' : IsFinal(k) => FinalOK(k)'
    BY <1>10, <1>21, <1>22
  <2> QED
    BY <2>1 DEF FinalInv, IsFinal
<1> QED
  BY <1>16, <1>17, <1>18, <1>19, <1>23 DEF TextInv

-----------------------------------------------------------------------------
(* A partial *)

SlotTypes == [pending : TailItems, runner : {"none", "wait", "sem", "call"}, item : TailItems]

LEMMA Submitted ==
    ASSUME Types, IdInv,
           NEW old \in {NoSlot, Canceled, slot}, NEW tail \in Tails, NEW version \in Nat,
           NEW st \in Nat \ {0}, NEW seg \in Segments,
           NEW item, item = [tail |-> tail, version |-> version, st |-> st, seg |-> seg]
    PROVE  /\ \A s \in {old, Submit(old, tail, version, st, seg)} :
                  /\ s \in SlotTypes
                  /\ s.pending = NoItem \/ s.pending.st # 0
                  /\ s.runner \in {"sem", "call"} => s.item.st # 0
           /\ TailsOf(old) \subseteq TailsOf(slot) \cup {NoItem}
           /\ TailsOf(Submit(old, tail, version, st, seg)) \subseteq TailsOf(slot) \cup {NoItem, item}
<1>0. slot \in SlotTypes
  BY DEF Types, SlotTypes
<1>1. /\ old \in SlotTypes /\ old.pending \in {NoItem, slot.pending} /\ old.item \in {NoItem, slot.item}
      /\ old.runner \in {"sem", "call"} => (old.item = slot.item) /\ (old.runner = slot.runner)
  <2>1. CASE old = slot
    BY <1>0, <2>1
  <2>2. CASE old = NoSlot
    BY <2>2, NoItemType DEF NoSlot, SlotTypes
  <2>3. CASE old = Canceled
    <3>1. old = [pending |-> NoItem, runner |-> slot.runner, item |-> slot.item]
      BY <1>0, <2>3 DEF Canceled, SlotTypes
    <3> QED
      BY <1>0, <3>1, NoItemType DEF SlotTypes
  <2> QED
    BY <2>1, <2>2, <2>3
<1>2. PICK runner : runner = IF old.runner = "none" THEN "wait" ELSE old.runner
  OBVIOUS
<1>3. PICK new : new = Submit(old, tail, version, st, seg)
  OBVIOUS
<1>4. new = [pending |-> item, runner |-> runner, item |-> old.item]
  BY <1>1, <1>2, <1>3 DEF Submit, SlotTypes
<1>5. item \in TailItems /\ item.st # 0
  BY DEF TailItems
<1>6. new \in SlotTypes /\ new.pending = item /\ new.item = old.item /\ new.runner = runner
  BY <1>1, <1>2, <1>4, <1>5 DEF SlotTypes
<1>7. old.runner \in {"sem", "call"} => old.item.st # 0
  BY <1>1 DEF IdInv
<1>8. runner \in {"sem", "call"} => old.item.st # 0
  BY <1>2, <1>7
<1>9. old.pending = NoItem \/ old.pending.st # 0
  BY <1>1 DEF IdInv
<1>10. TailsOf(old) \subseteq TailsOf(slot) \cup {NoItem} /\ TailsOf(new) \subseteq TailsOf(slot) \cup {NoItem, item}
  BY <1>1, <1>6 DEF TailsOf
<1> QED
  BY <1>1, <1>3, <1>5, <1>6, <1>7, <1>8, <1>9, <1>10

\* What a partial does: to the segment that is said, in the state of the key or in a new
\* one, after a rewrite or not, with a tail that is submitted or not.
PartialSteps(n, rev, id, after, reset, sub, tail, old) ==
    /\ said' = [said EXCEPT !.n = n, !.rev = rev]
    /\ channel' = [seg |-> said.seg, n |-> n, rev |-> rev]
    /\ current' = id
    /\ states' = IF channel.seg # said.seg THEN Append(Dropped(current), after)
                 ELSE [states EXCEPT ![id] = after]
    /\ slot' = IF sub THEN Submit(old, tail, after.version, id, said.seg) ELSE old
    /\ \A k \in DOMAIN jobs' : k \in DOMAIN jobs \/
           \E i \in (IF channel.seg = said.seg /\ ~reset THEN channel.n ELSE 0) .. (n - 1) :
               k = Freeze(id, said.seg, rev, i)
    /\ \A k \in DOMAIN jobs : k \in DOMAIN jobs' /\ jobs'[k] = jobs[k]
    /\ \A k \in DOMAIN jobs' : k \notin DOMAIN jobs =>
           \E at \in {"lock", "sem"} :
               jobs'[k] = [at |-> at, text |-> Nothing.text, frozen |-> 0, way |-> "sentence"]
    /\ jobs' \in [DOMAIN jobs' -> {jobs'[k] : k \in DOMAIN jobs'}]

PartialChoices(n, rev, words, id, st, after, reset, sub, tail, old) ==
    /\ reset = (channel.seg = said.seg /\ channel.n > 0 /\ rev # channel.rev)
    /\ sub => (words > 0)
    /\ tail = Tail_(said.seg, rev, n, words)
    /\ id = IF channel.seg # said.seg THEN Len(states) + 1 ELSE current
    /\ st = IF channel.seg # said.seg THEN NewState
            ELSE IF ~reset THEN states[current]
            ELSE [states[current] EXCEPT
                     !.frozen = NewState.frozen, !.version = @ + 1,
                     !.voided = @ \/ \E j \in DOMAIN jobs : ~IsFinal(j) /\ j.st = current]
    /\ after = IF sub THEN [st EXCEPT !.submitted = tail, !.version = @ + 1] ELSE st
    /\ old \in {NoSlot, Canceled, slot}
    /\ reset \/ channel.seg # said.seg \/ old = slot

LEMMA PartialKeeps ==
    ASSUME TextInv, NEW n \in 0 .. MaxSentences, NEW rev \in 0 .. MaxTroubles,
           NEW words \in 0 .. MaxTails,
           said.seg \in Segments, rev <= troubles', troubles' \in 0 .. MaxTroubles, finals' = finals,
           (rev = said.rev) => (n >= said.n),
           NEW reset \in BOOLEAN, NEW sub \in BOOLEAN, NEW id, NEW st, NEW after, NEW tail, NEW old,
           PartialSteps(n, rev, id, after, reset, sub, tail, old),
           PartialChoices(n, rev, words, id, st, after, reset, sub, tail, old)
    PROVE  TextInv'
<1>0. Types /\ SegmentInv /\ IdInv /\ FinalInv /\ CurrentInv
  BY DEF TextInv
<1>1. PICK seg \in Segments : seg = said.seg
  OBVIOUS
<1>2. PICK new \in BOOLEAN : new = (channel.seg # seg)
  OBVIOUS
<1>3. /\ states \in Seq(KeyStates) /\ Len(states) \in Nat /\ current \in 0 .. Len(states)
      /\ channel.n \in 0 .. MaxSentences /\ seg # 0 /\ seg \in Nat
      /\ (current = 0) <=> (channel.seg = 0)
      /\ ~new => (channel.n = said.n) /\ (channel.rev = said.rev) /\ (current # 0)
      /\ ~new /\ ~reset => (channel.n = 0) \/ (rev = channel.rev)
  <2>1. /\ states \in Seq(KeyStates) /\ Len(states) \in Nat /\ current \in 0 .. Len(states)
        /\ channel.n \in 0 .. MaxSentences
    BY <1>0 DEF Types
  <2>2. seg # 0 /\ seg \in Nat
    BY Limits
  <2>3. (current = 0) <=> (channel.seg = 0)
    BY <1>0 DEF SegmentInv
  <2>4. ASSUME ~new PROVE (channel.n = said.n) /\ (channel.rev = said.rev) /\ (current # 0)
    BY <1>0, <1>1, <1>2, <2>2, <2>3, <2>4 DEF SegmentInv
  <2>5. ASSUME ~new, ~reset PROVE (channel.n = 0) \/ (rev = channel.rev)
    <3>1. channel.seg = said.seg
      BY <1>1, <1>2, <2>5
    <3>2. channel.n = 0 \/ channel.n > 0
      BY <2>1
    <3> QED
      BY <2>5, <3>1, <3>2 DEF PartialChoices
  <2> QED
    BY <2>1, <2>2, <2>3, <2>4, <2>5
<1>4. /\ ~new => (id = current) /\ (id \in 1 .. Len(states))
      /\ new => id = Len(states) + 1
      /\ id \in Nat \ {0}
  <2>1. CASE new
    <3>1. id = Len(states) + 1
      BY <1>1, <1>2, <2>1 DEF PartialChoices
    <3> QED
      BY <1>3, <2>1, <3>1
  <2>2. CASE ~new
    <3>1. id = current
      BY <1>1, <1>2, <2>2 DEF PartialChoices
    <3>2. current # 0 /\ current \in 0 .. Len(states) /\ Len(states) \in Nat
      BY <1>3, <2>2
    <3>3. id \in 1 .. Len(states) /\ id \in Nat \ {0}
      BY <3>1, <3>2
    <3> QED
      BY <2>2, <3>1, <3>3
  <2> QED
    BY <2>1, <2>2
<1>5. said' = [said EXCEPT !.n = n, !.rev = rev] /\ said'.seg = seg /\ said'.n = n /\ said'.rev = rev
      /\ said' \in [seg : 1 .. (MaxSegments + 1), n : 0 .. MaxSentences, rev : 0 .. MaxTroubles]
  <2>1. said' = [said EXCEPT !.n = n, !.rev = rev]
    BY DEF PartialSteps
  <2> QED
    BY <1>0, <1>1, <2>1 DEF Types
<1>6. channel' = [seg |-> seg, n |-> n, rev |-> rev] /\ channel'.seg = seg /\ channel'.n = n
      /\ channel'.rev = rev /\ current' = id
  BY <1>1 DEF PartialSteps
<1>7. tail \in Tails \/ ~sub
  BY <1>1, Limits DEF Tails, Tail_, PartialChoices
\* The state of the key.
<1>8. /\ st \in KeyStates
      /\ new => st = NewState
      /\ ~new => /\ st.submitted = states[current].submitted
                 /\ ~reset => st = states[current]
                 /\ reset => /\ st.frozen = NewState.frozen
                             /\ st.version = states[current].version + 1
                             /\ st.voided = (states[current].voided
                                    \/ \E j \in DOMAIN jobs : ~IsFinal(j) /\ j.st = current)
  <2>1. CASE new
    BY <1>1, <1>2, <2>1, StateTypes DEF PartialChoices
  <2>2. CASE ~new
    <3>1. PICK cur \in KeyStates : cur = states[current]
      BY <1>3, <1>4, <2>2, ElementOfSeq
    <3>2. PICK v \in BOOLEAN : v = (cur.voided \/ \E j \in DOMAIN jobs : ~IsFinal(j) /\ j.st = current)
      BY <3>1 DEF KeyStates
    <3>3. PICK f : f = NewState.frozen /\ f \in [0 .. (MaxSentences - 1) -> Sentences \cup {NoSentence}]
      BY StateTypes DEF KeyStates
    <3>4. st = IF ~reset THEN cur ELSE [cur EXCEPT !.frozen = f, !.version = @ + 1, !.voided = v]
      BY <1>1, <1>2, <2>2, <3>1, <3>2, <3>3 DEF PartialChoices
    <3>5. cur.version + 1 \in Nat
      BY <3>1 DEF KeyStates
    <3>6. CASE reset
      <4>1. st \in KeyStates /\ st.submitted = cur.submitted /\ st.frozen = f
            /\ st.version = cur.version + 1 /\ st.voided = v
        BY <3>1, <3>2, <3>3, <3>4, <3>5, <3>6 DEF KeyStates
      <4> QED
        BY <2>2, <3>1, <3>2, <3>3, <3>6, <4>1
    <3>7. CASE ~reset
      BY <2>2, <3>1, <3>4, <3>7
    <3> QED
      BY <3>6, <3>7
  <2> QED
    BY <2>1, <2>2
<1>9. /\ after \in KeyStates /\ after.frozen = st.frozen /\ after.voided = st.voided
      /\ sub => (after.submitted = tail) /\ (after.version = st.version + 1)
      /\ ~sub => after = st
  <2>1. CASE sub
    <3>1. after = [st EXCEPT !.submitted = tail, !.version = @ + 1] /\ tail \in Tails
      BY <1>7, <2>1 DEF PartialChoices
    <3>2. st.version + 1 \in Nat
      BY <1>8 DEF KeyStates
    <3>3. after \in KeyStates
      BY <1>8, <3>1, <3>2 DEF KeyStates
    <3>4. /\ after.frozen = st.frozen /\ after.voided = st.voided
          /\ after.submitted = tail /\ after.version = st.version + 1
      BY <1>8, <3>1 DEF KeyStates
    <3> QED
      BY <2>1, <3>3, <3>4
  <2>2. CASE ~sub
    BY <1>8, <2>2 DEF PartialChoices
  <2> QED
    BY <2>1, <2>2
<1>10. /\ states' \in Seq(KeyStates) /\ Len(states) <= Len(states') /\ id \in 1 .. Len(states')
       /\ states'[id] = after
       /\ \A k \in 1 .. Len(states) : k # current => states'[k] = states[k]
  <2>1. CASE new
    <3>1. states' = Append(Dropped(current), after)
      BY <1>1, <1>2, <2>1 DEF PartialSteps
    <3>2. PICK d \in Seq(KeyStates) : d = Dropped(current) /\ Len(d) = Len(states)
              /\ \A k \in 1 .. Len(states) : k # current => d[k] = states[k]
      BY <1>0, <1>3, DroppedKeeps
    <3>3. after \in KeyStates
      BY <1>9
    <3>4. /\ Append(d, after) \in Seq(KeyStates) /\ Len(Append(d, after)) = Len(d) + 1
          /\ \A i \in 1 .. Len(d) : Append(d, after)[i] = d[i]
          /\ Append(d, after)[Len(d) + 1] = after
      BY <3>3, AppendProperties
    <3>5. PICK new_ : new_ = Append(d, after)
      OBVIOUS
    <3>6. /\ new_ \in Seq(KeyStates) /\ Len(new_) = Len(states) + 1
          /\ \A i \in 1 .. Len(states) : new_[i] = d[i]
          /\ new_[Len(states) + 1] = after
      BY <3>2, <3>4, <3>5
    <3>7. states' = new_ /\ id = Len(states) + 1
      BY <1>4, <2>1, <3>1, <3>2, <3>5
    <3> QED
      BY <1>3, <3>2, <3>6, <3>7
  <2>2. CASE ~new
    <3>1. states' = [states EXCEPT ![id] = after]
      BY <1>1, <1>2, <2>2 DEF PartialSteps
    <3>2. id = current /\ id \in 1 .. Len(states)
      BY <1>4, <2>2
    <3> QED
      <4>1. PICK new_ : new_ = [states EXCEPT ![id] = after]
        OBVIOUS
      <4>2. new_ \in Seq(KeyStates) /\ Len(new_) = Len(states)
            /\ \A j \in 1 .. Len(states) : new_[j] = IF j = id THEN after ELSE states[j]
        BY <1>3, <1>9, <3>2, <4>1, ExceptSeq
      <4> QED
        BY <1>3, <3>1, <3>2, <4>1, <4>2
  <2> QED
    BY <2>1, <2>2
\* The tasks.
<1>11. ASSUME NEW k \in DOMAIN jobs', k \notin DOMAIN jobs
       PROVE  /\ k \in Names /\ ~IsFinal(k) /\ k.st = id /\ k.seg = seg /\ k.rev = rev /\ k.idx < n
              /\ jobs'[k] \in JobStates
  <2>1. PICK i \in (IF channel.seg = said.seg /\ ~reset THEN channel.n ELSE 0) .. (n - 1) :
               k = Freeze(id, said.seg, rev, i)
    BY <1>11 DEF PartialSteps
  <2>2. i \in Nat /\ i < n
    BY <1>3, <2>1
  <2>3. k \in Names /\ ~IsFinal(k) /\ k.st = id /\ k.seg = seg /\ k.rev = rev /\ k.idx = i
    BY <1>1, <1>4, <2>1, <2>2, Limits DEF Freeze, Names, IsFinal
  <2>4. jobs'[k] \in JobStates
    <3>1. PICK at \in {"lock", "sem"} :
               jobs'[k] = [at |-> at, text |-> Nothing.text, frozen |-> 0, way |-> "sentence"]
      BY <1>11 DEF PartialSteps
    <3> QED
      BY <3>1, NothingIsText, Limits DEF JobStates
  <2> QED
    BY <2>2, <2>3, <2>4
<1>12. \A k \in DOMAIN jobs : k \in DOMAIN jobs' /\ jobs'[k] = jobs[k]
  BY DEF PartialSteps
<1>13. \A k \in DOMAIN jobs' : k \in Names /\ jobs'[k] \in JobStates
  BY <1>0, <1>11, <1>12 DEF Types
<1>14. \A k \in DOMAIN jobs' : IsFinal(k) => k \in DOMAIN jobs
  BY <1>11
\* The slot of the tail.
<1>15. PICK item : item = [tail |-> tail, version |-> after.version, st |-> id, seg |-> seg]
  OBVIOUS
<1>16. /\ slot' \in SlotTypes
       /\ slot'.pending = NoItem \/ slot'.pending.st # 0
       /\ slot'.runner \in {"sem", "call"} => slot'.item.st # 0
       /\ TailsOf(slot') \subseteq TailsOf(slot) \cup {NoItem} \cup (IF sub THEN {item} ELSE {})
  <2>1. after.version \in Nat
    BY <1>9 DEF KeyStates
  <2>2. CASE sub
    <3>1. slot' = Submit(old, tail, after.version, id, seg) /\ tail \in Tails
      BY <1>1, <1>7, <2>2 DEF PartialSteps
    <3> QED
      BY <1>0, <1>4, <1>15, <2>1, <2>2, <3>1, Submitted DEF PartialChoices
  <2>3. CASE ~sub
    <3>1. slot' = old
      BY <2>3 DEF PartialSteps
    <3>2. PICK other : other = [tail |-> NoTail, version |-> after.version, st |-> id, seg |-> seg]
      OBVIOUS
    <3> QED
      BY <1>0, <1>4, <2>1, <2>3, <3>1, <3>2, NothingIsText, Submitted DEF PartialChoices
  <2> QED
    BY <2>2, <2>3
<1>17. item.st = id /\ item.seg = seg /\ item.tail = tail /\ item.version = after.version
  BY <1>15
<1>18. Types'
  <2>1. channel' \in [seg : Segments \cup {0}, n : 0 .. MaxSentences, rev : 0 .. MaxTroubles]
    BY <1>6
  <2>2. current' \in 0 .. Len(states')
    BY <1>6, <1>10
  <2>3. jobs' \in [DOMAIN jobs' -> JobStates] /\ DOMAIN jobs' \subseteq Names
    <3>1. jobs' \in [DOMAIN jobs' -> {jobs'[k] : k \in DOMAIN jobs'}]
      BY DEF PartialSteps
    <3> QED
      BY <1>13, <3>1
  <2> QED
    BY <1>0, <1>5, <1>10, <1>16, <2>1, <2>2, <2>3 DEF Types, SlotTypes
<1>19. SegmentInv'
  BY <1>0, <1>1, <1>3, <1>4, <1>5, <1>6 DEF SegmentInv
<1>20. IdInv'
  <2>1. (\A k \in DOMAIN jobs : k.st <= Len(states) /\ (IsFinal(k) \/ k.st # 0))'
    <3>1. SUFFICES ASSUME NEW k \in DOMAIN jobs'
                   PROVE  k.st <= Len(states') /\ (IsFinal(k) \/ k.st # 0)
      BY DEF IsFinal
    <3>2. Len(states') \in Nat /\ k.st \in Nat
      BY <1>10, <1>13 DEF Names
    <3>3. CASE k \in DOMAIN jobs
      BY <1>0, <1>3, <1>10, <3>2, <3>3 DEF IdInv
    <3>4. CASE k \notin DOMAIN jobs
      BY <1>4, <1>10, <1>11, <3>4
    <3> QED
      BY <3>3, <3>4
  <2>2. (\A k \in DOMAIN jobs : IsFinal(k) => (k.st # current) \/ (current = 0))'
    <3>1. SUFFICES ASSUME NEW k \in DOMAIN jobs', IsFinal(k) PROVE k.st # current'
      BY DEF IsFinal
    <3>2. k \in DOMAIN jobs /\ k.st \in Nat /\ k.st <= Len(states)
      BY <1>0, <1>13, <1>14, <3>1 DEF IdInv, Names
    <3> QED
      BY <1>0, <1>3, <1>4, <1>6, <3>1, <3>2 DEF IdInv
  <2>3. (\A k, m \in DOMAIN jobs :
           IsFinal(k) /\ IsFinal(m) /\ (k.seg = m.seg \/ (k.st = m.st /\ k.st # 0)) => k = m)'
    BY <1>0, <1>14 DEF IdInv, IsFinal
  <2>4. (\A i \in TailsOf(slot) : i.st <= Len(states))'
    <3>1. SUFFICES ASSUME NEW i \in TailsOf(slot') PROVE i.st <= Len(states')
      OBVIOUS
    <3>2. Len(states') \in Nat
      BY <1>10
    <3>3. CASE i \in TailsOf(slot)
      <4>1. i.st <= Len(states) /\ i.st \in Nat
        BY <1>0, <3>3 DEF IdInv, TailsOf, Types, TailItems
      <4> QED
        BY <1>3, <1>10, <3>2, <4>1
    <3>4. CASE i \in {NoItem, item}
      BY <1>10, <1>17, <3>2, <3>4, NoItemType
    <3> QED
      BY <1>16, <3>3, <3>4
  <2> QED
    BY <1>16, <2>1, <2>2, <2>3, <2>4 DEF IdInv
\* What is under way for the state.
<1>21. CurrentOK'
  <2>1. (\A k \in DOMAIN jobs : ~IsFinal(k) /\ k.st = current => k.seg = channel.seg)'
    <3>1. SUFFICES ASSUME NEW k \in DOMAIN jobs', ~IsFinal(k), k.st = id PROVE k.seg = seg
      BY <1>6 DEF IsFinal
    <3>2. CASE k \notin DOMAIN jobs
      BY <1>11, <3>2
    <3>3. CASE k \in DOMAIN jobs
      <4>1. k.st <= Len(states)
        BY <1>0, <3>3 DEF IdInv
      <4>2. ~new
        BY <1>3, <1>4, <3>1, <4>1
      <4> QED
        BY <1>0, <1>2, <1>3, <1>4, <3>1, <3>3, <4>2 DEF CurrentInv, CurrentOK
    <3> QED
      BY <3>2, <3>3
  <2>2. (\A i \in TailsOf(slot) : i.st = current => (i.seg = channel.seg) /\ IsLatest(i))'
    <3>1. SUFFICES ASSUME NEW i \in TailsOf(slot'), i.st = id PROVE (i.seg = seg) /\ IsLatest(i)'
      BY <1>6
    <3>2. CASE sub /\ i = item
      <4>1. after.version \in Nat /\ tail.after = n /\ tail.rev = rev
        BY <1>9 DEF KeyStates, Tail_, PartialChoices
      <4>2. IsLatest(i)'
        BY <1>6, <1>9, <1>10, <1>17, <3>2, <4>1 DEF IsLatest
      <4> QED
        BY <1>17, <3>2, <4>2
    <3>3. CASE i \in TailsOf(slot) /\ ~(sub /\ i = item)
      <4>1. i.st <= Len(states) /\ i \in TailItems
        BY <1>0, <3>3 DEF IdInv, TailsOf, Types
      <4>2. ~new
        BY <1>3, <1>4, <3>1, <4>1
      <4>3. (i.seg = channel.seg) /\ IsLatest(i)
        BY <1>0, <1>3, <1>4, <3>1, <3>3, <4>2 DEF CurrentInv, CurrentOK
      <4>4. states[current] \in KeyStates
        BY <1>3, <1>4, <4>2, ElementOfSeq
      <4>5. PICK v, w, x : v = i.version /\ w = states[current].version /\ x = after.version
        OBVIOUS
      <4>6. v \in Nat /\ w \in Nat /\ v <= w
        BY <4>1, <4>3, <4>4, <4>5 DEF TailItems, KeyStates, IsLatest
      <4>7. CASE reset \/ sub
        <5>1. x > w /\ x \in Nat
          BY <1>8, <1>9, <4>2, <4>4, <4>5, <4>6, <4>7
        <5>2. v <= x /\ v # x
          BY <4>6, <5>1
        <5>3. IsLatest(i)'
          BY <1>6, <1>10, <4>5, <5>2 DEF IsLatest
        <5> QED
          BY <1>2, <4>2, <4>3, <5>3
      <4>8. CASE ~reset /\ ~sub
        <5>1. after = states[current] /\ states'[current'] = states[current]
          BY <1>6, <1>8, <1>9, <1>10, <4>2, <4>8
        <5>2. ASSUME v = w
              PROVE  /\ i.tail = states[current].submitted /\ i.tail.after <= n
                     /\ i.tail.after > 0 => i.tail.rev = rev
          <6>1. i.tail = states[current].submitted /\ i.tail.after <= channel.n
                /\ (i.tail.after > 0 => i.tail.rev = channel.rev)
            BY <4>3, <4>5, <5>2 DEF IsLatest
          <6>2. i.tail.after \in Nat
            BY <4>1, Limits DEF TailItems, Tails, NoTail
          <6>3. (channel.n = 0) \/ (rev = channel.rev)
            BY <1>3, <4>2, <4>8
          <6>4. channel.n <= n
            BY <1>3, <4>2, <6>3
          <6> QED
            BY <1>3, <6>1, <6>2, <6>3, <6>4
        <5>3. IsLatest(i)'
          BY <1>6, <4>5, <4>6, <5>1, <5>2 DEF IsLatest
        <5> QED
          BY <1>2, <4>2, <4>3, <5>3
      <4> QED
        BY <4>7, <4>8
    <3>4. i # NoItem
      BY <1>4, <3>1, NoItemType
    <3> QED
      BY <1>16, <3>2, <3>3, <3>4
  <2>3. (~states[current].voided => Matches(current, channel.seg, channel.rev, channel.n))'
    <3>1. SUFFICES ASSUME ~after.voided PROVE Matches(id, seg, rev, n)'
      BY <1>6, <1>10 DEF Matches
    <3>2. ASSUME NEW i \in 0 .. (MaxSentences - 1), after.frozen[i] # NoSentence
          PROVE  (i < n) /\ (after.frozen[i] = Sentence(seg, rev, i))
      <4>1. NewState.frozen[i] = NoSentence
        BY DEF NewState
      <4>2. ~new /\ ~reset /\ st = states[current]
        BY <1>8, <1>9, <3>2, <4>1
      <4>3. Matches(current, seg, channel.rev, channel.n)
        BY <1>0, <1>2, <1>3, <1>9, <3>1, <4>2 DEF CurrentInv, CurrentOK
      <4>4. (i < channel.n) /\ (after.frozen[i] = Sentence(seg, channel.rev, i))
        BY <1>9, <3>2, <4>2, <4>3 DEF Matches
      <4>5. rev = channel.rev
        BY <1>3, <4>2, <4>4
      <4>6. channel.n <= n
        BY <1>3, <4>2, <4>5
      <4> QED
        BY <1>3, <4>4, <4>5, <4>6
    <3>3. ASSUME NEW k \in DOMAIN jobs', ~IsFinal(k), k.st = id
          PROVE  (k.rev = rev) /\ (k.seg = seg) /\ (k.idx < n)
      <4>1. CASE k \notin DOMAIN jobs
        BY <1>11, <4>1
      <4>2. CASE k \in DOMAIN jobs
        <5>1. k.st <= Len(states)
          BY <1>0, <4>2 DEF IdInv
        <5>2. ~new /\ id = current
          BY <1>3, <1>4, <3>3, <5>1
        <5>3. ~reset /\ st = states[current]
          BY <1>8, <1>9, <3>1, <3>3, <4>2, <5>2
        <5>4. Matches(current, seg, channel.rev, channel.n)
          BY <1>0, <1>2, <1>3, <1>9, <3>1, <5>2, <5>3 DEF CurrentInv, CurrentOK
        <5>5. (k.rev = channel.rev) /\ (k.seg = seg) /\ (k.idx < channel.n) /\ (k.idx \in Nat)
          BY <1>13, <3>3, <4>2, <5>2, <5>4 DEF Matches, Names
        <5>6. rev = channel.rev
          BY <1>3, <5>2, <5>3, <5>5
        <5>7. channel.n <= n
          BY <1>3, <5>2, <5>6
        <5> QED
          BY <1>3, <5>5, <5>6, <5>7
      <4> QED
        BY <4>1, <4>2
    <3> QED
      BY <1>10, <3>2, <3>3 DEF Matches, IsFinal
  <2> QED
    BY <2>1, <2>2, <2>3 DEF CurrentOK
\* The finals.
<1>22. FinalInv'
  <2>1. SUFFICES ASSUME NEW k \in DOMAIN jobs', IsFinal(k) PROVE FinalOK(k)'
    BY DEF FinalInv, IsFinal
  <2>2. k \in DOMAIN jobs /\ FinalOK(k) /\ jobs'[k] = jobs[k] /\ finals' = finals /\ k \in Names
    BY <1>0, <1>12, <1>13, <1>14, <2>1 DEF FinalInv
  <2>3. (k.seg < said.seg)'
    BY <1>1, <1>5, <2>2 DEF FinalOK
  <2>4. ASSUME jobs[k].way = "rest" PROVE Reuses(k)'
    <3>1. Reuses(k)
      BY <2>2, <2>4 DEF FinalOK
    <3>2. k.st # 0 /\ k.st \in 1 .. Len(states) /\ k.st # id /\ k.st # current
      BY <1>0, <1>3, <1>4, <2>1, <2>2, <3>1 DEF Reuses, IdInv, Names
    <3>3. states'[k.st] = states[k.st]
      BY <1>10, <3>2
    <3>4. \A m \in DOMAIN jobs' : m.st = k.st => m \in DOMAIN jobs
      BY <1>11, <3>2
    <3>5. \A r, x : Matches(k.st, k.seg, r, x) => Matches(k.st, k.seg, r, x)'
      BY <3>3, <3>4 DEF Matches, IsFinal
    <3>6. PICK r \in Revisions, w \in 0 .. MaxTails :
           /\ jobs[k].text = Text(k.seg, r, jobs[k].frozen, w)
           /\ ~finals[k.seg].voided => Matches(k.st, k.seg, r, jobs[k].frozen)
      BY <3>1 DEF Reuses
    <3>7. (/\ jobs[k].text = Text(k.seg, r, jobs[k].frozen, w)
           /\ ~finals[k.seg].voided => Matches(k.st, k.seg, r, jobs[k].frozen))'
      <4>1. PICK x : x = jobs[k].frozen
        OBVIOUS
      <4>2. ~finals[k.seg].voided => Matches(k.st, k.seg, r, x)'
        BY <3>5, <3>6, <4>1
      <4>3. ~finals'[k.seg].voided => Matches(k.st, k.seg, r, jobs[k].frozen)'
        BY <2>2, <4>1, <4>2 DEF Matches
      <4> QED
        BY <2>2, <3>6, <4>3
    <3>8. (jobs[k].at # "gather" =>
           /\ FrozenComplete(states[k.st], jobs[k].frozen)
           /\ \A m \in DOMAIN jobs : IsFinal(m) \/ m.st # k.st)'
      BY <2>2, <3>1, <3>3, <3>4 DEF Reuses, IsFinal
    <3> QED
      BY <3>2, <3>7, <3>8 DEF Reuses
  <2> QED
    BY <2>2, <2>3, <2>4 DEF FinalOK
<1> QED
  BY <1>18, <1>19, <1>20, <1>21, <1>22 DEF TextInv, CurrentInv

LEMMA HandlePartialStep ==
    ASSUME TextInv, NEW n \in 0 .. MaxSentences, NEW rev \in Revisions,
           NEW words \in 0 .. MaxTails, NEW skip \in BOOLEAN, HandlePartial(n, rev, words, skip)
    PROVE  TextInv'
<1>0. Types /\ SegmentInv
  BY DEF TextInv
<1> DEFINE seg    == said.seg
           new    == channel.seg # seg
           voids  == new /\ channel.seg # 0
           reset  == ~new /\ channel.n > 0 /\ rev # channel.rev
           base   == IF new \/ reset THEN 0 ELSE channel.n
           before == IF voids THEN 0 ELSE current
           id     == IF before = 0 THEN Len(states) + 1 ELSE before
           st     == IF before = 0 THEN NewState
                     ELSE IF ~reset THEN states[before]
                     ELSE [states[before] EXCEPT
                              !.frozen = NewState.frozen, !.version = @ + 1,
                              !.voided = @ \/ \E j \in DOMAIN jobs : ~IsFinal(j) /\ j.st = before]
           lock   == IF voids THEN PurgedLock ELSE keyLock
           old    == IF voids THEN NoSlot ELSE IF reset THEN Canceled ELSE slot
           made   == [i \in 1 .. (n - base) |-> Freeze(id, seg, rev, base + i - 1)]
           place(j) == Comes(Len(locks[lock]) + (j.idx - base))
           tail   == Tail_(seg, rev, n, words)
           live   == mode = "live" /\ words > 0
           after  == IF live /\ ~skip THEN [st EXCEPT !.submitted = tail, !.version = @ + 1] ELSE st
<1>1. /\ said' = [said EXCEPT !.n = n, !.rev = rev]
      /\ channel' = [seg |-> seg, n |-> n, rev |-> rev]
      /\ current' = id
      /\ states' = IF before = 0 THEN Append(Dropped(current), after) ELSE [states EXCEPT ![id] = after]
      /\ slot' = IF live /\ ~skip THEN Submit(old, tail, after.version, id, seg) ELSE old
      /\ jobs' = [j \in DOMAIN jobs \cup {made[i] : i \in DOMAIN made} |->
                       IF j \in DOMAIN jobs THEN jobs[j]
                       ELSE [at |-> place(j), text |-> Nothing.text, frozen |-> 0, way |-> "sentence"]]
  BY Zenon DEF HandlePartial
<1>2. said.seg # 0 /\ ((current = 0) <=> (channel.seg = 0)) /\ channel.n \in Nat
  BY <1>0, Limits DEF Types, SegmentInv
<1>3. /\ (before = 0) <=> new
      /\ ~new => before = current
  BY <1>2
<1>4. DOMAIN made = 1 .. (n - base) /\ \A i \in 1 .. (n - base) : made[i] = Freeze(id, seg, rev, base + i - 1)
  OBVIOUS
<1>5. \A j : place(j) \in {"lock", "sem"}
  BY DEF Comes
<1>6. base = IF channel.seg = said.seg /\ ~reset THEN channel.n ELSE 0
  OBVIOUS
<1>7. id = IF channel.seg # said.seg THEN Len(states) + 1 ELSE current
  BY <1>3
<1>8. st = IF channel.seg # said.seg THEN NewState
           ELSE IF ~reset THEN states[current]
           ELSE [states[current] EXCEPT
                    !.frozen = NewState.frozen, !.version = @ + 1,
                    !.voided = @ \/ \E j \in DOMAIN jobs : ~IsFinal(j) /\ j.st = current]
  <2>1. CASE new
    BY <1>3, <2>1
  <2>2. CASE ~new
    <3>1. before # 0 /\ before = current
      BY <1>3, <2>2
    <3> QED
      BY <2>2, <3>1, Zenon
  <2> QED
    BY <2>1, <2>2
<1>9. old \in {NoSlot, Canceled, slot} /\ (reset \/ channel.seg # said.seg \/ old = slot)
  OBVIOUS
<1>10. reset = (channel.seg = said.seg /\ channel.n > 0 /\ rev # channel.rev) /\ reset \in BOOLEAN
       /\ new = (channel.seg # said.seg)
       /\ (live /\ ~skip) \in BOOLEAN /\ ((live /\ ~skip) => (words > 0))
  OBVIOUS
<1>11. after = IF live /\ ~skip THEN [st EXCEPT !.submitted = tail, !.version = @ + 1] ELSE st
  OBVIOUS
<1>12. seg = said.seg /\ tail = Tail_(said.seg, rev, n, words)
  OBVIOUS
<1> HIDE DEF seg, new, voids, reset, base, before, id, st, lock, old, made, place, tail, live, after
<1>13. \A k \in DOMAIN jobs' : k \in DOMAIN jobs \/ \E i \in base .. (n - 1) : k = Freeze(id, said.seg, rev, i)
  <2>1. SUFFICES ASSUME NEW k \in DOMAIN jobs', k \notin DOMAIN jobs
                 PROVE  \E i \in base .. (n - 1) : k = Freeze(id, said.seg, rev, i)
    OBVIOUS
  <2>2. PICK m \in 1 .. (n - base) : k = Freeze(id, seg, rev, base + m - 1)
    BY <1>1, <1>4, <2>1
  <2>3. base \in Nat
    BY <1>2, <1>6
  <2>4. base + m - 1 \in base .. (n - 1)
    BY <2>3
  <2> QED
    BY <1>12, <2>2, <2>4
<1>14. \A k \in DOMAIN jobs : k \in DOMAIN jobs' /\ jobs'[k] = jobs[k]
  BY <1>1
<1>15. \A k \in DOMAIN jobs' : k \notin DOMAIN jobs =>
           \E at \in {"lock", "sem"} :
               jobs'[k] = [at |-> at, text |-> Nothing.text, frozen |-> 0, way |-> "sentence"]
  BY <1>1, <1>5
<1>16. jobs' \in [DOMAIN jobs' -> {jobs'[k] : k \in DOMAIN jobs'}]
  <2>1. PICK D, f : D = DOMAIN jobs' /\ f = jobs'
    OBVIOUS
  <2>2. f = [k \in D |-> f[k]]
    BY <1>1, <2>1
  <2>3. f \in [D -> {f[k] : k \in D}]
    BY <2>2
  <2> QED
    BY <2>1, <2>3
<1>17. states' = IF channel.seg # said.seg THEN Append(Dropped(current), after)
                 ELSE [states EXCEPT ![id] = after]
  BY <1>1, <1>3, <1>10
<1> DEFINE sub == live /\ ~skip
<1>18. PartialSteps(n, rev, id, after, reset, sub, tail, old)
  <2>1. slot' = IF sub THEN Submit(old, tail, after.version, id, said.seg) ELSE old
    BY <1>1, <1>12
  <2>2. \A k \in DOMAIN jobs' : k \in DOMAIN jobs \/
           \E i \in (IF channel.seg = said.seg /\ ~reset THEN channel.n ELSE 0) .. (n - 1) :
               k = Freeze(id, said.seg, rev, i)
    BY <1>6, <1>13
  <2>3. channel' = [seg |-> said.seg, n |-> n, rev |-> rev]
    BY <1>1, <1>12
  <2> HIDE DEF sub
  <2> QED
    BY <1>1, <1>14, <1>15, <1>16, <1>17, <2>1, <2>2, <2>3, Zenon DEF PartialSteps
<1>19. sub \in BOOLEAN /\ (sub => (words > 0))
       /\ after = IF sub THEN [st EXCEPT !.submitted = tail, !.version = @ + 1] ELSE st
  BY <1>10, <1>11
<1> HIDE DEF sub
<1>20. /\ said.seg \in Segments /\ finals' = finals /\ ((rev = said.rev) => (n >= said.n))
       /\ rev \in 0 .. MaxTroubles /\ rev <= troubles' /\ troubles' \in 0 .. MaxTroubles
  <2>1. /\ said.seg <= MaxSegments /\ finals' = finals
        /\ \/ rev = said.rev /\ n >= said.n
           \/ rev = said.rev + 1
        /\ IF rev = said.rev THEN UNCHANGED troubles ELSE NextTrouble
    BY DEF HandlePartial
  <2>2. /\ said.seg \in Segments /\ said.rev \in Nat /\ said.rev <= troubles
        /\ troubles \in 0 .. MaxTroubles /\ MaxTroubles \in Nat
    BY <1>0, <2>1, Limits DEF Types, SegmentInv, Segments
  <2>3. CASE rev = said.rev
    BY <2>1, <2>2, <2>3
  <2>4. CASE rev # said.rev
    BY <2>1, <2>2, <2>4 DEF NextTrouble
  <2> QED
    BY <2>3, <2>4
<1>21. PartialChoices(n, rev, words, id, st, after, reset, sub, tail, old)
  BY <1>7, <1>8, <1>9, <1>10, <1>12, <1>19, Zenon DEF PartialChoices
<1>22. reset \in BOOLEAN /\ sub \in BOOLEAN
  BY <1>10, <1>19
<1> QED
  BY <1>18, <1>20, <1>21, <1>22, PartialKeeps

-----------------------------------------------------------------------------
(* All the steps *)

LEMMA InitText == Init => TextInv
<1> SUFFICES ASSUME Init PROVE TextInv
  OBVIOUS
<1>1. said = [seg |-> 1, n |-> 0, rev |-> 0] /\ channel = [seg |-> 0, n |-> 0, rev |-> 0]
      /\ current = 0 /\ states = <<>> /\ jobs = <<>> /\ slot = NoSlot /\ troubles = 0
      /\ finals = [s \in Segments |-> [at |-> "none", text |-> Nothing.text, voided |-> FALSE]]
  BY DEF Init
<1>2. said.seg = 1 /\ said.n = 0 /\ said.rev = 0 /\ channel.seg = 0 /\ DOMAIN jobs = {} /\ Len(states) = 0
  BY <1>1
<1>3. Types
  <2>1. said \in [seg : 1 .. (MaxSegments + 1), n : 0 .. MaxSentences, rev : 0 .. MaxTroubles]
        /\ channel \in [seg : Segments \cup {0}, n : 0 .. MaxSentences, rev : 0 .. MaxTroubles]
    BY <1>1, Limits
  <2>2. finals \in [Segments -> FinalStates]
    BY <1>1, NothingIsText DEF FinalStates
  <2>3. jobs \in [DOMAIN jobs -> JobStates]
    BY <1>1
  <2> QED
    <3>1. states \in Seq(KeyStates) /\ current \in 0 .. Len(states)
      BY <1>1, <1>2
    <3>2. troubles \in 0 .. MaxTroubles
      BY <1>1, Limits
    <3>3. DOMAIN jobs \subseteq Names
      BY <1>2
    <3> QED
      BY <1>1, <2>1, <2>2, <2>3, <3>1, <3>2, <3>3, NoItemType DEF Types
<1>4. SegmentInv
  BY <1>1, <1>2 DEF SegmentInv
<1>5. IdInv
  BY <1>1, <1>2 DEF IdInv, NoSlot, NoItem, TailsOf
<1>6. CurrentInv /\ FinalInv
  BY <1>1, <1>2 DEF CurrentInv, FinalInv
<1> QED
  BY <1>3, <1>4, <1>5, <1>6 DEF TextInv

LEMMA TextStep == TextInv /\ [Next]_vars => TextInv'
<1> SUFFICES ASSUME TextInv, [Next]_vars PROVE TextInv'
  OBVIOUS
<1>1. CASE UNCHANGED vars
  BY <1>1 DEF vars, TextInv, Types, SegmentInv, IdInv, CurrentInv, CurrentOK, IsLatest, Matches,
              FinalInv, FinalOK, Reuses, TailsOf, IsFinal
<1>2. ASSUME NEW n \in 0 .. MaxSentences, NEW rev \in Revisions, NEW words \in 0 .. MaxTails,
             NEW skip \in BOOLEAN, HandlePartial(n, rev, words, skip)
      PROVE  TextInv'
  BY <1>2, HandlePartialStep
<1>3. ASSUME NEW rev \in Revisions, NEW words \in 0 .. MaxTails, HandleFinal(rev, words)
      PROVE  TextInv'
  BY <1>3, HandleFinalStep
<1>4. CASE SkipFinal
  BY <1>4, SkipFinalStep
<1>5. ASSUME NEW l \in Locks, Acquire(l) PROVE TextInv'
  BY <1>5, AcquireStep
<1>6. ASSUME NEW j \in DOMAIN jobs, Request(j) \/ Answered(j) \/ Finalize(j) \/ FinalPublished(j)
      PROVE  TextInv'
  BY <1>6, RequestStep, FreezeDoneStep, FreezeFailsStep, FinalDoneStep, FinalFailsStep, FinalizeStep,
     FinalPublishedStep DEF Answered
<1>7. CASE TailTake \/ TailRequest \/ TailFails \/ TailDone
  BY <1>7, TailTakeStep, TailRequestStep, TailFailsStep, TailDoneStep
<1>8. CASE Reap \/ Stop
  BY <1>8, ReapStep, StopStep
<1> QED
  BY <1>1, <1>2, <1>3, <1>4, <1>5, <1>6, <1>7, <1>8 DEF Next

-----------------------------------------------------------------------------
(* What is published *)

LEMMA QuietOut == ASSUME out' = Nothing PROVE OutInv'
BY DEF OutInv, FinalsWin, FinalFaithful, PartialFaithful, Nothing

\* What is joined from the sentences of the current state.
LEMMA PartialText ==
    ASSUME TextInv', current' # 0, ~states'[current'].voided,
           NEW st, st.frozen = states'[current'].frozen, NEW tail
    PROVE  LET text == Assemble(st, tail) IN
           /\ Len(text.prefix) <= channel'.n
           /\ \A i \in DOMAIN text.prefix : text.prefix[i] = Sentence(channel'.seg, channel'.rev, i - 1)
<1>1. PICK seg, rev, n, f : seg = channel'.seg /\ rev = channel'.rev /\ n = channel'.n /\ f = st.frozen
  OBVIOUS
<1>2. Matches(current, channel.seg, channel.rev, channel.n)'
  BY DEF TextInv, CurrentInv, CurrentOK
<1>3. Follows(st, seg, rev, n)
  BY <1>1, <1>2 DEF Matches, Follows
<1>4. seg \in Segments /\ rev \in Revisions /\ n \in 0 .. MaxSentences
  <2>1. channel' \in [seg : Segments \cup {0}, n : 0 .. MaxSentences, rev : 0 .. MaxTroubles]
        /\ channel'.seg # 0
    BY DEF TextInv, Types, SegmentInv
  <2> QED
    BY <1>1, <2>1, Limits
<1>5. LET text == Assemble(st, tail) IN
      /\ Len(text.prefix) <= n
      /\ \A i \in DOMAIN text.prefix : text.prefix[i] = Sentence(seg, rev, i - 1)
  BY <1>3, <1>4, AssembleBegins
<1> QED
  BY <1>1, <1>5

LEMMA FreezeOut == ASSUME TextInv, TextInv', NEW j \in DOMAIN jobs, FreezeDone(j) PROVE OutInv'
<1>0. Types /\ SegmentInv /\ IdInv /\ CurrentInv /\ ~IsFinal(j)
  BY DEF TextInv, FreezeDone
<1>1. PICK st : st = [states[j.st] EXCEPT !.frozen[j.idx] = Sentence(j.seg, j.rev, j.idx)]
  OBVIOUS
<1>2. CASE ~(current = j.st /\ ~st.finalized)
  BY <1>1, <1>2, QuietOut DEF FreezeDone
<1>3. CASE current = j.st /\ ~st.finalized
  <2>1. /\ states' = [states EXCEPT ![j.st] = [st EXCEPT !.published = TRUE]]
        /\ out' = [what |-> "freeze", seg |-> j.seg, text |-> Assemble(st, st.lastTail)]
        /\ finals' = finals /\ current' = current /\ channel' = channel
    BY <1>1, <1>3 DEF FreezeDone, Publish
  <2>2. j.st \in 1 .. Len(states) /\ states \in Seq(KeyStates) /\ current # 0
    BY <1>0, <1>3 DEF IdInv, Types, Names
  <2>3. j.seg = channel.seg /\ finals[j.seg].at = "none"
    BY <1>0, <1>3, <2>2 DEF CurrentInv, CurrentOK, SegmentInv
  <2>4. st \in KeyStates
    BY <1>0, <1>1, <2>2, SentenceRecorded
  <2>5. states'[current'].frozen = st.frozen
    <3>1. PICK new \in KeyStates : new = [st EXCEPT !.published = TRUE]
      BY <1>0, <1>1, <2>2, SentenceRecorded
    <3>2. states'[current'] = new
      BY <1>3, <2>1, <2>2, <3>1
    <3> QED
      BY <2>4, <3>1, <3>2 DEF KeyStates
  <2>6. PICK text : text = Assemble(st, st.lastTail)
    OBVIOUS
  <2>7. ~states'[current'].voided =>
           /\ Len(text.prefix) <= channel'.n
           /\ \A i \in DOMAIN text.prefix : text.prefix[i] = Sentence(channel'.seg, channel'.rev, i - 1)
    BY <2>1, <2>2, <2>5, <2>6, PartialText
  <2>8. out'.what = "freeze" /\ out'.seg = j.seg /\ out'.text = text
    BY <2>1, <2>6
  <2>9. FinalsWin' /\ FinalFaithful'
    BY <2>1, <2>3, <2>8 DEF FinalsWin, FinalFaithful
  <2>10. PartialFaithful'
    BY <2>7, <2>8 DEF PartialFaithful
  <2> QED
    BY <2>9, <2>10 DEF OutInv
<1> QED
  BY <1>2, <1>3

LEMMA TailOut == ASSUME TextInv, TextInv', TailDone PROVE OutInv'
<1>0. Types /\ SegmentInv /\ IdInv /\ CurrentInv /\ slot.runner = "call"
  BY DEF TextInv, TailDone
<1>1. PICK item \in TailItems : item = slot.item
  BY <1>0 DEF Types
<1>2. PICK st : st = [states[item.st] EXCEPT !.lastTail = item.tail]
  OBVIOUS
<1>3. CASE out' = Nothing
  BY <1>3, QuietOut
<1>4. CASE out' # Nothing
  <2>1. /\ ~IsStaleTail(item)
        /\ states' = [states EXCEPT ![item.st] = [st EXCEPT !.published = TRUE]]
        /\ out' = [what |-> "tail", seg |-> item.seg, text |-> Assemble(st, item.tail)]
        /\ finals' = finals /\ current' = current /\ channel' = channel
    BY <1>1, <1>2, <1>4 DEF TailDone, Publish
  <2>2. /\ item.st \in 1 .. Len(states) /\ states \in Seq(KeyStates) /\ current = item.st /\ current # 0
        /\ ~(item.version < states[current].version)
    <3>1. item.st \in Nat /\ item.st # 0 /\ item.st <= Len(states) /\ Len(states) \in Nat
      BY <1>0, <1>1 DEF Types, TailItems, IdInv, TailsOf
    <3> QED
      BY <1>0, <2>1, <3>1 DEF Types, IsStaleTail
  <2>3. item.seg = channel.seg /\ IsLatest(item) /\ finals[item.seg].at = "none"
    BY <1>0, <1>1, <2>2 DEF CurrentInv, CurrentOK, SegmentInv, TailsOf
  <2>4. item.tail = states[current].submitted /\ (item.tail.after > 0 => item.tail.rev = channel.rev)
    <3>1. states[current] \in KeyStates
      BY <2>2, ElementOfSeq
    <3>2. item.version \in Nat /\ states[current].version \in Nat
      BY <3>1 DEF TailItems, KeyStates
    <3> QED
      BY <2>2, <2>3, <3>2 DEF IsLatest
  <2>5. st \in KeyStates /\ st.submitted = states[current].submitted
        /\ [st EXCEPT !.published = TRUE] \in KeyStates
    BY <1>0, <1>1, <1>2, <2>2, TailRecorded
  <2>6. states'[current'].frozen = st.frozen /\ states'[current'].submitted = st.submitted
    <3>1. PICK new \in KeyStates : new = [st EXCEPT !.published = TRUE]
      BY <2>5
    <3>2. states'[current'] = new
      BY <2>1, <2>2, <3>1
    <3> QED
      BY <2>5, <3>1, <3>2 DEF KeyStates
  <2>7. PICK text : text = Assemble(st, item.tail)
    OBVIOUS
  <2>8. ~states'[current'].voided =>
           /\ Len(text.prefix) <= channel'.n
           /\ \A i \in DOMAIN text.prefix : text.prefix[i] = Sentence(channel'.seg, channel'.rev, i - 1)
    BY <2>1, <2>2, <2>6, <2>7, PartialText
  <2>9. text.tail = item.tail
    BY <2>7 DEF Assemble
  <2>10. out'.what = "tail" /\ out'.seg = item.seg /\ out'.text = text
    BY <2>1, <2>7
  <2>11. FinalsWin' /\ FinalFaithful'
    BY <2>1, <2>3, <2>10 DEF FinalsWin, FinalFaithful
  <2>12. PartialFaithful'
    BY <2>1, <2>4, <2>5, <2>6, <2>8, <2>9, <2>10 DEF PartialFaithful
  <2> QED
    BY <2>11, <2>12 DEF OutInv
<1> QED
  BY <1>3, <1>4

\* What a final that reuses its state joins is its text.
LEMMA ReusedText ==
    ASSUME TextInv, NEW j \in DOMAIN jobs, IsFinal(j), jobs[j].way = "rest",
           FrozenComplete(states[j.st], jobs[j].frozen), ~finals[j.seg].voided
    PROVE  Assemble(states[j.st], jobs[j].text.tail) = finals[j.seg].text
<1>0. Types /\ FinalInv
  BY DEF TextInv
<1>1. Reuses(j) /\ finals[j.seg].text = jobs[j].text /\ jobs[j] \in JobStates
  BY <1>0 DEF FinalInv, FinalOK, Types
<1>2. PICK rev \in Revisions, words \in 0 .. MaxTails :
           /\ jobs[j].text = Text(j.seg, rev, jobs[j].frozen, words)
           /\ Matches(j.st, j.seg, rev, jobs[j].frozen)
  BY <1>1 DEF Reuses
<1>3. PICK st, n, seg : st = states[j.st] /\ n = jobs[j].frozen /\ seg = j.seg
  OBVIOUS
<1>4. n \in 0 .. MaxSentences /\ FrozenComplete(st, n)
  BY <1>1, <1>3 DEF JobStates
<1>5. Follows(st, seg, rev, n)
  BY <1>2, <1>3 DEF Matches, Follows
<1>6. Assemble(st, Text(seg, rev, n, words).tail) = Text(seg, rev, n, words)
  BY <1>4, <1>5, AssembleIsText
<1> QED
  BY <1>1, <1>2, <1>3, <1>6

\* A final is published.
LEMMA PublishedOut ==
    ASSUME TextInv, NEW j \in DOMAIN jobs, NEW text, PublishFinal(j, text),
           ~finals[j.seg].voided => text = finals[j.seg].text
    PROVE  OutInv'
<1>1. j.seg \in Segments /\ finals \in [Segments -> FinalStates]
  BY DEF TextInv, Types, Names
<1>2. finals' = [finals EXCEPT ![j.seg].at = "published"]
      /\ out' = [what |-> "final", seg |-> j.seg, text |-> text]
  BY DEF PublishFinal, Publish
<1>3. finals'[j.seg].text = finals[j.seg].text /\ finals'[j.seg].voided = finals[j.seg].voided
  <2>1. finals[j.seg] \in FinalStates
    BY <1>1
  <2>2. finals'[j.seg] = [finals[j.seg] EXCEPT !.at = "published"]
    BY <1>1, <1>2
  <2> QED
    BY <2>1, <2>2 DEF FinalStates
<1>4. out'.what = "final" /\ out'.seg = j.seg /\ out'.text = text
  BY <1>2
<1> QED
  BY <1>3, <1>4 DEF OutInv, FinalsWin, FinalFaithful, PartialFaithful

LEMMA FinalizeOut == ASSUME TextInv, NEW j \in DOMAIN jobs, Finalize(j) PROVE OutInv'
<1>1. IsFinal(j) /\ jobs[j].way = "rest"
  BY DEF TextInv, FinalInv, FinalOK, Finalize, Gathered
<1>2. PICK rest : rest = jobs[j].text.tail
  OBVIOUS
<1>3. CASE FrozenComplete(states[j.st], jobs[j].frozen) /\ rest \in {NoTail, states[j.st].lastTail}
  <2>1. PublishFinal(j, Assemble(states[j.st], rest))
    BY <1>2, <1>3 DEF Finalize
  <2>2. ~finals[j.seg].voided => Assemble(states[j.st], rest) = finals[j.seg].text
    BY <1>1, <1>2, <1>3, ReusedText
  <2> QED
    BY <2>1, <2>2, PublishedOut
<1>4. CASE ~(FrozenComplete(states[j.st], jobs[j].frozen) /\ rest \in {NoTail, states[j.st].lastTail})
  BY <1>2, <1>4, QuietOut DEF Finalize
<1> QED
  BY <1>3, <1>4

LEMMA FinalDoneOut == ASSUME TextInv, NEW j \in DOMAIN jobs, FinalDone(j) PROVE OutInv'
<1>1. IsFinal(j) /\ jobs[j].at = "call" /\ FinalOK(j)
  BY DEF TextInv, FinalInv, FinalDone
<1>2. CASE jobs[j].way = "whole"
  <2>1. PublishFinal(j, jobs[j].text)
    BY <1>2 DEF FinalDone
  <2> QED
    BY <1>1, <2>1, PublishedOut DEF FinalOK
<1>3. CASE jobs[j].way = "rest"
  <2>1. PublishFinal(j, Assemble(states[j.st], jobs[j].text.tail))
    BY <1>3 DEF FinalDone
  <2>2. FrozenComplete(states[j.st], jobs[j].frozen)
    BY <1>1, <1>3 DEF FinalOK, Reuses
  <2>3. ~finals[j.seg].voided => Assemble(states[j.st], jobs[j].text.tail) = finals[j.seg].text
    BY <1>1, <1>3, <2>2, ReusedText
  <2> QED
    BY <2>1, <2>3, PublishedOut
<1> QED
  BY <1>1, <1>2, <1>3 DEF FinalOK

LEMMA OutStep == TextInv /\ TextInv' /\ OutInv /\ [Next]_vars => OutInv'
<1> SUFFICES ASSUME TextInv, TextInv', OutInv, [Next]_vars PROVE OutInv'
  OBVIOUS
<1>1. CASE UNCHANGED vars
  BY <1>1 DEF vars, OutInv, FinalsWin, FinalFaithful, PartialFaithful
<1>2. CASE out' = Nothing
  BY <1>2, QuietOut
<1>3. CASE Next /\ out' # Nothing
  <2>1. \/ \E j \in DOMAIN jobs : FreezeDone(j) \/ FinalDone(j) \/ Finalize(j)
        \/ TailDone
    <3>1. \A n, rev, words, skip : ~HandlePartial(n, rev, words, skip)
      <4>1. ASSUME NEW n, NEW rev, NEW words, NEW skip, HandlePartial(n, rev, words, skip)
            PROVE  out' = Nothing
        BY <4>1 DEF HandlePartial
      <4> QED
        BY <1>3, <4>1
    <3>2. \A rev, words : ~HandleFinal(rev, words)
      BY <1>3, Zenon DEF HandleFinal
    <3>3. ~SkipFinal /\ ~TailTake /\ ~TailRequest /\ ~TailFails /\ ~Reap /\ ~Stop
      BY <1>3, Zenon DEF SkipFinal, TailTake, TailRequest, TailFails, Reap, Stop
    <3>4. \A j : ~Acquire(j) /\ ~Request(j) /\ ~FreezeFails(j) /\ ~FinalFails(j) /\ ~FinalPublished(j)
      BY <1>3, Zenon DEF Acquire, Request, FreezeFails, FinalFails, FinalPublished
    <3> QED
      BY <1>3, <3>1, <3>2, <3>3, <3>4, Zenon DEF Next, Answered
  <2> QED
    BY <2>1, FreezeOut, FinalDoneOut, FinalizeOut, TailOut
<1> QED
  BY <1>1, <1>2, <1>3

LEMMA Invariant == Spec => [](TextInv /\ OutInv)
<1>1. Init => TextInv /\ OutInv
  <2>1. Init => OutInv
    BY DEF Init, OutInv, FinalsWin, FinalFaithful, PartialFaithful, Nothing
  <2> QED
    BY <2>1, InitText
<1>2. (TextInv /\ OutInv) /\ [Next]_vars => (TextInv /\ OutInv)'
  BY TextStep, OutStep
<1> QED
  BY <1>1, <1>2, PTL DEF Spec

-----------------------------------------------------------------------------
(* Theorems *)

\* "Finals always win", however many partials, rewrites, lost finals and failures there
\* were: no partial of a segment is published (publish_translation) once handle_final has
\* taken the segment's final.
THEOREM NoPartialAfterFinal == Spec => []FinalsWin
BY Invariant, PTL DEF OutInv

\* A final that is published says what the ASR said, sentence by sentence, whether
\* _final_translation puts it together from freezes and the last tail or translates it anew.
THEOREM FinalsAreFaithful == Spec => []FinalFaithful
BY Invariant, PTL DEF OutInv

\* A partial begins with sentences of the text that is current, in order and without a gap,
\* and the tail that on_done publishes is the latest.
THEOREM PartialsAreFaithful == Spec => []PartialFaithful
BY Invariant, PTL DEF OutInv

===============================================================================
