-------------------------- MODULE AmazonTranscriber ---------------------------
(***************************************************************************)
(* The Amazon provider: start() fetches credentials, opens a stream and    *)
(* then awaits the end of that stream; reconnect(), which nobody awaits,   *)
(* does the same again after 15 seconds of silence; stop() ends the stream *)
(* and awaits it.  The calls of start() and reconnect() that are under way *)
(* are tasks, and each await is a step of its own.                         *)
(*                                                                         *)
(* The AWS SDK is external: a request whose client was destroyed fails,    *)
(* and a stream ends by itself only after its audio has ended.             *)
(***************************************************************************)
EXTENDS Asr

VARIABLE amz    \* the transcriber, see Transcribers

\* A start() or reconnect(): its generation, the epoch it captured, the await it is
\* in, and the client it has installed.
Tasks == [by : {"start", "reconnect"}, gen : Nat, epoch : Nat,
          at : {"credentials", "send", "stream"}, client : Nat]

Transcribers == [epoch       : Nat,
                 streaming   : BOOLEAN,    \* isStreaming
                 stopping    : BOOLEAN,
                 partial     : BOOLEAN,    \* lastPartialResult
                 queue       : Seq(0 .. MaxBuffer),  \* audioQueue: the lengths of its views
                 client      : Nat,        \* this.client, 0 if null
                 clients     : Nat,        \* clients made so far
                 open        : SUBSET Nat, \* clients that are not destroyed
                 promise     : Nat,        \* streamingPromise: the client of its stream
                 tasks       : SUBSET Tasks,
                 stop        : BOOLEAN]    \* a stop() awaits streamingPromise

NewAmazon == [epoch |-> 0, streaming |-> FALSE, stopping |-> FALSE, partial |-> FALSE,
              queue |-> <<>>, client |-> 0, clients |-> 0, open |-> {}, promise |-> 0,
              tasks |-> {}, stop |-> FALSE]

\* Mutant: only a stop is noticed, not that the transcriber was started again.
IsStaleReconnect_NoEpoch(epoch) == ~amz.streaming \/ amz.stopping

\* _isStaleReconnect
IsStaleReconnect(epoch) == ~amz.streaming \/ amz.stopping \/ epoch # amz.epoch

\* Task t goes on as u; start() is awaited by its transition.
Goes(t, u) == (amz.tasks \ {t}) \cup {u}
Ends(t) == amz.tasks \ {t}
Returns(t) == call' = IF t.by = "start" THEN Settled("resolved") ELSE call

\* start() up to its first await.
AmazonStart(a) ==
    /\ asr' = a
    /\ NextStart
    /\ amz' = [amz EXCEPT !.stopping = FALSE, !.partial = FALSE, !.streaming = TRUE,
                          !.queue = <<>>, !.epoch = @ + 1,
                          !.tasks = @ \cup {[by |-> "start", gen |-> starts', epoch |-> amz.epoch + 1,
                                             at |-> "credentials", client |-> 0]}]
    /\ call' = "pending"

\* The catch of start() and of reconnect().
Fails(t) ==
    /\ IF IsStaleReconnect(t.epoch)
       THEN /\ amz' = [amz EXCEPT !.tasks = Ends(t)]
            /\ UNCHANGED asr
       ELSE /\ amz' = [amz EXCEPT !.tasks = Ends(t),
                                  !.streaming = IF t.by = "start" THEN FALSE ELSE @]
            /\ asr' = OnError(asr)
    /\ Returns(t)
    /\ UNCHANGED <<starts, results, sent>>

\* getCredentialsFromHelper is done: the client is made and installed, and the
\* request is sent, unless the task is stale.
Credentials(t) ==
    /\ t.at = "credentials"
    /\ IF IsStaleReconnect(t.epoch)
       THEN /\ amz' = [amz EXCEPT !.tasks = Ends(t)]
            /\ Returns(t)
       ELSE LET c == amz.clients + 1
            IN  /\ amz' = [amz EXCEPT !.client = c, !.clients = c, !.open = @ \cup {c},
                                      !.tasks = Goes(t, [t EXCEPT !.at = "send", !.client = c])]
                /\ UNCHANGED call
    /\ UNCHANGED <<asr, starts, results, faults, sent>>

\* The helper fails.
CredentialsFail(t) == t.at = "credentials" /\ NextFault /\ Fails(t)

\* The response to the request: the stream is read, unless the task is stale, which
\* destroys the client that is installed.
Sent(t) ==
    /\ t.at = "send"
    /\ t.client \in amz.open
    /\ IF IsStaleReconnect(t.epoch)
       THEN /\ amz' = [amz EXCEPT !.open = @ \ {amz.client}, !.client = 0, !.tasks = Ends(t)]
            /\ Returns(t)
            /\ UNCHANGED asr
       ELSE /\ amz' = [amz EXCEPT !.promise = t.client,
                                  !.tasks = Goes(t, [t EXCEPT !.at = "stream"])]
            /\ asr' = IF t.by = "start" THEN OnReady(asr) ELSE asr
            /\ UNCHANGED call
    /\ UNCHANGED <<starts, results, faults, sent>>

\* The request fails, as it does when its client is destroyed.
SendFails(t) ==
    /\ t.at = "send"
    /\ IF t.client \in amz.open THEN NextFault ELSE UNCHANGED faults
    /\ Fails(t)

\* A result is read from the stream.
AmazonPartial(t) ==
    /\ t.at = "stream"
    /\ NextResult
    /\ amz' = [amz EXCEPT !.partial = TRUE]
    /\ asr' = OnTranscribing(asr, TRUE, t.gen # starts)
    /\ UNCHANGED <<call, starts, faults, sent>>

AmazonFinal(t) ==
    /\ t.at = "stream"
    /\ NextResult
    /\ amz' = [amz EXCEPT !.partial = FALSE]
    /\ asr' = OnTranscribed(asr, TRUE, t.gen # starts)
    /\ UNCHANGED <<call, starts, faults, sent>>

\* The stream fails: after 15 seconds without audio reconnect() runs up to its first
\* await, and the task that read the stream is done.  (Bound: MaxStarts clients.)
Silence(t) ==
    /\ t.at = "stream"
    /\ amz.streaming /\ ~amz.stopping
    /\ amz.clients < MaxStarts
    /\ amz' = [amz EXCEPT !.open = @ \ {amz.client}, !.client = 0,
                          !.tasks = Goes(t, [by |-> "reconnect", gen |-> starts, client |-> 0,
                                             epoch |-> amz.epoch, at |-> "credentials"])]
    /\ Returns(t)
    /\ UNCHANGED <<asr, starts, results, faults, sent>>

\* It fails otherwise, while streaming.  isStreaming stays as it is.
StreamError(t) ==
    /\ t.at = "stream"
    /\ amz.streaming
    /\ amz' = [amz EXCEPT !.tasks = Ends(t)]
    /\ asr' = OnError(asr)
    /\ Returns(t)
    /\ NextFault
    /\ UNCHANGED <<starts, results, sent>>

\* The generator has returned, and the service ends the stream.
StreamEnds(t) ==
    /\ t.at = "stream"
    /\ ~amz.streaming
    /\ amz' = [amz EXCEPT !.tasks = Ends(t)]
    /\ Returns(t)
    /\ UNCHANGED <<asr, starts, results, faults, sent>>

\* Mutant: the view stays in the queue.
Yields_Peeks(t) ==
    /\ t.at = "stream"
    /\ amz.streaming
    /\ amz.queue # <<>>
    /\ Sends(View(asr.buffer, Head(amz.queue)))
    /\ UNCHANGED <<amz, asr, call, starts, results, faults>>

\* audioStreamGenerator yields a view: what it shows is what the buffer holds by now.
Yields(t) ==
    /\ t.at = "stream"
    /\ amz.streaming
    /\ amz.queue # <<>>
    /\ Sends(View(asr.buffer, Head(amz.queue)))
    /\ amz' = [amz EXCEPT !.queue = Tail(@)]
    /\ UNCHANGED <<asr, call, starts, results, faults>>

\* transcribe(): the view is queued, not the packets in it.
AmazonTranscribe(a, packets) ==
    /\ asr' = a
    /\ amz' = IF amz.streaming THEN [amz EXCEPT !.queue = Append(@, Len(packets))] ELSE amz
    /\ UNCHANGED sent

\* stop() up to its await of the stream.
AmazonStop(a) ==
    /\ asr' = IF amz.partial THEN OnTranscribed(a, TRUE, FALSE) ELSE a
    /\ amz' = [amz EXCEPT !.stopping = TRUE, !.epoch = @ + 1, !.partial = FALSE,
                          !.streaming = FALSE, !.queue = <<>>, !.stop = TRUE]
    /\ call' = "pending"
    /\ UNCHANGED starts

\* The stream has ended: the client is destroyed.
AmazonStopped ==
    /\ amz.stop
    /\ ~\E t \in amz.tasks : t.at = "stream" /\ t.client = amz.promise
    /\ amz' = [amz EXCEPT !.promise = 0, !.open = @ \ {amz.client}, !.client = 0, !.stop = FALSE]
    /\ asr' = OnClosed(asr)
    /\ call' = Settled("resolved")
    /\ UNCHANGED <<starts, results, faults, sent>>

AmazonNext ==
    \/ \E t \in amz.tasks :
           \/ Credentials(t) \/ CredentialsFail(t) \/ Sent(t) \/ SendFails(t)
           \/ AmazonPartial(t) \/ AmazonFinal(t)
           \/ Silence(t) \/ StreamError(t) \/ StreamEnds(t) \/ Yields(t)
    \/ AmazonStopped

\* What may still act: a stream that is open at the service, and a task that will
\* open one.
AmazonStreams == {t.client : t \in {u \in amz.tasks : u.at # "credentials" /\ u.client \in amz.open}}
=============================================================================
