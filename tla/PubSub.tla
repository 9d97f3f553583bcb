------------------------------- MODULE PubSub -------------------------------
(***************************************************************************)
(* One topic of the publish/subscribe system of pubsub.go.                 *)
(*                                                                         *)
(* A message is also the call of Publish that carries it, and a pair of a  *)
(* message and a subscription the goroutine that delivers one to the       *)
(* other.  Handlers answer what they like, or never.  Whether a circuit    *)
(* breaker (the publisher's, or that of a subscription) is open is left    *)
(* open: any history of its atomics is covered by the two answers.  The    *)
(* store, to which a failed write changes nothing here, and the metrics    *)
(* are left out.                                                           *)
(***************************************************************************)
EXTENDS Naturals, Sequences, FiniteSets

CONSTANTS Messages, Subs,
          Matches,          \* the pairs <<m, s>> whose headers and priority fit
          MaxRetryCount,    \* per subscription, the filter of that name; 0 is none
          BufferSize,       \* capacity of MessageQueue
          MaxConcurrent,    \* capacity of the publisher's workerPool
          MaxRetries,       \* of Publish and of a delivery
          DeadLetters       \* EnableDeadLetterQueue, with a handler

ASSUME ConfigAssumption ==
    /\ Matches \subseteq Messages \X Subs
    /\ MaxRetryCount \in [Subs -> Nat]
    /\ BufferSize \in Nat \ {0} /\ MaxConcurrent \in Nat \ {0}
    /\ MaxRetries \in Nat
    /\ DeadLetters \in BOOLEAN

VARIABLES
    call,        \* where each Publish is
    tries,       \* its loop variable attempt
    queue,       \* topic.MessageQueue
    subscribed,  \* topic.Subscribers
    processor,   \* where processTopicMessages is
    current,     \* the message it delivers, in a set
    todo,        \* the subscriptions of its copy it has not looked at
    delivery,    \* where each deliverMessageToSubscriber is
    again,       \* the deliveries that have run deliverWithRetry a second time
    attempt,     \* its loop variable attempt
    retryCount,  \* message.RetryCount, one for all its deliveries
    abandoned,   \* the deliveries whose handler runs on after its timeout
    closer,      \* where Close is
    calls,       \* ghost: how often the delivery under way has called the handler
    late         \* ghost: messages the processor stopped waiting for

publishVars == <<call, tries>>
processVars == <<processor, current, todo>>
deliverVars == <<delivery, again, attempt, retryCount, abandoned, calls>>
vars == <<publishVars, queue, subscribed, processVars, deliverVars, closer, late>>

Deliveries == Messages \X Subs

CallPlaces  == {"new", "ready", "send", "sent", "failed", "panicked"}
Live        == {"ready", "running", "deadLetter"}
ClosePlaces == {"open", "cancelled", "topicClosed", "queueClosed", "waiting",
                "closed"}

\* Faulty variant: Close does not cancel the context.
NeverDone == FALSE

CtxDone     == closer # "open"
TopicClosed == closer \notin {"open", "cancelled"}
QueueClosed == closer \in {"queueClosed", "waiting", "closed"}
SubsClosed  == closer \in {"waiting", "closed"}

Init == /\ call = [m \in Messages |-> "new"]
        /\ tries = [m \in Messages |-> 0]
        /\ queue = <<>>
        /\ subscribed = {}
        /\ processor = "receive" /\ current = {} /\ todo = {}
        /\ delivery = [d \in Deliveries |-> "none"]
        /\ again = {}
        /\ attempt = [d \in Deliveries |-> 0]
        /\ retryCount = [m \in Messages |-> 0]
        /\ abandoned = {}
        /\ closer = "open"
        /\ calls = [d \in Deliveries |-> 0]
        /\ late = {}

-----------------------------------------------------------------------------
(* Subscribe and Publish                                                   *)

\* The check of closed comes first and the insertion last.  One that inserts
\* after Close has marked the subscriptions is left out.
Subscribe(s) ==
    /\ ~SubsClosed
    /\ s \notin subscribed
    /\ subscribed' = subscribed \cup {s}
    /\ UNCHANGED <<publishVars, queue, processVars, deliverVars, closer, late>>

Step(m, from, to) == call[m] = from /\ call' = [call EXCEPT ![m] = to]

\* Calls that hold a token of publisher.workerPool.
Holding == {m \in Messages : call[m] = "send"}

\* Publish: the closed flag, then the breaker.
Publish(m) ==
    /\ \/ closer = "open" /\ Step(m, "new", "ready")
       \/ Step(m, "new", "failed")
    /\ UNCHANGED <<tries, queue, subscribed, processVars, deliverVars, closer, late>>

\* publishMessage returned an error: publishWithRetry waits its delay, which
\* nobody sees, for the next attempt, or gives up.
TryAgain(m, from) ==
    \/ /\ tries[m] < MaxRetries
       /\ Step(m, from, "ready")
       /\ tries' = [tries EXCEPT ![m] = @ + 1]
    \/ /\ tries[m] = MaxRetries
       /\ Step(m, from, "failed")
       /\ UNCHANGED tries

\* publishMessage up to its send: the select on workerPool has a default, and
\* the topic may be closed.
PublishMessage(m) ==
    /\ \/ /\ Cardinality(Holding) < MaxConcurrent /\ ~TopicClosed
          /\ Step(m, "ready", "send")
          /\ UNCHANGED tries
       \/ /\ Cardinality(Holding) >= MaxConcurrent \/ TopicClosed
          /\ TryAgain(m, "ready")
    /\ UNCHANGED <<queue, subscribed, processVars, deliverVars, closer, late>>

\* The send, or the default of its select; the send on a closed channel panics.
Send(m) ==
    /\ \/ /\ ~QueueClosed /\ Len(queue) < BufferSize
          /\ queue' = Append(queue, m)
          /\ Step(m, "send", "sent")
          /\ UNCHANGED tries
       \/ /\ ~QueueClosed /\ Len(queue) >= BufferSize
          /\ TryAgain(m, "send")
          /\ UNCHANGED queue
       \/ /\ QueueClosed
          /\ Step(m, "send", "panicked")
          /\ UNCHANGED <<tries, queue>>
    /\ UNCHANGED <<subscribed, processVars, deliverVars, closer, late>>

\* The caller's context, or OperationTimeout, ends the call.
Cancelled(m) ==
    /\ \E from \in {"ready", "send"} : Step(m, from, "failed")
    /\ UNCHANGED <<tries, queue, subscribed, processVars, deliverVars, closer, late>>

-----------------------------------------------------------------------------
(* processTopicMessages and deliverMessageToSubscribers                    *)

\* A closed channel still hands out what is in it, then nil, which is skipped.
TakeMessage ==
    /\ processor = "receive"
    /\ queue # <<>>
    /\ current' = {Head(queue)}
    /\ queue' = Tail(queue)
    /\ todo' = subscribed
    /\ processor' = "start"
    /\ UNCHANGED <<publishVars, subscribed, deliverVars, closer, late>>

\* matchesFilter.
PassesFilter(m, s) ==
    /\ <<m, s>> \in Matches
    /\ MaxRetryCount[s] = 0 \/ retryCount[m] < MaxRetryCount[s]

\* The loop over the subscribers: the next one, in any order.
StartDelivery(m, s) ==
    /\ processor = "start"
    /\ m \in current
    /\ s \in todo
    /\ todo' = todo \ {s}
    /\ delivery' = IF PassesFilter(m, s) /\ ~SubsClosed
                   THEN [delivery EXCEPT ![<<m, s>>] = "ready"]
                   ELSE delivery
    /\ UNCHANGED <<publishVars, queue, subscribed, processor, current, again,
                   attempt, retryCount, abandoned, calls, closer, late>>

StartWaiting ==
    /\ processor = "start"
    /\ todo = {}
    /\ processor' = "wait"
    /\ UNCHANGED <<publishVars, queue, subscribed, current, todo, deliverVars,
                   closer, late>>

InQueue(m)    == \E i \in DOMAIN queue : queue[i] = m
InProgress(m) == \E s \in Subs : delivery[m, s] \in Live

NextMessage == processor' = "receive" /\ current' = {}

\* Faulty variant: the deliveries are not waited for.
HandOver ==
    /\ processor = "wait"
    /\ NextMessage
    /\ UNCHANGED <<publishVars, queue, subscribed, todo, deliverVars, closer, late>>

\* All deliveries of the message have ended.
DeliveriesDone ==
    /\ processor = "wait"
    /\ \A m \in current : ~InProgress(m)
    /\ NextMessage
    /\ UNCHANGED <<publishVars, queue, subscribed, todo, deliverVars, closer, late>>

\* OperationTimeout, or ctx.Done, ends the wait; the deliveries go on.
StopWaiting ==
    /\ processor = "wait"
    /\ late' = late \cup {m \in current : InProgress(m)}
    /\ NextMessage
    /\ UNCHANGED <<publishVars, queue, subscribed, todo, deliverVars, closer>>

\* ctx.Done wins the select, whatever is left in the queue.
StopProcessor ==
    /\ processor = "receive"
    /\ CtxDone
    /\ processor' = "stopped"
    /\ UNCHANGED <<publishVars, queue, subscribed, current, todo, deliverVars,
                   closer, late>>

-----------------------------------------------------------------------------
(* deliverMessageToSubscriber and deliverWithRetry                         *)

Go(d, from, to) == delivery[d] = from /\ delivery' = [delivery EXCEPT ![d] = to]

\* The delivery is over, and what it kept on its stack is gone.
Finish(d, from, to) ==
    /\ Go(d, from, to)
    /\ attempt' = [attempt EXCEPT ![d] = 0]
    /\ calls' = [calls EXCEPT ![d] = 0]
    /\ again' = again \ {d}

\* An error ends in the dead-letter handler, if there is one.
Fail(d, from) == Finish(d, from, IF DeadLetters THEN "deadLetter" ELSE "ended")

\* The top of the loop: the retry count goes into the shared message.  A full
\* workerPool of the subscription stops nobody, an open breaker is passed by.
CallHandler(d) ==
    /\ ~CtxDone
    /\ Go(d, "ready", "running")
    /\ retryCount' = [retryCount EXCEPT ![d[1]] = attempt[d]]
    /\ calls' = [calls EXCEPT ![d] = @ + 1]
    /\ UNCHANGED <<publishVars, queue, subscribed, processVars, again, attempt,
                   abandoned, closer, late>>

\* ctx is done: before the delivery has begun it is dropped, at the top of the
\* loop or during the retry delay it fails.
GiveUp(d) ==
    /\ CtxDone
    /\ \/ /\ Finish(d, "ready", "ended")
          /\ attempt[d] = 0 /\ d \notin again
          /\ UNCHANGED retryCount
       \/ /\ Fail(d, "ready")
          /\ \/ retryCount' = [retryCount EXCEPT ![d[1]] = attempt[d]]
             \/ attempt[d] > 0 /\ UNCHANGED retryCount
    /\ UNCHANGED <<publishVars, queue, subscribed, processVars, abandoned, closer,
                   late>>

HandlerSucceeds(d) ==
    /\ Finish(d, "running", "ended")
    /\ UNCHANGED <<publishVars, queue, subscribed, processVars, retryCount,
                   abandoned, closer, late>>

\* Faulty variant: one attempt more.
FailsOnceMore(d) ==
    /\ \/ /\ attempt[d] <= MaxRetries
          /\ Go(d, "running", "ready")
          /\ attempt' = [attempt EXCEPT ![d] = @ + 1]
          /\ UNCHANGED <<again, calls>>
       \/ /\ attempt[d] > MaxRetries
          /\ Fail(d, "running")
    /\ UNCHANGED <<publishVars, queue, subscribed, processVars, retryCount,
                   abandoned, closer, late>>

\* An error, or a recovered panic: after a delay, the next attempt.
HandlerFails(d) ==
    /\ \/ /\ attempt[d] < MaxRetries
          /\ Go(d, "running", "ready")
          /\ attempt' = [attempt EXCEPT ![d] = @ + 1]
          /\ UNCHANGED <<again, calls>>
       \/ /\ attempt[d] = MaxRetries
          /\ Fail(d, "running")
    /\ UNCHANGED <<publishVars, queue, subscribed, processVars, retryCount,
                   abandoned, closer, late>>

\* The last error wraps ErrCircuitBreakerOpen, as that of a handler which uses
\* a CircuitBreaker does: it is taken for the answer of the breaker.
StartAgain(d) ==
    /\ attempt[d] = MaxRetries
    /\ d \notin again
    /\ Go(d, "running", "ready")
    /\ again' = again \cup {d}
    /\ attempt' = [attempt EXCEPT ![d] = 0]
    /\ UNCHANGED <<publishVars, queue, subscribed, processVars, retryCount,
                   abandoned, calls, closer, late>>

\* Faulty variant: the handler is called without a deadline.
NoDeadline(d) == FALSE /\ d \in Deliveries /\ UNCHANGED vars

\* OperationTimeout passes or ctx is cancelled, and the handler runs on, unless
\* it has just returned; or the handler itself answers so.  There is no retry.
HandlerTimesOut(d) ==
    /\ Fail(d, "running")
    /\ abandoned' \in {abandoned, abandoned \cup {d}}
    /\ UNCHANGED <<publishVars, queue, subscribed, processVars, retryCount,
                   closer, late>>

\* The answer of a handler that ran on goes into a channel nobody reads.
HandlerReturns(d) ==
    /\ d \in abandoned
    /\ abandoned' = abandoned \ {d}
    /\ UNCHANGED <<publishVars, queue, subscribed, processVars, delivery, again,
                   attempt, retryCount, calls, closer, late>>

\* The dead-letter handler takes the message, or fails.
DeadLetterReturns(d) ==
    /\ Go(d, "deadLetter", "ended")
    /\ UNCHANGED <<publishVars, queue, subscribed, processVars, again, attempt,
                   retryCount, abandoned, calls, closer, late>>

-----------------------------------------------------------------------------
(* Close                                                                   *)

CloseStep(from, to) ==
    /\ closer = from
    /\ closer' = to
    /\ UNCHANGED <<publishVars, queue, subscribed, processVars, deliverVars, late>>

\* The closed flag, which only refuses calls, and ps.cancel.
Close == CloseStep("open", "cancelled")

CloseTopic == \/ CloseStep("cancelled", "topicClosed")
              \/ CloseStep("topicClosed", "queueClosed")

CloseSubscriptions == CloseStep("queueClosed", "waiting")

\* wg counts the processors and not the deliveries.
AllStopped == processor = "stopped" /\ CloseStep("waiting", "closed")

\* 30 seconds, or the caller's context.
CloseTimesOut == CloseStep("waiting", "closed")

-----------------------------------------------------------------------------
Publishing(m) == PublishMessage(m) \/ Send(m) \/ Cancelled(m)

Processing == \/ TakeMessage
              \/ \E m \in Messages, s \in Subs : StartDelivery(m, s)
              \/ StartWaiting \/ DeliveriesDone

Delivering(d) == CallHandler(d) \/ GiveUp(d) \/ HandlerTimesOut(d)

Answering(d) == HandlerSucceeds(d) \/ HandlerFails(d) \/ StartAgain(d)

Closing == CloseTopic \/ CloseSubscriptions \/ AllStopped

Next == \/ \E s \in Subs : Subscribe(s)
        \/ \E m \in Messages : Publish(m) \/ Publishing(m)
        \/ Processing \/ StopWaiting \/ StopProcessor
        \/ \E d \in Deliveries : \/ Delivering(d) \/ Answering(d)
                                 \/ HandlerReturns(d) \/ DeadLetterReturns(d)
        \/ Close \/ Closing \/ CloseTimesOut

Spec == Init /\ [][Next]_vars

\* The goroutine of the topic, those of the deliveries and Close run, and timers
\* fire.  No handler need ever return, no Publish go on, and nobody call Close.
Fairness == /\ WF_vars(Processing \/ StopWaiting \/ StopProcessor)
            /\ \A d \in Matches : WF_vars(Delivering(d))
            /\ WF_vars(Closing)

FairSpec == Spec /\ Fairness

-----------------------------------------------------------------------------
(* Properties                                                              *)

\* Every variable holds a value of its type.
TypeOK == /\ call \in [Messages -> CallPlaces]
          /\ tries \in [Messages -> 0..MaxRetries]
          /\ queue \in Seq(Messages) /\ Len(queue) <= BufferSize
          /\ subscribed \subseteq Subs
          /\ processor \in {"receive", "start", "wait", "stopped"}
          /\ current \subseteq Messages /\ todo \subseteq Subs
          /\ delivery \in [Deliveries -> Live \cup {"none", "ended"}]
          /\ again \subseteq Deliveries
          /\ attempt \in [Deliveries -> 0..MaxRetries]
          /\ retryCount \in [Messages -> 0..MaxRetries]
          /\ closer \in ClosePlaces
          /\ abandoned \subseteq Deliveries
          /\ calls \in [Deliveries -> Nat]
          /\ late \subseteq Messages

\* Nobody handles a message whose Publish returned an error or panicked.  A
\* handler is called at most MaxRetries + 1 times for a message, and only if its
\* own error passes for that of the breaker, once more as often.
HandlerCalls == \A d \in Deliveries :
    /\ calls[d] > 0 => call[d[1]] = "sent"
    /\ calls[d] <= IF d \in again THEN 2 * (MaxRetries + 1) ELSE MaxRetries + 1

\* Two deliveries to a subscription are under way at once only if the processor
\* stopped waiting for one of the messages; and a handler that outlived its
\* timeout, which may run on beside the handlers of later messages, is never
\* called a second time for the message it still works on.
OneAtATime ==
    /\ \A s \in Subs : \A m, n \in Messages :
          m # n /\ delivery[m, s] \in Live /\ delivery[n, s] \in Live
            => m \in late \/ n \in late
    /\ \A d \in abandoned : delivery[d] \notin {"none", "ready", "running"}

\* What a Publish got into the queue reaches the handler of every matching
\* subscription and is processed or handed to the dead-letter handler, though
\* handlers fail, panic or never return, unless Close comes.  A filter with a
\* MaxRetryCount is excepted: it may see the retries of another subscription.
Handled == \A d \in {x \in Matches : MaxRetryCount[x[2]] = 0} :
    InQueue(d[1]) /\ d[2] \in subscribed
      ~> delivery[d] \in {"deadLetter", "ended"} \/ closer # "open"

\* Close does not need its 30 seconds, even if no handler ever returns.
CloseReturns == closer = "waiting" ~> closer = "closed"
=============================================================================
