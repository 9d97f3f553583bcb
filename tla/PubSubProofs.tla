---------------------------- MODULE PubSubProofs ----------------------------
(***************************************************************************)
(* Proofs about PubSub, for every set of messages and of subscriptions and *)
(* all limits.                                                             *)
(***************************************************************************)
EXTENDS PubSub, TLAPS

\* A message is in one place at a time, at most once in the queue, and gets
\* there by a Publish that succeeded.
OncePublished ==
    /\ \A i, j \in DOMAIN queue : queue[i] = queue[j] => i = j
    /\ \A i \in DOMAIN queue : call[queue[i]] = "sent" /\ queue[i] \notin current
    /\ \A m \in current : call[m] = "sent"

\* Message m is still to come to subscription s, or will never be sent.
Ahead(m, s) == call[m] # "sent" \/ InQueue(m) \/ (m \in current /\ s \in todo)

\* No delivery begins before the processor has looked at its subscription.
Untouched == \A m \in Messages, s \in Subs : Ahead(m, s) => delivery[m, s] = "none"

\* The processor has one message in its hands, or none when it asks for one.
OneCurrent ==
    /\ \A m, n \in current : m = n
    /\ processor \in {"receive", "stopped"} => current = {}

\* A delivery that is not over is waited for, or was given up.
Awaited == \A m \in Messages, s \in Subs :
    delivery[m, s] \in Live => m \in late \/ m \in current

\* The calls of a handler follow the loop variable of deliverWithRetry.
CountOf(place, loop, made, second) == \A d \in Deliveries :
    IF place[d] \in {"ready", "running"}
    THEN made[d] = loop[d] + (IF d \in second THEN MaxRetries + 1 ELSE 0)
                     + (IF place[d] = "running" THEN 1 ELSE 0)
    ELSE loop[d] = 0 /\ made[d] = 0 /\ d \notin second
CallCount == CountOf(delivery, attempt, calls, again)

\* The delivery whose handler runs on has failed.
GivenUp == \A d \in abandoned : delivery[d] \in {"deadLetter", "ended"}

IInv == TypeOK /\ OncePublished /\ Untouched /\ OneCurrent /\ Awaited /\ CallCount
        /\ GivenUp

-----------------------------------------------------------------------------
(* The steps, as the parts of the invariant see them.                      *)

LEMMA RetriesNat == MaxRetries \in Nat
  BY ConfigAssumption

\* A call of Publish moves on until it has succeeded, and puts its message
\* into the queue when it does.
LEMMA PublishSteps ==
    ASSUME TypeOK, NEW m \in Messages, Publish(m) \/ Publishing(m)
    PROVE  /\ tries' \in [Messages -> 0..MaxRetries]
           /\ UNCHANGED <<subscribed, processVars, deliverVars, closer, late>>
           /\ call[m] # "sent"
           /\ \E to \in CallPlaces :
                /\ call' = [call EXCEPT ![m] = to]
                /\ \/ to # "sent" /\ queue' = queue
                   \/ /\ to = "sent" /\ queue' = Append(queue, m)
                      /\ Len(queue) < BufferSize
  <1> DEFINE Enqueued == queue' = Append(queue, m) /\ Len(queue) < BufferSize
             Moves == \/ \E to \in CallPlaces \ {"sent"} :
                           \/ Step(m, "new", to) /\ queue' = queue
                           \/ Step(m, "ready", to) /\ queue' = queue
                           \/ Step(m, "send", to) /\ queue' = queue
                      \/ Step(m, "send", "sent") /\ Enqueued
             Rest  == <<subscribed, processVars, deliverVars, closer, late>>
  <1>1. Moves /\ UNCHANGED Rest
    <2>1. {"ready", "send", "failed", "panicked"} \subseteq CallPlaces \ {"sent"}
      BY DEF CallPlaces
    <2>2. CASE Publish(m)
      BY <2>1, <2>2 DEF Publish
    <2>3. CASE PublishMessage(m)
      BY <2>1, <2>3 DEF PublishMessage, TryAgain
    <2>4. CASE Send(m)
      BY <2>1, <2>4 DEF Send, TryAgain
    <2>5. CASE Cancelled(m)
      BY <2>1, <2>5 DEF Cancelled
    <2> QED
      BY <2>2, <2>3, <2>4, <2>5 DEF Publishing
  <1>2. tries' \in [Messages -> 0..MaxRetries]
    <2>1. ASSUME NEW from, TryAgain(m, from)
          PROVE  tries' \in [Messages -> 0..MaxRetries]
      <3>1. /\ tries \in [Messages -> 0..MaxRetries]
            /\ \/ tries' = tries
               \/ tries[m] < MaxRetries /\ tries' = [tries EXCEPT ![m] = @ + 1]
        BY <2>1 DEF TryAgain, TypeOK
      <3> QED
        BY <3>1, RetriesNat
    <2>2. tries \in [Messages -> 0..MaxRetries]
      BY DEF TypeOK
    <2>3. tries' = tries \/ \E from \in {"ready", "send"} : TryAgain(m, from)
      BY DEF Publishing, Publish, PublishMessage, Send, Cancelled
    <2> QED
      BY <2>1, <2>2, <2>3
  <1>3. call[m] # "sent"
    BY <1>1 DEF Step
  <1>4. "sent" \in CallPlaces
    BY DEF CallPlaces
  <1>5. \/ /\ queue' = queue
           /\ \E to \in CallPlaces \ {"sent"} : call' = [call EXCEPT ![m] = to]
        \/ Enqueued /\ call' = [call EXCEPT ![m] = "sent"]
    BY <1>1 DEF Step
  <1> QED
    BY <1>1, <1>2, <1>3, <1>4, <1>5

\* Once begun, a delivery moves on, and nothing but its own books changes.
LEMMA DeliverSteps ==
    ASSUME TypeOK, NEW d \in Deliveries,
           Delivering(d) \/ Answering(d) \/ DeadLetterReturns(d)
    PROVE  /\ delivery[d] \in Live
           /\ \E to \in Live \cup {"ended"} : delivery' = [delivery EXCEPT ![d] = to]
           /\ again' \subseteq Deliveries
           /\ attempt' \in [Deliveries -> 0..MaxRetries]
           /\ retryCount' \in [Messages -> 0..MaxRetries]
           /\ calls' \in [Deliveries -> Nat]
           /\ \/ abandoned' = abandoned
              \/ abandoned' = abandoned \cup {d}
                 /\ delivery'[d] \in {"deadLetter", "ended"}
           /\ UNCHANGED <<publishVars, queue, subscribed, processVars, closer, late>>
  <1> DEFINE Ends == Live \cup {"ended"}
             Rest == <<publishVars, queue, subscribed, processVars, closer, late>>
  <1>1. (\E from \in Live, to \in Ends : Go(d, from, to)) /\ UNCHANGED Rest
    <2>1. /\ {"ready", "running", "deadLetter"} \subseteq Live
          /\ {"ready", "running", "deadLetter", "ended"} \subseteq Ends
      BY DEF Live
    <2> HIDE DEF Ends
    <2> QED
      BY <2>1 DEF Delivering, Answering, CallHandler, GiveUp, HandlerTimesOut,
           HandlerSucceeds, HandlerFails, StartAgain, DeadLetterReturns, Fail, Finish
  <1>2. /\ again' \subseteq Deliveries
        /\ attempt' \in [Deliveries -> 0..MaxRetries]
        /\ calls' \in [Deliveries -> Nat]
    <2>1. /\ again \subseteq Deliveries /\ calls \in [Deliveries -> Nat]
          /\ attempt \in [Deliveries -> 0..MaxRetries]
      BY DEF TypeOK
    <2>2. CASE attempt' = [attempt EXCEPT ![d] = 0] /\ calls' = [calls EXCEPT ![d] = 0]
               /\ again' = again \ {d}
      BY <2>1, <2>2, RetriesNat
    <2>3. CASE UNCHANGED <<attempt, again>> /\ calls' = [calls EXCEPT ![d] = @ + 1]
      BY <2>1, <2>3
    <2>4. CASE /\ attempt[d] < MaxRetries /\ UNCHANGED <<again, calls>>
               /\ attempt' = [attempt EXCEPT ![d] = @ + 1]
      BY <2>1, <2>4, RetriesNat
    <2>5. CASE /\ again' = again \cup {d} /\ UNCHANGED calls
               /\ attempt' = [attempt EXCEPT ![d] = 0]
      BY <2>1, <2>5, RetriesNat
    <2>6. CASE UNCHANGED <<again, attempt, calls>>
      BY <2>1, <2>6
    <2> QED
      BY <2>2, <2>3, <2>4, <2>5, <2>6
      DEF Delivering, Answering, CallHandler, GiveUp, HandlerTimesOut,
          HandlerSucceeds, HandlerFails, StartAgain, DeadLetterReturns, Fail, Finish
  <1>3. retryCount' \in [Messages -> 0..MaxRetries]
    <2>1. /\ d[1] \in Messages /\ attempt[d] \in 0..MaxRetries
          /\ retryCount \in [Messages -> 0..MaxRetries]
      BY DEF TypeOK, Deliveries
    <2>2. \/ retryCount' = retryCount
          \/ retryCount' = [retryCount EXCEPT ![d[1]] = attempt[d]]
      BY DEF Delivering, Answering, CallHandler, GiveUp, HandlerTimesOut,
           HandlerSucceeds, HandlerFails, StartAgain, DeadLetterReturns, Fail, Finish
    <2> QED
      BY <2>1, <2>2
  <1>4. \/ abandoned' = abandoned
        \/ abandoned' = abandoned \cup {d} /\ delivery'[d] \in {"deadLetter", "ended"}
    <2>1. CASE HandlerTimesOut(d)
      <3>1. delivery'[d] \in {"deadLetter", "ended"}
        BY <2>1 DEF HandlerTimesOut, Fail, Finish, Go, TypeOK
      <3> QED
        BY <2>1, <3>1 DEF HandlerTimesOut
    <2>2. CASE ~HandlerTimesOut(d)
      BY <2>2 DEF Delivering, Answering, CallHandler, GiveUp, HandlerSucceeds,
         HandlerFails, StartAgain, DeadLetterReturns
    <2> QED
      BY <2>1, <2>2
  <1> QED
    BY <1>1, <1>2, <1>3, <1>4 DEF Go

\* The steps that touch no message, and those of handlers that ran on.
Outside == \/ \E s \in Subs : Subscribe(s)
           \/ \E d \in Deliveries : HandlerReturns(d)
           \/ Close \/ Closing \/ CloseTimesOut \/ UNCHANGED vars

LEMMA OutsideSteps ==
    ASSUME TypeOK, Outside
    PROVE  /\ UNCHANGED <<publishVars, queue, processVars, late>>
           /\ UNCHANGED <<delivery, again, attempt, retryCount, calls>>
           /\ abandoned' \subseteq abandoned
           /\ subscribed' \subseteq Subs /\ closer' \in ClosePlaces
  BY DEF Outside, deliverVars, HandlerReturns, Subscribe, Close, Closing, CloseTimesOut, CloseTopic,
         CloseSubscriptions, AllStopped, CloseStep, TypeOK, ClosePlaces, vars

\* The processor drops the message it delivered.
LeaveMessage == DeliveriesDone \/ StopWaiting

LEMMA LeaveSteps ==
    ASSUME TypeOK, LeaveMessage
    PROVE  /\ processor' = "receive" /\ current' = {}
           /\ late \subseteq late' /\ late' \subseteq Messages
           /\ \A m \in current : InProgress(m) => m \in late'
           /\ UNCHANGED <<publishVars, queue, subscribed, todo, deliverVars, closer>>
  BY DEF LeaveMessage, DeliveriesDone, StopWaiting, NextMessage, TypeOK

LEMMA NextSteps ==
    ASSUME [Next]_vars
    PROVE  \/ \E m \in Messages : Publish(m) \/ Publishing(m)
           \/ \E d \in Deliveries :
                Delivering(d) \/ Answering(d) \/ DeadLetterReturns(d)
           \/ TakeMessage
           \/ \E m \in Messages, s \in Subs : StartDelivery(m, s)
           \/ StartWaiting \/ StopProcessor \/ LeaveMessage \/ Outside
  BY DEF Next, Processing, LeaveMessage, Outside

\* What taking the head of the queue leaves in it.
LEMMA TailKeeps ==
    ASSUME NEW S, NEW q \in Seq(S), q # <<>>
    PROVE  /\ Head(q) = q[1] /\ Head(q) \in S /\ 1 \in DOMAIN q
           /\ Tail(q) \in Seq(S) /\ Len(Tail(q)) = Len(q) - 1
           /\ \A i \in DOMAIN Tail(q) : i \in Nat /\ i + 1 \in DOMAIN q
                                        /\ Tail(q)[i] = q[i + 1]
  OBVIOUS

-----------------------------------------------------------------------------
(* The parts of the invariant, each through every step.                    *)

LEMMA InitIInv == Init => IInv
  <1> SUFFICES ASSUME Init PROVE IInv
    OBVIOUS
  <1>1. TypeOK
    <2>1. <<>> \in Seq(Messages) /\ Len(<<>>) <= BufferSize
      BY ConfigAssumption
    <2> QED
      BY <2>1, RetriesNat DEF Init, TypeOK, CallPlaces, ClosePlaces
  <1>2. OncePublished /\ OneCurrent
    BY DEF Init, OncePublished, OneCurrent
  <1>3. Untouched /\ Awaited
    BY DEF Init, Untouched, Awaited, Deliveries, Live
  <1>4. CallCount
    BY DEF Init, CallCount, CountOf
  <1>5. GivenUp
    BY DEF Init, GivenUp
  <1> QED
    BY <1>1, <1>2, <1>3, <1>4, <1>5 DEF IInv

LEMMA TypeStep == TypeOK /\ [Next]_vars => TypeOK'
  <1> SUFFICES ASSUME TypeOK, [Next]_vars PROVE TypeOK'
    OBVIOUS
  <1>1. ASSUME NEW m \in Messages, Publish(m) \/ Publishing(m) PROVE TypeOK'
    <2>1. call' \in [Messages -> CallPlaces]
      BY <1>1, PublishSteps DEF TypeOK
    <2>2. queue' \in Seq(Messages) /\ Len(queue') <= BufferSize
      <3>1. /\ queue \in Seq(Messages) /\ Len(queue) <= BufferSize
            /\ \/ queue' = queue
               \/ queue' = Append(queue, m) /\ Len(queue) < BufferSize
        BY <1>1, PublishSteps DEF TypeOK
      <3> QED
        BY <3>1, ConfigAssumption
    <2> QED
      BY <1>1, <2>1, <2>2, PublishSteps DEF TypeOK, processVars, deliverVars
  <1>2. ASSUME NEW d \in Deliveries,
               Delivering(d) \/ Answering(d) \/ DeadLetterReturns(d)
        PROVE  TypeOK'
    <2>1. delivery' \in [Deliveries -> Live \cup {"none", "ended"}]
      BY <1>2, DeliverSteps DEF TypeOK
    <2> QED
      BY <1>2, <2>1, DeliverSteps DEF TypeOK, publishVars, processVars
  <1>3. CASE TakeMessage
    <2>1. queue \in Seq(Messages) /\ Len(queue) <= BufferSize /\ queue # <<>>
      BY <1>3 DEF TakeMessage, TypeOK
    <2>2. queue' \in Seq(Messages) /\ Len(queue') <= BufferSize
          /\ Head(queue) \in Messages
      BY <1>3, <2>1, TailKeeps, ConfigAssumption DEF TakeMessage
    <2> QED
      BY <1>3, <2>2 DEF TakeMessage, TypeOK, publishVars, deliverVars
  <1>4. ASSUME NEW m \in Messages, NEW s \in Subs, StartDelivery(m, s)
        PROVE  TypeOK'
    <2>1. delivery' \in [Deliveries -> Live \cup {"none", "ended"}]
      BY <1>4 DEF StartDelivery, TypeOK, Live
    <2> QED
      BY <1>4, <2>1 DEF StartDelivery, TypeOK, publishVars
  <1>5. CASE StartWaiting \/ StopProcessor
    BY <1>5 DEF StartWaiting, StopProcessor, TypeOK, publishVars, deliverVars
  <1>6. CASE LeaveMessage
    BY <1>6, LeaveSteps DEF TypeOK, publishVars, deliverVars
  <1>7. CASE Outside
    BY <1>7, OutsideSteps DEF TypeOK, publishVars, processVars, deliverVars
  <1> QED
    BY <1>1, <1>2, <1>3, <1>4, <1>5, <1>6, <1>7, NextSteps

LEMMA OncePublishedStep ==
    ASSUME TypeOK, OncePublished, [Next]_vars
    PROVE  OncePublished'
  <1> USE DEF OncePublished
  <1>1. queue \in Seq(Messages) /\ current \subseteq Messages
        /\ call \in [Messages -> CallPlaces]
    BY DEF TypeOK
  <1>2. ASSUME NEW m \in Messages, Publish(m) \/ Publishing(m)
        PROVE  OncePublished'
    <2>1. current' = current /\ call[m] # "sent"
      BY <1>2, PublishSteps DEF processVars
    <2>2. PICK to \in CallPlaces :
            /\ call' = [call EXCEPT ![m] = to]
            /\ \/ to # "sent" /\ queue' = queue
               \/ to = "sent" /\ queue' = Append(queue, m)
      BY <1>2, PublishSteps
    <2>3. \A n \in Messages : call[n] = "sent" => n # m /\ call'[n] = "sent"
      BY <1>1, <2>1, <2>2
    <2>4. \A i \in DOMAIN queue : queue[i] \in Messages /\ queue[i] # m
      BY <1>1, <2>3
    <2>5. m \notin current
      BY <2>1
    <2>6. CASE queue' = queue
      BY <1>1, <2>1, <2>3, <2>4, <2>6
    <2>7. CASE to = "sent" /\ queue' = Append(queue, m)
      <3>1. call'[m] = "sent"
        BY <1>1, <2>2, <2>7
      <3>2. /\ DOMAIN queue' = DOMAIN queue \cup {Len(queue) + 1}
            /\ Len(queue) + 1 \notin DOMAIN queue
            /\ queue'[Len(queue) + 1] = m
            /\ \A i \in DOMAIN queue : queue'[i] = queue[i]
        BY <1>1, <2>7
      <3> QED
        BY <1>1, <2>1, <2>3, <2>4, <2>5, <3>1, <3>2
    <2> QED
      BY <2>2, <2>6, <2>7
  <1>3. CASE TakeMessage
    <2>1. /\ queue # <<>> /\ current' = {Head(queue)} /\ queue' = Tail(queue)
          /\ call' = call
      BY <1>3 DEF TakeMessage, publishVars
    <2>2. /\ Head(queue) = queue[1] /\ 1 \in DOMAIN queue
          /\ \A i \in DOMAIN Tail(queue) : /\ i \in Nat /\ i + 1 \in DOMAIN queue
                                          /\ Tail(queue)[i] = queue[i + 1]
      BY <1>1, <2>1, TailKeeps
    <2>3. \A i \in DOMAIN Tail(queue) : i + 1 # 1
      BY <1>1, <2>1, <2>2
    <2>4. \A i, j \in DOMAIN Tail(queue) : i + 1 = j + 1 => i = j
      BY <2>2
    <2> QED
      BY <2>1, <2>2, <2>3, <2>4
  <1>4. CASE LeaveMessage
    BY <1>4, LeaveSteps DEF publishVars
  <1>5. CASE \/ \E m \in Messages, s \in Subs : StartDelivery(m, s)
             \/ StartWaiting \/ StopProcessor \/ Outside
             \/ \E d \in Deliveries :
                  Delivering(d) \/ Answering(d) \/ DeadLetterReturns(d)
    <2>1. UNCHANGED <<queue, current, call>>
      BY <1>5, DeliverSteps, OutsideSteps
      DEF StartDelivery, StartWaiting, StopProcessor, publishVars, processVars
    <2> QED
      BY <2>1
  <1> QED
    BY <1>2, <1>3, <1>4, <1>5, NextSteps

LEMMA OneCurrentStep ==
    ASSUME TypeOK, OneCurrent, [Next]_vars
    PROVE  OneCurrent'
  <1> USE DEF OneCurrent
  <1>1. CASE TakeMessage
    BY <1>1 DEF TakeMessage
  <1>2. CASE StartWaiting \/ StopProcessor
    BY <1>2 DEF StartWaiting, StopProcessor
  <1>3. CASE LeaveMessage
    BY <1>3, LeaveSteps
  <1>4. CASE \/ \E m \in Messages : Publish(m) \/ Publishing(m)
             \/ \E d \in Deliveries :
                  Delivering(d) \/ Answering(d) \/ DeadLetterReturns(d)
             \/ \E m \in Messages, s \in Subs : StartDelivery(m, s)
             \/ Outside
    <2>1. UNCHANGED <<processor, current>>
      BY <1>4, PublishSteps, DeliverSteps, OutsideSteps DEF StartDelivery, processVars
    <2> QED
      BY <2>1
  <1> QED
    BY <1>1, <1>2, <1>3, <1>4, NextSteps

LEMMA UntouchedStep ==
    ASSUME TypeOK, OncePublished, Untouched, [Next]_vars
    PROVE  Untouched'
  <1> SUFFICES ASSUME NEW n \in Messages, NEW t \in Subs, Ahead(n, t)'
               PROVE  delivery'[n, t] = "none"
    BY DEF Untouched
  <1>1. Ahead(n, t) => delivery[n, t] = "none"
    BY DEF Untouched
  <1>2. /\ queue \in Seq(Messages) /\ <<n, t>> \in Deliveries
        /\ delivery \in [Deliveries -> Live \cup {"none", "ended"}]
    BY DEF TypeOK, Deliveries
  <1>3. ASSUME NEW m \in Messages, Publish(m) \/ Publishing(m)
        PROVE  delivery'[n, t] = "none"
    <2>1. /\ UNCHANGED <<delivery, current, todo>>
          /\ call[m] # "sent"
          /\ n # m => call'[n] = call[n]
          /\ queue' = queue \/ queue' = Append(queue, m)
      BY <1>3, PublishSteps DEF deliverVars, processVars, TypeOK
    <2>2. n # m /\ InQueue(n)' => InQueue(n)
      BY <1>2, <2>1 DEF InQueue
    <2>3. Ahead(n, t)
      BY <2>1, <2>2 DEF Ahead
    <2> QED
      BY <1>1, <2>1, <2>3
  <1>4. ASSUME NEW d \in Deliveries,
               Delivering(d) \/ Answering(d) \/ DeadLetterReturns(d)
        PROVE  delivery'[n, t] = "none"
    <2>1. /\ UNCHANGED <<call, queue, current, todo>>
          /\ delivery[d] # "none"
          /\ \E to : delivery' = [delivery EXCEPT ![d] = to]
      BY <1>4, DeliverSteps DEF processVars, publishVars, Live
    <2>2. Ahead(n, t)
      BY <2>1 DEF Ahead, InQueue
    <2> QED
      BY <1>1, <1>2, <2>1, <2>2
  <1>5. CASE TakeMessage
    <2>1. /\ queue # <<>> /\ current' = {Head(queue)} /\ queue' = Tail(queue)
          /\ UNCHANGED <<call, delivery>>
      BY <1>5 DEF TakeMessage, publishVars, deliverVars
    <2>2. /\ Head(queue) = queue[1] /\ 1 \in DOMAIN queue
          /\ \A i \in DOMAIN Tail(queue) : /\ i \in Nat /\ i + 1 \in DOMAIN queue
                                          /\ Tail(queue)[i] = queue[i + 1]
      BY <1>2, <2>1, TailKeeps
    <2>3. Ahead(n, t)
      BY <2>1, <2>2 DEF Ahead, InQueue
    <2> QED
      BY <1>1, <2>1, <2>3
  <1>6. ASSUME NEW m \in Messages, NEW s \in Subs, StartDelivery(m, s)
        PROVE  delivery'[n, t] = "none"
    <2>1. /\ UNCHANGED <<call, queue, current>>
          /\ m \in current /\ todo' = todo \ {s}
          /\ delivery' = delivery \/ delivery' = [delivery EXCEPT ![<<m, s>>] = "ready"]
      BY <1>6 DEF StartDelivery, publishVars
    <2>2. <<n, t>> # <<m, s>>
      BY <2>1 DEF Ahead, InQueue, OncePublished
    <2>3. Ahead(n, t)
      BY <2>1 DEF Ahead, InQueue
    <2> QED
      BY <1>1, <1>2, <2>1, <2>2, <2>3
  <1>7. CASE StartWaiting \/ StopProcessor \/ LeaveMessage \/ Outside
    <2>1. /\ UNCHANGED <<call, queue, todo, delivery>>
          /\ current' = {} \/ current' = current
      BY <1>7, LeaveSteps, OutsideSteps
      DEF StartWaiting, StopProcessor, publishVars, processVars, deliverVars
    <2>2. Ahead(n, t)
      BY <2>1 DEF Ahead, InQueue
    <2> QED
      BY <1>1, <2>1, <2>2
  <1> QED
    BY <1>3, <1>4, <1>5, <1>6, <1>7, NextSteps

LEMMA AwaitedStep ==
    ASSUME TypeOK, OneCurrent, Awaited, [Next]_vars
    PROVE  Awaited'
  <1> SUFFICES ASSUME NEW n \in Messages, NEW t \in Subs, delivery'[n, t] \in Live
               PROVE  n \in late' \/ n \in current'
    BY DEF Awaited
  <1>1. delivery[n, t] \in Live => n \in late \/ n \in current
    BY DEF Awaited
  <1>2. <<n, t>> \in Deliveries /\ delivery \in [Deliveries -> Live \cup {"none", "ended"}]
    BY DEF TypeOK, Deliveries
  <1>3. ASSUME NEW d \in Deliveries,
               Delivering(d) \/ Answering(d) \/ DeadLetterReturns(d)
        PROVE  n \in late' \/ n \in current'
    <2>1. /\ UNCHANGED <<current, late>> /\ delivery[d] \in Live
          /\ \E to : delivery' = [delivery EXCEPT ![d] = to]
      BY <1>3, DeliverSteps DEF processVars
    <2> QED
      BY <1>1, <1>2, <2>1
  <1>4. CASE TakeMessage
    <2>1. current = {} /\ UNCHANGED <<delivery, late>>
      BY <1>4 DEF TakeMessage, OneCurrent, deliverVars
    <2> QED
      BY <1>1, <2>1
  <1>5. ASSUME NEW m \in Messages, NEW s \in Subs, StartDelivery(m, s)
        PROVE  n \in late' \/ n \in current'
    <2>1. /\ UNCHANGED <<current, late>> /\ m \in current
          /\ delivery' = delivery \/ delivery' = [delivery EXCEPT ![<<m, s>>] = "ready"]
      BY <1>5 DEF StartDelivery
    <2> QED
      BY <1>1, <1>2, <2>1
  <1>6. CASE LeaveMessage
    <2>1. /\ delivery' = delivery /\ late \subseteq late'
          /\ \A m \in current : InProgress(m) => m \in late'
      BY <1>6, LeaveSteps DEF deliverVars
    <2> QED
      BY <1>1, <2>1 DEF InProgress
  <1>7. CASE \/ \E m \in Messages : Publish(m) \/ Publishing(m)
             \/ StartWaiting \/ StopProcessor \/ Outside
    <2>1. UNCHANGED <<current, late, delivery>>
      BY <1>7, PublishSteps, OutsideSteps
      DEF StartWaiting, StopProcessor, processVars, deliverVars
    <2> QED
      BY <1>1, <2>1
  <1> QED
    BY <1>3, <1>4, <1>5, <1>6, <1>7, NextSteps

\* The count of one delivery, when its own books change and when they do not.
LEMMA CallCountStep ==
    ASSUME TypeOK, Untouched, CallCount, [Next]_vars
    PROVE  CallCount'
  <1> USE RetriesNat
  <1>0. /\ delivery \in [Deliveries -> Live \cup {"none", "ended"}]
        /\ attempt \in [Deliveries -> 0..MaxRetries] /\ calls \in [Deliveries -> Nat]
        /\ again \subseteq Deliveries
    BY DEF TypeOK
  <1>1. CountOf(delivery, attempt, calls, again)
    BY DEF CallCount
  <1> SUFFICES CountOf(delivery', attempt', calls', again')
    BY DEF CallCount
  <1>2. ASSUME NEW d \in Deliveries,
               Delivering(d) \/ Answering(d) \/ DeadLetterReturns(d)
        PROVE  CountOf(delivery', attempt', calls', again')
    <2>1. ASSUME NEW to \in {"ended", "deadLetter"},
                 \E from : Finish(d, from, to)
          PROVE  CountOf(delivery', attempt', calls', again')
      BY <1>0, <1>1, <2>1 DEF Finish, Go, CountOf, Live
    <2>2. CASE CallHandler(d)
      BY <1>0, <1>1, <2>2 DEF CallHandler, Go, CountOf, Live
    <2>3. CASE \E from : Fail(d, from)
      BY <2>1, <2>3 DEF Fail
    <2>4. CASE GiveUp(d)
      BY <2>1, <2>3, <2>4 DEF GiveUp
    <2>5. CASE HandlerTimesOut(d)
      BY <2>3, <2>5 DEF HandlerTimesOut
    <2>6. CASE HandlerSucceeds(d)
      BY <2>1, <2>6 DEF HandlerSucceeds
    <2>7. CASE HandlerFails(d)
      <3>1. CASE /\ Go(d, "running", "ready") /\ attempt[d] < MaxRetries
                 /\ attempt' = [attempt EXCEPT ![d] = @ + 1]
                 /\ UNCHANGED <<again, calls>>
        BY <1>0, <1>1, <3>1 DEF Go, CountOf, Live
      <3> QED
        BY <2>3, <2>7, <3>1 DEF HandlerFails
    <2>8. CASE StartAgain(d)
      BY <1>0, <1>1, <2>8 DEF StartAgain, Go, CountOf, Live
    <2>9. CASE DeadLetterReturns(d)
      BY <1>0, <1>1, <2>9 DEF DeadLetterReturns, Go, CountOf, Live
    <2> QED
      BY <1>2, <2>2, <2>4, <2>5, <2>6, <2>7, <2>8, <2>9 DEF Delivering, Answering
  <1>3. ASSUME NEW m \in Messages, NEW s \in Subs, StartDelivery(m, s)
        PROVE  CountOf(delivery', attempt', calls', again')
    <2>1. /\ UNCHANGED <<attempt, calls, again>>
          /\ m \in current /\ s \in todo
          /\ delivery' = delivery \/ delivery' = [delivery EXCEPT ![<<m, s>>] = "ready"]
      BY <1>3 DEF StartDelivery
    <2>2. delivery[m, s] = "none"
      BY <2>1 DEF Untouched, Ahead
    <2>3. /\ attempt[<<m, s>>] = 0 /\ calls[<<m, s>>] = 0 /\ <<m, s>> \notin again
          /\ <<m, s>> \in Deliveries
      BY <1>1, <2>2 DEF CountOf, Deliveries
    <2>4. \A d \in Deliveries : d # <<m, s>> => delivery'[d] = delivery[d]
      BY <1>0, <2>1
    <2>5. delivery'[<<m, s>>] \in {"none", "ready"}
      BY <1>0, <2>1, <2>2, <2>3
    <2> QED
      BY <1>1, <2>1, <2>3, <2>4, <2>5 DEF CountOf
  <1>4. CASE \/ \E m \in Messages : Publish(m) \/ Publishing(m)
             \/ TakeMessage \/ StartWaiting \/ StopProcessor \/ LeaveMessage
             \/ Outside
    <2>1. UNCHANGED <<delivery, attempt, calls, again>>
      BY <1>4, PublishSteps, LeaveSteps, OutsideSteps
      DEF TakeMessage, StartWaiting, StopProcessor, deliverVars
    <2> QED
      BY <1>1, <2>1
  <1> QED
    BY <1>2, <1>3, <1>4, NextSteps

LEMMA GivenUpStep ==
    ASSUME TypeOK, Untouched, GivenUp, [Next]_vars
    PROVE  GivenUp'
  <1> USE DEF GivenUp
  <1>0. /\ delivery \in [Deliveries -> Live \cup {"none", "ended"}]
        /\ abandoned \subseteq Deliveries
    BY DEF TypeOK
  <1>1. ASSUME NEW d \in Deliveries,
               Delivering(d) \/ Answering(d) \/ DeadLetterReturns(d)
        PROVE  GivenUp'
    <2>1. PICK to \in Live \cup {"ended"} : delivery' = [delivery EXCEPT ![d] = to]
      BY <1>1, DeliverSteps
    <2>2. CASE abandoned' = abandoned \cup {d} /\ delivery'[d] \in {"deadLetter", "ended"}
      BY <1>0, <2>1, <2>2
    <2>3. CASE abandoned' = abandoned /\ d \notin abandoned
      BY <1>0, <2>1, <2>3
    <2>4. CASE abandoned' = abandoned /\ d \in abandoned
      <3>1. DeadLetterReturns(d)
        BY <1>1, <2>4 DEF Delivering, Answering, CallHandler, GiveUp, HandlerTimesOut,
           HandlerSucceeds, HandlerFails, StartAgain, Fail, Finish, Go
      <3>2. delivery'[d] = "ended"
        BY <1>0, <3>1 DEF DeadLetterReturns, Go
      <3> QED
        BY <1>0, <2>1, <2>4, <3>2
    <2> QED
      BY <1>1, <2>2, <2>3, <2>4, DeliverSteps
  <1>2. ASSUME NEW m \in Messages, NEW s \in Subs, StartDelivery(m, s)
        PROVE  GivenUp'
    <2>1. /\ abandoned' = abandoned
          /\ m \in current /\ s \in todo
          /\ delivery' = delivery \/ delivery' = [delivery EXCEPT ![<<m, s>>] = "ready"]
      BY <1>2 DEF StartDelivery
    <2>2. delivery[<<m, s>>] = "none"
      BY <2>1 DEF Untouched, Ahead
    <2>3. <<m, s>> \notin abandoned
      BY <2>2
    <2> QED
      BY <1>0, <2>1, <2>3
  <1>3. CASE \/ \E m \in Messages : Publish(m) \/ Publishing(m)
             \/ TakeMessage \/ StartWaiting \/ StopProcessor \/ LeaveMessage
             \/ Outside
    <2>1. delivery' = delivery /\ abandoned' \subseteq abandoned
      BY <1>3, PublishSteps, LeaveSteps, OutsideSteps
      DEF TakeMessage, StartWaiting, StopProcessor, deliverVars
    <2> QED
      BY <2>1
  <1> QED
    BY <1>1, <1>2, <1>3, NextSteps

LEMMA Invariance == Spec => []IInv
  <1>1. IInv /\ [Next]_vars => IInv'
    BY TypeStep, OncePublishedStep, UntouchedStep, OneCurrentStep, AwaitedStep,
       CallCountStep, GivenUpStep DEF IInv
  <1> QED
    BY InitIInv, <1>1, PTL DEF Spec

-----------------------------------------------------------------------------
\* Every variable keeps its type: among others, the channel of the topic never
\* holds more than BufferSize messages, and no loop counts past MaxRetries.
THEOREM TypeCorrect == Spec => []TypeOK
  <1>1. IInv => TypeOK
    BY DEF IInv
  <1> QED
    BY <1>1, Invariance, PTL

\* deliverWithRetry calls a handler at most MaxRetries + 1 times for a message,
\* and once more as often only after an error that passes for the breaker's;
\* and never for a message whose Publish has not succeeded.
THEOREM HandlerCallsBounded == Spec => []HandlerCalls
  <1>1. IInv => HandlerCalls
    <2> SUFFICES ASSUME IInv, NEW d \in Deliveries
                 PROVE  /\ calls[d] > 0 => call[d[1]] = "sent"
                        /\ calls[d] <= IF d \in again THEN 2 * (MaxRetries + 1)
                                                      ELSE MaxRetries + 1
      BY DEF HandlerCalls
    <2>1. attempt[d] \in 0..MaxRetries /\ calls[d] \in Nat
      BY DEF IInv, TypeOK
    <2>2. PICK m \in Messages, s \in Subs : d = <<m, s>>
      BY DEF Deliveries
    <2>3. call[m] # "sent" => delivery[d] = "none"
      BY <2>2 DEF IInv, Untouched, Ahead
    <2>4. delivery[d] \notin {"ready", "running"} => calls[d] = 0
      BY DEF IInv, CallCount, CountOf
    <2>5. calls[d] <= attempt[d] + (IF d \in again THEN MaxRetries + 1 ELSE 0) + 1
      BY <2>1, RetriesNat DEF IInv, CallCount, CountOf
    <2>6. d[1] = m
      BY <2>2
    <2>7. calls[d] > 0 => call[d[1]] = "sent"
      BY <2>3, <2>4, <2>6
    <2>8. calls[d] <= IF d \in again THEN 2 * (MaxRetries + 1) ELSE MaxRetries + 1
      BY <2>1, <2>5, RetriesNat
    <2> QED
      BY <2>7, <2>8
  <1> QED
    BY <1>1, Invariance, PTL

\* deliverMessageToSubscribers waits for its goroutines: a subscription is given
\* two messages at once only if the wait for one of them was given up.  Nothing
\* waits for the handler of a delivery that timed out, but deliverWithRetry does
\* not call it again for the message it still has.
THEOREM OneAtATimeHolds == Spec => []OneAtATime
  <1>1. IInv => OneAtATime
    BY DEF IInv, OneCurrent, Awaited, GivenUp, OneAtATime
  <1> QED
    BY <1>1, Invariance, PTL
=============================================================================
