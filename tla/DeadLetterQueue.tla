-------------------------- MODULE DeadLetterQueue --------------------------
(***************************************************************************)
(* The dead-letter queue of deadletter.go.                                 *)
(*                                                                         *)
(* An operation is also the goroutine that adds it.  The map dlq.queue is  *)
(* the set of the IDs in it; the pointers travel through workerChan.       *)
(* Handlers decide and succeed as they like, and return.  The counters are *)
(* enabled; two additions made one after the other are one step.           *)
(***************************************************************************)
EXTENDS Integers, Sequences, FiniteSets

CONSTANTS Ops,          \* calls of AddFailedOperation
          SameID,       \* the operations that carry one and the same ID
          NoOp,         \* the nil operation
          Workers, QueueSize, MaxRetries,
          Events        \* what else may happen: "Clear" (ClearQueue), "Probe"
                        \* (IsHealthy), "Close", "Force" (its 5 s pass)

ASSUME ConfigAssumption ==
    /\ NoOp \notin Ops /\ SameID \subseteq Ops
    /\ QueueSize \in Nat \ {0} /\ MaxRetries \in Nat

VARIABLES
    stage,      \* where each AddFailedOperation is
    queue,      \* the IDs in dlq.queue
    chan,       \* workerChan
    retries,    \* operation.RetryCount
    pc,         \* where each worker is
    holds,      \* the operation it processes
    total,      \* TotalSucceeded and TotalDropped
    current,    \* CurrentQueue
    clearing,   \* ClearQueue has emptied the map and not reset CurrentQueue
    prober,     \* where IsHealthy is
    closer,     \* where Close is
    crashed,    \* who ended the process with a panic nothing recovered, or "no"
    lost,       \* ghost: operations that IsHealthy took out of workerChan
    cleared,    \* ghost: operations that ClearQueue took out of the map
    forgotten,  \* ghost: the operations in flight when it reset CurrentQueue
    forced      \* ghost: Close closed workerChan under a worker

addVars    == <<stage>>
workerVars == <<pc, holds, retries>>
countVars  == <<total, current>>
ghosts     == <<lost, cleared, forgotten, forced>>
otherVars  == <<clearing, prober, closer, crashed, ghosts>>
vars == <<addVars, queue, chan, workerVars, countVars, otherVars>>

ID(op)  == IF op \in SameID THEN SameID ELSE {op}
Closing == closer # "open"      \* dlq.closed, and dlq.ctx is done
Closed  == closer = "closed"    \* workerChan is closed
Full    == Len(chan) = QueueSize

Step(op, from, to) == stage[op] = from /\ stage' = [stage EXCEPT ![op] = to]
Move(w, from, to) == pc[w] = from /\ pc' = [pc EXCEPT ![w] = to]

Init == /\ stage = [op \in Ops |-> "new"]
        /\ queue = {}
        /\ chan = <<>>
        /\ retries = [op \in Ops |-> 0]
        /\ pc = [w \in Workers |-> "idle"]
        /\ holds = [w \in Workers |-> NoOp]
        /\ total = [succeeded |-> 0, dropped |-> 0]
        /\ current = 0
        /\ clearing = FALSE /\ prober = "idle" /\ closer = "open" /\ crashed = "no"
        /\ lost = {} /\ cleared = {} /\ forgotten = 0 /\ forced = FALSE

-----------------------------------------------------------------------------
(* AddFailedOperation                                                      *)

CheckClosed(op) ==
    /\ Step(op, "new", IF Closing THEN "refused" ELSE "checked")
    /\ UNCHANGED <<queue, chan, workerVars, countVars, otherVars>>

Insert(op) ==
    /\ Step(op, "checked", "inserted")
    /\ queue' = queue \cup {ID(op)}
    /\ UNCHANGED <<chan, workerVars, countVars, otherVars>>

Count(op) ==
    /\ Step(op, "inserted", "counted")
    /\ current' = current + 1
    /\ UNCHANGED <<queue, chan, workerVars, total, otherVars>>

\* A send on the closed channel panics in a caller: unless the caller's own code
\* recovers that, the process is gone.
CallerPanics == Closed /\ crashed' \in {"no", "caller"} /\ UNCHANGED chan

Send(op) ==
    /\ \/ CallerPanics /\ Step(op, "counted", "panicked")
       \/ /\ ~Closed /\ ~Full
          /\ Step(op, "counted", "sent")
          /\ chan' = Append(chan, op)
          /\ UNCHANGED crashed
    /\ UNCHANGED <<queue, workerVars, countVars, clearing, prober, closer, ghosts>>

\* 100 ms passed and the channel is still full.
SendTimesOut(op) ==
    /\ ~Closed /\ Full
    /\ Step(op, "counted", "overflowed")
    /\ queue' = queue \ {ID(op)}
    /\ UNCHANGED <<chan, workerVars, countVars, otherVars>>

Uncount(op) ==
    /\ Step(op, "overflowed", "refused")
    /\ current' = current - 1
    /\ UNCHANGED <<queue, chan, workerVars, total, otherVars>>

-----------------------------------------------------------------------------
(* worker and processOperation                                             *)

\* The receive, and the check of closed; a nil operation is skipped.
Receive(w) ==
    /\ pc[w] = "idle" /\ chan # <<>>
    /\ chan' = Tail(chan)
    /\ IF Head(chan) = NoOp
       THEN UNCHANGED <<pc, holds>>
       ELSE /\ Move(w, "idle", IF Closing THEN "dropping" ELSE "waiting")
            /\ holds' = [holds EXCEPT ![w] = Head(chan)]
    /\ UNCHANGED <<addVars, queue, retries, countVars, otherVars>>

\* Not the code: a worker looks at the context only when there is work.
StopOnWork(w) ==
    /\ Closing /\ chan # <<>>
    /\ Move(w, "idle", "exited")
    /\ UNCHANGED <<addVars, queue, chan, holds, retries, countVars, otherVars>>

Stop(w) ==
    /\ Closing
    /\ Move(w, "idle", "exited")
    /\ UNCHANGED <<addVars, queue, chan, holds, retries, countVars, otherVars>>

\* The context ended the wait, there is no handler, or it rejects the retry.
Decline(w) ==
    /\ Move(w, "waiting", "dropping")
    /\ UNCHANGED <<addVars, queue, chan, holds, retries, countVars, otherVars>>

\* NextRetry has come and the handler agrees.
StartRetry(w) ==
    /\ Move(w, "waiting", "retrying")
    /\ retries[holds[w]] < MaxRetries
    /\ retries' = [retries EXCEPT ![holds[w]] = @ + 1]
    /\ UNCHANGED <<addVars, queue, chan, holds, countVars, otherVars>>

\* Not the code: the map forgets the operation whatever the outcome.
RetryForgets(w) ==
    /\ \E to \in {"succeeding", "requeueing"} : Move(w, "retrying", to)
    /\ queue' = queue \ {ID(holds[w])}
    /\ UNCHANGED <<addVars, chan, holds, retries, countVars, otherVars>>

RetryEnds(w) ==
    /\ \E to \in {"succeeding", "requeueing"} : Move(w, "retrying", to)
    /\ UNCHANGED <<addVars, queue, chan, holds, retries, countVars, otherVars>>

\* Not the code: the worker requeues the operation and tries it again itself.
RequeueAndKeep(w) ==
    /\ ~Closed /\ ~Full
    /\ Move(w, "requeueing", "waiting")
    /\ chan' = Append(chan, holds[w])
    /\ UNCHANGED <<addVars, queue, holds, retries, countVars, otherVars>>

Requeue(w) ==
    /\ ~Closed /\ ~Full
    /\ Move(w, "requeueing", "idle")
    /\ chan' = Append(chan, holds[w])
    /\ holds' = [holds EXCEPT ![w] = NoOp]
    /\ UNCHANGED <<addVars, queue, retries, countVars, otherVars>>

\* Not the code: after its timeout the worker goes on without dropping.
RequeueForgets(w) ==
    /\ ~Closed /\ Full
    /\ Move(w, "requeueing", "idle")
    /\ holds' = [holds EXCEPT ![w] = NoOp]
    /\ UNCHANGED <<addVars, queue, chan, retries, countVars, otherVars>>

\* Not the code: a send without a timeout.
RequeueBlocks(w) == Closed /\ ~Closed /\ UNCHANGED vars

RequeueTimesOut(w) ==
    /\ ~Closed /\ Full
    /\ Move(w, "requeueing", "dropping")
    /\ UNCHANGED <<addVars, queue, chan, holds, retries, countVars, otherVars>>

\* Nothing recovers a worker's panic.
RequeuePanics(w) ==
    /\ Closed
    /\ pc[w] = "requeueing"
    /\ crashed' = "worker"
    /\ UNCHANGED <<addVars, queue, chan, workerVars, countVars,
                   clearing, prober, closer, ghosts>>

\* succeedOperation and dropOperation: the map first, then the counters.
Remove(w) ==
    /\ Move(w, "succeeding", "succeeded") \/ Move(w, "dropping", "dropped")
    /\ queue' = queue \ {ID(holds[w])}
    /\ UNCHANGED <<addVars, chan, holds, retries, countVars, otherVars>>

\* Not the code: a dropped operation stays in the gauge.
CountSuccess(w) ==
    /\ pc[w] \in {"succeeded", "dropped"}
    /\ total' = [total EXCEPT ![pc[w]] = @ + 1]
    /\ current' = IF pc[w] = "succeeded" THEN current - 1 ELSE current
    /\ Move(w, pc[w], "idle")
    /\ holds' = [holds EXCEPT ![w] = NoOp]
    /\ UNCHANGED <<addVars, queue, chan, retries, otherVars>>

CountEnd(w) ==
    /\ pc[w] \in {"succeeded", "dropped"}
    /\ total' = [total EXCEPT ![pc[w]] = @ + 1]
    /\ current' = current - 1
    /\ Move(w, pc[w], "idle")
    /\ holds' = [holds EXCEPT ![w] = NoOp]
    /\ UNCHANGED <<addVars, queue, chan, retries, otherVars>>

-----------------------------------------------------------------------------
(* ClearQueue and IsHealthy                                                *)

InChannel(op) == \E i \in 1..Len(chan) : chan[i] = op
Held(op) == \E w \in Workers : holds[w] = op

\* The operations that AddFailedOperation has counted and not sent, those that
\* were sent and have no end yet, and those that have one.
Offered  == {op \in Ops : stage[op] \in {"counted", "overflowed", "panicked"}}
Owed     == {op \in Ops : InChannel(op) \/ Held(op) \/ op \in lost}
Resolved == {op \in Ops \ Owed : stage[op] = "sent"}

\* The operations that have been added to CurrentQueue and not taken back.
InFlight == Offered \cup Owed

ClearMap ==
    /\ "Clear" \in Events
    /\ ~clearing
    /\ queue' = {}
    /\ clearing' = TRUE
    /\ cleared' = cleared \cup {op \in Ops : ID(op) \in queue}
    /\ UNCHANGED <<addVars, chan, workerVars, countVars, prober, closer, crashed,
                   lost, forgotten, forced>>

ClearGauge ==
    /\ clearing
    /\ current' = 0
    /\ clearing' = FALSE
    /\ forgotten' = Cardinality(InFlight)
    /\ UNCHANGED <<addVars, queue, chan, workerVars, total, prober, closer, crashed,
                   lost, cleared, forced>>

Ask ==
    /\ "Probe" \in Events
    /\ prober = "idle" /\ ~Closing
    /\ prober' = "asking"
    /\ UNCHANGED <<addVars, queue, chan, workerVars, countVars,
                   clearing, closer, crashed, ghosts>>

\* The nil operation is sent, or the channel is full: unhealthy.
SendNil ==
    /\ prober = "asking"
    /\ \/ CallerPanics /\ prober' = "panicked"
       \/ /\ ~Closed /\ UNCHANGED crashed
          /\ \/ ~Full /\ prober' = "sent" /\ chan' = Append(chan, NoOp)
             \/ Full /\ prober' = "idle" /\ UNCHANGED chan
    /\ UNCHANGED <<addVars, queue, workerVars, countVars, clearing, closer, ghosts>>

\* "Remove the nil operation": whatever is first in the channel.
RemoveNil ==
    /\ prober = "sent"
    /\ prober' = "idle"
    /\ chan' = IF chan = <<>> THEN chan ELSE Tail(chan)
    /\ lost' = lost \cup (IF chan = <<>> THEN {} ELSE {Head(chan)} \ {NoOp})
    /\ UNCHANGED <<addVars, queue, workerVars, countVars,
                   clearing, closer, crashed, cleared, forgotten, forced>>

-----------------------------------------------------------------------------
(* Close                                                                   *)

Close ==
    /\ "Close" \in Events
    /\ closer = "open"
    /\ closer' = "closing"
    /\ UNCHANGED <<addVars, queue, chan, workerVars, countVars,
                   clearing, prober, crashed, ghosts>>

\* Not the code: Close does not wait.
CloseAtOnce ==
    /\ closer = "closing"
    /\ closer' = "closed"
    /\ UNCHANGED <<addVars, queue, chan, workerVars, countVars,
                   clearing, prober, crashed, ghosts>>

\* The workers have stopped, or 5 seconds have passed.
CloseChannel ==
    /\ closer = "closing"
    /\ closer' = "closed"
    /\ \/ (\A w \in Workers : pc[w] = "exited") /\ UNCHANGED forced
       \/ "Force" \in Events /\ forced' = TRUE
    /\ UNCHANGED <<addVars, queue, chan, workerVars, countVars,
                   clearing, prober, crashed, lost, cleared, forgotten>>

-----------------------------------------------------------------------------
AddStep(op) == Insert(op) \/ Count(op) \/ Send(op) \/ SendTimesOut(op) \/ Uncount(op)

WorkerStep(w) == \/ Receive(w) \/ Stop(w) \/ Decline(w) \/ StartRetry(w)
                 \/ RetryEnds(w) \/ Requeue(w) \/ RequeueTimesOut(w)
                 \/ RequeuePanics(w) \/ Remove(w) \/ CountEnd(w)

Next == /\ crashed = "no"
        /\ \/ \E op \in Ops : CheckClosed(op) \/ AddStep(op)
           \/ \E w \in Workers : WorkerStep(w)
           \/ ClearMap \/ ClearGauge
           \/ Ask \/ SendNil \/ RemoveNil
           \/ Close \/ CloseChannel

Spec == Init /\ [][Next]_vars

\* Goroutines run and handlers return (their context has a timeout); Close
\* waits at most 5 seconds.  Nobody need add, clear, probe or close.
FairSpec == /\ Spec
            /\ \A w \in Workers : WF_vars(WorkerStep(w))
            /\ \A op \in Ops : WF_vars(AddStep(op))
            /\ WF_vars(CloseChannel)

-----------------------------------------------------------------------------
(* Properties                                                              *)

\* Every variable holds a value of its type.
TypeOK == /\ stage \in [Ops -> {"new", "checked", "inserted", "counted", "sent",
                                "overflowed", "refused", "panicked"}]
          /\ queue \subseteq {ID(op) : op \in Ops}
          /\ chan \in Seq(Ops \cup {NoOp}) /\ Len(chan) <= QueueSize
          /\ retries \in [Ops -> 0..MaxRetries]
          /\ pc \in [Workers -> {"idle", "waiting", "retrying", "requeueing", "succeeding",
                                 "dropping", "succeeded", "dropped", "exited"}]
          /\ holds \in [Workers -> Ops \cup {NoOp}]
          /\ total \in [{"succeeded", "dropped"} -> Nat] /\ current \in Int
          /\ clearing \in BOOLEAN /\ crashed \in {"no", "worker", "caller"}
          /\ prober \in {"idle", "asking", "sent", "panicked"}
          /\ closer \in {"open", "closing", "closed"}
          /\ lost \subseteq Ops /\ cleared \subseteq Ops
          /\ forgotten \in Nat /\ forced \in BOOLEAN

\* An operation is never at two workers, nor at one and in the channel, nor
\* twice in the channel: its RetryCount has no lock (deadletter.go:327).
OneOwner ==
    \A op \in Ops :
        Cardinality({w \in Workers : holds[w] = op})
        + Cardinality({i \in 1..Len(chan) : chan[i] = op}) <= 1

\* CurrentQueue is the number of operations between AddFailedOperation and their
\* end, less those ClearQueue made it forget, and every operation that left has
\* been counted as succeeded or dropped, whatever requeues, full channels and
\* shutdown happened.
GaugeExact ==
    /\ current + forgotten = Cardinality(InFlight)
    /\ total.succeeded + total.dropped = Cardinality(Resolved)

\* GetQueue lists every operation that a handler retries or may still retry, but
\* those ClearQueue removed; these are retried all the same.
RetriedIsListed ==
    \A op \in Ops : InChannel(op) \/ (\E w \in Workers : holds[w] = op /\
                       pc[w] \in {"waiting", "retrying", "requeueing"})
        => ID(op) \in queue \/ op \in cleared

\* IsHealthy takes out of the channel only the nil operation it put in
\* (deadletter.go:482 "Remove the nil operation").
ProbeTakesNil ==
    [][prober = "sent" /\ prober' = "idle" /\ chan' # chan => Head(chan) = NoOp]_vars

\* After a Close that waited for the workers none of them meets the closed
\* channel, where its panic would end the process (deadletter.go:516 "graceful
\* shutdown"); after one that gave up waiting a worker may.  Callers may in both
\* cases: an AddFailedOperation or IsHealthy that found the queue open sends
\* whenever it gets there, and nothing in the library recovers its panic.
NoWorkerCrash == crashed = "worker" => forced

\* Whatever happens between the channel, the workers, IsHealthy, ClearQueue and
\* Close, an operation that AddFailedOperation accepted is not turned away later,
\* does not vanish, and gets one end, which is counted in the same step and not
\* taken back; one that was turned away never gets to a worker.
Promise == INSTANCE Ledger
             WITH offered <- Offered, owed <- Owed, resolved <- Resolved, count <- total

ImplementsLedger == Promise!Spec

\* An operation in the channel is retried until it succeeds or is dropped, if
\* the queue stays open and no probe takes it: workers that requeue into a full
\* channel do not block each other for ever (deadletter.go:362).
Resolves ==
    \A op \in Ops : InChannel(op) ~> op \notin InFlight \/ Closing \/ op \in lost

\* Close returns and no worker is left, however long handlers take to fail, or a
\* panic has ended the process before.
CloseStops == Closing ~> crashed # "no" \/ (Closed /\ \A w \in Workers : pc[w] = "exited")
=============================================================================
