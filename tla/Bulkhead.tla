------------------------------ MODULE Bulkhead ------------------------------
(***************************************************************************)
(* The bulkhead of bulkhead.go.                                            *)
(*                                                                         *)
(* Two buffered channels hold one token per call: semaphore for the calls  *)
(* that may run, queue for those that wait.  Each goroutine in Execute is  *)
(* a caller with a program counter, one step per channel operation or per  *)
(* access to CurrentConcurrentCalls.  Close is a goroutine of its own.     *)
(* A send on a closed channel panics: the caller stays at "panicked".      *)
(***************************************************************************)
EXTENDS Integers, FiniteSets

CONSTANTS Callers,              \* goroutines that call Execute or ExecuteAsync
          MaxConcurrentCalls,   \* capacity of semaphore
          MaxQueueSize,         \* capacity of queue
          Controls              \* what may happen besides calls: "Close",
                                \* "Force" (its 30 s pass), "ResetMetrics"

ASSUME ConfigAssumption ==
    /\ IsFiniteSet(Callers)
    /\ MaxConcurrentCalls \in Nat \ {0}
    /\ MaxQueueSize \in Nat \ {0}
    /\ Controls \subseteq {"Close", "Force", "ResetMetrics"}

VARIABLES
    semaphore,   \* tokens in b.semaphore
    queue,       \* tokens in b.queue
    concurrent,  \* b.metrics.CurrentConcurrentCalls
    pc,          \* where each caller is
    closer,      \* where Close is
    forgotten    \* ghost: the counted calls at the last ResetMetrics

vars == <<semaphore, queue, concurrent, pc, closer, forgotten>>

Places == {"idle", "acquire", "tryQueue", "waiting", "dequeue", "giveUp",
           "acquired", "running", "release", "decrement", "panicked"}

At(ls) == {c \in Callers : pc[c] \in ls}

\* Who has a token in which channel.
Holders == At({"dequeue", "acquired", "running", "release"})
Queued  == At({"waiting", "dequeue", "giveUp"})

\* Who has been added to CurrentConcurrentCalls and not taken back.
Counted == At({"running", "release", "decrement"})

Closed          == closer # "open"
SemaphoreClosed == closer \in {"closeQueue", "closed"}
QueueClosed     == closer = "closed"

Move(c, from, to) == pc[c] = from /\ pc' = [pc EXCEPT ![c] = to]

-----------------------------------------------------------------------------
Init == /\ semaphore = 0
        /\ queue = 0
        /\ concurrent = 0
        /\ pc = [c \in Callers |-> "idle"]
        /\ closer = "open"
        /\ forgotten = 0

\* Execute up to acquireSemaphore.  A call on a closed bulkhead, or with a
\* context already done, returns and changes nothing.
Execute(c) ==
    /\ ~Closed
    /\ Move(c, "idle", "acquire")
    /\ UNCHANGED <<semaphore, queue, concurrent, closer, forgotten>>

\* The send of acquireSemaphore's select, with its default.
TryAcquire(c) ==
    /\ ~SemaphoreClosed
    /\ \/ /\ semaphore < MaxConcurrentCalls
          /\ semaphore' = semaphore + 1
          /\ Move(c, "acquire", "acquired")
       \/ /\ semaphore = MaxConcurrentCalls
          /\ Move(c, "acquire", "tryQueue")
          /\ UNCHANGED semaphore
    /\ UNCHANGED <<queue, concurrent, closer, forgotten>>

\* acquireFromQueue finds room.
Enqueue(c) ==
    /\ ~QueueClosed
    /\ queue < MaxQueueSize
    /\ queue' = queue + 1
    /\ Move(c, "tryQueue", "waiting")
    /\ UNCHANGED <<semaphore, concurrent, closer, forgotten>>

\* Faulty variant: the rejected call takes a token out of the queue.
RejectDequeues(c) ==
    /\ \/ Move(c, "acquire", "idle") /\ UNCHANGED queue
       \/ Move(c, "tryQueue", "idle") /\ queue > 0 /\ queue' = queue - 1
    /\ UNCHANGED <<semaphore, concurrent, closer, forgotten>>

\* ctx.Done in either select, or ErrBulkheadQueueFull.
Reject(c) ==
    /\ \/ Move(c, "acquire", "idle")
       \/ Move(c, "tryQueue", "idle")
    /\ UNCHANGED <<semaphore, queue, concurrent, closer, forgotten>>

\* waitForSemaphore gets its token, and still occupies the queue.
AcquireQueued(c) ==
    /\ ~SemaphoreClosed
    /\ semaphore < MaxConcurrentCalls
    /\ semaphore' = semaphore + 1
    /\ Move(c, "waiting", "dequeue")
    /\ UNCHANGED <<queue, concurrent, closer, forgotten>>

\* Faulty variant: the select listens to the semaphore alone.
WaitForever(c) == FALSE /\ c \in Callers /\ UNCHANGED vars

\* MaxWaitDuration, or the context, ends the wait.
WaitExpires(c) ==
    /\ Move(c, "waiting", "giveUp")
    /\ UNCHANGED <<semaphore, queue, concurrent, closer, forgotten>>

\* A receive blocks while the channel is empty; a closed one never blocks.
Receive(tokens, isClosed) == tokens > 0 \/ isClosed
Left(tokens) == IF tokens > 0 THEN tokens - 1 ELSE 0

\* "Remove from queue" of a call that has its token.
Dequeue(c) ==
    /\ Receive(queue, QueueClosed)
    /\ queue' = Left(queue)
    /\ Move(c, "dequeue", "acquired")
    /\ UNCHANGED <<semaphore, concurrent, closer, forgotten>>

\* Faulty variant: a call that never got a token releases one.
GiveUpReleases(c) ==
    /\ Receive(queue, QueueClosed)
    /\ queue' = Left(queue)
    /\ semaphore' = Left(semaphore)
    /\ Move(c, "giveUp", "idle")
    /\ UNCHANGED <<concurrent, closer, forgotten>>

\* waitForSemaphore returns without a token.
GiveUp(c) ==
    /\ Receive(queue, QueueClosed)
    /\ queue' = Left(queue)
    /\ Move(c, "giveUp", "idle")
    /\ UNCHANGED <<semaphore, concurrent, closer, forgotten>>

\* Faulty variant: the running call is not counted.
StartUncounted(c) ==
    /\ Move(c, "acquired", "running")
    /\ UNCHANGED <<semaphore, queue, concurrent, closer, forgotten>>

Start(c) ==
    /\ concurrent' = concurrent + 1
    /\ Move(c, "acquired", "running")
    /\ UNCHANGED <<semaphore, queue, closer, forgotten>>

\* fn returned or panicked: releaseSemaphore is deferred.
FnEnds(c) ==
    /\ Move(c, "running", "release")
    /\ UNCHANGED <<semaphore, queue, concurrent, closer, forgotten>>

Release(c) ==
    /\ Receive(semaphore, SemaphoreClosed)
    /\ semaphore' = Left(semaphore)
    /\ Move(c, "release", "decrement")
    /\ UNCHANGED <<queue, concurrent, closer, forgotten>>

\* Faulty variant: the count is not taken back.
DecrementForgotten(c) ==
    /\ Move(c, "decrement", "idle")
    /\ UNCHANGED <<semaphore, queue, concurrent, closer, forgotten>>

Decrement(c) ==
    /\ concurrent' = concurrent - 1
    /\ Move(c, "decrement", "idle")
    /\ UNCHANGED <<semaphore, queue, closer, forgotten>>

\* A send, new or already blocked, on a channel that Close has closed.
SendOnClosed(c) ==
    /\ \/ SemaphoreClosed /\ Move(c, "acquire", "panicked")
       \/ SemaphoreClosed /\ Move(c, "waiting", "panicked")
       \/ QueueClosed /\ Move(c, "tryQueue", "panicked")
    /\ UNCHANGED <<semaphore, queue, concurrent, closer, forgotten>>

-----------------------------------------------------------------------------
(* Close; a second Close fails its compare-and-swap and changes nothing.   *)

CloseStep(from, to) == closer = from /\ closer' = to

Close ==
    /\ "Close" \in Controls
    /\ CloseStep("open", "draining")
    /\ UNCHANGED <<semaphore, queue, concurrent, pc, forgotten>>

\* A tick finds no call running.
Drained ==
    /\ concurrent = 0
    /\ CloseStep("draining", "closeSemaphore")
    /\ UNCHANGED <<semaphore, queue, concurrent, pc, forgotten>>

ForceClose ==
    /\ "Force" \in Controls
    /\ CloseStep("draining", "closeSemaphore")
    /\ UNCHANGED <<semaphore, queue, concurrent, pc, forgotten>>

CloseChannels ==
    /\ \/ CloseStep("closeSemaphore", "closeQueue")
       \/ CloseStep("closeQueue", "closed")
    /\ UNCHANGED <<semaphore, queue, concurrent, pc, forgotten>>

\* Of the metrics, CurrentConcurrentCalls alone is read by the code.
ResetMetrics ==
    /\ "ResetMetrics" \in Controls
    /\ concurrent' = 0
    /\ forgotten' = Cardinality(Counted)
    /\ UNCHANGED <<semaphore, queue, pc, closer>>

-----------------------------------------------------------------------------
Acquiring(c) == \/ TryAcquire(c) \/ Enqueue(c) \/ Reject(c)
                \/ AcquireQueued(c) \/ WaitExpires(c) \/ Dequeue(c) \/ GiveUp(c)
                \/ SendOnClosed(c)

Running(c) == Start(c) \/ FnEnds(c) \/ Release(c) \/ Decrement(c)

Closing == Close \/ Drained \/ ForceClose \/ CloseChannels

Next == \/ \E c \in Callers : Execute(c) \/ Acquiring(c) \/ Running(c)
        \/ Closing
        \/ ResetMetrics

Spec == Init /\ [][Next]_vars

\* Goroutines run, timers fire and the ticker ticks; fn need not return.
Fairness == /\ \A c \in Callers : /\ WF_vars(Acquiring(c))
                                  /\ WF_vars(WaitExpires(c))
                                  /\ WF_vars(Start(c))
                                  /\ WF_vars(Release(c))
                                  /\ WF_vars(Decrement(c))
            /\ WF_vars(Drained)
            /\ WF_vars(CloseChannels)

FairSpec == Spec /\ Fairness

-----------------------------------------------------------------------------
(* Properties                                                              *)

\* Every variable holds a value of its type.
TypeOK == /\ semaphore \in Nat
          /\ queue \in Nat
          /\ concurrent \in Int
          /\ pc \in [Callers -> Places]
          /\ closer \in {"open", "draining", "closeSemaphore", "closeQueue", "closed"}
          /\ forgotten \in Nat

\* At most MaxConcurrentCalls functions run at once, whatever the interleaving
\* of Execute, waiting, Close and ResetMetrics.
ConcurrencyLimit == Cardinality(At({"running"})) <= MaxConcurrentCalls

\* At most MaxQueueSize calls wait, and each has its own token in the queue to
\* take back, so neither <-b.queue of waitForSemaphore can block.
QueueLimit == /\ Cardinality(Queued) <= MaxQueueSize
              /\ Cardinality(Queued) <= queue

\* CurrentConcurrentCalls is what Close waits on: it counts every running call
\* on every path through Execute, but for those ResetMetrics made it forget.
CounterCoversRunning == concurrent + forgotten = Cardinality(Counted)

\* A call does not wait longer than MaxWaitDuration, even when no running call
\* ever returns and the queue is full.
WaitEnds == \A c \in Callers :
    pc[c] \in {"acquire", "tryQueue", "waiting", "dequeue", "giveUp"}
      ~> pc[c] \in {"idle", "running", "panicked"}

\* If the functions return, a graceful Close ends without its 30 s timeout: the
\* counter goes back to zero, unless ResetMetrics ran under running calls.
FunctionsReturn == \A c \in Callers : pc[c] = "running" ~> pc[c] # "running"
GracefulClose ==
    FunctionsReturn => (closer = "draining" ~> closer = "closed" \/ forgotten # 0)

-----------------------------------------------------------------------------
\* A call is inside from the token of the semaphore to its return.
Waiting == At({"waiting", "giveUp"})

Room == INSTANCE Admission
          WITH inside <- Holders, waiting <- Waiting,
               MaxInside <- MaxConcurrentCalls, MaxWaiting <- MaxQueueSize

\* The channels implement the room with its line: a call enters only below the
\* limits, and every token goes back exactly once, through Close and all.
ImplementsAdmission == Room!Spec
=============================================================================
