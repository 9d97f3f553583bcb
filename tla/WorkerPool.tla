----------------------------- MODULE WorkerPool -----------------------------
(***************************************************************************)
(* The worker pool of pool.go and worker.go.                               *)
(*                                                                         *)
(* A job is also the goroutine that submits it.  The channels jobQueue and *)
(* jobResults are the sets of jobs in them (their order is irrelevant      *)
(* here); workerPool is a number, for the code sends to it and never       *)
(* receives.  ScaleUp and ScaleDown hold mu until they return.  The gauges *)
(* are atomics that anybody reads without a lock, so every addition to one *)
(* and every load of autoScale is a step of its own.  Worker n is the n-th *)
(* one createWorker starts.  Nobody calls ScaleUp or ScaleDown when Close  *)
(* has returned, but a call, or a tick of autoScale, that began before may *)
(* go on.                                                                  *)
(***************************************************************************)
EXTENDS Integers, Sequences, FiniteSets

CONSTANTS Jobs,         \* calls of Submit
          NoJob,        \* not a job
          MinWorkers, MaxWorkers, QueueSize,
          ScaleUpThreshold, ScaleDownThreshold,
          Steps,        \* numbers the program gives ScaleUp and ScaleDown
          MaxCreated,   \* bound on worker goroutines ever created, for TLC
          Events        \* what may happen besides jobs: "AutoScale",
                        \* "Scale" (calls of ScaleUp and ScaleDown), "Close",
                        \* "Force" (the 30 s of Close pass)

Workers == 1..MaxCreated

ASSUME ConfigAssumption ==
    /\ NoJob \notin Jobs
    /\ MinWorkers \in Nat \ {0} /\ MaxWorkers \in Nat /\ MinWorkers <= MaxWorkers
    /\ QueueSize \in Nat \ {0}
    /\ ScaleUpThreshold \in Nat \ {0} /\ ScaleDownThreshold \in Nat \ {0}
    /\ Steps \subseteq Nat \ {0}
    /\ MaxCreated \in Nat /\ MinWorkers <= MaxCreated

VARIABLES
    at,         \* where each job is
    uncounted,  \* jobs sent to jobQueue and not yet added to QueuedJobs
    pc,         \* where each worker goroutine is
    holds,      \* the job each worker processes
    stopped,    \* worker.stopped; stop() also fills the worker's stopChan
    workers,    \* wp.workers
    slots,      \* how many entries wp.workerPool has
    lock,       \* where ScaleUp or ScaleDown, the holder of wp.mu, is
    count,      \* workers it has still to add, or has removed
    gauges,     \* QueuedJobs, ActiveWorkers, IdleWorkers, TotalWorkers
    wg,         \* the WaitGroup's counter; below 0 it has ended the process
    closer,     \* where Close is
    scaler,     \* where autoScale is, and the number of workers it asks for
    settled     \* ghost: the workers that wg.Wait of Close has waited for

jobVars    == <<at, uncounted>>
workerVars == <<pc, holds, stopped, wg>>
scaleVars  == <<workers, slots, lock, count>>
closeVars  == <<closer, settled>>
vars == <<jobVars, workerVars, scaleVars, gauges, scaler, closeVars>>

Stages == {"new", "checked", "queued", "running", "result", "received", "counted",
           "fetched", "rejected", "panicked", "lost"}
Places == {"none", "top", "select", "taken", "active", "running", "sent",
           "inactive", "push", "exited"}
Locks  == {"free", "create", "push", "total", "idle", "shrunk", "totalled"}
Scales == {"ticker", "queued", "total", "queuedAgain", "up", "growing",
           "idle", "totalAgain", "idleAgain", "down", "shrinking", "panicked"}

In(stage) == {j \in Jobs : at[j] = stage}
Put(j, stage) == at' = [at EXCEPT ![j] = stage]
Move(w, from, to) == pc[w] = from /\ pc' = [pc EXCEPT ![w] = to]

Created  == {w \in Workers : pc[w] # "none"}
Closing  == closer # "open"      \* wp.closed, and wp.ctx is done
Closed   == closer = "closed"    \* the channels are closed
MuFree   == lock = "free"

Adjust(gauge, n) == gauges' = [gauges EXCEPT ![gauge] = @ + n]

Init == /\ at = [j \in Jobs |-> "new"]
        /\ uncounted = {}
        /\ pc = [w \in Workers |-> IF w <= MinWorkers THEN "top" ELSE "none"]
        /\ holds = [w \in Workers |-> NoJob]
        /\ stopped = [w \in Workers |-> FALSE]
        /\ workers = [i \in 1..MinWorkers |-> i]
        /\ slots = MinWorkers
        /\ lock = "free"
        /\ count = 0
        /\ gauges = [queued |-> 0, active |-> 0,
                     idle |-> MinWorkers, total |-> MinWorkers]
        /\ wg = MinWorkers
        /\ closer = "open"
        /\ scaler = [at |-> "ticker", n |-> 1]
        /\ settled = {}

-----------------------------------------------------------------------------
(* Submit, SubmitWithContext and each job of SubmitBatch.                  *)

CheckClosed(j) ==
    /\ at[j] = "new"
    /\ Put(j, IF Closing THEN "rejected" ELSE "checked")
    /\ UNCHANGED <<uncounted, workerVars, scaleVars, gauges, scaler, closeVars>>

\* The select: a full queue, or the context of SubmitWithContext, rejects the
\* job; a send on the closed channel panics.
Enqueue(j) ==
    /\ at[j] = "checked"
    /\ \/ Closed /\ Put(j, "panicked") /\ UNCHANGED uncounted
       \/ Put(j, "rejected") /\ UNCHANGED uncounted
       \/ /\ ~Closed
          /\ Cardinality(In("queued")) < QueueSize
          /\ Put(j, "queued")
          /\ uncounted' = uncounted \cup {j}
    /\ UNCHANGED <<workerVars, scaleVars, gauges, scaler, closeVars>>

CountQueued(j) ==
    /\ j \in uncounted
    /\ uncounted' = uncounted \ {j}
    /\ Adjust("queued", 1)
    /\ UNCHANGED <<at, workerVars, scaleVars, scaler, closeVars>>

-----------------------------------------------------------------------------
(* Worker.start                                                            *)

CheckStopped(w) ==
    /\ IF stopped[w] THEN Move(w, "top", "exited") /\ wg' = wg - 1
                     ELSE Move(w, "top", "select") /\ UNCHANGED wg
    /\ UNCHANGED <<jobVars, holds, stopped, scaleVars, gauges, scaler, closeVars>>

Take(w, job) ==
    /\ Move(w, "select", "taken")
    /\ holds' = [holds EXCEPT ![w] = job]
    /\ UNCHANGED <<uncounted, stopped, wg, scaleVars, gauges, scaler, closeVars>>

\* Once the closed channel is empty it gives zero jobs, without a task.
TakeJob(w) ==
    \/ \E j \in In("queued") : Take(w, j) /\ Put(j, "running")
    \/ Closed /\ In("queued") = {} /\ Take(w, NoJob) /\ UNCHANGED at

\* stopChan or ctx.Done in the outer select.
Quit(w) ==
    /\ stopped[w] \/ Closing
    /\ Move(w, "select", "exited")
    /\ stopped' = [stopped EXCEPT ![w] = TRUE]
    /\ wg' = wg - 1
    /\ UNCHANGED <<jobVars, holds, scaleVars, gauges, scaler, closeVars>>

\* The additions to ActiveWorkers and IdleWorkers before and after the job.
Mark(w) ==
    /\ \/ Move(w, "taken", "active") /\ Adjust("active", 1)
       \/ Move(w, "active", "running") /\ Adjust("idle", -1)
       \/ Move(w, "sent", "inactive") /\ Adjust("active", -1)
       \/ Move(w, "inactive", "push") /\ Adjust("idle", 1)
    /\ UNCHANGED <<jobVars, holds, stopped, wg, scaleVars, scaler, closeVars>>

\* Not the code: a select with a default, which drops a result without room.
SendResultOrDrop(w) ==
    /\ ~Closed
    /\ Move(w, "running", "sent")
    /\ Put(holds[w], IF Cardinality(In("result")) < QueueSize THEN "result" ELSE "lost")
    /\ holds' = [holds EXCEPT ![w] = NoJob]
    /\ UNCHANGED <<uncounted, stopped, wg, scaleVars, gauges, scaler, closeVars>>

\* processJob returned, for the task did, failed, panicked or outlived
\* job.Timeout, and its result is sent.
SendResult(w) ==
    /\ ~Closed
    /\ Cardinality(In("result")) < QueueSize
    /\ Move(w, "running", "sent")
    /\ Put(holds[w], "result")
    /\ holds' = [holds EXCEPT ![w] = NoJob]
    /\ UNCHANGED <<uncounted, stopped, wg, scaleVars, gauges, scaler, closeVars>>

\* Faulty variant: a channel of MinWorkers.
ReturnNever(w) ==
    /\ ~Closed
    /\ slots < MinWorkers
    /\ Move(w, "push", "top")
    /\ slots' = slots + 1
    /\ UNCHANGED <<jobVars, holds, stopped, wg, workers, lock, count, gauges, scaler,
                   closeVars>>

\* "Return worker to pool": nothing ever makes room in workerPool.
ReturnWorker(w) ==
    /\ ~Closed
    /\ slots < MaxWorkers
    /\ Move(w, "push", "top")
    /\ slots' = slots + 1
    /\ UNCHANGED <<jobVars, holds, stopped, wg, workers, lock, count, gauges, scaler,
                   closeVars>>

\* Not the code: a return that misses wg.Done.
LeaveUndone(w) ==
    /\ Closing
    /\ \E from \in {"running", "push"} : Move(w, from, "exited")
    /\ at' = [j \in Jobs |-> IF j = holds[w] THEN "lost" ELSE at[j]]
    /\ holds' = [holds EXCEPT ![w] = NoJob]
    /\ UNCHANGED <<uncounted, stopped, wg, scaleVars, gauges, scaler, closeVars>>

\* ctx.Done instead of one of the two sends, or the panic of a send on a
\* closed channel: the deferred function recovers, starts a worker that was
\* not stopped once more, and calls wg.Done either way.
LeaveLoop(w) ==
    /\ \E from \in {"running", "push"} :
          \/ Closing /\ Move(w, from, "exited")
          \/ Closed /\ ~stopped[w] /\ Move(w, from, "top")
    /\ at' = [j \in Jobs |-> IF j = holds[w] THEN "lost" ELSE at[j]]
    /\ holds' = [holds EXCEPT ![w] = NoJob]
    /\ wg' = wg - 1
    /\ UNCHANGED <<uncounted, stopped, scaleVars, gauges, scaler, closeVars>>

-----------------------------------------------------------------------------
(* Results                                                                 *)

\* processJobResults takes one result at a time; it may stop any time once the
\* context is done.
ProcessResult ==
    /\ In("received") = {}
    /\ \E j \in In("result") : Put(j, "received")
    /\ UNCHANGED <<uncounted, workerVars, scaleVars, gauges, scaler, closeVars>>

\* Not the code: only a success leaves the gauge.
CountSuccesses ==
    \E j \in In("received") :
        /\ Put(j, "counted")
        /\ Adjust("queued", -1) \/ UNCHANGED gauges
        /\ UNCHANGED <<uncounted, workerVars, scaleVars, scaler, closeVars>>

CountResult ==
    \E j \in In("received") :
        /\ Put(j, "counted")
        /\ Adjust("queued", -1)
        /\ UNCHANGED <<uncounted, workerVars, scaleVars, scaler, closeVars>>

\* GetResult and GetResultWithTimeout take from the same channel.
GetResult ==
    \E j \in In("result") :
        /\ Put(j, "fetched")
        /\ UNCHANGED <<uncounted, workerVars, scaleVars, gauges, scaler, closeVars>>

-----------------------------------------------------------------------------
(* ScaleUp and ScaleDown; both keep mu until they return.                  *)

Keep(from, to) == lock = from /\ lock' = to /\ UNCHANGED <<count, scaler>>

\* The caller goes on; autoScale does with its tick.
Release(from) ==
    /\ lock = from
    /\ lock' = "free"
    /\ count' = 0
    /\ scaler' = [scaler EXCEPT !.at = CASE @ = "growing" -> "idle"
                                         [] @ = "shrinking" -> "ticker"
                                         [] OTHER -> @]

\* ScaleUp up to its loop; the code caps n at the room below MaxWorkers.
\* The last conjunct is the bound MaxCreated, not the code's.
ScaleUp(n) ==
    LET room  == MaxWorkers - Len(workers)
        added == IF n > room THEN room ELSE n
    IN  /\ MuFree
        /\ room > 0
        /\ lock' = "create"
        /\ count' = added
        /\ UNCHANGED <<jobVars, workerVars, workers, slots, gauges, closeVars>>
        /\ Cardinality(Created) + added <= MaxCreated

\* createWorker, and the worker joins the slice.
CreateWorker ==
    /\ Keep("create", "push")
    /\ \E w \in Workers :
          /\ w = Cardinality(Created) + 1
          /\ Move(w, "none", "top")
          /\ workers' = Append(workers, w)
    /\ wg' = wg + 1
    /\ UNCHANGED <<jobVars, holds, stopped, slots, gauges, closeVars>>

\* The send, which blocks while workerPool is full and does not listen to
\* ctx.Done.  If Close has closed the channel it panics and mu is released;
\* nothing recovers that in autoScale, and it ends the process.
PushWorker ==
    /\ \/ /\ ~Closed
          /\ slots < MaxWorkers
          /\ slots' = slots + 1
          /\ Keep("push", "total")
       \/ /\ Closed
          /\ lock = "push"
          /\ lock' = "free"
          /\ count' = 0
          /\ scaler' = [scaler EXCEPT !.at = IF @ = "growing" THEN "panicked" ELSE @]
          /\ UNCHANGED slots
    /\ UNCHANGED <<jobVars, workerVars, workers, gauges, closeVars>>

CountTotal ==
    /\ Keep("total", "idle")
    /\ Adjust("total", 1)
    /\ UNCHANGED <<jobVars, workerVars, workers, slots, closeVars>>

\* The end of the loop's body, and of ScaleUp after the last worker.
CountIdle ==
    /\ \/ count = 1 /\ Release("idle")
       \/ /\ count > 1
          /\ lock = "idle" /\ lock' = "create"
          /\ count' = count - 1
          /\ UNCHANGED scaler
    /\ Adjust("idle", 1)
    /\ UNCHANGED <<jobVars, workerVars, workers, slots, closeVars>>

\* Not the code: n is not capped at the workers above MinWorkers.
ScaleDownUncapped(n) ==
    /\ MuFree
    /\ Len(workers) > MinWorkers
    /\ stopped' = [w \in Workers |->
           stopped[w] \/ \E i \in 1..Len(workers) : i > Len(workers) - n /\ workers[i] = w]
    /\ workers' = SubSeq(workers, 1, Len(workers) - n)
    /\ count' = n
    /\ lock' = "shrunk"
    /\ UNCHANGED <<jobVars, pc, holds, wg, slots, gauges, closeVars>>

\* Stops the youngest workers, whether or not they are processing a job.
ScaleDown(n) ==
    /\ MuFree
    /\ Len(workers) > MinWorkers
    /\ LET removed == IF n > Len(workers) - MinWorkers
                      THEN Len(workers) - MinWorkers ELSE n
           kept == Len(workers) - removed
       IN  /\ stopped' = [w \in Workers |->
                  stopped[w] \/ \E i \in kept+1 .. Len(workers) : workers[i] = w]
           /\ workers' = SubSeq(workers, 1, kept)
           /\ count' = removed
    /\ lock' = "shrunk"
    /\ UNCHANGED <<jobVars, pc, holds, wg, slots, gauges, closeVars>>

UncountTotal ==
    /\ Keep("shrunk", "totalled")
    /\ Adjust("total", -count)
    /\ UNCHANGED <<jobVars, workerVars, workers, slots, closeVars>>

\* Not the code: a removed worker that has a job is not taken for an idle one.
UncountUnlessBusy ==
    /\ Release("totalled")
    /\ IF \E w \in Workers : stopped[w] /\ pc[w] = "running"
       THEN UNCHANGED gauges ELSE Adjust("idle", -count)
    /\ UNCHANGED <<jobVars, workerVars, workers, slots, closeVars>>

UncountIdle ==
    /\ Release("totalled")
    /\ Adjust("idle", -count)
    /\ UNCHANGED <<jobVars, workerVars, workers, slots, closeVars>>

Scaling == \/ CreateWorker \/ PushWorker \/ CountTotal \/ CountIdle
           \/ UncountTotal \/ UncountIdle

\* ScaleUp or ScaleDown, called by the program.
Scale ==
    /\ "Scale" \in Events
    /\ ~Closed
    /\ \E n \in Steps : ScaleUp(n) \/ ScaleDown(n)
    /\ UNCHANGED scaler

-----------------------------------------------------------------------------
(* autoScale.  GetStats returns the pool's own atomics: every comparison   *)
(* loads its gauge anew.                                                   *)

Reach(from, to) == scaler.at = from /\ scaler' = [scaler EXCEPT !.at = to]

\* A tick finds the pool open; later it does not look again.
Tick ==
    /\ "AutoScale" \in Events
    /\ ~Closing
    /\ Reach("ticker", "queued")
    /\ UNCHANGED <<jobVars, workerVars, scaleVars, gauges, closeVars>>

\* The second load of a gauge tells how many workers to add or to remove.
Ask(from, to, gauge, threshold) ==
    /\ scaler.at = from
    /\ scaler' = [at |-> to, n |-> IF gauges[gauge] >= 2 * threshold THEN 2 ELSE 1]

\* One load and its comparison.  A cooldown that is not over has the same
\* consequence as a gauge below its threshold.
Load ==
    /\ \/ gauges.queued >= ScaleUpThreshold /\ Reach("queued", "total")
       \/ Reach("queued", "idle")
       \/ Reach("total", IF gauges.total < MaxWorkers THEN "queuedAgain" ELSE "idle")
       \/ Ask("queuedAgain", "up", "queued", ScaleUpThreshold)
       \/ gauges.idle >= ScaleDownThreshold /\ Reach("idle", "totalAgain")
       \/ Reach("idle", "ticker")
       \/ Reach("totalAgain", IF gauges.total > MinWorkers THEN "idleAgain" ELSE "ticker")
       \/ Ask("idleAgain", "down", "idle", ScaleDownThreshold)
    /\ UNCHANGED <<jobVars, workerVars, scaleVars, gauges, closeVars>>

\* ScaleUp or ScaleDown, once mu is free; it fails at the limit, which another
\* caller may have reached meanwhile, and at the bound MaxCreated.
CallScale ==
    \/ Reach("up", "growing") /\ ScaleUp(scaler.n)
    \/ Reach("down", "shrinking") /\ ScaleDown(scaler.n)
    \/ /\ MuFree
       /\ \/ /\ \/ Len(workers) = MaxWorkers
                \/ Cardinality(Created) + scaler.n > MaxCreated
             /\ Reach("up", "idle")
          \/ Len(workers) = MinWorkers /\ Reach("down", "ticker")
       /\ UNCHANGED <<jobVars, workerVars, scaleVars, gauges, closeVars>>

-----------------------------------------------------------------------------
(* Close; a second Close fails its compare-and-swap.                       *)

\* closed is set and the context cancelled.
Close ==
    /\ "Close" \in Events
    /\ closer = "open"
    /\ closer' = "stopping"
    /\ UNCHANGED <<jobVars, workerVars, scaleVars, gauges, scaler, settled>>

\* After 100 ms, in which a tick of autoScale may end or not: wp.mu.RLock, and
\* stop() on every worker of the slice.
StopWorkers ==
    /\ closer = "stopping"
    /\ MuFree
    /\ stopped' = [w \in Workers |->
          stopped[w] \/ \E i \in 1..Len(workers) : workers[i] = w]
    /\ closer' = "waiting"
    /\ UNCHANGED <<jobVars, pc, holds, wg, scaleVars, gauges, scaler, settled>>

\* Not the code: Close does not wait.
DoneAtOnce ==
    /\ closer = "waiting"
    /\ closer' = "done"
    /\ settled' = Created
    /\ UNCHANGED <<jobVars, workerVars, scaleVars, gauges, scaler>>

\* wg.Wait ended, or 30 seconds did.
WorkersDone ==
    /\ closer = "waiting"
    /\ \/ wg = 0 /\ settled' = Created
       \/ "Force" \in Events /\ UNCHANGED settled
    /\ closer' = "done"
    /\ UNCHANGED <<jobVars, workerVars, scaleVars, gauges, scaler>>

CloseChannels ==
    /\ closer = "done"
    /\ closer' = "closed"
    /\ UNCHANGED <<jobVars, workerVars, scaleVars, gauges, scaler, settled>>

-----------------------------------------------------------------------------
Submit(j) == CheckClosed(j) \/ Enqueue(j) \/ CountQueued(j)

WorkerStep(w) == \/ CheckStopped(w) \/ TakeJob(w) \/ Quit(w) \/ Mark(w)
                 \/ SendResult(w) \/ ReturnWorker(w) \/ LeaveLoop(w)

Results == ProcessResult \/ CountResult \/ GetResult

\* A negative WaitGroup, or autoScale's panic, has ended the process.
Running == wg >= 0 /\ scaler.at # "panicked"

Next == /\ Running
        /\ \/ \E j \in Jobs : Submit(j)
           \/ \E w \in Workers : WorkerStep(w)
           \/ Results
           \/ Scaling \/ Scale \/ Tick \/ Load \/ CallScale
           \/ Close \/ StopWorkers \/ WorkersDone \/ CloseChannels

Spec == Init /\ [][Next]_vars

\* Goroutines run, and every job has a timeout, so processJob returns; the
\* processor may end once the context is done.  A waiting reader of mu is let in
\* when its writer leaves.  Nobody need call Submit, GetResult, ScaleUp or Close.
Fairness == /\ \A w \in Workers : WF_vars(WorkerStep(w))
            /\ \A j \in Jobs : WF_vars(CountQueued(j))
            /\ WF_vars(~Closing /\ ProcessResult) /\ WF_vars(CountResult)
            /\ WF_vars(Scaling) /\ WF_vars(Load) /\ WF_vars(CallScale)
            /\ SF_vars(StopWorkers) /\ WF_vars(WorkersDone) /\ WF_vars(CloseChannels)

FairSpec == Spec /\ Fairness

-----------------------------------------------------------------------------
(* Properties                                                              *)

\* Every variable holds a value of its type.
TypeOK == /\ at \in [Jobs -> Stages]
          /\ uncounted \subseteq Jobs
          /\ pc \in [Workers -> Places]
          /\ holds \in [Workers -> Jobs \cup {NoJob}]
          /\ stopped \in [Workers -> BOOLEAN]
          /\ workers \in Seq(Workers)
          /\ slots \in 0..MaxWorkers
          /\ lock \in Locks
          /\ count \in 0..MaxWorkers
          /\ gauges \in [{"queued", "active", "idle", "total"} -> Int]
          /\ wg \in -1..MaxCreated
          /\ closer \in {"open", "stopping", "waiting", "done", "closed"}
          /\ scaler \in [at : Scales, n : {1, 2}]
          /\ settled \subseteq Workers

\* A job that left the queue is with exactly one worker until its result is
\* sent (worker.go:54), whatever is scaled, stopped or closed meanwhile.
OneWorkerPerJob ==
    \A j \in Jobs :
        Cardinality({w \in Workers : holds[w] = j}) = IF at[j] = "running" THEN 1 ELSE 0

\* QueuedJobs counts the jobs between Submit and processJobResults, less those
\* Submit has not added yet (pool.go:354 comes after the send), and every job
\* whose result GetResult took, for the processor never subtracts those.  It is
\* below zero when a result is processed before its job was added.  (A processor
\* that has not stopped when jobResults is closed may count zero results.)
QueueGauge ==
    ~Closed => gauges.queued =
        Cardinality({j \in Jobs : at[j] \in {"queued", "running", "result", "received", "lost",
                                       "fetched"}})
        - Cardinality(uncounted)

\* What ScaleUp or ScaleDown has done to the slice and has still to tell.
OwedTotal == CASE lock \in {"push", "total"} -> 1
               [] lock = "shrunk" -> -count
               [] OTHER -> 0
OwedIdle  == CASE lock \in {"push", "total", "idle"} -> 1
               [] lock \in {"shrunk", "totalled"} -> -count
               [] OTHER -> 0

\* Whoever reads the gauges of an open pool without a lock, as autoScale does
\* (pool.go:691-712), sees the length of the slice and the workers that have a
\* job, those that ScaleDown has already removed included, but for the one
\* addition that every worker and the holder of mu may owe: the errors do not
\* add up, however often workers come, go and are stopped in the middle of a job.
WorkerGauges ==
    LET CountedActive == {w \in Workers : pc[w] \in {"active", "running", "sent"}}
        NotIdle       == {w \in Workers : pc[w] \in {"running", "sent", "inactive"}}
    IN  ~Closing =>
          /\ gauges.active = Cardinality(CountedActive)
          /\ gauges.total = Len(workers) - OwedTotal
          /\ gauges.idle = Len(workers) - OwedIdle - Cardinality(NotIdle)

\* The workers that have not been told to stop are the ones in the slice, so
\* scaling keeps them between the limits, though removed ones may still be busy.
WorkerLimits ==
    LET Serving == {w \in Created : ~stopped[w]}
    IN  /\ Cardinality(Serving) <= MaxWorkers
        /\ ~Closing => Cardinality(Serving) >= MinWorkers

\* A Close whose wait ends before its 30 s do closes the channels when none of
\* the workers created until then is left to use them, those that it did not
\* find in the slice, to stop, included.  The others meet closed channels: those
\* ScaleUp creates after the wait, for nothing keeps a tick of autoScale that
\* began before Close from it, and those that 30 s were not enough for.
ChannelsClosedLast == Closed => \A w \in settled : pc[w] = "exited"

\* Whatever is scaled, stopped, recovered or closed meanwhile: an accepted job is
\* taken by one worker, once, who keeps it until jobResults has room; its result
\* goes to one reader, and it is lost only if Close began before (worker.go:65).
Line == INSTANCE JobLine
          WITH line <- In("queued"), results <- In("result"),
               delivered <- In("received") \cup In("counted") \cup In("fetched"), lost <- In("lost"),
               task <- holds, open <- ~Closing

ImplementsJobLine == Line!Spec

\* An accepted job is processed and its result handed on, if the pool stays
\* open (tests/unit/workerpool_test.go:281 "Check that all jobs are completed").
AllJobsComplete == \A j \in Jobs :
    at[j] = "queued" ~> at[j] \in {"counted", "fetched"} \/ Closing

\* It is as long as workerPool has room: scaling down under a running job, full
\* queues and readers of the results delay a job and lose none.
JobsComplete == \A j \in Jobs :
    at[j] = "queued" ~> \/ at[j] \in {"counted", "fetched"} \/ Closing
                        \/ slots = MaxWorkers

\* Close returns, whatever jobs and scaling it meets, unless it meets a ScaleUp
\* that holds mu over a send to a full workerPool.
CloseReturns == Closing ~> Closed \/ (lock = "push" /\ slots = MaxWorkers)
=============================================================================
