-------------------------- MODULE WorkerPoolProofs --------------------------
(***************************************************************************)
(* Proofs about WorkerPool, for every set of jobs, all limits and          *)
(* thresholds, any number of worker goroutines and every choice of what    *)
(* else may happen.                                                        *)
(***************************************************************************)
EXTENDS WorkerPool, FiniteSetTheorems, TLAPS

\* A running job is in the hands of one worker, and the others are in none.
InCharge ==
    /\ \A v, w \in Workers : holds[v] \in Jobs /\ holds[v] = holds[w] => v = w
    /\ \A w \in Workers : holds[w] \in Jobs => /\ pc[w] \in {"taken", "active", "running"}
                                             /\ at[holds[w]] = "running"
    /\ \A j \in Jobs : at[j] = "running" => \E w \in Workers : holds[w] = j

\* The jobs that QueuedJobs should count.
Unprocessed == {j \in Jobs : at[j] \in {"queued", "running", "result", "received", "lost",
                                        "fetched"}}

\* A job is added to QueuedJobs after it was sent, perhaps after its end.
QueuedExact ==
    /\ IsFiniteSet(Unprocessed) /\ IsFiniteSet(uncounted)
    /\ \A j \in uncounted : at[j] \notin {"new", "checked"}
    /\ gauges.queued = Cardinality(Unprocessed) - Cardinality(uncounted)

\* The slice of workers: who is in it, and how long it can get.
Member(w) == \E i \in 1..Len(workers) : workers[i] = w

SliceOK ==
    /\ \A i, k \in 1..Len(workers) : workers[i] = workers[k] => i = k
    /\ \A w \in Workers : Member(w) => pc[w] # "none"
    /\ \A w \in Workers : pc[w] # "none" /\ ~Member(w) => stopped[w]
    /\ \A w \in Workers : pc[w] = "none" => ~stopped[w]
    /\ ~Closing => \A w \in Workers : Member(w) => ~stopped[w]

SizeOK ==
    /\ MinWorkers <= Len(workers) /\ Len(workers) <= MaxWorkers
    /\ lock = "create" => count > 0 /\ Len(workers) + count <= MaxWorkers
    /\ lock \in {"push", "total", "idle"} =>
         count > 0 /\ Len(workers) + count <= MaxWorkers + 1

\* The goroutines that have not called wg.Done.
Alive == {w \in Workers : pc[w] \notin {"none", "exited"}}

WaitExact == ~Closed => wg = Cardinality(Alive)

\* The workers in ActiveWorkers, and those that are not in IdleWorkers.
Counted == {w \in Workers : pc[w] \in {"active", "running", "sent"}}
Away    == {w \in Workers : pc[w] \in {"running", "sent", "inactive"}}

\* WorkerGauges, with its sets named.
GaugesExact ==
    ~Closing => /\ gauges.active = Cardinality(Counted)
                /\ gauges.total = Len(workers) - OwedTotal
                /\ gauges.idle = Len(workers) - OwedIdle - Cardinality(Away)

Counters == wg <= Cardinality(Created) /\ WaitExact /\ GaugesExact

\* What Close waited for has come to its end.
Settled == \A w \in settled : pc[w] = "exited"

IInv == TypeOK /\ InCharge /\ QueuedExact /\ SliceOK /\ SizeOK /\ Counters /\ Settled

\* The steps of jobs and their results, of Close, and the calls of ScaleUp and
\* ScaleDown with what leads to them.
JobStep  == (\E j \in Jobs : Submit(j)) \/ Results
Shutdown == Close \/ StopWorkers \/ WorkersDone \/ CloseChannels
Calls    == Scale \/ Tick \/ Load \/ CallScale

-----------------------------------------------------------------------------
(* The limits, the gauges and the sets of workers.                         *)

LEMMA Limits == /\ NoJob \notin Jobs /\ MaxCreated \in Nat
                /\ MinWorkers \in Nat \ {0} /\ MaxWorkers \in Nat
                /\ MinWorkers <= MaxWorkers /\ MinWorkers <= MaxCreated
                /\ Steps \subseteq Nat \ {0}
  BY ConfigAssumption

GaugeNames == {"queued", "active", "idle", "total"}
GaugesOK   == gauges \in [GaugeNames -> Int]

LEMMA AdjustOne ==
    ASSUME GaugesOK, NEW g \in GaugeNames, NEW n \in Int, Adjust(g, n)
    PROVE  /\ GaugesOK'
           /\ \A h \in GaugeNames : gauges'[h] = IF h = g THEN gauges[h] + n ELSE gauges[h]
  BY DEF GaugesOK, Adjust

\* The gauges of workers after one of them, or none, was adjusted.
LEMMA AdjustWorkers ==
    ASSUME GaugesOK, NEW g \in {"active", "idle", "total"}, NEW n \in Int, Adjust(g, n)
    PROVE  /\ GaugesOK' /\ gauges'.queued = gauges.queued
           /\ gauges'.active = gauges.active + (IF g = "active" THEN n ELSE 0)
           /\ gauges'.idle = gauges.idle + (IF g = "idle" THEN n ELSE 0)
           /\ gauges'.total = gauges.total + (IF g = "total" THEN n ELSE 0)
  <1>1. g \in GaugeNames /\ {"queued", "active", "idle", "total"} \subseteq GaugeNames
    BY DEF GaugeNames
  <1>2. /\ GaugesOK'
        /\ \A h \in GaugeNames : gauges'[h] = IF h = g THEN gauges[h] + n ELSE gauges[h]
    BY <1>1, AdjustOne
  <1>3. \A h \in GaugeNames : gauges[h] \in Int
    BY DEF GaugesOK
  <1> QED
    BY <1>1, <1>2, <1>3

LEMMA AdjustQueued ==
    ASSUME GaugesOK, NEW n \in Int, Adjust("queued", n)
    PROVE  /\ GaugesOK' /\ gauges'.queued = gauges.queued + n
           /\ gauges'.active = gauges.active /\ gauges'.idle = gauges.idle
           /\ gauges'.total = gauges.total
  BY AdjustOne DEF GaugeNames

At(places) == {w \in Workers : pc[w] \in places}

LEMMA AtFinite ==
    ASSUME NEW ps PROVE IsFiniteSet(At(ps)) /\ Cardinality(At(ps)) \in Nat
  <1>1. IsFiniteSet(Workers)
    BY Limits, FS_Interval DEF Workers
  <1>2. At(ps) \in SUBSET Workers
    BY DEF At
  <1> QED
    BY <1>1, <1>2, FS_Subset, FS_CardinalityType

\* How the number of workers in a set of places changes when one moves.
LEMMA MoveCounts ==
    ASSUME pc \in [Workers -> Places], NEW w \in Workers, NEW from, NEW to,
           Move(w, from, to), NEW CONSTANT ps
    PROVE  Cardinality(At(ps))' = Cardinality(At(ps)) + (IF to \in ps THEN 1 ELSE 0)
                                                     - (IF from \in ps THEN 1 ELSE 0)
  <1>1. IsFiniteSet(At(ps)) /\ Cardinality(At(ps)) \in Nat
    BY AtFinite
  <1>2. w \in At(ps) <=> from \in ps
    BY DEF At, Move
  <1>3. CASE to \in ps
    <2>1. At(ps)' = At(ps) \cup {w}
      BY <1>3 DEF At, Move
    <2>2. Cardinality(At(ps) \cup {w}) =
            IF w \in At(ps) THEN Cardinality(At(ps)) ELSE Cardinality(At(ps)) + 1
      BY <1>1, FS_AddElement
    <2> QED
      BY <1>1, <1>2, <1>3, <2>1, <2>2
  <1>4. CASE to \notin ps
    <2>1. At(ps)' = At(ps) \ {w}
      BY <1>4 DEF At, Move
    <2>2. Cardinality(At(ps) \ {w}) =
            IF w \in At(ps) THEN Cardinality(At(ps)) - 1 ELSE Cardinality(At(ps))
      BY <1>1, FS_RemoveElement
    <2> QED
      BY <1>1, <1>2, <1>4, <2>1, <2>2
  <1> QED
    BY <1>3, <1>4

\* The move, as the WaitGroup, the gauges and createWorker see it.
LEMMA MoveCensus ==
    ASSUME pc \in [Workers -> Places], NEW w \in Workers, NEW from \in Places,
           NEW to \in Places, Move(w, from, to)
    PROVE  /\ pc' \in [Workers -> Places]
           /\ Cardinality(Alive)' = Cardinality(Alive)
                + (IF to \in {"none", "exited"} THEN 0 ELSE 1)
                - (IF from \in {"none", "exited"} THEN 0 ELSE 1)
           /\ Cardinality(Created)' = Cardinality(Created)
                + (IF to = "none" THEN 0 ELSE 1) - (IF from = "none" THEN 0 ELSE 1)
           /\ Cardinality(Counted)' = Cardinality(Counted)
                + (IF to \in {"active", "running", "sent"} THEN 1 ELSE 0)
                - (IF from \in {"active", "running", "sent"} THEN 1 ELSE 0)
           /\ Cardinality(Away)' = Cardinality(Away)
                + (IF to \in {"running", "sent", "inactive"} THEN 1 ELSE 0)
                - (IF from \in {"running", "sent", "inactive"} THEN 1 ELSE 0)
  <1> DEFINE Up  == Places \ {"none", "exited"}
             All == Places \ {"none"}
             Job == {"active", "running", "sent"}
             Out == {"running", "sent", "inactive"}
  <1>1. pc' \in [Workers -> Places]
    BY DEF Move
  <1>2. Alive = At(Up) /\ Alive' = At(Up)'
    BY <1>1 DEF Alive, At
  <1>3. Created = At(All) /\ Created' = At(All)'
    BY <1>1 DEF Created, At
  <1>4. /\ Counted = At(Job) /\ Counted' = At(Job)'
        /\ Away = At(Out) /\ Away' = At(Out)'
    BY DEF Counted, Away, At
  <1>5. /\ (to \in Up <=> to \notin {"none", "exited"})
        /\ (from \in Up <=> from \notin {"none", "exited"})
        /\ (to \in All <=> to # "none") /\ (from \in All <=> from # "none")
    OBVIOUS
  <1> HIDE DEF Up, All
  <1>6. Cardinality(Alive)' = Cardinality(Alive)
          + (IF to \in {"none", "exited"} THEN 0 ELSE 1)
          - (IF from \in {"none", "exited"} THEN 0 ELSE 1)
    <2>1. Cardinality(At(Up))' = Cardinality(At(Up)) + (IF to \in Up THEN 1 ELSE 0)
                                                     - (IF from \in Up THEN 1 ELSE 0)
      BY MoveCounts DEF Up
    <2> QED
      BY <1>2, <1>5, <2>1
  <1>7. Cardinality(Created)' = Cardinality(Created)
          + (IF to = "none" THEN 0 ELSE 1) - (IF from = "none" THEN 0 ELSE 1)
    <2>1. Cardinality(At(All))' = Cardinality(At(All)) + (IF to \in All THEN 1 ELSE 0)
                                                       - (IF from \in All THEN 1 ELSE 0)
      BY MoveCounts DEF All
    <2> QED
      BY <1>3, <1>5, <2>1
  <1>8. Cardinality(Counted)' = Cardinality(Counted)
          + (IF to \in {"active", "running", "sent"} THEN 1 ELSE 0)
          - (IF from \in {"active", "running", "sent"} THEN 1 ELSE 0)
    BY <1>4, MoveCounts
  <1>9. Cardinality(Away)' = Cardinality(Away)
          + (IF to \in {"running", "sent", "inactive"} THEN 1 ELSE 0)
          - (IF from \in {"running", "sent", "inactive"} THEN 1 ELSE 0)
    BY <1>4, MoveCounts
  <1> QED
    BY <1>1, <1>6, <1>7, <1>8, <1>9

LEMMA CensusType ==
    ASSUME pc \in [Workers -> Places]
    PROVE  /\ Cardinality(Alive) \in Nat /\ Cardinality(Counted) \in Nat
           /\ Cardinality(Away) \in Nat /\ Cardinality(Created) \in Nat
           /\ Cardinality(Created) <= MaxCreated
           /\ (\E w \in Workers : pc[w] = "none") => Cardinality(Created) < MaxCreated
  <1>1. IsFiniteSet(Workers) /\ Cardinality(Workers) = MaxCreated
    BY Limits, FS_Interval DEF Workers
  <1>2. /\ Alive \in SUBSET Workers /\ Counted \in SUBSET Workers
        /\ Away \in SUBSET Workers /\ Created \in SUBSET Workers
    BY DEF Alive, Counted, Away, Created
  <1>3. /\ IsFiniteSet(Alive) /\ IsFiniteSet(Counted) /\ IsFiniteSet(Away)
        /\ IsFiniteSet(Created) /\ Cardinality(Created) <= Cardinality(Workers)
        /\ Cardinality(Created) = Cardinality(Workers) => Created = Workers
    BY <1>1, <1>2, FS_Subset
  <1>4. /\ Cardinality(Alive) \in Nat /\ Cardinality(Counted) \in Nat
        /\ Cardinality(Away) \in Nat /\ Cardinality(Created) \in Nat
    BY <1>3, FS_CardinalityType
  <1>5. (\E w \in Workers : pc[w] = "none") => Created # Workers
    BY DEF Created
  <1> QED
    BY <1>1, <1>3, <1>4, <1>5, Limits

-----------------------------------------------------------------------------
(* What the steps of scaling and of Close do.                              *)

ScalerOK == scaler \in [at : Scales, n : {1, 2}]

\* ScaleUp takes mu for as many workers as there is room for.
Grow == /\ lock = "free" /\ lock' = "create" /\ count' \in 1..(MaxWorkers - Len(workers))
        /\ UNCHANGED <<jobVars, workerVars, workers, slots, gauges, closeVars>>

\* ScaleDown lets the n youngest go.
Shrink(n) ==
    /\ lock = "free" /\ lock' = "shrunk"
    /\ n \in 1..(Len(workers) - MinWorkers) /\ count' = n
    /\ stopped' = [w \in Workers |->
           \/ stopped[w]
           \/ \E i \in (Len(workers) - n) + 1 .. Len(workers) : workers[i] = w]
    /\ workers' = SubSeq(workers, 1, Len(workers) - n)
    /\ UNCHANGED <<jobVars, pc, holds, wg, slots, gauges, closeVars>>

Steady == UNCHANGED <<jobVars, workerVars, scaleVars, gauges, closeVars>>

LEMMA ScaleUpGrows ==
    ASSUME TypeOK, NEW n \in Nat \ {0}, ScaleUp(n) PROVE Grow
  <1>1. Len(workers) \in Nat
    BY DEF TypeOK
  <1>2. /\ lock = "free" /\ lock' = "create" /\ MaxWorkers - Len(workers) > 0
        /\ count' = IF n > MaxWorkers - Len(workers) THEN MaxWorkers - Len(workers) ELSE n
    BY DEF ScaleUp, MuFree
  <1>3. count' \in 1..(MaxWorkers - Len(workers))
    BY <1>1, <1>2, Limits
  <1> QED
    BY <1>2, <1>3 DEF ScaleUp, Grow

LEMMA ScaleDownShrinks ==
    ASSUME TypeOK, NEW n \in Nat \ {0}, ScaleDown(n) PROVE \E m : Shrink(m)
  <1> DEFINE m == IF n > Len(workers) - MinWorkers THEN Len(workers) - MinWorkers ELSE n
  <1>1. Len(workers) \in Nat
    BY DEF TypeOK
  <1>2. m \in 1..(Len(workers) - MinWorkers)
    BY <1>1, Limits DEF ScaleDown
  <1>3. Shrink(m)
    BY <1>2 DEF ScaleDown, Shrink, MuFree
  <1> QED
    BY <1>3

LEMMA CallSteps ==
    ASSUME TypeOK, Calls
    PROVE  /\ Grow \/ (\E n : Shrink(n)) \/ Steady
           /\ ScalerOK'
  <1>1. ScalerOK /\ scaler.n \in Nat \ {0} /\ Steps \subseteq Nat \ {0}
    BY Limits DEF TypeOK, ScalerOK
  <1>2. ASSUME NEW from, NEW to \in Scales, Reach(from, to) PROVE ScalerOK'
    BY <1>1, <1>2 DEF Reach, ScalerOK
  <1>3. CASE Scale
    <2>1. PICK n \in Steps : ScaleUp(n) \/ ScaleDown(n)
      BY <1>3 DEF Scale
    <2>2. ScalerOK'
      BY <1>1, <1>3 DEF Scale, ScalerOK
    <2> QED
      BY <1>1, <2>1, <2>2, ScaleUpGrows, ScaleDownShrinks
  <1>4. CASE Tick
    BY <1>2, <1>4 DEF Tick, Scales, Steady
  <1>5. CASE Load
    <2>1. Steady
      BY <1>5 DEF Load, Steady
    <2>2. \/ \E from, to \in Scales : Reach(from, to)
          \/ \E g \in {"queued", "idle"}, to \in {"up", "down"} : \E t :
               scaler' = [at |-> to, n |-> IF gauges[g] >= 2 * t THEN 2 ELSE 1]
      BY <1>5 DEF Load, Ask, Scales
    <2>3. ScalerOK'
      BY <1>2, <2>2 DEF ScalerOK, Scales
    <2> QED
      BY <2>1, <2>3
  <1>6. CASE CallScale
    <2>1. ScalerOK'
      <3>1. \E from, to \in Scales : Reach(from, to)
        BY <1>6 DEF CallScale, Scales
      <3> QED
        BY <1>2, <3>1
    <2>2. Grow \/ (\E n : Shrink(n)) \/ Steady
      BY <1>1, <1>6, ScaleUpGrows, ScaleDownShrinks DEF CallScale, Steady
    <2> QED
      BY <2>1, <2>2
  <1> QED
    BY <1>3, <1>4, <1>5, <1>6 DEF Calls

\* createWorker, and what follows for one worker that is added or for those that
\* are removed: where the holder of mu goes on, and what it tells.
Told(from, to, g, n) == lock = from /\ lock' = to /\ Adjust(g, n)

LEMMA ScalingSteps ==
    ASSUME TypeOK, Scaling
    PROVE  /\ UNCHANGED <<jobVars, holds, stopped, closeVars>>
           /\ ScalerOK'
           /\ \/ /\ CreateWorker
                 /\ lock = "create" /\ lock' = "push" /\ UNCHANGED <<slots, count, gauges>>
              \/ /\ UNCHANGED <<pc, wg, workers>>
                 /\ \/ /\ lock = "push" /\ lock' = "total" /\ UNCHANGED <<count, gauges>>
                       /\ slots < MaxWorkers /\ slots' = slots + 1
                    \/ /\ Closed /\ lock = "push" /\ lock' = "free" /\ count' = 0
                       /\ UNCHANGED <<slots, gauges>>
                    \/ Told("total", "idle", "total", 1) /\ UNCHANGED <<slots, count>>
                    \/ Told("idle", "free", "idle", 1) /\ count' = 0 /\ UNCHANGED slots
                    \/ /\ Told("idle", "create", "idle", 1) /\ UNCHANGED slots
                       /\ count > 1 /\ count' = count - 1
                    \/ Told("shrunk", "totalled", "total", -count) /\ UNCHANGED <<slots, count>>
                    \/ /\ Told("totalled", "free", "idle", -count) /\ UNCHANGED slots
                       /\ count' = 0
  <1>1. UNCHANGED <<jobVars, holds, stopped, closeVars>>
    BY DEF Scaling, CreateWorker, PushWorker, CountTotal, CountIdle, UncountTotal,
       UncountIdle, workerVars
  <1>2. ScalerOK
    BY DEF TypeOK, ScalerOK
  <1>3. ASSUME NEW from, Release(from) PROVE ScalerOK'
    <2>1. \E to : to \in Scales /\ scaler' = [scaler EXCEPT !.at = to]
      <3>1. /\ scaler.at \in Scales /\ {"idle", "ticker"} \subseteq Scales
        BY <1>2 DEF ScalerOK, Scales
      <3>2. \/ scaler' = [scaler EXCEPT !.at = "idle"]
            \/ scaler' = [scaler EXCEPT !.at = "ticker"]
            \/ scaler' = [scaler EXCEPT !.at = scaler.at]
        BY <1>3 DEF Release
      <3> QED
        BY <3>1, <3>2
    <2> QED
      BY <1>2, <2>1 DEF ScalerOK
  <1>4. CASE CreateWorker
    BY <1>1, <1>2, <1>4 DEF CreateWorker, Keep, ScalerOK
  <1>5. CASE PushWorker
    <2>1. UNCHANGED <<pc, wg, workers, gauges>>
      BY <1>5 DEF PushWorker, workerVars
    <2>2. CASE Closed /\ lock = "push" /\ lock' = "free" /\ count' = 0 /\ UNCHANGED slots
               /\ scaler' = [scaler EXCEPT !.at = IF @ = "growing" THEN "panicked" ELSE @]
      <3>1. ScalerOK'
        BY <1>2, <2>2 DEF ScalerOK, Scales
      <3> QED
        BY <1>1, <2>1, <2>2, <3>1
    <2>3. CASE slots < MaxWorkers /\ slots' = slots + 1 /\ Keep("push", "total")
      BY <1>1, <1>2, <2>1, <2>3 DEF Keep, ScalerOK
    <2> QED
      BY <1>5, <2>2, <2>3 DEF PushWorker
  <1>6. CASE CountTotal
    BY <1>1, <1>2, <1>6 DEF CountTotal, Keep, ScalerOK, Told, workerVars
  <1>7. CASE CountIdle
    <2>1. UNCHANGED <<pc, wg, workers, slots>> /\ Adjust("idle", 1)
      BY <1>7 DEF CountIdle, workerVars
    <2>2. CASE Release("idle")
      BY <1>1, <1>3, <2>1, <2>2 DEF Release, Told
    <2>3. CASE count > 1 /\ lock = "idle" /\ lock' = "create" /\ count' = count - 1
               /\ UNCHANGED scaler
      BY <1>1, <1>2, <2>1, <2>3 DEF Told, ScalerOK
    <2> QED
      BY <1>7, <2>2, <2>3 DEF CountIdle
  <1>8. CASE UncountTotal
    BY <1>1, <1>2, <1>8 DEF UncountTotal, Keep, ScalerOK, Told, workerVars
  <1>9. CASE UncountIdle
    BY <1>1, <1>3, <1>9 DEF UncountIdle, Release, Told, workerVars
  <1> QED
    BY <1>4, <1>5, <1>6, <1>7, <1>8, <1>9 DEF Scaling

LEMMA ShutdownSteps ==
    ASSUME TypeOK, Shutdown
    PROVE  /\ UNCHANGED <<jobVars, pc, holds, wg, scaleVars, gauges, scaler>>
           /\ closer' \in {"open", "stopping", "waiting", "done", "closed"} /\ Closing'
           /\ stopped' \in [Workers -> BOOLEAN]
           /\ \A w \in Workers : stopped[w] => stopped'[w]
           /\ \A w \in Workers : stopped'[w] => stopped[w] \/ Member(w)
           /\ closer' # "closed" => closer # "closed"
           /\ \/ settled' = settled
              \/ closer = "waiting" /\ wg = 0 /\ settled' = Created
  <1>1. /\ UNCHANGED <<jobVars, pc, holds, wg, scaleVars, gauges, scaler>>
        /\ closer' \in {"open", "stopping", "waiting", "done", "closed"} /\ Closing'
        /\ closer' # "closed" => closer # "closed"
    BY DEF Shutdown, Close, StopWorkers, WorkersDone, CloseChannels, Closing, workerVars
  <1>2. stopped \in [Workers -> BOOLEAN]
    BY DEF TypeOK
  <1>3. \/ stopped' = stopped
        \/ stopped' = [w \in Workers |-> stopped[w] \/ Member(w)]
    BY DEF Shutdown, Close, StopWorkers, WorkersDone, CloseChannels, workerVars, Member
  <1>4. stopped' \in [Workers -> BOOLEAN]
    BY <1>2, <1>3, Zenon
  <1>5. /\ \A w \in Workers : stopped[w] => stopped'[w]
        /\ \A w \in Workers : stopped'[w] => stopped[w] \/ Member(w)
    BY <1>3
  <1>6. settled' = settled \/ (closer = "waiting" /\ wg = 0 /\ settled' = Created)
    BY DEF Shutdown, Close, StopWorkers, WorkersDone, CloseChannels
  <1> QED
    BY <1>1, <1>4, <1>5, <1>6

-----------------------------------------------------------------------------
(* Types.                                                                  *)

\* What the steps of jobs leave alone, and what they do to the gauges.
LEMMA JobsMoves ==
    ASSUME TypeOK, JobStep
    PROVE  /\ UNCHANGED <<workerVars, scaleVars, closeVars, scaler>>
           /\ GaugesOK'
           /\ gauges'.active = gauges.active /\ gauges'.idle = gauges.idle
           /\ gauges'.total = gauges.total
  <1>1. UNCHANGED <<workerVars, scaleVars, closeVars, scaler>>
    BY DEF JobStep, Results, Submit, CheckClosed, Enqueue, CountQueued, ProcessResult,
           CountResult, GetResult
  <1>2. gauges' = gauges \/ \E n \in {1, -1} : Adjust("queued", n)
    BY DEF JobStep, Results, Submit, CheckClosed, Enqueue, CountQueued, ProcessResult,
           CountResult, GetResult
  <1>3. GaugesOK
    BY DEF TypeOK, GaugesOK, GaugeNames
  <1>4. CASE gauges' = gauges
    BY <1>1, <1>3, <1>4 DEF GaugesOK
  <1>5. CASE \E n \in {1, -1} : Adjust("queued", n)
    BY <1>1, <1>3, <1>5, AdjustQueued
  <1> QED
    BY <1>2, <1>4, <1>5

LEMMA JobsType ==
    ASSUME TypeOK, JobStep PROVE TypeOK'
  <1>1. at' \in [Jobs -> Stages] /\ uncounted' \subseteq Jobs
    BY DEF JobStep, Results, Submit, CheckClosed, Enqueue, CountQueued, ProcessResult,
           CountResult, GetResult, Put, TypeOK, Stages, In
  <1> QED
    BY <1>1, JobsMoves DEF TypeOK, GaugesOK, GaugeNames, workerVars, scaleVars, closeVars

\* The moves of a worker, and what they bring along.
LEMMA WorkerMoves ==
    ASSUME TypeOK, NEW w \in Workers, WorkerStep(w)
    PROVE  /\ UNCHANGED <<uncounted, workers, lock, count, closeVars, scaler>>
           /\ \/ stopped' = stopped
              \/ /\ Closing \/ stopped[w]
                 /\ stopped' = [stopped EXCEPT ![w] = TRUE]
           /\ \/ Move(w, "top", "exited") /\ wg' = wg - 1 /\ UNCHANGED gauges
              \/ Move(w, "top", "select") /\ UNCHANGED <<wg, gauges>>
              \/ Move(w, "select", "taken") /\ UNCHANGED <<wg, gauges>>
              \/ Move(w, "select", "exited") /\ wg' = wg - 1 /\ UNCHANGED gauges
              \/ Move(w, "taken", "active") /\ Adjust("active", 1) /\ UNCHANGED wg
              \/ Move(w, "active", "running") /\ Adjust("idle", -1) /\ UNCHANGED wg
              \/ Move(w, "running", "sent") /\ UNCHANGED <<wg, gauges>>
              \/ Move(w, "sent", "inactive") /\ Adjust("active", -1) /\ UNCHANGED wg
              \/ Move(w, "inactive", "push") /\ Adjust("idle", 1) /\ UNCHANGED wg
              \/ Move(w, "push", "top") /\ UNCHANGED <<wg, gauges>>
              \/ /\ Closing /\ wg' = wg - 1 /\ UNCHANGED gauges
                 /\ \E from \in {"running", "push"} :
                      Move(w, from, "exited") \/ (Closed /\ Move(w, from, "top"))
  <1>1. UNCHANGED <<uncounted, workers, lock, count, closeVars, scaler>>
    BY DEF WorkerStep, CheckStopped, TakeJob, Take, Quit, Mark, SendResult,
           ReturnWorker, LeaveLoop, jobVars, scaleVars
  <1>2. \/ stopped' = stopped
        \/ /\ Closing \/ stopped[w]
           /\ stopped' = [stopped EXCEPT ![w] = TRUE]
    BY DEF WorkerStep, CheckStopped, TakeJob, Take, Quit, Mark, SendResult,
           ReturnWorker, LeaveLoop, workerVars
  <1>3. CASE CheckStopped(w)
    <2>1. gauges' = gauges
      BY <1>3 DEF CheckStopped
    <2>2. (Move(w, "top", "exited") /\ wg' = wg - 1) \/ (Move(w, "top", "select") /\ wg' = wg)
      BY <1>3, Zenon DEF CheckStopped
    <2> QED
      BY <1>1, <1>2, <2>1, <2>2
  <1>4. CASE TakeJob(w)
    BY <1>1, <1>2, <1>4 DEF TakeJob, Take
  <1>5. CASE Quit(w)
    BY <1>1, <1>2, <1>5 DEF Quit
  <1>6. CASE Mark(w)
    BY <1>1, <1>2, <1>6 DEF Mark
  <1>7. CASE SendResult(w)
    BY <1>1, <1>2, <1>7 DEF SendResult
  <1>8. CASE ReturnWorker(w)
    BY <1>1, <1>2, <1>8 DEF ReturnWorker
  <1>9. CASE LeaveLoop(w)
    <2>1. Closed => Closing
      BY DEF Closed, Closing
    <2> QED
      BY <1>1, <1>2, <1>9, <2>1 DEF LeaveLoop
  <1> QED
    BY <1>3, <1>4, <1>5, <1>6, <1>7, <1>8, <1>9 DEF WorkerStep

LEMMA WorkerType ==
    ASSUME TypeOK, wg >= 0, NEW w \in Workers, WorkerStep(w)
    PROVE  TypeOK'
  <1> USE DEF WorkerStep, CheckStopped, TakeJob, Take, Quit, Mark, SendResult,
              ReturnWorker, LeaveLoop
  <1>1. at' \in [Jobs -> Stages]
    <2>1. at \in [Jobs -> Stages] /\ {"running", "result", "lost"} \subseteq Stages
      BY DEF TypeOK, Stages
    <2>2. CASE TakeJob(w)
      BY <2>1, <2>2 DEF Put
    <2>3. CASE SendResult(w)
      BY <2>1, <2>3 DEF Put
    <2>4. CASE LeaveLoop(w)
      BY <2>1, <2>4
    <2>5. CASE CheckStopped(w) \/ Quit(w) \/ Mark(w) \/ ReturnWorker(w)
      BY <2>1, <2>5 DEF jobVars
    <2> HIDE DEF CheckStopped, TakeJob, Quit, Mark, SendResult, ReturnWorker, LeaveLoop
    <2> QED
      BY <2>2, <2>3, <2>4, <2>5
  <1>2. holds' \in [Workers -> Jobs \cup {NoJob}]
    <2>1. holds' = holds \/ \E j \in Jobs \cup {NoJob} : holds' = [holds EXCEPT ![w] = j]
      BY DEF In
    <2> QED
      BY <2>1 DEF TypeOK
  <1>3. slots' \in 0..MaxWorkers
    <2>1. slots' = slots \/ (slots < MaxWorkers /\ slots' = slots + 1)
      BY DEF scaleVars
    <2> QED
      BY <2>1, Limits DEF TypeOK
  <1>4. stopped' \in [Workers -> BOOLEAN]
    <2>1. stopped' = stopped \/ stopped' = [stopped EXCEPT ![w] = TRUE]
      BY WorkerMoves
    <2>2. stopped \in [Workers -> BOOLEAN]
      BY DEF TypeOK
    <2> QED
      BY <2>1, <2>2, Zenon
  <1> HIDE DEF WorkerStep, CheckStopped, TakeJob, Take, Quit, Mark, SendResult,
              ReturnWorker, LeaveLoop
  <1>5. pc' \in [Workers -> Places]
    <2>1. \E from, to \in Places : Move(w, from, to)
      BY WorkerMoves DEF Places
    <2> QED
      BY <2>1 DEF Move, TypeOK
  <1>6. GaugesOK'
    <2>1. gauges' = gauges \/ \E g \in {"active", "idle", "total"}, n \in Int : Adjust(g, n)
      BY WorkerMoves
    <2>2. GaugesOK
      BY DEF TypeOK, GaugesOK, GaugeNames
    <2> QED
      BY <2>1, <2>2, AdjustWorkers DEF GaugesOK
  <1>7. wg' \in -1..MaxCreated
    <2>1. wg' = wg \/ wg' = wg - 1
      BY WorkerMoves
    <2> QED
      BY <2>1, Limits DEF TypeOK
  <1>8. UNCHANGED <<uncounted, workers, lock, count, closer, settled, scaler>>
    BY WorkerMoves DEF closeVars
  <1> QED
    BY <1>1, <1>2, <1>3, <1>4, <1>5, <1>6, <1>7, <1>8 DEF TypeOK, GaugesOK, GaugeNames

\* createWorker and what follows it under mu.
LEMMA ScalingType ==
    ASSUME TypeOK, SizeOK, wg <= Cardinality(Created), wg >= 0, Scaling
    PROVE  TypeOK'
  <1>1. /\ count \in 0..MaxWorkers /\ count \in Int /\ slots \in 0..MaxWorkers
        /\ GaugesOK /\ pc \in [Workers -> Places] /\ workers \in Seq(Workers)
        /\ wg \in -1..MaxCreated
    BY Limits DEF TypeOK, GaugesOK, GaugeNames
  <1>2. UNCHANGED <<at, uncounted, holds, stopped, closer, settled>> /\ ScalerOK'
    BY ScalingSteps DEF jobVars, closeVars
  <1>3. CASE CreateWorker
    <2>1. PICK w \in Workers : Move(w, "none", "top") /\ workers' = Append(workers, w)
      BY <1>3 DEF CreateWorker
    <2>2. pc' \in [Workers -> Places] /\ workers' \in Seq(Workers)
      BY <1>1, <2>1 DEF Move, Places
    <2>3. wg' \in -1..MaxCreated
      <3>1. Cardinality(Created) < MaxCreated /\ Cardinality(Created) \in Nat
        BY <1>1, <2>1, CensusType DEF Move
      <3> QED
        BY <1>1, <1>3, <3>1, Limits DEF CreateWorker
    <2>4. lock' \in Locks /\ UNCHANGED <<slots, count, gauges>>
      BY <1>3 DEF CreateWorker, Keep, Locks
    <2> QED
      BY <1>1, <1>2, <2>2, <2>3, <2>4 DEF TypeOK, ScalerOK
  <1>4. CASE ~CreateWorker
    <2>1. UNCHANGED <<pc, wg, workers>>
      BY <1>4, ScalingSteps
    <2>2. lock' \in Locks
      BY <1>4, ScalingSteps DEF Locks, Told
    <2>3. slots' \in 0..MaxWorkers /\ count' \in 0..MaxWorkers
      BY <1>1, <1>4, ScalingSteps, Limits
    <2>4. GaugesOK'
      <3>1. gauges' = gauges \/ \E g \in {"active", "idle", "total"}, n \in Int : Adjust(g, n)
        BY <1>1, <1>4, ScalingSteps DEF Told
      <3> QED
        BY <1>1, <3>1, AdjustWorkers DEF GaugesOK
    <2> QED
      BY <1>1, <1>2, <2>1, <2>2, <2>3, <2>4 DEF TypeOK, ScalerOK, GaugesOK, GaugeNames
  <1> QED
    BY <1>3, <1>4

LEMMA CallsType ==
    ASSUME TypeOK, SizeOK, Calls PROVE TypeOK'
  <1>1. ScalerOK'
    BY CallSteps
  <1>2. CASE Grow
    <2>1. count' \in 0..MaxWorkers /\ lock' \in Locks
      BY <1>2, Limits DEF Grow, TypeOK, Locks
    <2> QED
      BY <1>1, <1>2, <2>1 DEF Grow, TypeOK, ScalerOK, jobVars, workerVars, closeVars
  <1>3. ASSUME NEW n, Shrink(n) PROVE TypeOK'
    <2>1. workers' \in Seq(Workers) /\ count' \in 0..MaxWorkers /\ lock' \in Locks
      <3>1. /\ workers \in Seq(Workers) /\ n \in 1..(Len(workers) - MinWorkers)
            /\ workers' = SubSeq(workers, 1, Len(workers) - n) /\ count' = n
            /\ lock' = "shrunk"
        BY <1>3 DEF Shrink, TypeOK
      <3>2. n \in 0..MaxWorkers
        BY <3>1, Limits DEF SizeOK
      <3> QED
        BY <3>1, <3>2, Limits DEF Locks
    <2>2. stopped' \in [Workers -> BOOLEAN]
      BY <1>3, Zenon DEF Shrink
    <2> QED
      BY <1>1, <1>3, <2>1, <2>2 DEF Shrink, TypeOK, ScalerOK, jobVars, closeVars
  <1>4. CASE Steady
    BY <1>1, <1>4 DEF Steady, TypeOK, ScalerOK, jobVars, workerVars, scaleVars, closeVars
  <1> QED
    BY <1>2, <1>3, <1>4, CallSteps

LEMMA ShutdownType ==
    ASSUME TypeOK, Shutdown PROVE TypeOK'
  <1>1. settled' \subseteq Workers
    BY ShutdownSteps DEF TypeOK, Created
  <1> QED
    BY <1>1, ShutdownSteps DEF TypeOK, jobVars, scaleVars

-----------------------------------------------------------------------------
(* The counters.                                                           *)

LEMMA SameCounts ==
    ASSUME UNCHANGED pc
    PROVE  /\ Cardinality(Created)' = Cardinality(Created)
           /\ Cardinality(Alive)' = Cardinality(Alive)
           /\ Cardinality(Counted)' = Cardinality(Counted)
           /\ Cardinality(Away)' = Cardinality(Away)
  BY DEF Created, Alive, Counted, Away

LEMMA CountersType ==
    ASSUME TypeOK
    PROVE  /\ wg \in Int /\ GaugesOK /\ pc \in [Workers -> Places] /\ Len(workers) \in Nat
           /\ count \in Int
           /\ Cardinality(Alive) \in Nat /\ Cardinality(Counted) \in Nat
           /\ Cardinality(Away) \in Nat /\ Cardinality(Created) \in Nat
           /\ gauges.active \in Int /\ gauges.idle \in Int /\ gauges.total \in Int
           /\ OwedTotal \in Int /\ OwedIdle \in Int
  <1>1. /\ wg \in Int /\ GaugesOK /\ pc \in [Workers -> Places] /\ Len(workers) \in Nat
        /\ count \in Int
    BY Limits DEF TypeOK, GaugesOK, GaugeNames
  <1>2. gauges.active \in Int /\ gauges.idle \in Int /\ gauges.total \in Int
    BY DEF TypeOK
  <1>3. OwedTotal \in Int /\ OwedIdle \in Int
    BY <1>1 DEF OwedTotal, OwedIdle
  <1> QED
    BY <1>1, <1>2, <1>3, CensusType

\* A move that the WaitGroup and the gauges follow.
LEMMA MoveCounters ==
    ASSUME TypeOK, Counters, NEW w \in Workers,
           NEW from \in Places \ {"none"}, NEW to \in Places \ {"none"},
           Move(w, from, to), UNCHANGED <<workers, lock, count, closer>>,
           wg' \in Int, wg' <= wg,
           ~Closed => wg' = wg + (IF to = "exited" THEN 0 ELSE 1)
                               - (IF from = "exited" THEN 0 ELSE 1),
           ~Closing => /\ gauges'.total = gauges.total
                       /\ gauges'.active = gauges.active
                            + (IF to \in {"active", "running", "sent"} THEN 1 ELSE 0)
                            - (IF from \in {"active", "running", "sent"} THEN 1 ELSE 0)
                       /\ gauges'.idle = gauges.idle
                            - (IF to \in {"running", "sent", "inactive"} THEN 1 ELSE 0)
                            + (IF from \in {"running", "sent", "inactive"} THEN 1 ELSE 0)
    PROVE  Counters'
  <1>1. /\ Cardinality(Alive)' = Cardinality(Alive)
             + (IF to = "exited" THEN 0 ELSE 1) - (IF from = "exited" THEN 0 ELSE 1)
        /\ Cardinality(Created)' = Cardinality(Created)
        /\ Cardinality(Counted)' = Cardinality(Counted)
             + (IF to \in {"active", "running", "sent"} THEN 1 ELSE 0)
             - (IF from \in {"active", "running", "sent"} THEN 1 ELSE 0)
        /\ Cardinality(Away)' = Cardinality(Away)
             + (IF to \in {"running", "sent", "inactive"} THEN 1 ELSE 0)
             - (IF from \in {"running", "sent", "inactive"} THEN 1 ELSE 0)
    <2>1. /\ pc \in [Workers -> Places]
          /\ from \in Places /\ from # "none" /\ to \in Places /\ to # "none"
      BY CountersType
    <2>2. /\ Cardinality(Alive)' = Cardinality(Alive)
                + (IF to \in {"none", "exited"} THEN 0 ELSE 1)
                - (IF from \in {"none", "exited"} THEN 0 ELSE 1)
          /\ Cardinality(Created)' = Cardinality(Created)
                + (IF to = "none" THEN 0 ELSE 1) - (IF from = "none" THEN 0 ELSE 1)
          /\ Cardinality(Counted)' = Cardinality(Counted)
                + (IF to \in {"active", "running", "sent"} THEN 1 ELSE 0)
                - (IF from \in {"active", "running", "sent"} THEN 1 ELSE 0)
          /\ Cardinality(Away)' = Cardinality(Away)
                + (IF to \in {"running", "sent", "inactive"} THEN 1 ELSE 0)
                - (IF from \in {"running", "sent", "inactive"} THEN 1 ELSE 0)
      BY <2>1, MoveCensus
    <2> QED
      BY <2>1, <2>2, CountersType
  <1>2. /\ Closed' = Closed /\ Closing' = Closing
        /\ OwedTotal' = OwedTotal /\ OwedIdle' = OwedIdle
    BY DEF Closed, Closing, OwedTotal, OwedIdle
  <1>3. WaitExact'
    BY <1>1, <1>2, CountersType DEF Counters, WaitExact
  <1>4. (wg <= Cardinality(Created))'
    BY <1>1, CountersType DEF Counters
  <1>5. ASSUME ~Closing
        PROVE  /\ gauges'.active = Cardinality(Counted)'
               /\ gauges'.total = Len(workers') - OwedTotal'
               /\ gauges'.idle = Len(workers') - OwedIdle' - Cardinality(Away)'
    <2>1. /\ gauges.active = Cardinality(Counted)
          /\ gauges.total = Len(workers) - OwedTotal
          /\ gauges.idle = Len(workers) - OwedIdle - Cardinality(Away)
      BY <1>5 DEF Counters, GaugesExact
    <2>2. gauges'.active = Cardinality(Counted)'
      BY <1>1, <1>5, <2>1, CountersType
    <2>3. gauges'.total = Len(workers') - OwedTotal'
      BY <1>2, <1>5, <2>1
    <2>4. gauges'.idle = Len(workers') - OwedIdle' - Cardinality(Away)'
      <3> DEFINE i == IF to \in {"running", "sent", "inactive"} THEN 1 ELSE 0
                 o == IF from \in {"running", "sent", "inactive"} THEN 1 ELSE 0
      <3>1. i \in Int /\ o \in Int
        OBVIOUS
      <3>2. gauges'.idle = gauges.idle - i + o /\ Cardinality(Away)' = Cardinality(Away) + i - o
        BY <1>1, <1>5
      <3>3. /\ Len(workers) \in Int /\ OwedIdle \in Int /\ Cardinality(Away) \in Int
            /\ gauges.idle \in Int
        BY CountersType
      <3>4. Len(workers') = Len(workers)
        OBVIOUS
      <3> HIDE DEF i, o
      <3> QED
        BY <1>2, <2>1, <3>1, <3>2, <3>3, <3>4
    <2> QED
      BY <2>2, <2>3, <2>4
  <1>6. GaugesExact'
    BY <1>2, <1>5 DEF GaugesExact
  <1> QED
    BY <1>3, <1>4, <1>6 DEF Counters

LEMMA WorkerCounts ==
    ASSUME TypeOK, Counters, NEW w \in Workers, WorkerStep(w)
    PROVE  Counters'
  <1>1. UNCHANGED <<workers, lock, count, closer>> /\ (Closed => Closing)
    BY WorkerMoves DEF Closed, Closing, closeVars
  <1>2. {"top", "select", "taken", "active", "running", "sent", "inactive", "push",
         "exited"} \subseteq Places \ {"none"}
    BY DEF Places
  <1>3. /\ wg \in Int /\ GaugesOK
        /\ gauges.active \in Int /\ gauges.idle \in Int /\ gauges.total \in Int
    BY CountersType
  <1>4. ASSUME NEW from, NEW to, <<from, to>> \in {<<"top", "select">>, <<"select", "taken">>,
                 <<"running", "sent">>, <<"push", "top">>},
               Move(w, from, to), UNCHANGED <<wg, gauges>>
        PROVE  Counters'
    <2>1. /\ from \in Places \ {"none"} /\ to \in Places \ {"none"}
          /\ from # "exited" /\ to # "exited"
          /\ to \in {"active", "running", "sent"} <=> from \in {"active", "running", "sent"}
          /\ to \in {"running", "sent", "inactive"} <=> from \in {"running", "sent", "inactive"}
      BY <1>2, <1>4
    <2> QED
      BY <1>1, <1>3, <1>4, <2>1, MoveCounters
  <1>5. ASSUME NEW from \in {"top", "select"}, Move(w, from, "exited"),
               wg' = wg - 1, UNCHANGED gauges
        PROVE  Counters'
    BY <1>1, <1>2, <1>3, <1>5, MoveCounters
  <1>6. ASSUME NEW from, NEW to, NEW g \in {"active", "idle"}, NEW n \in Int,
               <<from, to, g, n>> \in {<<"taken", "active", "active", 1>>,
                 <<"active", "running", "idle", -1>>, <<"sent", "inactive", "active", -1>>,
                 <<"inactive", "push", "idle", 1>>},
               Move(w, from, to), Adjust(g, n), UNCHANGED wg
        PROVE  Counters'
    <2>1. /\ gauges'.active = gauges.active + (IF g = "active" THEN n ELSE 0)
          /\ gauges'.idle = gauges.idle + (IF g = "idle" THEN n ELSE 0)
          /\ gauges'.total = gauges.total
      BY <1>3, <1>6, AdjustWorkers
    <2>2. CASE from = "taken"
      BY <1>1, <1>2, <1>3, <1>6, <2>1, <2>2, MoveCounters
    <2>3. CASE from = "active"
      BY <1>1, <1>2, <1>3, <1>6, <2>1, <2>3, MoveCounters
    <2>4. CASE from = "sent"
      BY <1>1, <1>2, <1>3, <1>6, <2>1, <2>4, MoveCounters
    <2>5. CASE from = "inactive"
      BY <1>1, <1>2, <1>3, <1>6, <2>1, <2>5, MoveCounters
    <2> QED
      BY <1>6, <2>2, <2>3, <2>4, <2>5
  <1>7. ASSUME NEW from \in {"running", "push"}, Closing, wg' = wg - 1,
               Move(w, from, "exited") \/ (Closed /\ Move(w, from, "top"))
        PROVE  Counters'
    <2>1. CASE Move(w, from, "exited")
      BY <1>1, <1>2, <1>3, <1>7, <2>1, MoveCounters
    <2>2. CASE Closed /\ Move(w, from, "top")
      BY <1>1, <1>2, <1>3, <1>7, <2>2, MoveCounters
    <2> QED
      BY <1>7, <2>1, <2>2
  <1> QED
    BY <1>4, <1>5, <1>6, <1>7, WorkerMoves

\* What is told is owed no more.
LEMMA Balance ==
    ASSUME NEW old \in Int, NEW new \in Int, NEW owed \in Int, NEW left \in Int,
           NEW size \in Int, NEW away \in Int,
           new + left = old + owed, old = size - owed - away
    PROVE  new = size - left - away
  OBVIOUS

\* The holder of mu tells what it did, one gauge at a time.
LEMMA ScalingCounts ==
    ASSUME TypeOK, Counters, Scaling PROVE Counters'
  <1> USE DEF Counters, WaitExact, GaugesExact
  <1>1. /\ wg \in Int /\ GaugesOK /\ pc \in [Workers -> Places] /\ Len(workers) \in Nat
        /\ count \in Int
        /\ Cardinality(Alive) \in Nat /\ Cardinality(Counted) \in Nat
        /\ Cardinality(Away) \in Nat /\ Cardinality(Created) \in Nat
        /\ gauges.active \in Int /\ gauges.idle \in Int /\ gauges.total \in Int
    BY CountersType
  <1>2. Closed' = Closed /\ Closing' = Closing /\ (Closed => Closing)
    BY ScalingSteps DEF Closed, Closing, closeVars
  <1>3. CASE CreateWorker
    <2>1. PICK w \in Workers : Move(w, "none", "top") /\ workers' = Append(workers, w)
      BY <1>3 DEF CreateWorker
    <2>2. Len(workers') = Len(workers) + 1
      BY <2>1 DEF TypeOK
    <2>3. {"none", "top"} \subseteq Places
      BY DEF Places
    <2>4. wg' = wg + 1 /\ lock = "create" /\ lock' = "push" /\ UNCHANGED gauges
      BY <1>3 DEF CreateWorker, Keep
    <2>5. /\ Cardinality(Alive)' = Cardinality(Alive) + 1
          /\ Cardinality(Created)' = Cardinality(Created) + 1
          /\ Cardinality(Counted)' = Cardinality(Counted)
          /\ Cardinality(Away)' = Cardinality(Away)
      <3>1. /\ Cardinality(Alive)' = Cardinality(Alive) + 1 - 0
            /\ Cardinality(Created)' = Cardinality(Created) + 1 - 0
            /\ Cardinality(Counted)' = Cardinality(Counted) + 0 - 0
            /\ Cardinality(Away)' = Cardinality(Away) + 0 - 0
        BY <1>1, <2>1, <2>3, MoveCensus
      <3> QED
        BY <1>1, <3>1
    <2>6. WaitExact' /\ (wg <= Cardinality(Created))'
      BY <1>1, <1>2, <2>4, <2>5
    <2>7. OwedTotal = 0 /\ OwedIdle = 0 /\ OwedTotal' = 1 /\ OwedIdle' = 1
      BY <2>4 DEF OwedTotal, OwedIdle
    <2>8. GaugesExact'
      BY <1>1, <1>2, <2>2, <2>4, <2>5, <2>7
    <2> QED
      BY <2>6, <2>8
  <1>4. CASE ~CreateWorker
    <2>1. UNCHANGED <<pc, wg, workers>>
      BY <1>4, ScalingSteps
    <2>2. WaitExact' /\ (wg <= Cardinality(Created))'
      BY <1>2, <2>1, SameCounts
    <2>3. ASSUME ~Closing
          PROVE  /\ gauges'.active = gauges.active
                 /\ gauges'.total + OwedTotal' = gauges.total + OwedTotal
                 /\ gauges'.idle + OwedIdle' = gauges.idle + OwedIdle
      <3> USE DEF OwedTotal, OwedIdle
      <3>1. CASE lock = "push" /\ lock' = "total" /\ UNCHANGED <<count, gauges>>
        BY <1>1, <3>1
      <3>2. ASSUME NEW g \in {"total", "idle"}, NEW n \in Int, Adjust(g, n)
            PROVE  /\ gauges'.active = gauges.active
                   /\ gauges'.idle = gauges.idle + (IF g = "idle" THEN n ELSE 0)
                   /\ gauges'.total = gauges.total + (IF g = "total" THEN n ELSE 0)
        BY <1>1, <3>2, AdjustWorkers
      <3>3. CASE Told("total", "idle", "total", 1) /\ UNCHANGED count
        BY <1>1, <3>2, <3>3 DEF Told
      <3>4. CASE /\ Told("idle", "free", "idle", 1) \/ Told("idle", "create", "idle", 1)
        BY <1>1, <3>2, <3>4 DEF Told
      <3>5. CASE Told("shrunk", "totalled", "total", -count) /\ UNCHANGED count
        BY <1>1, <3>2, <3>5 DEF Told
      <3>6. CASE Told("totalled", "free", "idle", -count)
        BY <1>1, <3>2, <3>6 DEF Told
      <3> QED
        BY <1>2, <1>4, <2>3, <3>1, <3>3, <3>4, <3>5, <3>6, ScalingSteps
    <2>4. /\ OwedTotal \in Int /\ OwedIdle \in Int /\ OwedTotal' \in Int /\ OwedIdle' \in Int
      <3>1. count' \in Int
        BY <1>1, <1>4, ScalingSteps
      <3> QED
        BY <1>1, <3>1 DEF OwedTotal, OwedIdle
    <2>5. ~Closing => gauges'.idle \in Int /\ gauges'.total \in Int
      <3>1. GaugesOK'
        <4>1. gauges' = gauges
              \/ \E g \in {"active", "idle", "total"}, n \in Int : Adjust(g, n)
          BY <1>1, <1>4, ScalingSteps DEF Told
        <4> QED
          BY <1>1, <4>1, AdjustWorkers DEF GaugesOK
      <3> QED
        BY <3>1 DEF GaugesOK, GaugeNames
    <2>6. ASSUME ~Closing
          PROVE  /\ gauges'.active = Cardinality(Counted)'
                 /\ gauges'.total = Len(workers') - OwedTotal'
                 /\ gauges'.idle = Len(workers') - OwedIdle' - Cardinality(Away)'
      <3>1. /\ gauges.active = Cardinality(Counted)
            /\ gauges.total = Len(workers) - OwedTotal
            /\ gauges.idle = Len(workers) - OwedIdle - Cardinality(Away)
        BY <2>6
      <3>2. gauges'.active = Cardinality(Counted)'
        BY <2>1, <2>3, <2>6, <3>1, SameCounts
      <3>3. /\ gauges'.total + OwedTotal' = gauges.total + OwedTotal
            /\ gauges'.idle + OwedIdle' = gauges.idle + OwedIdle
            /\ gauges'.idle \in Int /\ gauges'.total \in Int
        BY <2>3, <2>5, <2>6
      <3>4. Len(workers') = Len(workers) /\ Cardinality(Away)' = Cardinality(Away)
        BY <2>1, SameCounts
      <3>5. /\ Len(workers) \in Int /\ Cardinality(Away) \in Int
            /\ OwedTotal \in Int /\ OwedTotal' \in Int
            /\ OwedIdle \in Int /\ OwedIdle' \in Int
            /\ gauges.idle \in Int /\ gauges.total \in Int
        BY <1>1, <2>4
      <3> HIDE DEF Counters, WaitExact, GaugesExact
      <3>6. gauges'.total = Len(workers) - OwedTotal'
        BY <3>1, <3>3, <3>5
      <3>7. gauges'.idle = Len(workers) - OwedIdle' - Cardinality(Away)
        <4>1. gauges.idle = Len(workers) - OwedIdle - Cardinality(Away)
          BY <3>1
        <4>2. gauges'.idle + OwedIdle' = gauges.idle + OwedIdle /\ gauges'.idle \in Int
          BY <3>3
        <4>3. gauges.idle \in Int /\ Len(workers) \in Int /\ Cardinality(Away) \in Int
              /\ OwedIdle \in Int /\ OwedIdle' \in Int
          BY <3>5
        <4> QED
          BY <4>1, <4>2, <4>3, Balance
      <3>8. /\ gauges'.total = Len(workers') - OwedTotal'
            /\ gauges'.idle = Len(workers') - OwedIdle' - Cardinality(Away)'
        BY <3>4, <3>6, <3>7, Zenon
      <3> QED
        BY <3>2, <3>8, Zenon
    <2>7. GaugesExact'
      BY <1>2, <2>6
    <2> QED
      BY <2>2, <2>7
  <1> QED
    BY <1>3, <1>4

LEMMA CallsCounts ==
    ASSUME TypeOK, Counters, Calls PROVE Counters'
  <1> USE DEF Counters, WaitExact, GaugesExact
  <1>1. CASE Grow
    <2>1. UNCHANGED <<pc, wg, workers, gauges, closer>> /\ lock = "free" /\ lock' = "create"
      BY <1>1 DEF Grow, workerVars, closeVars
    <2>2. OwedTotal' = OwedTotal /\ OwedIdle' = OwedIdle
      BY <2>1 DEF OwedTotal, OwedIdle
    <2> QED
      BY <2>1, <2>2, SameCounts DEF Closed, Closing
  <1>2. CASE Steady
    <2>1. UNCHANGED <<pc, wg, workers, gauges, closer, lock, count>>
      BY <1>2 DEF Steady, workerVars, scaleVars, closeVars
    <2>2. OwedTotal' = OwedTotal /\ OwedIdle' = OwedIdle
      BY <2>1 DEF OwedTotal, OwedIdle
    <2> QED
      BY <2>1, <2>2, SameCounts DEF Closed, Closing
  <1>3. ASSUME NEW n, Shrink(n) PROVE Counters'
    <2>1. UNCHANGED <<pc, wg, gauges, closer>>
      BY <1>3 DEF Shrink, closeVars
    <2>2. /\ workers \in Seq(Workers) /\ n \in 1..(Len(workers) - MinWorkers)
          /\ workers' = SubSeq(workers, 1, Len(workers) - n)
          /\ lock = "free" /\ lock' = "shrunk" /\ count' = n
      BY <1>3 DEF Shrink, TypeOK
    <2>3. Len(workers') = Len(workers) - n /\ n \in Int /\ Len(workers) \in Nat
      BY <2>2, Limits
    <2>4. OwedTotal = 0 /\ OwedIdle = 0 /\ OwedTotal' = -n /\ OwedIdle' = -n
      BY <2>2 DEF OwedTotal, OwedIdle
    <2>5. WaitExact' /\ (wg <= Cardinality(Created))'
      BY <2>1, SameCounts DEF Closed
    <2>6. GaugesExact'
      BY <2>1, <2>3, <2>4, SameCounts, CountersType DEF Closing
    <2> QED
      BY <2>5, <2>6
  <1> QED
    BY <1>1, <1>2, <1>3, CallSteps

LEMMA ShutdownCounts ==
    ASSUME TypeOK, Counters, Shutdown PROVE Counters'
  <1>1. UNCHANGED <<pc, wg>> /\ Closing' /\ (~Closed' => ~Closed)
    BY ShutdownSteps DEF Closed
  <1> QED
    BY <1>1, SameCounts DEF Counters, WaitExact, GaugesExact

LEMMA JobsCounts ==
    ASSUME TypeOK, Counters, JobStep PROVE Counters'
  <1>1. UNCHANGED <<pc, wg, workers, closer, lock, count>>
    BY JobsMoves DEF workerVars, scaleVars, closeVars
  <1>2. OwedTotal' = OwedTotal /\ OwedIdle' = OwedIdle
    BY <1>1 DEF OwedTotal, OwedIdle
  <1> QED
    BY <1>1, <1>2, JobsMoves, SameCounts DEF Counters, WaitExact, GaugesExact, Closed,
       Closing

-----------------------------------------------------------------------------
(* The slice.                                                              *)

LEMMA ScalingSize ==
    ASSUME TypeOK, SizeOK, Scaling PROVE SizeOK'
  <1> USE Limits DEF SizeOK
  <1>1. workers \in Seq(Workers) /\ count \in Nat /\ Len(workers) \in Nat
    BY DEF TypeOK
  <1>2. CASE CreateWorker
    <2>1. Len(workers') = Len(workers) + 1
      BY <1>1, <1>2 DEF CreateWorker
    <2>2. count' = count /\ lock = "create" /\ lock' = "push"
      BY <1>2 DEF CreateWorker, Keep
    <2> QED
      BY <1>1, <2>1, <2>2
  <1>3. CASE ~CreateWorker
    <2>1. workers' = workers
      BY <1>3, ScalingSteps
    <2>2. CASE lock \in {"push", "total"} /\ lock' \in {"total", "idle"} /\ UNCHANGED count
      BY <1>1, <2>1, <2>2
    <2>3. CASE lock = "idle" /\ lock' = "create" /\ count > 1 /\ count' = count - 1
      BY <1>1, <2>1, <2>3
    <2>4. CASE lock' \in {"free", "totalled"}
      BY <1>1, <2>1, <2>4
    <2> QED
      BY <1>3, <2>2, <2>3, <2>4, ScalingSteps DEF Told
  <1> QED
    BY <1>2, <1>3

LEMMA SizeStep ==
    ASSUME TypeOK, SizeOK, [Next]_vars PROVE SizeOK'
  <1> USE Limits DEF SizeOK
  <1>1. workers \in Seq(Workers) /\ count \in 0..MaxWorkers /\ Len(workers) \in Nat
    BY DEF TypeOK
  <1>2. CASE UNCHANGED <<workers, lock, count>>
    BY <1>2
  <1>3. CASE Grow
    <2>1. /\ workers' = workers /\ lock' = "create"
          /\ count' \in 1..(MaxWorkers - Len(workers))
      BY <1>3 DEF Grow
    <2> QED
      BY <1>1, <2>1
  <1>4. ASSUME NEW n, Shrink(n) PROVE SizeOK'
    <2>1. /\ lock' = "shrunk" /\ n \in 1..(Len(workers) - MinWorkers)
          /\ workers' = SubSeq(workers, 1, Len(workers) - n)
      BY <1>4 DEF Shrink
    <2>2. Len(workers') = Len(workers) - n /\ n \in Nat
      BY <1>1, <2>1
    <2>3. MinWorkers <= Len(workers') /\ Len(workers') <= MaxWorkers
      BY <1>1, <2>1, <2>2
    <2> QED
      BY <2>1, <2>3
  <1> HIDE DEF SizeOK
  <1>5. CASE JobStep \/ (\E w \in Workers : WorkerStep(w)) \/ Shutdown \/ Steady
             \/ UNCHANGED vars
    <2>1. UNCHANGED <<workers, lock, count>>
      BY <1>5, WorkerMoves, JobsMoves, ShutdownSteps DEF Steady, scaleVars, vars
    <2> QED
      BY <1>2, <2>1
  <1> QED
    BY <1>3, <1>4, <1>5, CallSteps, ScalingSize DEF Next, JobStep, Shutdown, Calls

\* While the slice stays, only who is stopped and created matters.
LEMMA SliceKept ==
    ASSUME SliceOK, UNCHANGED workers, Closing => Closing',
           \A w \in Workers : pc'[w] = "none" <=> pc[w] = "none",
           \A w \in Workers : stopped[w] => stopped'[w],
           \A w \in Workers : stopped'[w] => stopped[w] \/ (Closing' /\ pc[w] # "none")
    PROVE  SliceOK'
  <1>1. \A w \in Workers : Member(w)' <=> Member(w)
    BY DEF Member
  <1> QED
    BY <1>1 DEF SliceOK

LEMMA CreateSlice ==
    ASSUME TypeOK, SliceOK, CreateWorker PROVE SliceOK'
  <1>1. PICK w \in Workers : Move(w, "none", "top") /\ workers' = Append(workers, w)
    BY DEF CreateWorker
  <1>2. UNCHANGED <<stopped, closer>> /\ workers \in Seq(Workers) /\ pc \in [Workers -> Places]
    BY DEF CreateWorker, TypeOK, closeVars
  <1>3. /\ Len(workers) \in Nat /\ Len(workers') = Len(workers) + 1
        /\ workers'[Len(workers) + 1] = w
        /\ \A i \in 1..Len(workers) : workers'[i] = workers[i]
    BY <1>1, <1>2
  <1>4. \A v \in Workers : Member(v)' <=> Member(v) \/ v = w
    BY <1>3 DEF Member
  <1>5. /\ pc[w] = "none" /\ pc'[w] = "top"
        /\ \A v \in Workers : v # w => pc'[v] = pc[v]
    BY <1>1, <1>2 DEF Move
  <1>6. ~Member(w) /\ ~stopped[w]
    BY <1>5 DEF SliceOK
  <1>7. \A i, k \in 1..Len(workers') : workers'[i] = workers'[k] => i = k
    BY <1>3, <1>6 DEF SliceOK, Member
  <1> QED
    BY <1>2, <1>4, <1>5, <1>6, <1>7 DEF SliceOK, Closing

LEMMA ShrinkSlice ==
    ASSUME TypeOK, SliceOK, NEW n, Shrink(n) PROVE SliceOK'
  <1> DEFINE kept == Len(workers) - n
  <1>1. /\ workers \in Seq(Workers) /\ n \in 1..(Len(workers) - MinWorkers)
        /\ workers' = SubSeq(workers, 1, kept) /\ UNCHANGED <<pc, closer>>
    BY DEF Shrink, TypeOK, closeVars
  <1>2. /\ Len(workers) \in Nat /\ kept \in Nat /\ kept <= Len(workers)
        /\ Len(workers') = kept
        /\ \A i \in 1..kept : workers'[i] = workers[i]
    BY <1>1, Limits
  <1> HIDE DEF kept
  <1>3. \A w \in Workers : stopped'[w] <=>
          stopped[w] \/ \E i \in kept + 1 .. Len(workers) : workers[i] = w
    BY Zenon DEF Shrink, kept
  <1>4. \A w \in Workers : Member(w)' <=> \E i \in 1..kept : workers[i] = w
    BY <1>2 DEF Member
  <1>5. \A i \in 1..Len(workers) : (i \in 1..kept) \/ (i \in kept + 1 .. Len(workers))
    BY <1>2
  <1>6. \A i \in 1..kept : i \in 1..Len(workers) /\ i \notin kept + 1 .. Len(workers)
    BY <1>2
  <1>7. \A i \in kept + 1 .. Len(workers) : i \in 1..Len(workers)
    BY <1>2
  <1>8. \A w \in Workers : Member(w)' => Member(w)
    BY <1>4, <1>6 DEF Member
  <1>9. \A w \in Workers : Member(w) => Member(w)' \/ stopped'[w]
    BY <1>3, <1>4, <1>5 DEF Member
  <1>10. \A w \in Workers : Member(w)' /\ stopped'[w] => stopped[w]
    BY <1>3, <1>4, <1>6, <1>7 DEF SliceOK
  <1>11. \A w \in Workers : stopped'[w] => stopped[w] \/ Member(w)
    BY <1>3, <1>7 DEF Member
  <1>12. \A w \in Workers : stopped[w] => stopped'[w]
    BY <1>3
  <1>13. \A i, k \in 1..Len(workers') : workers'[i] = workers'[k] => i = k
    BY <1>2, <1>6 DEF SliceOK
  <1>14. Closing' = Closing
    BY <1>1 DEF Closing
  <1> QED
    BY <1>1, <1>8, <1>9, <1>10, <1>11, <1>12, <1>13, <1>14 DEF SliceOK

LEMMA SliceStep ==
    ASSUME TypeOK, SliceOK, [Next]_vars PROVE SliceOK'
  <1>1. pc \in [Workers -> Places] /\ stopped \in [Workers -> BOOLEAN]
    BY DEF TypeOK
  <1>2. ASSUME NEW w \in Workers, WorkerStep(w) PROVE SliceOK'
    <2>1. /\ UNCHANGED <<workers, closer>> /\ pc[w] # "none"
          /\ \E to \in Places \ {"none"} : pc' = [pc EXCEPT ![w] = to]
      BY <1>2, WorkerMoves DEF Move, Places, closeVars
    <2>2. \A v \in Workers : pc'[v] = "none" <=> pc[v] = "none"
      BY <1>1, <2>1
    <2>3. \/ stopped' = stopped
          \/ (Closing \/ stopped[w]) /\ stopped' = [stopped EXCEPT ![w] = TRUE]
      BY <1>2, WorkerMoves
    <2>4. /\ \A v \in Workers : stopped[v] => stopped'[v]
          /\ \A v \in Workers : stopped'[v] => stopped[v] \/ (Closing /\ pc[v] # "none")
      BY <1>1, <2>1, <2>3
    <2>5. Closing' = Closing
      BY <2>1 DEF Closing
    <2> QED
      BY <2>1, <2>2, <2>4, <2>5, SliceKept
  <1>3. CASE Shutdown
    <2>1. UNCHANGED <<workers, pc>> /\ Closing'
      BY <1>3, ShutdownSteps DEF scaleVars
    <2>2. /\ \A v \in Workers : stopped[v] => stopped'[v]
          /\ \A v \in Workers : stopped'[v] => stopped[v] \/ (Closing' /\ pc[v] # "none")
      BY <1>3, <2>1, ShutdownSteps DEF SliceOK
    <2> QED
      BY <2>1, <2>2, SliceKept
  <1>4. CASE UNCHANGED <<workers, pc, stopped, closer>>
    BY <1>4, SliceKept DEF Closing
  <1>5. CASE JobStep \/ Grow \/ Steady \/ UNCHANGED vars
    <2>1. UNCHANGED <<workers, pc, stopped, closer>>
      BY <1>5, JobsMoves DEF Grow, Steady, workerVars, scaleVars, closeVars, vars
    <2> QED
      BY <1>4, <2>1
  <1>6. CASE Scaling
    <2>1. CASE CreateWorker
      BY <2>1, CreateSlice
    <2>2. CASE ~CreateWorker
      BY <1>4, <1>6, <2>2, ScalingSteps DEF closeVars
    <2> QED
      BY <2>1, <2>2
  <1> QED
    BY <1>2, <1>3, <1>5, <1>6, ShrinkSlice, CallSteps DEF Next, JobStep, Shutdown, Calls

-----------------------------------------------------------------------------
(* The jobs.                                                               *)

\* What a worker's step means for the jobs: it takes one, is done with the one
\* it has, or moves on.
Takes(w, j) == /\ at[j] = "queued" /\ at' = [at EXCEPT ![j] = "running"]
               /\ holds' = [holds EXCEPT ![w] = j] /\ Move(w, "select", "taken")

TakesNone(w) == /\ at' = at /\ holds' = [holds EXCEPT ![w] = NoJob]
                /\ Move(w, "select", "taken")

Yields(w) == /\ \/ /\ at' = [at EXCEPT ![holds[w]] = "result"] /\ pc[w] = "running"
                   /\ Cardinality(In("result")) < QueueSize
                \/ /\ at' = [j \in Jobs |-> IF j = holds[w] THEN "lost" ELSE at[j]]
                   /\ Closing
             /\ holds' = [holds EXCEPT ![w] = NoJob]
             /\ \E to : pc' = [pc EXCEPT ![w] = to]

MovesOn(w) == /\ UNCHANGED <<at, holds>>
              /\ \/ Move(w, "taken", "active") \/ Move(w, "active", "running")
                 \/ \E to : /\ pc[w] \notin {"taken", "active", "running"}
                            /\ pc' = [pc EXCEPT ![w] = to]

LEMMA WorkerJobs ==
    ASSUME NEW w \in Workers, WorkerStep(w)
    PROVE  (\E j \in Jobs : Takes(w, j)) \/ TakesNone(w) \/ Yields(w) \/ MovesOn(w)
  <1>1. CASE TakeJob(w)
    BY <1>1 DEF TakeJob, Take, Put, In, Takes, TakesNone
  <1>2. CASE SendResult(w)
    BY <1>2 DEF SendResult, Put, Move, Yields
  <1>3. CASE LeaveLoop(w)
    BY <1>3 DEF LeaveLoop, Move, Yields, Closing, Closed
  <1>4. CASE CheckStopped(w)
    <2>1. /\ UNCHANGED <<at, holds>> /\ pc[w] = "top"
          /\ \E to : pc' = [pc EXCEPT ![w] = to]
      BY <1>4, Zenon DEF CheckStopped, Move, jobVars
    <2> QED
      BY <2>1 DEF MovesOn
  <1>5. CASE Quit(w) \/ Mark(w) \/ ReturnWorker(w)
    BY <1>5 DEF Quit, Mark, ReturnWorker, Move, MovesOn, jobVars
  <1> QED
    BY <1>1, <1>2, <1>3, <1>4, <1>5 DEF WorkerStep

LEMMA WorkerCharge ==
    ASSUME TypeOK, InCharge, NEW w \in Workers, WorkerStep(w)
    PROVE  InCharge'
  <1>1. /\ NoJob \notin Jobs /\ at \in [Jobs -> Stages]
        /\ holds \in [Workers -> Jobs \cup {NoJob}] /\ pc \in [Workers -> Places]
    BY Limits DEF TypeOK
  <1>2. ASSUME NEW j \in Jobs, Takes(w, j) PROVE InCharge'
    <2>1. /\ holds[w] \notin Jobs
          /\ \A v \in Workers : holds[v] # j
      BY <1>2 DEF Takes, Move, InCharge
    <2>2. /\ holds'[w] = j /\ pc'[w] = "taken" /\ at'[j] = "running"
          /\ \A v \in Workers : v # w => holds'[v] = holds[v] /\ pc'[v] = pc[v]
          /\ \A i \in Jobs : i # j => at'[i] = at[i]
      BY <1>1, <1>2 DEF Takes, Move
    <2> QED
      BY <2>1, <2>2 DEF InCharge
  <1>3. CASE TakesNone(w)
    <2>1. /\ holds[w] \notin Jobs /\ holds'[w] = NoJob /\ at' = at
          /\ \A v \in Workers : v # w => holds'[v] = holds[v] /\ pc'[v] = pc[v]
      BY <1>1, <1>3 DEF TakesNone, Move, InCharge
    <2> QED
      BY <1>1, <2>1 DEF InCharge
  <1>4. CASE Yields(w)
    <2>1. /\ holds'[w] = NoJob
          /\ \A v \in Workers : v # w => holds'[v] = holds[v] /\ pc'[v] = pc[v]
      BY <1>1, <1>4 DEF Yields
    <2>2. /\ \A j \in Jobs : j # holds[w] => at'[j] = at[j]
          /\ \A j \in Jobs : j = holds[w] => at'[j] # "running"
      BY <1>1, <1>4 DEF Yields
    <2> QED
      BY <1>1, <2>1, <2>2 DEF InCharge
  <1>5. CASE MovesOn(w)
    <2>1. /\ UNCHANGED <<at, holds>>
          /\ \A v \in Workers : pc[v] \in {"taken", "active", "running"}
                               => pc'[v] \in {"taken", "active", "running"}
      BY <1>1, <1>5 DEF MovesOn, Move
    <2> QED
      BY <2>1 DEF InCharge
  <1> QED
    BY <1>2, <1>3, <1>4, <1>5, WorkerJobs

LEMMA WorkerQueued ==
    ASSUME TypeOK, InCharge, QueuedExact, NEW w \in Workers, WorkerStep(w)
    PROVE  QueuedExact'
  <1>1. NoJob \notin Jobs /\ at \in [Jobs -> Stages]
    BY Limits DEF TypeOK
  <1>2. \A j \in Jobs : \/ at'[j] = at[j]
                        \/ at[j] \in {"queued", "running"}
                             /\ at'[j] \in {"running", "result", "lost"}
    <2>1. ASSUME NEW j \in Jobs, Takes(w, j)
          PROVE  \A i \in Jobs : at'[i] = at[i] \/ (at[i] = "queued" /\ at'[i] = "running")
      BY <1>1, <2>1 DEF Takes
    <2>2. CASE Yields(w)
      <3>1. \A j \in Jobs : j = holds[w] => at[j] = "running"
        BY DEF InCharge
      <3> QED
        BY <1>1, <2>2, <3>1 DEF Yields
    <2>3. CASE TakesNone(w) \/ MovesOn(w)
      BY <2>3 DEF TakesNone, MovesOn
    <2> QED
      BY <2>1, <2>2, <2>3, WorkerJobs
  <1>3. Unprocessed' = Unprocessed
    BY <1>2 DEF Unprocessed
  <1>4. uncounted' = uncounted /\ \A j \in Jobs : at'[j] \in {"new", "checked"} => at'[j] = at[j]
    BY <1>2, WorkerMoves
  <1>5. gauges'.queued = gauges.queued
    <2>1. gauges' = gauges \/ \E g \in {"active", "idle"}, n \in Int : Adjust(g, n)
      BY WorkerMoves
    <2>2. GaugesOK
      BY DEF TypeOK, GaugesOK, GaugeNames
    <2> QED
      BY <2>1, <2>2, AdjustWorkers
  <1> QED
    BY <1>3, <1>4, <1>5 DEF QueuedExact, TypeOK

\* A job that no worker has changes its stage.
LEMMA ChargeKept ==
    ASSUME TypeOK, InCharge, UNCHANGED <<holds, pc>>, NEW j \in Jobs, NEW s,
           at[j] # "running", s # "running", at' = [at EXCEPT ![j] = s]
    PROVE  InCharge'
  BY DEF InCharge, TypeOK

LEMMA JobsCharge ==
    ASSUME TypeOK, InCharge, JobStep
    PROVE  InCharge'
  <1>1. UNCHANGED <<holds, pc>>
    BY JobsMoves DEF workerVars
  <1>2. \/ at' = at
        \/ \E j \in Jobs, s \in {"rejected", "checked", "panicked", "queued", "received",
                                 "counted", "fetched"} :
             at[j] # "running" /\ at' = [at EXCEPT ![j] = s]
    BY DEF JobStep, Results, Submit, CheckClosed, Enqueue, CountQueued, ProcessResult,
       CountResult, GetResult, Put, In
  <1>3. CASE at' = at
    BY <1>1, <1>3 DEF InCharge
  <1> QED
    BY <1>1, <1>2, <1>3, ChargeKept

LEMMA JobsQueued ==
    ASSUME TypeOK, QueuedExact, JobStep
    PROVE  QueuedExact'
  <1>1. /\ at \in [Jobs -> Stages] /\ uncounted \subseteq Jobs /\ GaugesOK
        /\ gauges.queued \in Int
        /\ IsFiniteSet(Unprocessed) /\ Cardinality(Unprocessed) \in Nat
        /\ IsFiniteSet(uncounted) /\ Cardinality(uncounted) \in Nat
    BY FS_CardinalityType DEF TypeOK, GaugesOK, GaugeNames, QueuedExact
  <1>2. ASSUME NEW j \in Jobs, NEW s, at' = [at EXCEPT ![j] = s],
               UNCHANGED <<uncounted, gauges>>,
               \/ at[j] \in {"new", "checked"} /\ s \in {"rejected", "checked", "panicked"}
               \/ at[j] = "result" /\ s \in {"received", "fetched"}
        PROVE  QueuedExact'
    <2>1. Unprocessed' = Unprocessed
      BY <1>1, <1>2 DEF Unprocessed
    <2>2. \A i \in uncounted : at'[i] \notin {"new", "checked"}
      BY <1>1, <1>2 DEF QueuedExact
    <2> QED
      BY <1>2, <2>1, <2>2 DEF QueuedExact
  <1>3. ASSUME NEW j \in Jobs, at[j] = "checked", at' = [at EXCEPT ![j] = "queued"],
               uncounted' = uncounted \cup {j}, UNCHANGED gauges
        PROVE  QueuedExact'
    <2>1. j \notin Unprocessed /\ Unprocessed' = Unprocessed \cup {j} /\ j \notin uncounted
      BY <1>1, <1>3 DEF Unprocessed, QueuedExact
    <2>2. /\ IsFiniteSet(Unprocessed \cup {j}) /\ IsFiniteSet(uncounted \cup {j})
          /\ Cardinality(Unprocessed \cup {j}) = Cardinality(Unprocessed) + 1
          /\ Cardinality(uncounted \cup {j}) = Cardinality(uncounted) + 1
      BY <1>1, <2>1, FS_AddElement
    <2>3. \A i \in uncounted' : at'[i] \notin {"new", "checked"}
      BY <1>1, <1>3 DEF QueuedExact
    <2> QED
      BY <1>1, <1>3, <2>1, <2>2, <2>3 DEF QueuedExact
  <1>4. ASSUME NEW j \in Jobs, CountQueued(j) PROVE QueuedExact'
    <2>1. j \in uncounted /\ uncounted' = uncounted \ {j} /\ at' = at
      BY <1>4 DEF CountQueued
    <2>2. /\ IsFiniteSet(uncounted \ {j})
          /\ Cardinality(uncounted \ {j}) = Cardinality(uncounted) - 1
      BY <1>1, <2>1, FS_RemoveElement
    <2>3. gauges'.queued = gauges.queued + 1
      BY <1>1, <1>4, AdjustQueued DEF CountQueued
    <2>4. Unprocessed' = Unprocessed
      BY <2>1 DEF Unprocessed
    <2> QED
      BY <1>1, <2>1, <2>2, <2>3, <2>4 DEF QueuedExact
  <1>5. CASE CountResult
    <2>1. PICK j \in Jobs : at[j] = "received" /\ at' = [at EXCEPT ![j] = "counted"]
      BY <1>5 DEF CountResult, In, Put
    <2>2. j \in Unprocessed /\ Unprocessed' = Unprocessed \ {j}
      BY <1>1, <2>1 DEF Unprocessed
    <2>3. /\ IsFiniteSet(Unprocessed \ {j})
          /\ Cardinality(Unprocessed \ {j}) = Cardinality(Unprocessed) - 1
      BY <1>1, <2>2, FS_RemoveElement
    <2>4. gauges'.queued = gauges.queued + -1 /\ uncounted' = uncounted
      BY <1>1, <1>5, AdjustQueued DEF CountResult
    <2>5. \A i \in uncounted : at'[i] \notin {"new", "checked"}
      BY <1>1, <2>1 DEF QueuedExact
    <2> QED
      BY <1>1, <2>2, <2>3, <2>4, <2>5 DEF QueuedExact
  <1>6. CASE ProcessResult \/ GetResult
    <2>1. PICK j \in Jobs, s \in {"received", "fetched"} :
            at[j] = "result" /\ at' = [at EXCEPT ![j] = s]
      BY <1>6 DEF ProcessResult, GetResult, In, Put
    <2> QED
      BY <1>2, <1>6, <2>1 DEF ProcessResult, GetResult
  <1>7. ASSUME NEW j \in Jobs, CheckClosed(j) PROVE QueuedExact'
    BY <1>2, <1>7 DEF CheckClosed, Put
  <1>8. ASSUME NEW j \in Jobs, Enqueue(j) PROVE QueuedExact'
    BY <1>2, <1>3, <1>8 DEF Enqueue, Put
  <1> QED
    BY <1>4, <1>5, <1>6, <1>7, <1>8 DEF JobStep, Results, Submit

-----------------------------------------------------------------------------
(* The invariant.                                                          *)

LEMMA InitIInv == Init => IInv
  <1> SUFFICES ASSUME Init PROVE IInv
    OBVIOUS
  <1> USE Limits
  <1>1. workers = [i \in 1..MinWorkers |-> i] /\ 1..MinWorkers \subseteq Workers
    BY DEF Init, Workers
  <1>2. /\ workers \in Seq(Workers) /\ Len(workers) = MinWorkers
        /\ \A i \in 1..MinWorkers : workers[i] = i
    BY <1>1
  <1>3. \A w \in Workers : pc[w] = IF w \in 1..MinWorkers THEN "top" ELSE "none"
    BY DEF Init, Workers
  <1>4. TypeOK
    <2>1. pc \in [Workers -> Places] /\ at \in [Jobs -> Stages]
      BY DEF Init, Places, Stages
    <2>2. /\ stopped \in [Workers -> BOOLEAN]
          /\ holds \in [Workers -> Jobs \cup {NoJob}]
      BY Zenon DEF Init
    <2>3. /\ slots \in 0..MaxWorkers /\ count \in 0..MaxWorkers
          /\ wg \in -1..MaxCreated /\ uncounted \subseteq Jobs
      BY DEF Init
    <2>4. gauges \in [{"queued", "active", "idle", "total"} -> Int]
      BY DEF Init
    <2>5. /\ closer \in {"open", "stopping", "waiting", "done", "closed"}
          /\ scaler \in [at : Scales, n : {1, 2}] /\ lock \in Locks
          /\ settled \subseteq Workers
      BY DEF Init, Scales, Locks
    <2> QED
      BY <1>2, <2>1, <2>2, <2>3, <2>4, <2>5 DEF TypeOK
  <1>5. InCharge
    BY DEF Init, InCharge
  <1>6. QueuedExact
    <2>1. Unprocessed = {} /\ uncounted = {} /\ gauges.queued = 0
      BY DEF Init, Unprocessed
    <2> QED
      BY <2>1, FS_EmptySet DEF QueuedExact
  <1>7. SliceOK
    <2>1. \A w \in Workers : Member(w) <=> w \in 1..MinWorkers
      BY <1>2 DEF Member
    <2>2. \A w \in Workers : ~stopped[w]
      BY DEF Init
    <2> QED
      BY <1>2, <1>3, <2>1, <2>2 DEF SliceOK
  <1>8. SizeOK
    BY <1>2 DEF Init, SizeOK
  <1>9. Counters
    <2>1. Created = 1..MinWorkers /\ Alive = 1..MinWorkers
          /\ Counted = {} /\ Away = {}
      BY <1>1, <1>3 DEF Created, Alive, Counted, Away
    <2>2. Cardinality(1..MinWorkers) = MinWorkers /\ Cardinality({}) = 0
      BY FS_Interval, FS_EmptySet
    <2>3. wg = MinWorkers /\ OwedTotal = 0 /\ OwedIdle = 0
      BY DEF Init, OwedTotal, OwedIdle
    <2>4. gauges.active = 0 /\ gauges.idle = MinWorkers /\ gauges.total = MinWorkers
      BY DEF Init
    <2> QED
      BY <1>2, <2>1, <2>2, <2>3, <2>4 DEF Counters, WaitExact, GaugesExact
  <1>10. Settled
    BY DEF Init, Settled
  <1> QED
    BY <1>4, <1>5, <1>6, <1>7, <1>8, <1>9, <1>10 DEF IInv

\* Nobody takes a job, sends its result or loses it.
LEMMA OthersKeep ==
    ASSUME TypeOK, InCharge, QueuedExact, Calls \/ Scaling \/ Shutdown
    PROVE  InCharge' /\ QueuedExact'
  <1>1. UNCHANGED <<at, uncounted, holds>>
    BY CallSteps, ScalingSteps, ShutdownSteps DEF Grow, Shrink, Steady, jobVars, workerVars
  <1>2. \A w \in Workers : pc[w] # "none" => pc'[w] = pc[w]
    <2>1. CASE CreateWorker
      BY <2>1 DEF CreateWorker, Move, TypeOK
    <2>2. CASE ~CreateWorker
      BY <2>2, CallSteps, ScalingSteps, ShutdownSteps DEF Grow, Shrink, Steady, workerVars
    <2> QED
      BY <2>1, <2>2
  <1>3. gauges'.queued = gauges.queued
    <2>1. GaugesOK /\ count \in Int
      BY CountersType
    <2>2. gauges' = gauges \/ \E g \in {"idle", "total"}, n \in Int : Adjust(g, n)
      <3>1. CASE Scaling
        BY <2>1, <3>1, ScalingSteps DEF Told
      <3>2. CASE Calls \/ Shutdown
        BY <3>2, CallSteps, ShutdownSteps DEF Grow, Shrink, Steady
      <3> QED
        BY <3>1, <3>2
    <2> QED
      BY <2>1, <2>2, AdjustWorkers
  <1>4. InCharge'
    BY <1>1, <1>2 DEF InCharge
  <1>5. QueuedExact'
    <2>1. Unprocessed' = Unprocessed
      BY <1>1 DEF Unprocessed
    <2> QED
      BY <1>1, <1>3, <2>1 DEF QueuedExact
  <1> QED
    BY <1>4, <1>5

\* A worker that has come to its end stays there, and Close is done with waiting
\* when all have.
LEMMA SettledStep ==
    ASSUME TypeOK, Counters, Settled, [Next]_vars PROVE Settled'
  <1> USE DEF Settled
  <1>1. pc \in [Workers -> Places] /\ settled \subseteq Workers
    BY DEF TypeOK
  <1>2. ASSUME NEW w \in Workers, WorkerStep(w) PROVE Settled'
    <2>1. /\ pc[w] # "exited" /\ settled' = settled
          /\ \E to : pc' = [pc EXCEPT ![w] = to]
      BY <1>2, WorkerMoves DEF Move, closeVars
    <2> QED
      BY <1>1, <2>1
  <1>3. CASE CreateWorker
    <2>1. /\ settled' = settled
          /\ \E w \in Workers : pc[w] # "exited" /\ pc' = [pc EXCEPT ![w] = "top"]
      BY <1>3 DEF CreateWorker, Move, closeVars
    <2> QED
      BY <1>1, <2>1
  <1>4. CASE UNCHANGED <<pc, settled>>
    BY <1>4
  <1>5. CASE JobStep \/ Calls \/ (Scaling /\ ~CreateWorker) \/ UNCHANGED vars
    <2>1. UNCHANGED <<pc, settled>>
      BY <1>5, JobsMoves, CallSteps, ScalingSteps DEF Grow, Shrink, Steady, workerVars,
         closeVars, vars
    <2> QED
      BY <1>4, <2>1
  <1>6. CASE Shutdown
    <2>1. CASE settled' = settled
      BY <1>4, <1>6, <2>1, ShutdownSteps
    <2>2. CASE closer = "waiting" /\ wg = 0 /\ settled' = Created
      <3>1. Cardinality(Alive) = 0
        BY <2>2 DEF Counters, WaitExact, Closed
      <3>2. IsFiniteSet(Alive)
        <4>1. Alive \in SUBSET Workers /\ IsFiniteSet(Workers)
          BY Limits, FS_Interval DEF Alive, Workers
        <4> QED
          BY <4>1, FS_Subset
      <3>3. Alive = {} /\ pc' = pc
        BY <1>6, <3>1, <3>2, FS_EmptySet, ShutdownSteps
      <3> QED
        BY <2>2, <3>3 DEF Alive, Created
    <2> QED
      BY <1>6, <2>1, <2>2, ShutdownSteps
  <1> QED
    BY <1>2, <1>3, <1>5, <1>6 DEF Next, JobStep, Calls, Shutdown

LEMMA StepIInv == IInv /\ [Next]_vars => IInv'
  <1> SUFFICES ASSUME IInv, [Next]_vars PROVE IInv'
    OBVIOUS
  <1>1. TypeOK /\ InCharge /\ QueuedExact /\ SliceOK /\ SizeOK /\ Counters /\ Settled
    BY DEF IInv
  <1>2. SliceOK' /\ SizeOK' /\ Settled'
    BY <1>1, SliceStep, SizeStep, SettledStep
  <1>3. CASE UNCHANGED vars
    <2>1. UNCHANGED <<at, uncounted, pc, holds, stopped, wg, workers, slots, lock,
                      count, gauges, closer, scaler, settled>>
      BY <1>3 DEF vars, jobVars, workerVars, scaleVars, closeVars
    <2>2. OwedTotal' = OwedTotal /\ OwedIdle' = OwedIdle
      BY <2>1 DEF OwedTotal, OwedIdle
    <2>3. Counters'
      BY <1>1, <2>1, <2>2, SameCounts DEF Counters, WaitExact, GaugesExact, Closed, Closing
    <2> QED
      BY <1>1, <1>2, <2>1, <2>3 DEF IInv, TypeOK, InCharge, QueuedExact, Unprocessed
  <1>4. CASE Next
    <2>1. wg >= 0 /\ wg <= Cardinality(Created)
      BY <1>1, <1>4 DEF Next, Running, Counters
    <2>2. CASE JobStep
      BY <1>1, <1>2, <2>2, JobsType, JobsCharge, JobsQueued, JobsCounts DEF IInv
    <2>3. ASSUME NEW w \in Workers, WorkerStep(w) PROVE IInv'
      BY <1>1, <1>2, <2>1, <2>3, WorkerType, WorkerCharge, WorkerQueued, WorkerCounts
      DEF IInv
    <2>4. CASE Calls
      BY <1>1, <1>2, <2>4, CallsType, CallsCounts, OthersKeep DEF IInv
    <2>5. CASE Scaling
      BY <1>1, <1>2, <2>1, <2>5, ScalingType, ScalingCounts, OthersKeep DEF IInv
    <2>6. CASE Shutdown
      BY <1>1, <1>2, <2>6, ShutdownType, ShutdownCounts, OthersKeep DEF IInv
    <2> QED
      BY <1>4, <2>2, <2>3, <2>4, <2>5, <2>6 DEF Next, JobStep, Calls, Shutdown
  <1> QED
    BY <1>3, <1>4

LEMMA Invariance == Spec => []IInv
  BY InitIInv, StepIInv, PTL DEF Spec

-----------------------------------------------------------------------------
\* Every variable keeps its type: among others, workerPool never holds more
\* than MaxWorkers entries, and ScaleUp never takes more room than there is.
THEOREM TypeCorrect == Spec => []TypeOK
  <1>1. IInv => TypeOK
    BY DEF IInv
  <1> QED
    BY <1>1, Invariance, PTL

\* No scaling, no shutdown and no panic of a send gives a job to two workers or
\* leaves it, unfinished, to none.
THEOREM JobHasOneWorker == Spec => []OneWorkerPerJob
  <1>1. IInv => OneWorkerPerJob
    <2> SUFFICES ASSUME IInv, NEW j \in Jobs
                 PROVE  Cardinality({w \in Workers : holds[w] = j})
                          = IF at[j] = "running" THEN 1 ELSE 0
      BY DEF OneWorkerPerJob
    <2>1. /\ \A v, w \in Workers : holds[v] = j /\ holds[w] = j => v = w
          /\ at[j] = "running" <=> \E w \in Workers : holds[w] = j
      BY DEF IInv, InCharge
    <2>2. CASE at[j] = "running"
      <3>1. PICK w \in Workers : holds[w] = j
        BY <2>1, <2>2
      <3>2. {v \in Workers : holds[v] = j} = {w}
        BY <2>1, <3>1
      <3> QED
        BY <2>2, <3>2, FS_Singleton
    <2>3. CASE at[j] # "running"
      <3>1. {v \in Workers : holds[v] = j} = {}
        BY <2>1, <2>3
      <3> QED
        BY <2>3, <3>1, FS_EmptySet
    <2> QED
      BY <2>2, <2>3
  <1> QED
    BY <1>1, Invariance, PTL

\* The line counts with its own copy of the library's operator.
LEMMA SameCardinality == ASSUME NEW S PROVE Line!Cardinality(S) = Cardinality(S)
  BY DEF Cardinality, Line!Cardinality

\* The line sees the stages of jobs, the hands of workers and whether Close began.
LEMMA LineKept ==
    ASSUME UNCHANGED <<at, holds>>, Closing' = Closing
    PROVE  UNCHANGED Line!jvars
  BY DEF Line!jvars, In

LEMMA WorkerLine ==
    ASSUME TypeOK, InCharge, NEW w \in Workers, WorkerStep(w)
    PROVE  Line!Next \/ UNCHANGED Line!jvars
  <1> USE DEF Line!jvars
  <1>1. /\ NoJob \notin Jobs /\ holds \in [Workers -> Jobs \cup {NoJob}]
        /\ at \in [Jobs -> Stages] /\ Closing' = Closing
    BY Limits, WorkerMoves DEF TypeOK, Closing, closeVars
  <1>2. ASSUME NEW j \in Jobs, Takes(w, j) PROVE Line!Take(w, j)
    <2>1. holds[w] = NoJob
      BY <1>1, <1>2 DEF Takes, Move, InCharge
    <2>2. In("queued")' = In("queued") \ {j} /\ j \in In("queued")
      BY <1>2 DEF Takes, In, TypeOK
    <2>3. UNCHANGED <<In("result"), In("received"), In("counted"), In("fetched"),
                     In("lost")>>
      BY <1>2 DEF Takes, In, TypeOK
    <2> QED
      BY <1>1, <1>2, <2>1, <2>2, <2>3 DEF Takes, Line!Take
  <1>3. CASE TakesNone(w)
    <2>1. holds[w] = NoJob
      BY <1>1, <1>3 DEF TakesNone, Move, InCharge
    <2>2. UNCHANGED <<at, holds>>
      BY <1>1, <1>3, <2>1 DEF TakesNone
    <2> QED
      BY <1>1, <2>2, LineKept
  <1>4. CASE Yields(w) /\ holds[w] = NoJob
    <2>1. UNCHANGED <<at, holds>>
      BY <1>1, <1>4 DEF Yields
    <2> QED
      BY <1>1, <2>1, LineKept
  <1>5. ASSUME Yields(w), holds[w] \in Jobs PROVE Line!Finish(w) \/ Line!Lose(w)
    <2> DEFINE j == holds[w]
    <2>1. at[j] = "running" /\ Line!LetGo(w)
      BY <1>5 DEF Yields, InCharge, Line!LetGo
    <2>2. CASE at' = [at EXCEPT ![j] = "result"] /\ Cardinality(In("result")) < QueueSize
      <3>1. In("result")' = In("result") \cup {j}
        BY <1>5, <2>2 DEF In, TypeOK
      <3>2. UNCHANGED <<In("queued"), In("received"), In("counted"), In("fetched"),
                       In("lost")>>
        BY <1>5, <2>1, <2>2 DEF In, TypeOK
      <3> QED
        BY <1>1, <2>1, <2>2, <3>1, <3>2, SameCardinality DEF Line!Finish
    <2>3. CASE at' = [i \in Jobs |-> IF i = j THEN "lost" ELSE at[i]] /\ Closing
      <3>1. at' = [at EXCEPT ![j] = "lost"]
        BY <1>1, <2>3
      <3>2. In("lost")' = In("lost") \cup {j}
        BY <1>5, <3>1 DEF In, TypeOK
      <3>3. UNCHANGED <<In("queued"), In("result"), In("received"), In("counted"),
                       In("fetched")>>
        BY <1>5, <2>1, <3>1 DEF In, TypeOK
      <3> QED
        BY <1>1, <2>1, <2>3, <3>2, <3>3 DEF Line!Lose
    <2> QED
      BY <1>5, <2>2, <2>3 DEF Yields
  <1>6. CASE MovesOn(w)
    BY <1>1, <1>6, LineKept DEF MovesOn
  <1> QED
    BY <1>1, <1>2, <1>3, <1>4, <1>5, <1>6, WorkerJobs DEF Line!Next

LEMMA JobsLine ==
    ASSUME TypeOK, InCharge, JobStep
    PROVE  Line!Next \/ UNCHANGED Line!jvars
  <1> USE DEF Line!jvars
  <1>1. /\ at \in [Jobs -> Stages] /\ UNCHANGED holds /\ Closing' = Closing
    BY JobsMoves DEF TypeOK, workerVars, closeVars, Closing
  <1>2. ASSUME NEW j \in Jobs, at[j] \in {"new", "checked"},
               NEW s \in {"rejected", "checked", "panicked"}, Put(j, s)
        PROVE  UNCHANGED Line!jvars
    <2>1. \A r \in {"queued", "result", "received", "counted", "fetched", "lost"} : In(r)' = In(r)
      BY <1>2 DEF Put, In, TypeOK
    <2> QED
      BY <1>1, <2>1
  <1>3. ASSUME NEW j \in Jobs, at[j] = "checked", Put(j, "queued"),
               Cardinality(In("queued")) < QueueSize
        PROVE  Line!Accept(j)
    <2>1. In("queued")' = In("queued") \cup {j}
      BY <1>3 DEF Put, In, TypeOK
    <2>2. UNCHANGED <<In("result"), In("received"), In("counted"), In("fetched"),
                     In("lost")>>
      BY <1>3 DEF Put, In, TypeOK
    <2>3. Line!Fresh(j)
      <3>1. \A w \in Workers : holds[w] # j
        BY <1>3 DEF InCharge
      <3> QED
        BY <1>3, <3>1 DEF In, Line!Fresh
    <2> QED
      BY <1>1, <1>3, <2>1, <2>2, <2>3, SameCardinality DEF Line!Accept
  <1>4. ASSUME NEW j \in Jobs, at[j] = "result",
               NEW s \in {"received", "fetched"}, Put(j, s)
        PROVE  Line!Deliver(j)
    <2>1. In("result")' = In("result") \ {j} /\ j \in In("result")
      BY <1>4 DEF Put, In, TypeOK
    <2>2. (In("received") \cup In("counted") \cup In("fetched"))'
            = (In("received") \cup In("counted") \cup In("fetched")) \cup {j}
      BY <1>4 DEF Put, In, TypeOK
    <2>3. UNCHANGED <<In("queued"), In("lost")>>
      BY <1>4 DEF Put, In, TypeOK
    <2> QED
      BY <1>1, <2>1, <2>2, <2>3 DEF Line!Deliver
  <1>5. ASSUME NEW j \in Jobs, Submit(j) PROVE Line!Next \/ UNCHANGED Line!jvars
    <2>1. CASE CheckClosed(j)
      BY <1>2, <2>1 DEF CheckClosed
    <2>2. CASE Enqueue(j)
      BY <1>2, <1>3, <2>2 DEF Enqueue, Line!Next
    <2>3. CASE CountQueued(j)
      BY <1>1, <2>3, LineKept DEF CountQueued
    <2> QED
      BY <1>5, <2>1, <2>2, <2>3 DEF Submit
  <1>6. CASE ProcessResult
    BY <1>4, <1>6 DEF ProcessResult, In, Line!Next
  <1>7. CASE GetResult
    BY <1>4, <1>7 DEF GetResult, In, Line!Next
  <1>8. CASE CountResult
    <2>1. PICK j \in Jobs : at[j] = "received" /\ Put(j, "counted")
      BY <1>8 DEF CountResult, In
    <2>2. (In("received") \cup In("counted") \cup In("fetched"))'
            = In("received") \cup In("counted") \cup In("fetched")
      BY <2>1 DEF Put, In, TypeOK
    <2>3. UNCHANGED <<In("queued"), In("result"), In("lost")>>
      BY <2>1 DEF Put, In, TypeOK
    <2> QED
      BY <1>1, <2>2, <2>3
  <1> QED
    BY <1>5, <1>6, <1>7, <1>8 DEF JobStep, Results

\* Channels, gauges, a slice of workers that grows and shrinks, a WaitGroup and
\* a Close that may not wait keep the line of jobs: none is taken twice, given
\* to two workers, delivered twice, or lost while the pool is open.
THEOREM Refinement == Spec => ImplementsJobLine
  <1>1. Init => Line!Init
    <2> SUFFICES ASSUME Init PROVE Line!Init
      OBVIOUS
    <2>1. In("queued") = {} /\ In("result") = {} /\ In("lost") = {}
          /\ In("received") = {} /\ In("counted") = {} /\ In("fetched") = {}
      BY DEF Init, In
    <2> QED
      BY <2>1 DEF Init, Closing, Line!Init
  <1>2. IInv /\ [Next]_vars => [Line!Next]_(Line!jvars)
    <2> SUFFICES ASSUME IInv, [Next]_vars PROVE Line!Next \/ UNCHANGED Line!jvars
      OBVIOUS
    <2>1. TypeOK /\ InCharge
      BY DEF IInv
    <2>2. ASSUME NEW w \in Workers, WorkerStep(w)
          PROVE  Line!Next \/ UNCHANGED Line!jvars
      BY <2>1, <2>2, WorkerLine
    <2>3. CASE JobStep
      BY <2>1, <2>3, JobsLine
    <2>4. CASE Calls \/ Scaling \/ UNCHANGED vars
      <3>1. UNCHANGED <<at, holds, closer>>
        BY <2>1, <2>4, CallSteps, ScalingSteps DEF Grow, Shrink, Steady, vars, jobVars,
           workerVars, closeVars
      <3> QED
        BY <3>1, LineKept DEF Closing
    <2>5. CASE Shutdown
      <3>1. UNCHANGED <<at, holds>> /\ Closing'
        BY <2>1, <2>5, ShutdownSteps DEF jobVars
      <3>2. CASE Closing
        BY <3>1, <3>2, LineKept
      <3>3. CASE ~Closing
        <4>1. UNCHANGED <<In("queued"), In("result"), In("received"), In("counted"),
                          In("fetched"), In("lost"), holds>>
          BY <3>1 DEF In
        <4>2. Line!Shut
          BY <3>1, <3>3, <4>1 DEF Line!Shut
        <4> QED
          BY <4>2 DEF Line!Next
      <3> QED
        BY <3>2, <3>3
    <2> QED
      BY <2>2, <2>3, <2>4, <2>5 DEF Next, JobStep, Calls, Shutdown
  <1> QED
    BY <1>1, <1>2, Invariance, PTL DEF Spec, ImplementsJobLine, Line!Spec

\* QueuedJobs is exact, but for the additions Submit still owes and the results
\* GetResult took.
THEOREM QueueGaugeExact == Spec => []QueueGauge
  <1>1. IInv => QueueGauge
    BY DEF IInv, QueuedExact, Unprocessed, QueueGauge
  <1> QED
    BY <1>1, Invariance, PTL

\* While the pool is open, a reader without a lock finds each of the three gauges
\* of workers off by what its writers owe at that moment, and by no more: each of
\* them moves by a step of its own, apart from the channels, the slice and mu.
THEOREM WorkerGaugesExact == Spec => []WorkerGauges
  <1>1. IInv => WorkerGauges
    BY DEF IInv, Counters, GaugesExact, Counted, Away, WorkerGauges
  <1> QED
    BY <1>1, Invariance, PTL

\* The slice of workers, as a set, is as large as it is long.
LEMMA SliceSize ==
    ASSUME TypeOK, SliceOK
    PROVE  /\ Cardinality({w \in Workers : Member(w)}) = Len(workers)
           /\ IsFiniteSet({w \in Workers : Member(w)})
  <1> DEFINE S == {w \in Workers : Member(w)}
  <1>1. workers \in Seq(Workers) /\ Len(workers) \in Nat
    BY DEF TypeOK
  <1>2. \A i \in 1..Len(workers) : workers[i] \in S
    BY <1>1 DEF Member
  <1>3. workers \in [1..Len(workers) -> S]
    BY <1>1, <1>2
  <1>4. workers \in Injection(1..Len(workers), S)
    <2>1. \A a, b \in DOMAIN workers : workers[a] = workers[b] => a = b
      BY <1>1 DEF SliceOK
    <2> QED
      BY <1>3, <2>1 DEF Injection, IsInjective
  <1>5. workers \in Surjection(1..Len(workers), S)
    BY <1>3 DEF Member, Surjection
  <1>6. ExistsBijection(1..Len(workers), S)
    BY <1>4, <1>5 DEF Bijection, ExistsBijection
  <1>7. Cardinality(S) = Len(workers)
    BY <1>1, <1>6, FS_CountingElements
  <1>8. IsFiniteSet(S)
    <2>1. IsFiniteSet(1..Len(workers))
      BY <1>1, FS_Interval
    <2> QED
      BY <1>6, <2>1, FS_Bijection
  <1> QED
    BY <1>7, <1>8

\* Concurrent scaling, by hand and by autoScale, keeps the number of workers that
\* serve between the two limits; the shutdown only takes some away.
THEOREM LimitsHold == Spec => []WorkerLimits
  <1>1. IInv => WorkerLimits
    <2> SUFFICES ASSUME IInv PROVE WorkerLimits
      OBVIOUS
    <2> DEFINE Serving == {w \in Created : ~stopped[w]}
               S == {w \in Workers : Member(w)}
    <2>1. TypeOK /\ SliceOK /\ SizeOK
      BY DEF IInv
    <2>2. Cardinality(S) = Len(workers) /\ IsFiniteSet(S)
      BY <2>1, SliceSize
    <2>3. Serving \in SUBSET S /\ (~Closing => Serving = S)
      BY <2>1 DEF SliceOK, Created
    <2>4. MinWorkers <= Len(workers) /\ Len(workers) <= MaxWorkers /\ Len(workers) \in Nat
      BY <2>1, Limits DEF TypeOK, SizeOK
    <2>5. IsFiniteSet(Serving) /\ Cardinality(Serving) <= Cardinality(S)
      BY <2>2, <2>3, FS_Subset
    <2>6. Cardinality(Serving) \in Nat
      BY <2>5, FS_CardinalityType
    <2>7. Cardinality(Serving) <= MaxWorkers
      BY <2>2, <2>4, <2>5, <2>6, Limits
    <2>8. ~Closing => Cardinality(Serving) >= MinWorkers
      BY <2>2, <2>3, <2>4
    <2> QED
      BY <2>7, <2>8 DEF WorkerLimits
  <1> QED
    BY <1>1, Invariance, PTL

-----------------------------------------------------------------------------
(* The shutdown.                                                           *)

\* Until the channels are closed, the WaitGroup counts the goroutines that run,
\* so it cannot fall below zero and end the process.
THEOREM WaitGroupExact == Spec => [](~Closed => wg = Cardinality(Alive) /\ wg >= 0)
  <1>1. IInv => (~Closed => wg = Cardinality(Alive) /\ wg >= 0)
    BY CensusType DEF IInv, TypeOK, Counters, WaitExact
  <1> QED
    BY <1>1, Invariance, PTL

\* Whatever scales the pool, before, during or after a Close, and whoever panics:
\* when Close has waited for the workers without running out of time, those that
\* were created until then have all left when it closes the channels.
THEOREM ChannelsLast == Spec => []ChannelsClosedLast
  <1>1. IInv => ChannelsClosedLast
    BY DEF IInv, Settled, ChannelsClosedLast
  <1> QED
    BY <1>1, Invariance, PTL
=============================================================================
