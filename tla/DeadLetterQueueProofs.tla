----------------------- MODULE DeadLetterQueueProofs -----------------------
(***************************************************************************)
(* Proofs about DeadLetterQueue, for every set of operations and workers,  *)
(* all limits and every choice of what else may happen.                    *)
(***************************************************************************)
EXTENDS DeadLetterQueue, FiniteSetTheorems, TLAPS

\* The channel holds no operation twice.
Once == \A i, j \in DOMAIN chan : chan[i] \in Ops /\ chan[i] = chan[j] => i = j

\* A worker has an operation exactly while it processes one.
Busy == \A w \in Workers : holds[w] \in Ops <=> pc[w] \notin {"idle", "exited"}

\* An operation that was sent is at one place, and the others are at none.
Apart ==
    /\ \A v, w \in Workers : holds[v] \in Ops /\ holds[v] = holds[w] => v = w
    /\ \A op \in Ops : InChannel(op) => ~Held(op)
    /\ \A op \in Ops : op \in lost => ~InChannel(op) /\ ~Held(op)
    /\ \A op \in Ops : InChannel(op) \/ Held(op) \/ op \in lost => stage[op] = "sent"

\* The sets the counters count are finite, whether or not Ops is.
Counted == /\ IsFiniteSet(InFlight) /\ IsFiniteSet(Resolved)
           /\ current + forgotten = Cardinality(InFlight)
           /\ total.succeeded + total.dropped = Cardinality(Resolved)

\* The channel closes after the workers have left, unless Close gave up on them.
Graceful == /\ Closed /\ ~forced => \A w \in Workers : pc[w] = "exited"
            /\ crashed = "worker" => forced

IInv == TypeOK /\ Once /\ Busy /\ Apart /\ Counted /\ Graceful

-----------------------------------------------------------------------------
(* The channel, the hands of the workers and the map.                      *)

LEMMA Limits == MaxRetries \in Nat /\ QueueSize \in Nat \ {0} /\ NoOp \notin Ops
  BY ConfigAssumption

LEMMA Appended ==
    ASSUME TypeOK, Once, NEW x \in Ops \cup {NoOp}, x \in Ops => ~InChannel(x),
           chan' = Append(chan, x)
    PROVE  /\ Once'
           /\ \A op \in Ops : InChannel(op)' <=> InChannel(op) \/ op = x
  <1>1. chan \in Seq(Ops \cup {NoOp})
    BY DEF TypeOK
  <1>2. /\ Len(chan) \in Nat /\ Len(chan') = Len(chan) + 1
        /\ DOMAIN chan = 1..Len(chan) /\ DOMAIN chan' = 1..(Len(chan) + 1)
        /\ chan'[Len(chan) + 1] = x
        /\ \A i \in 1..Len(chan) : chan'[i] = chan[i]
    BY <1>1
  <1>3. \A op \in Ops : InChannel(op)' <=> InChannel(op) \/ op = x
    BY <1>2 DEF InChannel
  <1>4. Once'
    BY <1>2 DEF Once, InChannel
  <1> QED
    BY <1>3, <1>4

LEMMA Taken ==
    ASSUME TypeOK, Once, chan # <<>>, chan' = Tail(chan)
    PROVE  /\ Once'
           /\ Head(chan) \in Ops \cup {NoOp}
           /\ Head(chan) \in Ops => InChannel(Head(chan))
           /\ \A op \in Ops : InChannel(op)' <=> InChannel(op) /\ op # Head(chan)
  <1>1. chan \in Seq(Ops \cup {NoOp})
    BY DEF TypeOK
  <1>2. /\ Len(chan) \in Nat \ {0} /\ Len(chan') = Len(chan) - 1
        /\ DOMAIN chan = 1..Len(chan) /\ DOMAIN chan' = 1..(Len(chan) - 1)
        /\ Head(chan) = chan[1]
        /\ \A i \in 1..(Len(chan) - 1) : chan'[i] = chan[i + 1]
    BY <1>1
  <1>3. Head(chan) \in Ops \cup {NoOp} /\ (Head(chan) \in Ops => InChannel(Head(chan)))
    BY <1>1, <1>2 DEF InChannel
  <1>4. ASSUME NEW op \in Ops PROVE InChannel(op)' <=> InChannel(op) /\ op # Head(chan)
    <2>1. ASSUME NEW i \in 1..Len(chan'), chan'[i] = op
          PROVE  InChannel(op) /\ op # Head(chan)
      <3>1. i + 1 \in 1..Len(chan) /\ chan[i + 1] = op /\ i + 1 # 1
        BY <1>2, <2>1
      <3> QED
        BY <1>2, <3>1 DEF InChannel, Once
    <2>2. ASSUME NEW i \in 1..Len(chan), chan[i] = op, op # Head(chan)
          PROVE  InChannel(op)'
      <3>1. i - 1 \in 1..Len(chan') /\ chan'[i - 1] = op
        BY <1>2, <2>2
      <3> QED
        BY <3>1 DEF InChannel
    <2> QED
      BY <2>1, <2>2 DEF InChannel
  <1>5. Once'
    <2> SUFFICES ASSUME NEW i \in 1..Len(chan'), NEW j \in 1..Len(chan'),
                        chan'[i] \in Ops, chan'[i] = chan'[j]
                 PROVE  i = j
      BY <1>2 DEF Once
    <2>1. /\ i + 1 \in 1..Len(chan) /\ j + 1 \in 1..Len(chan)
          /\ chan[i + 1] = chan'[i] /\ chan[j + 1] = chan'[j]
      BY <1>2
    <2>2. i + 1 = j + 1
      BY <1>2, <2>1 DEF Once
    <2> QED
      BY <2>2
  <1> QED
    BY <1>3, <1>4, <1>5

LEMMA Kept == ASSUME UNCHANGED chan, Once
              PROVE  Once' /\ \A op \in Ops : InChannel(op)' <=> InChannel(op)
  BY DEF Once, InChannel

\* What a worker puts down, or takes up, changes nobody else's hands.
LEMMA HandsMove ==
    ASSUME TypeOK, Apart, NEW w \in Workers, NEW x \in Ops \cup {NoOp},
           x \in Ops => ~Held(x), holds' = [holds EXCEPT ![w] = x]
    PROVE  /\ \A u, v \in Workers : holds'[u] \in Ops /\ holds'[u] = holds'[v] => u = v
           /\ \A op \in Ops : Held(op)' <=> op = x \/ (Held(op) /\ op # holds[w])
  <1>1. holds \in [Workers -> Ops \cup {NoOp}]
    BY DEF TypeOK
  <1> QED
    BY <1>1, Limits DEF Held, Apart

LEMMA HandsKept ==
    ASSUME UNCHANGED holds, Apart
    PROVE  /\ \A u, v \in Workers : holds'[u] \in Ops /\ holds'[u] = holds'[v] => u = v
           /\ \A op \in Ops : Held(op)' <=> Held(op)
  BY DEF Held, Apart

-----------------------------------------------------------------------------
(* Types.                                                                  *)

LEMMA AppendType ==
    ASSUME TypeOK, ~Full, NEW x \in Ops \cup {NoOp}, chan' = Append(chan, x)
    PROVE  chan' \in Seq(Ops \cup {NoOp}) /\ Len(chan') <= QueueSize
  <1>1. chan \in Seq(Ops \cup {NoOp}) /\ Len(chan) <= QueueSize
    BY DEF TypeOK
  <1>2. Len(chan) # QueueSize /\ Len(chan') = Len(chan) + 1
    BY <1>1 DEF Full
  <1> QED
    BY <1>1, <1>2, Limits

LEMMA TailType ==
    ASSUME TypeOK, chan # <<>>, chan' = Tail(chan)
    PROVE  chan' \in Seq(Ops \cup {NoOp}) /\ Len(chan') <= QueueSize
  <1>1. chan \in Seq(Ops \cup {NoOp}) /\ Len(chan) <= QueueSize
    BY DEF TypeOK
  <1>2. chan' \in Seq(Ops \cup {NoOp}) /\ Len(chan') = Len(chan) - 1
    BY <1>1
  <1> QED
    BY <1>1, <1>2, Limits

LEMMA AddType ==
    ASSUME TypeOK, NEW op \in Ops, CheckClosed(op) \/ AddStep(op)
    PROVE  TypeOK'
  <1>1. stage' \in [Ops -> {"new", "checked", "inserted", "counted", "sent",
                            "overflowed", "refused", "panicked"}]
    <2>1. \E from, to \in {"new", "checked", "inserted", "counted", "sent",
                           "overflowed", "refused", "panicked"} : Step(op, from, to)
      BY DEF AddStep, CheckClosed, Insert, Count, Send, SendTimesOut, Uncount
    <2> QED
      BY <2>1 DEF Step, TypeOK
  <1>2. queue' \subseteq {ID(x) : x \in Ops} /\ current' \in Int
    BY DEF AddStep, CheckClosed, Insert, Count, Send, SendTimesOut, Uncount,
           TypeOK, countVars
  <1>3. chan' \in Seq(Ops \cup {NoOp}) /\ Len(chan') <= QueueSize
    <2>1. chan' = chan \/ (~Full /\ chan' = Append(chan, op))
      BY DEF AddStep, CheckClosed, Insert, Count, Send, SendTimesOut, Uncount,
             CallerPanics
    <2> QED
      BY <2>1, AppendType DEF TypeOK
  <1>4. /\ UNCHANGED <<workerVars, total, clearing, prober, closer, ghosts>>
        /\ crashed' = crashed \/ crashed' \in {"no", "caller"}
    BY DEF AddStep, CheckClosed, Insert, Count, Send, SendTimesOut, Uncount,
           CallerPanics, countVars, otherVars
  <1> QED
    BY <1>1, <1>2, <1>3, <1>4 DEF TypeOK, workerVars, ghosts

\* A worker in the middle of an operation moves on without letting go of it.
Onward(w) == \/ Decline(w) \/ StartRetry(w) \/ RetryEnds(w)
             \/ RequeueTimesOut(w) \/ Remove(w)

LEMMA OnwardSteps ==
    ASSUME TypeOK, Busy, NEW w \in Workers, Onward(w)
    PROVE  /\ UNCHANGED <<addVars, chan, holds, countVars, otherVars>>
           /\ pc' \in [Workers -> {"idle", "waiting", "retrying", "requeueing",
                        "succeeding", "dropping", "succeeded", "dropped", "exited"}]
           /\ retries' \in [Ops -> 0..MaxRetries]
           /\ queue' = queue \/ (Remove(w) /\ queue' = queue \ {ID(holds[w])})
           /\ holds[w] \in Ops /\ Busy'
  <1> DEFINE Froms == {"waiting", "retrying", "requeueing", "succeeding", "dropping"}
             Tos   == {"retrying", "requeueing", "succeeding", "dropping",
                       "succeeded", "dropped"}
  <1>1. \E from \in Froms, to \in Tos : Move(w, from, to)
    BY DEF Onward, Decline, StartRetry, RetryEnds, RequeueTimesOut, Remove
  <1>2. UNCHANGED <<addVars, chan, holds, countVars, otherVars>>
    BY DEF Onward, Decline, StartRetry, RetryEnds, RequeueTimesOut, Remove
  <1>3. queue' = queue \/ (Remove(w) /\ queue' = queue \ {ID(holds[w])})
    BY DEF Onward, Decline, StartRetry, RetryEnds, RequeueTimesOut, Remove
  <1>4. holds[w] \in Ops
    BY <1>1 DEF Busy, Move
  <1>5. retries' \in [Ops -> 0..MaxRetries]
    <2>1. /\ retries \in [Ops -> 0..MaxRetries]
          /\ \/ retries' = retries
             \/ /\ retries[holds[w]] < MaxRetries
                /\ retries' = [retries EXCEPT ![holds[w]] = @ + 1]
      BY DEF TypeOK, Onward, Decline, StartRetry, RetryEnds, RequeueTimesOut, Remove
    <2> QED
      BY <1>4, <2>1, Limits
  <1>6. pc' \in [Workers -> {"idle", "waiting", "retrying", "requeueing",
                  "succeeding", "dropping", "succeeded", "dropped", "exited"}]
    BY <1>1 DEF TypeOK, Move
  <1>7. Busy'
    <2>1. pc \in [Workers -> {"idle", "waiting", "retrying", "requeueing",
                  "succeeding", "dropping", "succeeded", "dropped", "exited"}]
      BY DEF TypeOK
    <2> QED
      BY <1>1, <1>2, <1>4, <2>1 DEF Busy, Move
  <1> QED
    BY <1>2, <1>3, <1>4, <1>5, <1>6, <1>7

LEMMA WorkerType ==
    ASSUME TypeOK, Busy, NEW w \in Workers, WorkerStep(w)
    PROVE  TypeOK' /\ Busy'
  <1> DEFINE Places == {"idle", "waiting", "retrying", "requeueing", "succeeding",
                        "dropping", "succeeded", "dropped", "exited"}
  <1>1. pc \in [Workers -> Places] /\ holds \in [Workers -> Ops \cup {NoOp}]
    BY DEF TypeOK
  <1>2. CASE Onward(w)
    BY <1>2, OnwardSteps DEF TypeOK, addVars, countVars, otherVars, ghosts
  <1>3. CASE Receive(w)
    <2>1. /\ chan # <<>> /\ chan' = Tail(chan) /\ pc[w] = "idle"
          /\ UNCHANGED <<addVars, queue, retries, countVars, otherVars>>
      BY <1>3 DEF Receive
    <2>2. Head(chan) \in Ops \cup {NoOp}
      BY <2>1 DEF TypeOK
    <2>3. /\ pc' \in [Workers -> Places] /\ holds' \in [Workers -> Ops \cup {NoOp}]
          /\ Busy'
      BY <1>1, <1>3, <2>2, Limits DEF Receive, Move, Busy
    <2> QED
      BY <2>1, <2>3, TailType DEF TypeOK, addVars, countVars, otherVars, ghosts
  <1>4. CASE Stop(w)
    <2>1. pc' \in [Workers -> Places] /\ holds' \in [Workers -> Ops \cup {NoOp}] /\ Busy'
      BY <1>1, <1>4 DEF Stop, Move, Busy
    <2> QED
      BY <1>4, <2>1 DEF Stop, TypeOK, addVars, countVars, otherVars, ghosts
  <1>5. CASE Requeue(w)
    <2>1. /\ ~Full /\ pc[w] = "requeueing" /\ chan' = Append(chan, holds[w])
          /\ UNCHANGED <<addVars, queue, retries, countVars, otherVars>>
      BY <1>5 DEF Requeue, Move
    <2>2. chan' \in Seq(Ops \cup {NoOp}) /\ Len(chan') <= QueueSize
      BY <1>1, <2>1, AppendType
    <2>3. /\ pc' \in [Workers -> Places] /\ holds' \in [Workers -> Ops \cup {NoOp}]
          /\ Busy'
      BY <1>1, <1>5, Limits DEF Requeue, Move, Busy
    <2> QED
      BY <2>1, <2>2, <2>3 DEF TypeOK, addVars, countVars, otherVars, ghosts
  <1>6. CASE RequeuePanics(w)
    BY <1>6 DEF RequeuePanics, TypeOK, Busy, addVars, workerVars, countVars, ghosts
  <1>7. CASE CountEnd(w)
    <2>1. /\ pc' \in [Workers -> Places] /\ holds' \in [Workers -> Ops \cup {NoOp}]
          /\ Busy'
      BY <1>1, <1>7, Limits DEF CountEnd, Move, Busy
    <2>2. total' \in [{"succeeded", "dropped"} -> Nat] /\ current' \in Int
      BY <1>7 DEF CountEnd, TypeOK
    <2> QED
      BY <1>7, <2>1, <2>2 DEF CountEnd, TypeOK, addVars, otherVars, ghosts
  <1> QED
    BY <1>2, <1>3, <1>4, <1>5, <1>6, <1>7 DEF WorkerStep, Onward

\* The steps of callers other than AddFailedOperation, and of the shutdown.
Control == ClearMap \/ ClearGauge \/ Ask \/ SendNil \/ RemoveNil \/ Close \/ CloseChannel

LEMMA ControlType ==
    ASSUME TypeOK, Busy, IsFiniteSet(InFlight), Control
    PROVE  TypeOK' /\ Busy'
  <1>1. UNCHANGED <<addVars, workerVars, total>>
    BY DEF Control, ClearMap, ClearGauge, Ask, SendNil, RemoveNil, Close,
           CloseChannel, countVars
  <1>2. chan' \in Seq(Ops \cup {NoOp}) /\ Len(chan') <= QueueSize
    <2>1. \/ chan' = chan
          \/ ~Full /\ chan' = Append(chan, NoOp)
          \/ chan # <<>> /\ chan' = Tail(chan)
      BY DEF Control, ClearMap, ClearGauge, Ask, SendNil, RemoveNil, Close,
             CloseChannel, CallerPanics
    <2> QED
      BY <2>1, AppendType, TailType DEF TypeOK
  <1>3. lost' \subseteq Ops
    <2>1. \/ lost' = lost
          \/ chan # <<>> /\ lost' = lost \cup ({Head(chan)} \ {NoOp})
      BY DEF Control, ClearMap, ClearGauge, Ask, SendNil, RemoveNil, Close,
             CloseChannel, ghosts
    <2> QED
      BY <2>1 DEF TypeOK
  <1>4. forgotten' \in Nat
    <2>1. forgotten' = forgotten \/ forgotten' = Cardinality(InFlight)
      BY DEF Control, ClearMap, ClearGauge, Ask, SendNil, RemoveNil, Close,
             CloseChannel, ghosts
    <2> QED
      BY <2>1, FS_CardinalityType DEF TypeOK
  <1>5. /\ queue' \subseteq {ID(op) : op \in Ops} /\ current' \in Int
        /\ cleared' \subseteq Ops
        /\ prober' \in {"idle", "asking", "sent", "panicked"}
        /\ closer' \in {"open", "closing", "closed"}
    BY DEF Control, ClearMap, ClearGauge, Ask, SendNil, RemoveNil, Close,
           CloseChannel, TypeOK, countVars, ghosts
  <1>6. clearing' \in BOOLEAN /\ forced' \in BOOLEAN
    BY Zenon DEF Control, ClearMap, ClearGauge, Ask, SendNil, RemoveNil, Close,
           CloseChannel, TypeOK, ghosts
  <1>7. crashed' \in {"no", "worker", "caller"}
    <2>1. crashed' = crashed \/ crashed' \in {"no", "caller"}
      BY DEF Control, ClearMap, ClearGauge, Ask, SendNil, RemoveNil, Close,
             CloseChannel, CallerPanics
    <2> QED
      BY <2>1 DEF TypeOK
  <1> QED
    BY <1>1, <1>2, <1>3, <1>4, <1>5, <1>6, <1>7 DEF TypeOK, Busy, addVars, workerVars

-----------------------------------------------------------------------------
(* How a step changes the operations in flight, and what it counts.        *)

CountsSame == UNCHANGED <<total, current, forgotten>>

Stays == UNCHANGED <<Offered, Owed, Resolved>>

Enters(op) == /\ op \notin Offered \cup Owed \cup Resolved
              /\ Offered' = Offered \cup {op} /\ UNCHANGED <<Owed, Resolved>>
              /\ current' = current + 1 /\ UNCHANGED <<total, forgotten>>

Leaves(op) == /\ op \in Offered \ Owed
              /\ Offered' = Offered \ {op} /\ UNCHANGED <<Owed, Resolved>>
              /\ current' = current - 1 /\ UNCHANGED <<total, forgotten>>

Passes(op) == /\ op \in Offered
              /\ Offered' = Offered \ {op} /\ Owed' = Owed \cup {op}
              /\ UNCHANGED Resolved /\ CountsSame

Ends(op, how) == /\ op \in Owed \ (Offered \cup Resolved)
                 /\ Owed' = Owed \ {op} /\ Resolved' = Resolved \cup {op}
                 /\ UNCHANGED Offered
                 /\ total' = [total EXCEPT ![how] = @ + 1]
                 /\ current' = current - 1 /\ UNCHANGED forgotten

LEMMA AddFlight ==
    ASSUME TypeOK, Once, Apart, NEW op \in Ops, CheckClosed(op) \/ AddStep(op)
    PROVE  /\ Once' /\ Apart'
           /\ (Stays /\ CountsSame) \/ Enters(op) \/ Leaves(op) \/ Passes(op)
  <1>1. UNCHANGED <<holds, lost, total, forgotten>>
    BY DEF AddStep, CheckClosed, Insert, Count, Send, SendTimesOut, Uncount,
           workerVars, otherVars, ghosts, countVars
  <1>2. stage \in [Ops -> {"new", "checked", "inserted", "counted", "sent",
                           "overflowed", "refused", "panicked"}]
    BY DEF TypeOK
  <1>3. /\ \A u, v \in Workers : holds'[u] \in Ops /\ holds'[u] = holds'[v] => u = v
        /\ \A x \in Ops : Held(x)' <=> Held(x)
    BY <1>1, HandsKept
  <1>4. stage[op] # "sent" => op \notin lost /\ ~InChannel(op) /\ ~Held(op)
    BY DEF Apart
  <1>5. CASE Send(op) /\ ~Closed
    <2>1. /\ stage[op] = "counted" /\ stage' = [stage EXCEPT ![op] = "sent"]
          /\ chan' = Append(chan, op) /\ current' = current
      BY <1>5 DEF Send, CallerPanics, Step, countVars
    <2>2. Once' /\ \A x \in Ops : InChannel(x)' <=> InChannel(x) \/ x = op
      BY <1>4, <2>1, Appended
    <2>3. Apart'
      BY <1>1, <1>2, <1>3, <1>4, <2>1, <2>2 DEF Apart
    <2>4. op \in Offered /\ Offered' = Offered \ {op}
      BY <1>2, <2>1 DEF Offered
    <2>5. Owed' = Owed \cup {op}
      BY <1>1, <1>3, <2>2 DEF Owed
    <2>6. Resolved' = Resolved
      BY <1>2, <2>1, <2>5 DEF Resolved
    <2> QED
      BY <1>1, <2>1, <2>2, <2>3, <2>4, <2>5, <2>6 DEF Passes, CountsSame
  <1>6. CASE ~(Send(op) /\ ~Closed)
    <2>1. UNCHANGED chan
      BY <1>6 DEF AddStep, CheckClosed, Insert, Count, Send, SendTimesOut, Uncount,
             CallerPanics
    <2>2. Once' /\ \A x \in Ops : InChannel(x)' <=> InChannel(x)
      BY <2>1, Kept
    <2>3. /\ stage[op] # "sent" /\ stage'[op] # "sent"
          /\ \A x \in Ops : x # op => stage'[x] = stage[x]
      BY <1>2, <1>6 DEF AddStep, CheckClosed, Insert, Count, Send, SendTimesOut,
           Uncount, Step
    <2>4. Apart'
      BY <1>1, <1>3, <1>4, <2>2, <2>3 DEF Apart
    <2>5. Owed' = Owed /\ op \notin Owed
      BY <1>1, <1>3, <1>4, <2>2, <2>3 DEF Owed
    <2>6. Resolved' = Resolved /\ op \notin Resolved
      BY <2>3, <2>5 DEF Resolved
    <2>7. CASE Count(op)
      <3>1. stage[op] = "inserted" /\ stage'[op] = "counted" /\ current' = current + 1
        BY <1>2, <2>7 DEF Count, Step
      <3>2. Offered' = Offered \cup {op} /\ op \notin Offered
        BY <2>3, <3>1 DEF Offered
      <3> QED
        BY <1>1, <2>2, <2>4, <2>5, <2>6, <3>1, <3>2 DEF Enters
    <2>8. CASE Uncount(op)
      <3>1. stage[op] = "overflowed" /\ stage'[op] = "refused" /\ current' = current - 1
        BY <1>2, <2>8 DEF Uncount, Step
      <3>2. Offered' = Offered \ {op} /\ op \in Offered
        BY <2>3, <3>1 DEF Offered
      <3> QED
        BY <1>1, <2>2, <2>4, <2>5, <2>6, <3>1, <3>2 DEF Leaves
    <2>9. CASE CheckClosed(op) \/ Insert(op) \/ Send(op) \/ SendTimesOut(op)
      <3>1. /\ stage[op] \in {"counted", "overflowed", "panicked"}
                 <=> stage'[op] \in {"counted", "overflowed", "panicked"}
            /\ current' = current
        BY <1>2, <1>6, <2>9 DEF CheckClosed, Insert, Send, SendTimesOut, Step, countVars
      <3>2. Offered' = Offered
        BY <2>3, <3>1 DEF Offered
      <3> QED
        BY <1>1, <2>2, <2>4, <2>5, <2>6, <3>1, <3>2 DEF Stays, CountsSame
    <2> QED
      BY <2>7, <2>8, <2>9 DEF AddStep
  <1> QED
    BY <1>5, <1>6

\* When only the channel, the hands and the lost ones change.
LEMMA FlightStays ==
    ASSUME UNCHANGED stage,
           \A op \in Ops : (InChannel(op) \/ Held(op) \/ op \in lost)
                             <=> (InChannel(op)' \/ Held(op)' \/ op \in lost')
    PROVE  Stays
  <1>1. Offered' = Offered
    BY DEF Offered
  <1>2. Owed' = Owed
    BY DEF Owed
  <1> QED
    BY <1>1, <1>2 DEF Stays, Resolved

LEMMA WorkerFlight ==
    ASSUME TypeOK, Once, Busy, Apart, NEW w \in Workers, WorkerStep(w)
    PROVE  /\ Once' /\ Apart'
           /\ \/ Stays /\ CountsSame
              \/ \E how \in {"succeeded", "dropped"} : Ends(holds[w], how)
  <1>1. UNCHANGED <<stage, lost, forgotten>>
    BY DEF WorkerStep, Receive, Stop, Decline, StartRetry, RetryEnds, Requeue,
           RequeueTimesOut, RequeuePanics, Remove, CountEnd, addVars, otherVars, ghosts
  <1>2. NoOp \notin Ops /\ holds \in [Workers -> Ops \cup {NoOp}]
    BY Limits DEF TypeOK
  <1>3. CASE Receive(w) /\ Head(chan) # NoOp
    <2>1. /\ chan # <<>> /\ chan' = Tail(chan) /\ pc[w] = "idle"
          /\ holds' = [holds EXCEPT ![w] = Head(chan)]
          /\ UNCHANGED <<total, current>>
      BY <1>3 DEF Receive, countVars
    <2>2. /\ Once' /\ Head(chan) \in Ops /\ InChannel(Head(chan))
          /\ \A op \in Ops : InChannel(op)' <=> InChannel(op) /\ op # Head(chan)
      BY <1>3, <2>1, Taken
    <2>3. holds[w] \notin Ops /\ ~Held(Head(chan))
      BY <2>1, <2>2 DEF Busy, Apart
    <2>4. /\ \A u, v \in Workers : holds'[u] \in Ops /\ holds'[u] = holds'[v] => u = v
          /\ \A op \in Ops : Held(op)' <=> op = Head(chan) \/ Held(op)
      BY <2>1, <2>2, <2>3, HandsMove
    <2>5. Apart'
      BY <1>1, <2>2, <2>4 DEF Apart
    <2>6. Stays
      BY <1>1, <2>2, <2>4, FlightStays
    <2> QED
      BY <1>1, <2>1, <2>2, <2>5, <2>6 DEF CountsSame
  <1>4. CASE Receive(w) /\ Head(chan) = NoOp
    <2>1. /\ chan # <<>> /\ chan' = Tail(chan) /\ UNCHANGED <<holds, total, current>>
      BY <1>4 DEF Receive, countVars
    <2>2. Once' /\ \A op \in Ops : InChannel(op)' <=> InChannel(op)
      BY <1>2, <1>4, <2>1, Taken
    <2>3. Apart' /\ \A op \in Ops : Held(op)' <=> Held(op)
      BY <1>1, <2>1, <2>2, HandsKept DEF Apart
    <2> QED
      BY <1>1, <2>1, <2>2, <2>3, FlightStays DEF CountsSame
  <1>5. CASE Onward(w) \/ Stop(w) \/ RequeuePanics(w)
    <2>1. UNCHANGED <<chan, holds, total, current>>
      BY <1>5 DEF Onward, Decline, StartRetry, RetryEnds, RequeueTimesOut, Remove,
           Stop, RequeuePanics, countVars, workerVars
    <2>2. Once' /\ \A op \in Ops : InChannel(op)' <=> InChannel(op)
      BY <2>1, Kept
    <2>3. Apart' /\ \A op \in Ops : Held(op)' <=> Held(op)
      BY <1>1, <2>1, <2>2, HandsKept DEF Apart
    <2> QED
      BY <1>1, <2>1, <2>2, <2>3, FlightStays DEF CountsSame
  <1>6. CASE Requeue(w)
    <2>1. /\ chan' = Append(chan, holds[w]) /\ pc[w] = "requeueing"
          /\ holds' = [holds EXCEPT ![w] = NoOp] /\ UNCHANGED <<total, current>>
      BY <1>6 DEF Requeue, Move, countVars
    <2>2. holds[w] \in Ops
      BY <2>1 DEF Busy
    <2>3. Held(holds[w])
      BY DEF Held
    <2>4. /\ Once'
          /\ \A op \in Ops : InChannel(op)' <=> InChannel(op) \/ op = holds[w]
      BY <2>1, <2>2, <2>3, Appended DEF Apart
    <2>5. /\ \A u, v \in Workers : holds'[u] \in Ops /\ holds'[u] = holds'[v] => u = v
          /\ \A op \in Ops : Held(op)' <=> Held(op) /\ op # holds[w]
      BY <1>2, <2>1, HandsMove
    <2>6. Apart'
      BY <1>1, <2>2, <2>3, <2>4, <2>5 DEF Apart
    <2>7. Stays
      BY <1>1, <2>3, <2>4, <2>5, FlightStays
    <2> QED
      BY <1>1, <2>1, <2>4, <2>6, <2>7 DEF CountsSame
  <1>7. CASE CountEnd(w)
    <2>1. /\ pc[w] \in {"succeeded", "dropped"} /\ UNCHANGED chan
          /\ total' = [total EXCEPT ![pc[w]] = @ + 1] /\ current' = current - 1
          /\ holds' = [holds EXCEPT ![w] = NoOp]
      BY <1>7 DEF CountEnd
    <2>2. holds[w] \in Ops
      BY <2>1 DEF Busy
    <2>3. Held(holds[w])
      BY DEF Held
    <2>4. Once' /\ \A op \in Ops : InChannel(op)' <=> InChannel(op)
      BY <2>1, Kept
    <2>5. /\ \A u, v \in Workers : holds'[u] \in Ops /\ holds'[u] = holds'[v] => u = v
          /\ \A op \in Ops : Held(op)' <=> Held(op) /\ op # holds[w]
      BY <1>2, <2>1, HandsMove
    <2>6. Apart'
      BY <1>1, <2>4, <2>5 DEF Apart
    <2>7. /\ stage[holds[w]] = "sent" /\ holds[w] \notin lost
          /\ ~InChannel(holds[w])
      BY <2>2, <2>3 DEF Apart
    <2>8. holds[w] \in Owed /\ Owed' = Owed \ {holds[w]}
      BY <1>1, <2>2, <2>3, <2>4, <2>5, <2>7 DEF Owed
    <2>9. Resolved' = Resolved \cup {holds[w]} /\ holds[w] \notin Resolved
      BY <1>1, <2>2, <2>7, <2>8 DEF Resolved
    <2>10. Offered' = Offered /\ holds[w] \notin Offered
      BY <1>1, <2>7 DEF Offered
    <2> QED
      BY <1>1, <2>1, <2>4, <2>6, <2>8, <2>9, <2>10 DEF Ends
  <1> QED
    BY <1>3, <1>4, <1>5, <1>6, <1>7 DEF WorkerStep, Onward

LEMMA ControlFlight ==
    ASSUME TypeOK, Once, Apart, Control
    PROVE  /\ Once' /\ Apart' /\ Stays
           /\ \/ CountsSame
              \/ UNCHANGED total /\ current' = 0 /\ forgotten' = Cardinality(InFlight)
  <1>1. UNCHANGED <<stage, holds, total>>
    BY DEF Control, ClearMap, ClearGauge, Ask, SendNil, RemoveNil, Close,
           CloseChannel, addVars, workerVars, countVars
  <1>2. /\ \A u, v \in Workers : holds'[u] \in Ops /\ holds'[u] = holds'[v] => u = v
        /\ \A op \in Ops : Held(op)' <=> Held(op)
    BY <1>1, HandsKept
  <1>3. \/ CountsSame
        \/ UNCHANGED total /\ current' = 0 /\ forgotten' = Cardinality(InFlight)
    BY DEF Control, ClearMap, ClearGauge, Ask, SendNil, RemoveNil, Close,
           CloseChannel, countVars, ghosts, CountsSame
  <1>4. CASE UNCHANGED <<chan, lost>>
    <2>1. Once' /\ \A op \in Ops : InChannel(op)' <=> InChannel(op)
      BY <1>4, Kept
    <2>2. Apart' /\ Stays
      BY <1>1, <1>2, <1>4, <2>1, FlightStays DEF Apart
    <2> QED
      BY <1>3, <2>1, <2>2
  <1>5. CASE chan' = Append(chan, NoOp) /\ lost' = lost
    <2>1. Once' /\ \A op \in Ops : InChannel(op)' <=> InChannel(op)
      BY <1>5, Appended, Limits
    <2>2. Apart' /\ Stays
      BY <1>1, <1>2, <1>5, <2>1, FlightStays DEF Apart
    <2> QED
      BY <1>3, <2>1, <2>2
  <1>6. CASE /\ chan # <<>> /\ chan' = Tail(chan)
             /\ lost' = lost \cup ({Head(chan)} \ {NoOp})
    <2>1. /\ Once' /\ Head(chan) \in Ops \cup {NoOp}
          /\ Head(chan) \in Ops => InChannel(Head(chan))
          /\ \A op \in Ops : InChannel(op)' <=> InChannel(op) /\ op # Head(chan)
      BY <1>6, Taken
    <2>2. \A op \in Ops : op \in lost' <=> op \in lost \/ op = Head(chan)
      BY <1>6, Limits
    <2>3. Apart'
      BY <1>1, <1>2, <2>1, <2>2 DEF Apart
    <2>4. Stays
      BY <1>1, <1>2, <2>1, <2>2, FlightStays
    <2> QED
      BY <1>3, <2>1, <2>3, <2>4
  <1> QED
    BY <1>4, <1>5, <1>6 DEF Control, ClearMap, ClearGauge, Ask, SendNil, RemoveNil,
         Close, CloseChannel, CallerPanics, ghosts

-----------------------------------------------------------------------------
(* The invariant.                                                          *)

LEMMA CountedStep ==
    ASSUME TypeOK, Counted,
           \/ Stays /\ CountsSame
           \/ \E op : Enters(op) \/ Leaves(op) \/ Passes(op)
           \/ \E op : \E how \in {"succeeded", "dropped"} : Ends(op, how)
           \/ Stays /\ UNCHANGED total /\ current' = 0 /\ forgotten' = Cardinality(InFlight)
    PROVE  Counted'
  <1> USE DEF Counted
  <1>1. /\ total \in [{"succeeded", "dropped"} -> Nat] /\ current \in Int /\ forgotten \in Nat
        /\ Cardinality(InFlight) \in Nat /\ Cardinality(Resolved) \in Nat
    BY FS_CardinalityType DEF TypeOK
  <1>2. CASE Stays /\ CountsSame
    BY <1>2 DEF Stays, CountsSame, InFlight
  <1>3. ASSUME NEW op, Enters(op) PROVE Counted'
    <2>1. op \notin InFlight /\ InFlight' = InFlight \cup {op}
      BY <1>3 DEF Enters, InFlight
    <2>2. /\ IsFiniteSet(InFlight \cup {op})
          /\ Cardinality(InFlight \cup {op}) = Cardinality(InFlight) + 1
      BY <2>1, FS_AddElement
    <2> QED
      BY <1>1, <1>3, <2>1, <2>2 DEF Enters
  <1>4. ASSUME NEW op, op \in InFlight
        PROVE  /\ IsFiniteSet(InFlight \ {op})
               /\ Cardinality(InFlight \ {op}) = Cardinality(InFlight) - 1
    BY <1>4, FS_RemoveElement
  <1>5. ASSUME NEW op, Leaves(op) PROVE Counted'
    <2>1. op \in InFlight /\ InFlight' = InFlight \ {op}
      BY <1>5 DEF Leaves, InFlight
    <2> QED
      BY <1>1, <1>4, <1>5, <2>1 DEF Leaves
  <1>6. ASSUME NEW op, Passes(op) PROVE Counted'
    <2>1. InFlight' = InFlight
      BY <1>6 DEF Passes, InFlight
    <2> QED
      BY <1>6, <2>1 DEF Passes, CountsSame
  <1>7. ASSUME NEW op, NEW how \in {"succeeded", "dropped"}, Ends(op, how)
        PROVE  Counted'
    <2>1. op \in InFlight /\ InFlight' = InFlight \ {op}
      BY <1>7 DEF Ends, InFlight
    <2>2. /\ IsFiniteSet(Resolved \cup {op})
          /\ Cardinality(Resolved \cup {op}) = Cardinality(Resolved) + 1
      BY <1>7, FS_AddElement DEF Ends
    <2>3. total'.succeeded + total'.dropped = total.succeeded + total.dropped + 1
      BY <1>1, <1>7 DEF Ends
    <2> QED
      BY <1>1, <1>4, <1>7, <2>1, <2>2, <2>3 DEF Ends
  <1>8. CASE Stays /\ UNCHANGED total /\ current' = 0 /\ forgotten' = Cardinality(InFlight)
    <2>1. InFlight' = InFlight /\ Resolved' = Resolved
      BY <1>8 DEF Stays, InFlight
    <2> QED
      BY <1>1, <1>8, <2>1
  <1> QED
    BY <1>2, <1>3, <1>5, <1>6, <1>7, <1>8

LEMMA GracefulStep ==
    ASSUME TypeOK, Graceful, Next PROVE Graceful'
  <1> USE DEF Graceful, Closed
  <1>1. ASSUME NEW op \in Ops, CheckClosed(op) \/ AddStep(op) PROVE Graceful'
    <2>1. /\ UNCHANGED <<pc, closer, forced>>
          /\ crashed' = crashed \/ crashed' \in {"no", "caller"}
      BY <1>1 DEF AddStep, CheckClosed, Insert, Count, Send, SendTimesOut, Uncount,
           CallerPanics, workerVars, otherVars, ghosts
    <2> QED
      BY <2>1
  <1>2. ASSUME NEW w \in Workers, WorkerStep(w) PROVE Graceful'
    <2>1. UNCHANGED <<closer, forced>>
      BY <1>2 DEF WorkerStep, Receive, Stop, Decline, StartRetry, RetryEnds, Requeue,
           RequeueTimesOut, RequeuePanics, Remove, CountEnd, otherVars, ghosts
    <2>2. pc[w] # "exited"
      BY <1>2 DEF WorkerStep, Receive, Stop, Decline, StartRetry, RetryEnds, Requeue,
           RequeueTimesOut, RequeuePanics, Remove, CountEnd, Move
    <2>3. crashed' = crashed \/ (Closed /\ pc' = pc)
      BY <1>2 DEF WorkerStep, Receive, Stop, Decline, StartRetry, RetryEnds, Requeue,
           RequeueTimesOut, RequeuePanics, Remove, CountEnd, otherVars, workerVars
    <2> QED
      BY <2>1, <2>2, <2>3
  <1>3. CASE Control
    <2>1. pc' = pc /\ (crashed' = crashed \/ crashed' \in {"no", "caller"})
      BY <1>3 DEF Control, ClearMap, ClearGauge, Ask, SendNil, RemoveNil, Close,
           CloseChannel, CallerPanics, workerVars
    <2>2. CASE CloseChannel
      BY <2>1, <2>2 DEF CloseChannel
    <2>3. CASE ~CloseChannel
      <3>1. forced' = forced /\ (closer' = "closed" => closer = "closed")
        BY <1>3, <2>3 DEF Control, ClearMap, ClearGauge, Ask, SendNil, RemoveNil,
             Close, ghosts
      <3> QED
        BY <2>1, <3>1
    <2> QED
      BY <2>2, <2>3
  <1> QED
    BY <1>1, <1>2, <1>3 DEF Next, Control

LEMMA InitIInv == Init => IInv
  <1> SUFFICES ASSUME Init PROVE IInv
    OBVIOUS
  <1>1. TypeOK
    <2>1. <<>> \in Seq(Ops \cup {NoOp}) /\ Len(<<>>) <= QueueSize
      BY Limits
    <2>2. total \in [{"succeeded", "dropped"} -> Nat]
      BY DEF Init
    <2>3. /\ stage \in [Ops -> {"new"}] /\ retries \in [Ops -> {0}]
          /\ pc \in [Workers -> {"idle"}] /\ holds \in [Workers -> {NoOp}]
          /\ queue = {} /\ lost = {} /\ cleared = {} /\ current = 0 /\ forgotten = 0
          /\ prober = "idle" /\ closer = "open" /\ chan = <<>>
          /\ clearing = FALSE /\ crashed = "no" /\ forced = FALSE
      BY DEF Init
    <2>4. clearing \in BOOLEAN /\ forced \in BOOLEAN
      BY <2>3, Zenon
    <2>5. retries \in [Ops -> 0..MaxRetries]
      BY <2>3, Limits
    <2> QED
      BY <2>1, <2>2, <2>3, <2>4, <2>5 DEF TypeOK
  <1>2. \A op \in Ops : ~InChannel(op) /\ ~Held(op)
    BY Limits DEF Init, InChannel, Held
  <1>3. Once /\ Busy /\ Apart
    BY <1>2, Limits DEF Init, Once, Busy, Apart
  <1>4. InFlight = {} /\ Resolved = {}
    BY <1>2 DEF Init, InFlight, Offered, Owed, Resolved
  <1>5. Counted
    BY <1>4, FS_EmptySet DEF Init, Counted
  <1>6. Graceful
    BY DEF Init, Graceful, Closed
  <1> QED
    BY <1>1, <1>3, <1>5, <1>6 DEF IInv

LEMMA StepIInv == IInv /\ [Next]_vars => IInv'
  <1> SUFFICES ASSUME IInv, [Next]_vars PROVE IInv'
    OBVIOUS
  <1> USE DEF IInv
  <1>1. ASSUME NEW op \in Ops, CheckClosed(op) \/ AddStep(op), Next PROVE IInv'
    <2>1. TypeOK' /\ Once' /\ Apart' /\ Counted' /\ Graceful'
      BY <1>1, AddType, AddFlight, CountedStep, GracefulStep
    <2>2. UNCHANGED <<pc, holds>>
      BY <1>1 DEF AddStep, CheckClosed, Insert, Count, Send, SendTimesOut, Uncount,
           workerVars
    <2> QED
      BY <2>1, <2>2 DEF Busy
  <1>2. ASSUME NEW w \in Workers, WorkerStep(w), Next PROVE IInv'
    BY <1>2, WorkerType, WorkerFlight, CountedStep, GracefulStep
  <1>3. CASE Control /\ Next
    <2>1. TypeOK' /\ Busy'
      BY <1>3, ControlType DEF Counted
    <2>2. Once' /\ Apart' /\ Counted'
      BY <1>3, ControlFlight, CountedStep
    <2> QED
      BY <1>3, <2>1, <2>2, GracefulStep
  <1>4. CASE UNCHANGED vars
    <2>1. UNCHANGED <<stage, queue, chan, retries, pc, holds, total, current, clearing,
                      prober, closer, crashed, lost, cleared, forgotten, forced>>
      BY <1>4 DEF vars, addVars, workerVars, countVars, otherVars, ghosts
    <2>2. Stays /\ CountsSame
      BY <2>1 DEF Stays, CountsSame, Offered, Owed, Resolved, InChannel, Held
    <2> QED
      BY <2>1, <2>2, CountedStep
      DEF TypeOK, Once, Busy, Apart, InChannel, Held, Graceful, Closed
  <1> QED
    BY <1>1, <1>2, <1>3, <1>4 DEF Next, Control

LEMMA Invariance == Spec => []IInv
  BY InitIInv, StepIInv, PTL DEF Spec

LEMMA AtMostOne ==
    ASSUME NEW S, \A x, y \in S : x = y
    PROVE  Cardinality(S) \in {0, 1} /\ (S = {} <=> Cardinality(S) = 0)
  <1>1. CASE S = {}
    BY <1>1, FS_EmptySet
  <1>2. ASSUME NEW x \in S PROVE Cardinality(S) = 1
    <2>1. S = {x}
      OBVIOUS
    <2> QED
      BY <2>1, FS_Singleton
  <1> QED
    BY <1>1, <1>2

-----------------------------------------------------------------------------
\* Every variable keeps its type: no operation is retried more than MaxRetries
\* times, and workerChan holds at most QueueSize of them.
THEOREM TypeCorrect == Spec => []TypeOK
  <1>1. IInv => TypeOK
    BY DEF IInv
  <1> QED
    BY <1>1, Invariance, PTL

\* Requeueing never leaves an operation at two workers, at one and in
\* workerChan, or there twice: whoever writes its RetryCount is alone with it.
THEOREM OwnerIsAlone == Spec => []OneOwner
  <1>1. IInv => OneOwner
    <2> SUFFICES ASSUME IInv, NEW op \in Ops
                 PROVE  Cardinality({w \in Workers : holds[w] = op})
                        + Cardinality({i \in 1..Len(chan) : chan[i] = op}) <= 1
      BY DEF OneOwner
    <2> DEFINE Hands == {w \in Workers : holds[w] = op}
               Spots == {i \in 1..Len(chan) : chan[i] = op}
    <2>1. \A v, w \in Hands : v = w
      BY DEF IInv, Apart
    <2>2. \A i, j \in Spots : i = j
      BY DEF IInv, TypeOK, Once
    <2>3. Hands = {} \/ Spots = {}
      BY DEF IInv, Apart, InChannel, Held
    <2> HIDE DEF Hands, Spots
    <2>4. Cardinality(Hands) + Cardinality(Spots) <= 1
      BY <2>1, <2>2, <2>3, AtMostOne
    <2> QED
      BY <2>4 DEF Hands, Spots
  <1> QED
    BY <1>1, Invariance, PTL

\* CurrentQueue and the totals are exact through requeues, full channels,
\* probes, clearing and shutdown.
THEOREM GaugeIsExact == Spec => []GaugeExact
  <1>1. IInv => GaugeExact
    BY DEF IInv, Counted, GaugeExact
  <1> QED
    BY <1>1, Invariance, PTL

\* No worker meets the closed channel, whose panic would end the process, unless
\* Close gave up waiting for its workers: a worker about to requeue keeps Close
\* waiting.  The panics of AddFailedOperation and IsHealthy are its callers'.
THEOREM GracefulShutdown == Spec => []NoWorkerCrash
  <1>1. IInv => NoWorkerCrash
    BY DEF IInv, Graceful, NoWorkerCrash
  <1> QED
    BY <1>1, Invariance, PTL

-----------------------------------------------------------------------------
(* The promise of Ledger.                                                  *)

\* What a step does to the operations, as steps of the ledger.
LEMMA LedgerStep ==
    ASSUME NEW op \in Ops,
           \/ Enters(op) \/ Leaves(op) \/ Passes(op)
           \/ \E how \in {"succeeded", "dropped"} : Ends(op, how)
    PROVE  Promise!Next
  <1>1. CASE Enters(op)
    BY <1>1 DEF Enters, Promise!Next, Promise!Offer
  <1>2. CASE Leaves(op)
    BY <1>2 DEF Leaves, Promise!Next, Promise!TurnAway
  <1>3. CASE Passes(op)
    BY <1>3 DEF Passes, CountsSame, Promise!Next, Promise!Accept
  <1>4. ASSUME NEW how \in {"succeeded", "dropped"}, Ends(op, how) PROVE Promise!Next
    BY <1>4 DEF Ends, Promise!Next, Promise!Resolve
  <1> QED
    BY <1>1, <1>2, <1>3, <1>4

\* Workers that requeue against each other, time out and panic, IsHealthy that
\* takes operations away, ClearQueue and a Close that does not wait keep the
\* ledger: who was accepted gets at most one end, counted once, and only ends
\* are counted.
THEOREM Refinement == Spec => ImplementsLedger
  <1>1. Init => Promise!Init
    <2> SUFFICES ASSUME Init PROVE Promise!Init
      OBVIOUS
    <2>1. \A op \in Ops : ~InChannel(op) /\ ~Held(op)
      BY Limits DEF Init, InChannel, Held
    <2>2. Offered = {} /\ Owed = {} /\ Resolved = {}
      BY <2>1 DEF Init, Offered, Owed, Resolved
    <2> QED
      BY <2>2 DEF Init, Promise!Init
  <1>2. IInv /\ [Next]_vars => [Promise!Next]_(Promise!lvars)
    <2> SUFFICES ASSUME IInv, [Next]_vars
                 PROVE  Promise!Next \/ UNCHANGED Promise!lvars
      OBVIOUS
    <2>1. TypeOK /\ Once /\ Busy /\ Apart
      BY DEF IInv
    <2>2. Stays /\ UNCHANGED total => UNCHANGED Promise!lvars
      BY DEF Stays, Promise!lvars
    <2>3. ASSUME NEW op \in Ops, CheckClosed(op) \/ AddStep(op)
          PROVE  Promise!Next \/ UNCHANGED Promise!lvars
      BY <2>1, <2>2, <2>3, AddFlight, LedgerStep DEF CountsSame
    <2>4. ASSUME NEW w \in Workers, WorkerStep(w)
          PROVE  Promise!Next \/ UNCHANGED Promise!lvars
      <3>1. CASE Stays /\ CountsSame
        BY <2>2, <3>1 DEF CountsSame
      <3>2. ASSUME NEW how \in {"succeeded", "dropped"}, Ends(holds[w], how)
            PROVE  Promise!Next
        <4>1. holds[w] \in Ops
          BY <3>2 DEF Ends, Owed
        <4> QED
          BY <3>2, <4>1, LedgerStep
      <3> QED
        BY <2>1, <2>4, <3>1, <3>2, WorkerFlight
    <2>5. CASE Control
      BY <2>1, <2>2, <2>5, ControlFlight DEF CountsSame
    <2>6. CASE UNCHANGED vars
      BY <2>2, <2>6 DEF vars, addVars, workerVars, countVars, otherVars, ghosts,
           Stays, Offered, Owed, Resolved, InChannel, Held
    <2> QED
      BY <2>3, <2>4, <2>5, <2>6 DEF Next, Control
  <1> QED
    BY <1>1, <1>2, Invariance, PTL DEF Spec, ImplementsLedger, Promise!Spec

-----------------------------------------------------------------------------
(* The map.                                                                *)

DistinctIDs == \A a, b \in Ops : ID(a) = ID(b) => a = b

Retriable(w) == pc[w] \in {"waiting", "retrying", "requeueing"}

\* Op is in the map's care: inserted and not sent, or still to be retried.
ToRetry(op) == \/ stage[op] \in {"inserted", "counted"} \/ InChannel(op)
               \/ \E w \in Workers : holds[w] = op /\ Retriable(w)

Listed == \A op \in Ops : ToRetry(op) => ID(op) \in queue \/ op \in cleared

LEMMA ListedStep ==
    ASSUME DistinctIDs, IInv, Listed, Next PROVE Listed'
  <1> SUFFICES ASSUME NEW x \in Ops, ToRetry(x)' PROVE ID(x) \in queue' \/ x \in cleared'
    BY DEF Listed
  <1>1. ToRetry(x) => ID(x) \in queue \/ x \in cleared
    BY DEF Listed
  <1>2. /\ TypeOK /\ Once /\ Busy /\ Apart
        /\ stage \in [Ops -> {"new", "checked", "inserted", "counted", "sent",
                              "overflowed", "refused", "panicked"}]
        /\ holds \in [Workers -> Ops \cup {NoOp}]
        /\ pc \in [Workers -> {"idle", "waiting", "retrying", "requeueing",
                     "succeeding", "dropping", "succeeded", "dropped", "exited"}]
    BY DEF IInv, TypeOK
  <1>3. ASSUME NEW op \in Ops, CheckClosed(op) \/ AddStep(op)
        PROVE  ID(x) \in queue' \/ x \in cleared'
    <2>1. UNCHANGED <<holds, pc, cleared>>
      BY <1>3 DEF AddStep, CheckClosed, Insert, Count, Send, SendTimesOut, Uncount,
           workerVars, otherVars, ghosts
    <2>2. InChannel(x)' => InChannel(x) \/ (x = op /\ stage[op] = "counted")
      <3>1. chan' = chan \/ (chan' = Append(chan, op) /\ stage[op] = "counted")
        BY <1>3 DEF AddStep, CheckClosed, Insert, Count, Send, SendTimesOut, Uncount,
             CallerPanics, Step
      <3>2. stage[op] = "counted" => ~InChannel(op)
        BY <1>2 DEF Apart
      <3> QED
        BY <1>2, <3>1, <3>2, Kept, Appended
    <2>3. CASE Insert(op)
      BY <1>1, <1>2, <2>1, <2>2, <2>3 DEF Insert, Step, ToRetry, Retriable
    <2>4. CASE SendTimesOut(op)
      <3>1. x # op
        <4>1. ~InChannel(op) /\ \A w \in Workers : holds[w] # op
          BY <1>2, <2>4 DEF SendTimesOut, Step, Apart, Held
        <4>2. stage'[op] = "overflowed" /\ chan' = chan
          BY <1>2, <2>4 DEF SendTimesOut, Step
        <4> QED
          BY <2>1, <4>1, <4>2, <1>2, Kept DEF ToRetry, Retriable
      <3>2. ToRetry(x)
        BY <1>2, <2>1, <2>2, <2>4, <3>1 DEF SendTimesOut, Step, ToRetry, Retriable
      <3>3. ID(x) # ID(op)
        BY <3>1 DEF DistinctIDs
      <3> QED
        BY <1>1, <2>1, <2>4, <3>2, <3>3 DEF SendTimesOut
    <2>5. CASE CheckClosed(op) \/ Count(op) \/ Send(op) \/ Uncount(op)
      <3>1. queue' = queue
        BY <2>5 DEF CheckClosed, Count, Send, Uncount
      <3>2. stage'[x] \in {"inserted", "counted"} => stage[x] \in {"inserted", "counted"}
        BY <1>2, <2>5 DEF CheckClosed, Count, Send, Uncount, Step
      <3>3. ToRetry(x)
        BY <2>1, <2>2, <3>2 DEF ToRetry, Retriable
      <3> QED
        BY <1>1, <2>1, <3>1, <3>3
    <2> QED
      BY <1>3, <2>3, <2>4, <2>5 DEF AddStep
  <1>4. ASSUME NEW w \in Workers, WorkerStep(w)
        PROVE  ID(x) \in queue' \/ x \in cleared'
    <2>1. UNCHANGED <<stage, cleared>>
      BY <1>4 DEF WorkerStep, Receive, Stop, Decline, StartRetry, RetryEnds, Requeue,
           RequeueTimesOut, RequeuePanics, Remove, CountEnd, addVars, otherVars, ghosts
    <2>2. CASE Remove(w)
      <3>1. /\ UNCHANGED <<chan, holds>> /\ queue' = queue \ {ID(holds[w])}
            /\ pc[w] \in {"succeeding", "dropping"} /\ ~Retriable(w)'
            /\ \A v \in Workers : Retriable(v)' => Retriable(v)
        BY <1>2, <2>2 DEF Remove, Move, Retriable
      <3>2. ToRetry(x)
        BY <2>1, <3>1, Kept, <1>2 DEF ToRetry
      <3>3. holds[w] \in Ops
        BY <1>2, <3>1 DEF Busy
      <3>4. x # holds[w]
        <4>1. Held(holds[w])
          BY DEF Held
        <4>2. stage[holds[w]] = "sent" /\ ~InChannel(holds[w])
          BY <1>2, <3>3, <4>1 DEF Apart
        <4>3. \A v \in Workers : holds[v] = holds[w] => v = w
          BY <1>2, <3>3 DEF Apart
        <4>4. ~InChannel(holds[w])'
          BY <1>2, <3>1, <3>3, <4>2, Kept
        <4> QED
          BY <2>1, <3>1, <4>2, <4>3, <4>4 DEF ToRetry
      <3>5. ID(x) # ID(holds[w])
        BY <3>3, <3>4 DEF DistinctIDs
      <3> QED
        BY <1>1, <2>1, <3>1, <3>2, <3>5
    <2>3. CASE ~Remove(w)
      <3>1. queue' = queue
        BY <1>4, <2>3 DEF WorkerStep, Receive, Stop, Decline, StartRetry, RetryEnds,
             Requeue, RequeueTimesOut, RequeuePanics, CountEnd
      <3>2. ToRetry(x)
        <4>1. CASE Receive(w)
          <5>1. /\ chan # <<>> /\ chan' = Tail(chan)
                /\ \A v \in Workers : holds'[v] = x /\ Retriable(v)'
                     => (holds[v] = x /\ Retriable(v)) \/ x = Head(chan)
            BY <1>2, <4>1 DEF Receive, Move, Retriable
          <5>2. /\ InChannel(x)' => InChannel(x)
                /\ x = Head(chan) => InChannel(x)
            BY <1>2, <5>1, Taken
          <5> QED
            BY <2>1, <5>1, <5>2 DEF ToRetry
        <4>2. CASE Requeue(w)
          <5>1. /\ pc[w] = "requeueing" /\ chan' = Append(chan, holds[w])
                /\ \A v \in Workers : holds'[v] = x /\ Retriable(v)'
                     => holds[v] = x /\ Retriable(v)
            BY <1>2, <4>2, Limits DEF Requeue, Move, Retriable
          <5>2. holds[w] \in Ops /\ Held(holds[w])
            BY <1>2, <5>1 DEF Busy, Held
          <5>3. InChannel(x)' => InChannel(x) \/ x = holds[w]
            BY <1>2, <5>1, <5>2, Appended DEF Apart
          <5> QED
            BY <2>1, <5>1, <5>3 DEF ToRetry, Retriable
        <4>3. CASE \/ Stop(w) \/ Decline(w) \/ StartRetry(w) \/ RetryEnds(w)
                   \/ RequeueTimesOut(w) \/ RequeuePanics(w) \/ CountEnd(w)
          <5>1. chan' = chan
            BY <4>3 DEF Stop, Decline, StartRetry, RetryEnds, RequeueTimesOut,
                 RequeuePanics, CountEnd
          <5>2. \A v \in Workers : holds'[v] = x /\ Retriable(v)'
                  => holds[v] = x /\ Retriable(v)
            BY <1>2, <4>3, Limits DEF Stop, Decline, StartRetry, RetryEnds,
                 RequeueTimesOut, RequeuePanics, CountEnd, Move, Retriable, workerVars
          <5> QED
            BY <1>2, <2>1, <5>1, <5>2, Kept DEF ToRetry
        <4> QED
          BY <1>4, <2>3, <4>1, <4>2, <4>3 DEF WorkerStep
      <3> QED
        BY <1>1, <2>1, <3>1, <3>2
    <2> QED
      BY <2>2, <2>3
  <1>5. CASE Control
    <2>1. UNCHANGED <<stage, holds, pc>>
      BY <1>5 DEF Control, ClearMap, ClearGauge, Ask, SendNil, RemoveNil, Close,
           CloseChannel, addVars, workerVars
    <2>2. InChannel(x)' => InChannel(x)
      <3>1. \/ chan' = chan \/ chan' = Append(chan, NoOp)
            \/ chan # <<>> /\ chan' = Tail(chan)
        BY <1>5 DEF Control, ClearMap, ClearGauge, Ask, SendNil, RemoveNil, Close,
             CloseChannel, CallerPanics
      <3> QED
        BY <1>2, <3>1, Kept, Appended, Taken, Limits
    <2>3. ToRetry(x)
      BY <2>1, <2>2 DEF ToRetry, Retriable
    <2>4. CASE ClearMap
      BY <1>1, <2>3, <2>4 DEF ClearMap
    <2>5. CASE ~ClearMap
      <3>1. UNCHANGED <<queue, cleared>>
        BY <1>5, <2>5 DEF Control, ClearGauge, Ask, SendNil, RemoveNil, Close,
             CloseChannel, ghosts
      <3> QED
        BY <1>1, <2>3, <3>1
    <2> QED
      BY <2>4, <2>5
  <1> QED
    BY <1>3, <1>4, <1>5 DEF Next, Control

\* While no two operations carry the same ID, GetQueue lists every operation
\* that is retried or may be, but those ClearQueue removed.
THEOREM RetriedAreListed == DistinctIDs => (Spec => []RetriedIsListed)
  <1>1. Init => Listed
    <2> SUFFICES ASSUME Init PROVE Listed
      OBVIOUS
    <2>1. \A op \in Ops : ~InChannel(op)
      BY DEF Init, InChannel
    <2> QED
      BY <2>1 DEF Init, Listed, ToRetry, Retriable
  <1>2. DistinctIDs /\ IInv /\ Listed /\ [Next]_vars => Listed'
    <2>1. ASSUME Listed, UNCHANGED vars PROVE Listed'
      <3>1. UNCHANGED <<stage, queue, chan, pc, holds, cleared>>
        BY <2>1 DEF vars, addVars, workerVars, otherVars, ghosts
      <3> QED
        BY <2>1, <3>1 DEF Listed, ToRetry, Retriable, InChannel
    <2> QED
      BY <2>1, ListedStep
  <1>3. Listed => RetriedIsListed
    BY DEF Listed, ToRetry, Retriable, RetriedIsListed
  <1>4. DistinctIDs => []DistinctIDs
    <2>1. DistinctIDs => DistinctIDs'
      BY DEF DistinctIDs, ID
    <2> QED
      BY <2>1, PTL
  <1> QED
    BY <1>1, <1>2, <1>3, <1>4, Invariance, PTL DEF Spec
=============================================================================
