--------------------------- MODULE BulkheadProofs ---------------------------
(***************************************************************************)
(* Proofs about Bulkhead, for every finite set of callers and all limits.  *)
(***************************************************************************)
EXTENDS Bulkhead, FiniteSetTheorems, TLAPS

\* The tokens in the channels belong to callers: one in semaphore for each
\* holder; one in queue for each queued call, and one for each call that
\* panicked while it waited.
Tokens == /\ semaphore = Cardinality(Holders)
          /\ semaphore <= MaxConcurrentCalls
          /\ Cardinality(Queued) <= queue
          /\ queue <= MaxQueueSize

IInv == TypeOK /\ Tokens

LEMMA AtFinite ==
    ASSUME NEW ls
    PROVE  IsFiniteSet(At(ls)) /\ Cardinality(At(ls)) \in Nat
  <1>1. At(ls) \in SUBSET Callers
    BY DEF At
  <1> QED
    BY <1>1, ConfigAssumption, FS_Subset, FS_CardinalityType

\* How a move changes the set of callers in a set of places.
LEMMA MoveSets ==
    ASSUME TypeOK, NEW c \in Callers, NEW from \in Places, NEW to \in Places,
           Move(c, from, to), NEW CONSTANT ls
    PROVE  /\ At(ls)' = IF to \in ls THEN At(ls) \cup {c} ELSE At(ls) \ {c}
           /\ c \in At(ls) <=> from \in ls
  BY DEF Move, TypeOK, At

\* ... and their number.
LEMMA MoveCounts ==
    ASSUME TypeOK, NEW c \in Callers, NEW from \in Places, NEW to \in Places,
           Move(c, from, to), NEW CONSTANT ls
    PROVE  Cardinality(At(ls))' = Cardinality(At(ls))
                                    + (IF to \in ls THEN 1 ELSE 0)
                                    - (IF from \in ls THEN 1 ELSE 0)
  <1>1. IsFiniteSet(At(ls)) /\ Cardinality(At(ls)) \in Nat
    BY AtFinite
  <1>2. c \in At(ls) <=> from \in ls
    BY MoveSets
  <1>3. CASE to \in ls
    <2>1. At(ls)' = At(ls) \cup {c}
      BY <1>3, MoveSets
    <2>2. Cardinality(At(ls) \cup {c}) =
            IF c \in At(ls) THEN Cardinality(At(ls)) ELSE Cardinality(At(ls)) + 1
      BY <1>1, FS_AddElement
    <2> QED
      BY <1>1, <1>2, <1>3, <2>1, <2>2
  <1>4. CASE to \notin ls
    <2>1. At(ls)' = At(ls) \ {c}
      BY <1>4, MoveSets
    <2>2. Cardinality(At(ls) \ {c}) =
            IF c \in At(ls) THEN Cardinality(At(ls)) - 1 ELSE Cardinality(At(ls))
      BY <1>1, FS_RemoveElement
    <2> QED
      BY <1>1, <1>2, <1>4, <2>1, <2>2
  <1> QED
    BY <1>3, <1>4

LEMMA MoveType ==
    ASSUME TypeOK, NEW c \in Callers, NEW from \in Places, NEW to \in Places,
           Move(c, from, to)
    PROVE  pc' \in [Callers -> Places]
  BY DEF Move, TypeOK

\* The move, seen from the two channels.
LEMMA MoveTokens ==
    ASSUME TypeOK, NEW c \in Callers, NEW from \in Places, NEW to \in Places,
           Move(c, from, to)
    PROVE  /\ pc' \in [Callers -> Places]
           /\ Cardinality(Holders) \in Nat /\ Cardinality(Queued) \in Nat
           /\ Cardinality(Holders)' = Cardinality(Holders)
                + (IF to \in {"dequeue", "acquired", "running", "release"}
                   THEN 1 ELSE 0)
                - (IF from \in {"dequeue", "acquired", "running", "release"}
                   THEN 1 ELSE 0)
           /\ Cardinality(Queued)' = Cardinality(Queued)
                + (IF to \in {"waiting", "dequeue", "giveUp"} THEN 1 ELSE 0)
                - (IF from \in {"waiting", "dequeue", "giveUp"} THEN 1 ELSE 0)
  BY MoveType, MoveCounts, AtFinite DEF Holders, Queued

\* A caller that is in a place is counted there.
LEMMA SomeoneCounted ==
    ASSUME NEW c \in Callers, NEW ls, pc[c] \in ls
    PROVE  Cardinality(At(ls)) > 0
  <1>1. c \in At(ls)
    BY DEF At
  <1> QED
    BY <1>1, AtFinite, FS_EmptySet

LEMMA InitIInv == Init => IInv
  <1> SUFFICES ASSUME Init PROVE IInv
    OBVIOUS
  <1>1. Holders = {} /\ Queued = {}
    BY DEF Init, Holders, Queued, At
  <1>2. Cardinality({}) = 0
    BY FS_EmptySet
  <1>3. TypeOK
    BY DEF Init, TypeOK, Places
  <1> QED
    BY <1>1, <1>2, <1>3, ConfigAssumption DEF Init, IInv, Tokens

LEMMA AcquiringIInv ==
    ASSUME IInv, NEW c \in Callers, Execute(c) \/ Acquiring(c) PROVE IInv'
  <1> USE ConfigAssumption DEF IInv, Tokens, TypeOK
  <1>1. CASE Execute(c)
    <2>1. Move(c, "idle", "acquire") /\ {"idle", "acquire"} \subseteq Places
      BY <1>1 DEF Execute, Places
    <2> QED
      BY <1>1, <2>1, MoveTokens DEF Execute
  <1>2. CASE TryAcquire(c)
    <2>1. {"acquire", "acquired", "tryQueue"} \subseteq Places
      BY DEF Places
    <2>2. CASE Move(c, "acquire", "acquired")
      <3>1. semaphore < MaxConcurrentCalls /\ semaphore' = semaphore + 1
        BY <1>2, <2>2 DEF TryAcquire, Move
      <3> QED
        BY <1>2, <2>1, <2>2, <3>1, MoveTokens DEF TryAcquire
    <2>3. CASE Move(c, "acquire", "tryQueue")
      <3>1. semaphore' = semaphore
        BY <1>2, <2>3 DEF TryAcquire, Move
      <3> QED
        BY <1>2, <2>1, <2>3, <3>1, MoveTokens DEF TryAcquire
    <2> QED
      BY <1>2, <2>2, <2>3 DEF TryAcquire
  <1>3. CASE Enqueue(c)
    <2>1. {"tryQueue", "waiting"} \subseteq Places
      BY DEF Places
    <2> QED
      BY <1>3, <2>1, MoveTokens DEF Enqueue
  <1>4. CASE Reject(c)
    <2>1. {"acquire", "tryQueue", "idle"} \subseteq Places
      BY DEF Places
    <2> QED
      BY <1>4, <2>1, MoveTokens DEF Reject
  <1>5. CASE AcquireQueued(c)
    <2>1. {"waiting", "dequeue"} \subseteq Places
      BY DEF Places
    <2> QED
      BY <1>5, <2>1, MoveTokens DEF AcquireQueued
  <1>6. CASE WaitExpires(c)
    <2>1. {"waiting", "giveUp"} \subseteq Places
      BY DEF Places
    <2> QED
      BY <1>6, <2>1, MoveTokens DEF WaitExpires
  <1>7. CASE Dequeue(c)
    <2>1. {"dequeue", "acquired"} \subseteq Places
      BY DEF Places
    <2>2. Cardinality(Queued) > 0
      BY <1>7, SomeoneCounted DEF Dequeue, Move, Queued
    <2>3. queue' = queue - 1
      BY <1>7, <2>2, AtFinite DEF Dequeue, Left, Queued
    <2> QED
      BY <1>7, <2>1, <2>2, <2>3, MoveTokens DEF Dequeue
  <1>8. CASE GiveUp(c)
    <2>1. {"giveUp", "idle"} \subseteq Places
      BY DEF Places
    <2>2. Cardinality(Queued) > 0
      BY <1>8, SomeoneCounted DEF GiveUp, Move, Queued
    <2>3. queue' = queue - 1
      BY <1>8, <2>2, AtFinite DEF GiveUp, Left, Queued
    <2> QED
      BY <1>8, <2>1, <2>2, <2>3, MoveTokens DEF GiveUp
  <1>9. CASE SendOnClosed(c)
    <2>1. {"acquire", "waiting", "tryQueue", "panicked"} \subseteq Places
      BY DEF Places
    <2> QED
      BY <1>9, <2>1, MoveTokens DEF SendOnClosed
  <1> QED
    BY <1>1, <1>2, <1>3, <1>4, <1>5, <1>6, <1>7, <1>8, <1>9 DEF Acquiring

LEMMA RunningIInv ==
    ASSUME IInv, NEW c \in Callers, Running(c) PROVE IInv'
  <1> USE ConfigAssumption DEF IInv, Tokens, TypeOK
  <1>1. CASE Start(c)
    <2>1. {"acquired", "running"} \subseteq Places
      BY DEF Places
    <2> QED
      BY <1>1, <2>1, MoveTokens DEF Start
  <1>2. CASE FnEnds(c)
    <2>1. {"running", "release"} \subseteq Places
      BY DEF Places
    <2> QED
      BY <1>2, <2>1, MoveTokens DEF FnEnds
  <1>3. CASE Release(c)
    <2>1. {"release", "decrement"} \subseteq Places
      BY DEF Places
    <2>2. Cardinality(Holders) > 0
      BY <1>3, SomeoneCounted DEF Release, Move, Holders
    <2>3. semaphore' = semaphore - 1
      BY <1>3, <2>2, AtFinite DEF Release, Left, Holders
    <2> QED
      BY <1>3, <2>1, <2>2, <2>3, MoveTokens DEF Release
  <1>4. CASE Decrement(c)
    <2>1. {"decrement", "idle"} \subseteq Places
      BY DEF Places
    <2> QED
      BY <1>4, <2>1, MoveTokens DEF Decrement
  <1> QED
    BY <1>1, <1>2, <1>3, <1>4 DEF Running

LEMMA ControlIInv ==
    ASSUME IInv, Closing \/ ResetMetrics \/ UNCHANGED vars PROVE IInv'
  <1> DEFINE Stages == {"open", "draining", "closeSemaphore", "closeQueue", "closed"}
  <1> SUFFICES /\ UNCHANGED <<semaphore, queue, pc>>
               /\ concurrent' \in Int /\ closer' \in Stages /\ forgotten' \in Nat
    BY DEF IInv, TypeOK, Tokens, Holders, Queued, At
  <1>1. CASE Closing
    <2>1. UNCHANGED <<semaphore, queue, concurrent, pc, forgotten>>
      BY <1>1 DEF Closing, Close, Drained, ForceClose, CloseChannels
    <2>2. closer' \in Stages
      BY <1>1 DEF Closing, Close, Drained, ForceClose, CloseChannels, CloseStep
    <2> QED
      BY <2>1, <2>2 DEF IInv, TypeOK
  <1>2. CASE ResetMetrics
    BY <1>2, AtFinite DEF ResetMetrics, Counted, IInv, TypeOK
  <1>3. CASE UNCHANGED vars
    BY <1>3 DEF vars, IInv, TypeOK
  <1> QED
    BY <1>1, <1>2, <1>3

LEMMA Invariance == Spec => []IInv
  <1>1. IInv /\ [Next]_vars => IInv'
    BY AcquiringIInv, RunningIInv, ControlIInv DEF Next
  <1> QED
    BY InitIInv, <1>1, PTL DEF Spec

-----------------------------------------------------------------------------
\* Every variable keeps its type.
THEOREM TypeCorrect == Spec => []TypeOK
  <1>1. IInv => TypeOK
    BY DEF IInv
  <1> QED
    BY <1>1, Invariance, PTL

\* The concurrency limit holds through waiting, timeouts, resets and shutdown.
THEOREM LimitHolds == Spec => []ConcurrencyLimit
  <1>1. IInv => ConcurrencyLimit
    <2> SUFFICES ASSUME IInv PROVE ConcurrencyLimit
      OBVIOUS
    <2>1. At({"running"}) \in SUBSET Holders
      BY DEF At, Holders
    <2>2. Cardinality(At({"running"})) <= Cardinality(Holders)
      BY <2>1, AtFinite, FS_Subset DEF Holders
    <2>3. /\ Cardinality(At({"running"})) \in Nat
          /\ Cardinality(Holders) \in Nat
      BY AtFinite DEF Holders
    <2> QED
      BY <2>2, <2>3, ConfigAssumption DEF IInv, Tokens, ConcurrencyLimit
  <1> QED
    BY <1>1, Invariance, PTL

\* The waiting line never exceeds MaxQueueSize, and whoever leaves it finds a
\* token to take back.
THEOREM QueueHolds == Spec => []QueueLimit
  <1>1. IInv => QueueLimit
    <2> SUFFICES ASSUME IInv PROVE QueueLimit
      OBVIOUS
    <2>1. Cardinality(Queued) \in Nat
      BY AtFinite DEF Queued
    <2> QED
      BY <2>1, ConfigAssumption DEF IInv, TypeOK, Tokens, QueueLimit
  <1> QED
    BY <1>1, Invariance, PTL

-----------------------------------------------------------------------------
(* What Close waits on.                                                    *)

\* The counter Close polls is exact but for the calls ResetMetrics made it
\* forget: every path through Execute takes back the one it added.
THEOREM CounterExact == Spec => []CounterCoversRunning
  <1> DEFINE In == {"running", "release", "decrement"}
  <1>1. Init => CounterCoversRunning
    <2> SUFFICES ASSUME Init PROVE CounterCoversRunning
      OBVIOUS
    <2>1. Counted = {}
      BY DEF Init, Counted, At
    <2> QED
      BY <2>1, FS_EmptySet DEF Init, CounterCoversRunning
  <1>2. TypeOK /\ CounterCoversRunning /\ [Next]_vars => CounterCoversRunning'
    <2> SUFFICES ASSUME TypeOK, CounterCoversRunning, [Next]_vars
                 PROVE  CounterCoversRunning'
      OBVIOUS
    <2>1. Cardinality(At(In)) \in Nat /\ concurrent \in Int /\ forgotten \in Nat
      BY AtFinite DEF TypeOK
    <2>2. ASSUME NEW c \in Callers, NEW from \in Places \ In,
                 NEW to \in Places \ In,
                 Move(c, from, to), UNCHANGED <<concurrent, forgotten>>
          PROVE  CounterCoversRunning'
      <3>1. Cardinality(At(In))' = Cardinality(At(In))
        BY <2>1, <2>2, MoveCounts
      <3> QED
        BY <2>2, <3>1 DEF CounterCoversRunning, Counted
    <2>3. ASSUME NEW c \in Callers, Execute(c) \/ Acquiring(c)
          PROVE  CounterCoversRunning'
      <3>1. UNCHANGED <<concurrent, forgotten>>
        BY <2>3 DEF Execute, Acquiring, TryAcquire, Enqueue, Reject,
             AcquireQueued, WaitExpires, Dequeue, GiveUp, SendOnClosed
      <3>2. \E from, to \in Places \ In : Move(c, from, to)
        BY <2>3, Zenon DEF Execute, Acquiring, TryAcquire, Enqueue, Reject,
             AcquireQueued, WaitExpires, Dequeue, GiveUp, SendOnClosed, Places
      <3> QED
        BY <2>2, <3>1, <3>2
    <2>4. ASSUME NEW c \in Callers, Running(c) PROVE CounterCoversRunning'
      <3> USE DEF CounterCoversRunning, Counted
      <3> {"acquired", "running", "release", "decrement", "idle"} \subseteq Places
        BY DEF Places
      <3>1. CASE Start(c)
        BY <2>1, <3>1, MoveCounts DEF Start
      <3>2. CASE FnEnds(c)
        BY <2>1, <3>2, MoveCounts DEF FnEnds
      <3>3. CASE Release(c)
        BY <2>1, <3>3, MoveCounts DEF Release
      <3>4. CASE Decrement(c)
        BY <2>1, <3>4, MoveCounts DEF Decrement
      <3> QED
        BY <2>4, <3>1, <3>2, <3>3, <3>4 DEF Running
    <2>5. CASE Closing \/ UNCHANGED vars
      <3>1. UNCHANGED <<concurrent, forgotten, pc>>
        BY <2>5 DEF Closing, Close, Drained, ForceClose, CloseChannels, vars
      <3> QED
        BY <3>1 DEF CounterCoversRunning, Counted, At
    <2>6. CASE ResetMetrics
      <3>1. Counted' = Counted
        BY <2>6 DEF ResetMetrics, Counted, At
      <3> QED
        BY <2>1, <2>6, <3>1 DEF ResetMetrics, CounterCoversRunning, Counted
    <2> QED
      BY <2>3, <2>4, <2>5, <2>6 DEF Next
  <1> QED
    BY <1>1, <1>2, TypeCorrect, PTL DEF Spec

-----------------------------------------------------------------------------
(* The channels implement the room of Admission.                           *)

\* The room counts with its own copy of the library's operator.
LEMMA SameCardinality == ASSUME NEW S PROVE Room!Cardinality(S) = Cardinality(S)
  BY DEF Cardinality, Room!Cardinality

\* The move, seen from the room.
LEMMA MoveRoom ==
    ASSUME TypeOK, NEW c \in Callers, NEW from \in Places, NEW to \in Places,
           Move(c, from, to)
    PROVE  /\ Holders' = IF to \in {"dequeue", "acquired", "running", "release"}
                         THEN Holders \cup {c} ELSE Holders \ {c}
           /\ c \in Holders
                <=> from \in {"dequeue", "acquired", "running", "release"}
           /\ Waiting' = IF to \in {"waiting", "giveUp"}
                         THEN Waiting \cup {c} ELSE Waiting \ {c}
           /\ c \in Waiting <=> from \in {"waiting", "giveUp"}
  <1> DEFINE In  == {"dequeue", "acquired", "running", "release"}
             Out == {"waiting", "giveUp"}
  <1>1. /\ At(In)' = IF to \in In THEN At(In) \cup {c} ELSE At(In) \ {c}
        /\ c \in At(In) <=> from \in In
    <2> HIDE DEF In
    <2> QED
      BY MoveSets
  <1>2. /\ At(Out)' = IF to \in Out THEN At(Out) \cup {c} ELSE At(Out) \ {c}
        /\ c \in At(Out) <=> from \in Out
    <2> HIDE DEF Out
    <2> QED
      BY MoveSets
  <1> QED
    BY <1>1, <1>2 DEF Holders, Waiting

\* Each step of a call is a step of the room or leaves the room as it is.
LEMMA CallRefines ==
    ASSUME IInv, NEW c \in Callers, Execute(c) \/ Acquiring(c) \/ Running(c)
    PROVE  Room!Next \/ UNCHANGED Room!avars
  <1> USE DEF Room!avars
  <1>1. TypeOK /\ semaphore = Cardinality(Holders)
    BY DEF IInv, Tokens
  <1>2. Places = {"idle", "acquire", "tryQueue", "waiting", "dequeue", "giveUp",
                  "acquired", "running", "release", "decrement", "panicked"}
    BY DEF Places
  <1>3. CASE \/ Execute(c) \/ Reject(c) \/ WaitExpires(c)
             \/ Dequeue(c) \/ Start(c) \/ FnEnds(c) \/ Decrement(c)
    BY <1>1, <1>2, <1>3, MoveRoom DEF Execute, Reject, WaitExpires, Dequeue,
         Start, FnEnds, Decrement
  <1>4. CASE TryAcquire(c)
    <2>1. CASE Move(c, "acquire", "acquired")
      <3>1. semaphore < MaxConcurrentCalls
        BY <1>1, <1>4, <2>1 DEF TryAcquire, Move, TypeOK
      <3>2. c \notin Holders /\ c \notin Waiting
        BY <1>1, <1>2, <2>1, MoveRoom
      <3>3. Holders' = Holders \cup {c} /\ Waiting' = Waiting \ {c}
        BY <1>1, <1>2, <2>1, MoveRoom
      <3>4. Room!Enter(c)
        BY <1>1, <3>1, <3>2, <3>3, SameCardinality DEF Room!Enter
      <3> QED
        BY <3>4 DEF Room!Next
    <2>2. CASE Move(c, "acquire", "tryQueue")
      BY <1>1, <1>2, <2>2, MoveRoom
    <2> QED
      BY <1>4, <2>1, <2>2 DEF TryAcquire
  <1>5. CASE Enqueue(c)
    <2>1. Cardinality(Waiting) < MaxQueueSize
      <3>1. Waiting \in SUBSET Queued
        BY DEF Waiting, Queued, At
      <3>2. Cardinality(Waiting) <= Cardinality(Queued)
        BY <3>1, AtFinite, FS_Subset DEF Queued
      <3>3. Cardinality(Waiting) \in Nat /\ Cardinality(Queued) \in Nat
        BY AtFinite DEF Waiting, Queued
      <3> QED
        BY <1>5, <3>2, <3>3, ConfigAssumption DEF Enqueue, IInv, Tokens, TypeOK
    <2>2. c \notin Holders /\ c \notin Waiting
      BY <1>1, <1>2, <1>5, MoveRoom DEF Enqueue
    <2>3. Waiting' = Waiting \cup {c} /\ Holders' = Holders \ {c}
      BY <1>1, <1>2, <1>5, MoveRoom DEF Enqueue
    <2>4. Room!Wait(c)
      BY <2>1, <2>2, <2>3, SameCardinality DEF Room!Wait
    <2> QED
      BY <2>4 DEF Room!Next
  <1>6. CASE AcquireQueued(c)
    <2>1. c \in Waiting /\ semaphore < MaxConcurrentCalls
      BY <1>1, <1>2, <1>6, MoveRoom DEF AcquireQueued
    <2>2. Holders' = Holders \cup {c} /\ Waiting' = Waiting \ {c}
      BY <1>1, <1>2, <1>6, MoveRoom DEF AcquireQueued
    <2>3. Room!Promote(c)
      BY <1>1, <2>1, <2>2, SameCardinality DEF Room!Promote
    <2> QED
      BY <2>3 DEF Room!Next
  <1>7. CASE GiveUp(c)
    BY <1>1, <1>2, <1>7, MoveRoom DEF GiveUp, Room!Next, Room!GiveUp
  <1>8. CASE Release(c)
    BY <1>1, <1>2, <1>8, MoveRoom DEF Release, Room!Next, Room!Leave
  <1>9. CASE SendOnClosed(c)
    BY <1>1, <1>2, <1>9, MoveRoom DEF SendOnClosed, Room!Next, Room!GiveUp
  <1> QED
    BY <1>3, <1>4, <1>5, <1>6, <1>7, <1>8, <1>9 DEF Acquiring, Running

\* Two buffered channels and a counter, closed under the callers' feet or not,
\* admit exactly what a room of MaxConcurrentCalls with a line of MaxQueueSize
\* admits.
THEOREM Refinement == Spec => ImplementsAdmission
  <1>1. Init => Room!Init
    BY DEF Init, Room!Init, Holders, Waiting, At
  <1>2. IInv /\ [Next]_vars => [Room!Next]_(Room!avars)
    <2> SUFFICES ASSUME IInv, [Next]_vars
                 PROVE  Room!Next \/ UNCHANGED Room!avars
      OBVIOUS
    <2>1. ASSUME NEW c \in Callers, Execute(c) \/ Acquiring(c) \/ Running(c)
          PROVE  Room!Next \/ UNCHANGED Room!avars
      BY <2>1, CallRefines
    <2>2. CASE Closing \/ ResetMetrics \/ UNCHANGED vars
      <3>1. UNCHANGED pc
        BY <2>2 DEF Closing, Close, Drained, ForceClose, CloseChannels,
                    ResetMetrics, vars
      <3> QED
        BY <3>1 DEF Room!avars, Holders, Waiting, At
    <2> QED
      BY <2>1, <2>2 DEF Next
  <1> QED
    BY <1>1, <1>2, Invariance, PTL DEF Spec, ImplementsAdmission, Room!Spec
=============================================================================
