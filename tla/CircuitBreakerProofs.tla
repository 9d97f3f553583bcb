------------------------ MODULE CircuitBreakerProofs ------------------------
(***************************************************************************)
(* Proofs about CircuitBreaker, for every set of callers and every         *)
(* Threshold and HalfOpenMax.                                              *)
(***************************************************************************)
EXTENDS CircuitBreaker, TLAPS

\* The variables only the check of admission and the operations touch.
Recorded == <<state, failureCount, successCount, healthy>>

\* Holds in every state, and is preserved by every step as it stands.
IInv == TypeOK /\ ClosedBelowThreshold /\ HalfOpenAdmits /\ HealthTracksState

\* The steps that leave the record of the circuit and mu alone.
LEMMA Bystanders ==
    ASSUME IInv, UNCHANGED Recorded, At("clearing")' = At("clearing"),
           lastFailure' \in {"never", "recent", "old"},
           pc' \in [Callers -> Places]
    PROVE  IInv'
  BY DEF IInv, Recorded, TypeOK, ClosedBelowThreshold, HalfOpenAdmits,
         HealthTracksState, MuFree

\* Moving a caller that neither takes nor holds mu does not change who holds it.
LEMMA MoveKeepsMu ==
    ASSUME NEW c \in Callers, NEW l \in Places \ {"clearing"},
           TypeOK, pc[c] # "clearing", Goto(c, l)
    PROVE  /\ At("clearing")' = At("clearing")
           /\ pc' \in [Callers -> Places]
  BY DEF TypeOK, At, Goto

LEMMA InitIInv == Init => IInv
  BY ConfigAssumption DEF Init, IInv, TypeOK, States, Places,
       ClosedBelowThreshold, HalfOpenAdmits, HealthTracksState

LEMMA ExecuteIInv == ASSUME IInv, NEW c \in Callers, Execute(c) PROVE IInv'
  <1>1. TypeOK /\ pc[c] # "clearing" /\ "check" \in Places \ {"clearing"}
    BY DEF Execute, IInv, Places
  <1>2. /\ At("clearing")' = At("clearing")
        /\ pc' \in [Callers -> Places]
    BY <1>1, MoveKeepsMu DEF Execute
  <1> QED
    BY <1>2, Bystanders DEF Execute, Recorded, IInv, TypeOK

LEMMA CheckIInv == ASSUME IInv, NEW c \in Callers, Check(c) PROVE IInv'
  <1>1. TypeOK /\ pc[c] # "clearing"
    BY DEF Check, CheckCircuitState, CheckTimeout, CheckSuccesses, IInv
  <1>2. \E l \in Places \ {"clearing"} : Goto(c, l)
    BY <1>1 DEF Check, CheckCircuitState, CheckTimeout, CheckSuccesses, Places
  <1>3. /\ At("clearing")' = At("clearing")
        /\ pc' \in [Callers -> Places]
    BY <1>1, <1>2, MoveKeepsMu
  <1>4. UNCHANGED <<Recorded, lastFailure>>
    BY DEF Check, CheckCircuitState, CheckTimeout, CheckSuccesses, Recorded
  <1> QED
    BY <1>3, <1>4, Bystanders DEF IInv, TypeOK

LEMMA EndsIInv == ASSUME IInv, NEW c \in Callers, Ends(c) PROVE IInv'
  <1>1. TypeOK /\ pc[c] # "clearing"
    BY DEF Ends, OperationSucceeds, OperationFails, ContextExpires, Operating,
           At, IInv
  <1>2. \E l \in Places \ {"clearing"} : Goto(c, l)
    BY DEF Ends, OperationSucceeds, OperationFails, ContextExpires, Stamp, Places
  <1>3. /\ At("clearing")' = At("clearing")
        /\ pc' \in [Callers -> Places]
    BY <1>1, <1>2, MoveKeepsMu
  <1>4. UNCHANGED Recorded /\ lastFailure' \in {"never", "recent", "old"}
    BY <1>1 DEF Ends, OperationSucceeds, OperationFails, ContextExpires, Stamp,
                Recorded, TypeOK
  <1> QED
    BY <1>3, <1>4, Bystanders

LEMMA EnterHalfOpenIInv ==
    ASSUME IInv, NEW c \in Callers, EnterHalfOpen(c) PROVE IInv'
  <1>1. CASE state = "Open" /\ state' = "HalfOpen" /\ Goto(c, "clearing")
    <2>1. c \in At("clearing")'
      BY <1>1 DEF Goto, At, IInv, TypeOK
    <2>2. TypeOK'
      BY <1>1 DEF EnterHalfOpen, Goto, IInv, TypeOK, States, Places
    <2> QED
      BY <1>1, <2>1, <2>2 DEF EnterHalfOpen, IInv, ClosedBelowThreshold,
            HalfOpenAdmits, HealthTracksState, MuFree
  <1>2. CASE state # "Open" /\ Goto(c, "trial") /\ UNCHANGED state
    <2>1. /\ At("clearing")' = At("clearing")
          /\ pc' \in [Callers -> Places]
      BY <1>2, MoveKeepsMu DEF EnterHalfOpen, IInv, Places
    <2> QED
      BY <1>2, <2>1, Bystanders DEF EnterHalfOpen, Recorded, IInv, TypeOK
  <1> QED
    BY <1>1, <1>2 DEF EnterHalfOpen

LEMMA ClearSuccessesIInv ==
    ASSUME IInv, NEW c \in Callers, ClearSuccesses(c) PROVE IInv'
  <1>a. pc' \in [Callers -> Places]
    BY DEF ClearSuccesses, Goto, IInv, TypeOK, Places
  <1>1. TypeOK'
    BY <1>a DEF ClearSuccesses, IInv, TypeOK
  <1>2. HalfOpenAdmits'
    BY ConfigAssumption DEF ClearSuccesses, HalfOpenAdmits
  <1> QED
    BY <1>1, <1>2 DEF ClearSuccesses, IInv, ClosedBelowThreshold,
                      HealthTracksState

LEMMA RecordSuccessIInv ==
    ASSUME IInv, NEW c \in Callers, RecordSuccess(c) PROVE IInv'
  <1>1. pc' \in [Callers -> Places]
    BY DEF RecordSuccess, Goto, IInv, TypeOK, Places
  <1>2. TypeOK'
    <2>1. state' \in States /\ healthy' \in BOOLEAN /\ UNCHANGED lastFailure
      BY Zenon DEF RecordSuccess, Close, IInv, TypeOK, States
    <2>2. failureCount' \in Nat /\ successCount' \in Nat
      BY DEF RecordSuccess, ForgiveFailures, Close, IInv, TypeOK
    <2> QED
      BY <1>1, <2>1, <2>2 DEF IInv, TypeOK
  <1>3. ClosedBelowThreshold' /\ HealthTracksState'
    BY ConfigAssumption DEF RecordSuccess, ForgiveFailures, Close, IInv, TypeOK,
         ClosedBelowThreshold, HealthTracksState
  <1>4. HalfOpenAdmits'
    BY ConfigAssumption DEF RecordSuccess, Close, IInv, TypeOK, HalfOpenAdmits
  <1> QED
    BY <1>2, <1>3, <1>4 DEF IInv

LEMMA RecordFailureIInv ==
    ASSUME IInv, NEW c \in Callers, RecordFailure(c) PROVE IInv'
  <1>1. pc' \in [Callers -> Places]
    BY DEF RecordFailure, Goto, IInv, TypeOK, Places
  <1>2. TypeOK'
    <2>1. state' \in States /\ healthy' \in BOOLEAN /\ UNCHANGED lastFailure
      BY Zenon DEF RecordFailure, Open, IInv, TypeOK, States
    <2>2. failureCount' \in Nat /\ successCount' \in Nat
      BY DEF RecordFailure, Open, IInv, TypeOK
    <2> QED
      BY <1>1, <2>1, <2>2 DEF IInv, TypeOK
  <1>3. ClosedBelowThreshold' /\ HealthTracksState'
    BY ConfigAssumption DEF RecordFailure, Open, IInv, TypeOK,
         ClosedBelowThreshold, HealthTracksState
  <1>4. HalfOpenAdmits'
    BY DEF RecordFailure, Open, IInv, HalfOpenAdmits
  <1> QED
    BY <1>2, <1>3, <1>4 DEF IInv

LEMMA ManualIInv == ASSUME IInv, ForceOpen \/ Reset \/ Elapse PROVE IInv'
  <1>1. TypeOK'
    <2>1. healthy' \in BOOLEAN
      BY Zenon DEF ForceOpen, Reset, Elapse, Open, Close, IInv, TypeOK
    <2> QED
      BY <2>1 DEF ForceOpen, Reset, Elapse, Open, Close, IInv, TypeOK, States
  <1>2. ClosedBelowThreshold' /\ HealthTracksState'
    BY ConfigAssumption DEF ForceOpen, Reset, Elapse, Open, Close, IInv,
         ClosedBelowThreshold, HealthTracksState
  <1>3. HalfOpenAdmits'
    BY DEF ForceOpen, Reset, Elapse, Open, Close, IInv, HalfOpenAdmits, MuFree,
           At
  <1> QED
    BY <1>1, <1>2, <1>3 DEF IInv

LEMMA NextIInv == IInv /\ [Next]_vars => IInv'
  <1> SUFFICES ASSUME IInv, [Next]_vars PROVE IInv'
    OBVIOUS
  <1>1. CASE \E c \in Callers : Execute(c) \/ Check(c)
    BY <1>1, ExecuteIInv, CheckIInv
  <1>2. CASE \E c \in Callers : EnterHalfOpen(c) \/ ClearSuccesses(c)
    BY <1>2, EnterHalfOpenIInv, ClearSuccessesIInv
  <1>3. CASE \E c \in Callers : Ends(c)
    BY <1>3, EndsIInv
  <1>4. CASE \E c \in Callers : Record(c)
    BY <1>4, RecordSuccessIInv, RecordFailureIInv DEF Record
  <1>5. CASE ForceOpen \/ Reset \/ Elapse
    BY <1>5, ManualIInv
  <1>6. CASE UNCHANGED vars
    BY <1>6 DEF vars, IInv, TypeOK, ClosedBelowThreshold, HalfOpenAdmits,
                HealthTracksState, MuFree, At
  <1> QED
    BY <1>1, <1>2, <1>3, <1>4, <1>5, <1>6 DEF Next

LEMMA Invariance == Spec => []IInv
  BY InitIInv, NextIInv, PTL DEF Spec

-----------------------------------------------------------------------------
\* Every variable keeps its type.
THEOREM TypeCorrect == Spec => []TypeOK
  <1>1. IInv => TypeOK
    BY DEF IInv
  <1> QED
    BY <1>1, Invariance, PTL

\* However the results of concurrent calls are recorded, the failure that
\* reaches the threshold opens the circuit.
THEOREM ThresholdOpens == Spec => []ClosedBelowThreshold
  <1>1. IInv => ClosedBelowThreshold
    BY DEF IInv
  <1> QED
    BY <1>1, Invariance, PTL

\* No half-open episode starts or continues with its successes used up, so the
\* lock-free check never locks every caller out.
THEOREM HalfOpenNeverExhausted == Spec => []HalfOpenAdmits
  <1>1. IInv => HalfOpenAdmits
    BY DEF IInv
  <1> QED
    BY <1>1, Invariance, PTL

\* The health flag and the state move together.
THEOREM HealthIsTruthful == Spec => []HealthTracksState
  <1>1. IInv => HealthTracksState
    BY DEF IInv
  <1> QED
    BY <1>1, Invariance, PTL

-----------------------------------------------------------------------------
(* Without manual control.                                                 *)

\* A failure that waits for mu has been stamped, so it can open the circuit.
RInv == /\ OpenRecovers
        /\ \A c \in Callers : pc[c] = "recordFailure" => lastFailure # "never"

\* An open circuit has the time of its last failure, so that the timeout ends
\* the open state: no call of ForceOpen, ForceClose or Reset assumed.
THEOREM OpenAlwaysRecovers == ASSUME Admin = {} PROVE Spec => []OpenRecovers
  <1>1. Init => RInv
    BY DEF Init, RInv, OpenRecovers
  <1>2. TypeOK /\ RInv /\ [Next]_vars => RInv'
    <2> SUFFICES ASSUME TypeOK, RInv, [Next]_vars PROVE RInv'
      OBVIOUS
    <2> USE DEF RInv, OpenRecovers, TypeOK
    <2>1. ASSUME NEW c \in Callers, Execute(c) \/ Check(c) PROVE RInv'
      BY <2>1 DEF Execute, Check, CheckCircuitState, CheckTimeout,
                  CheckSuccesses, Goto
    <2>2. ASSUME NEW c \in Callers, EnterHalfOpen(c) \/ ClearSuccesses(c)
          PROVE  RInv'
      BY <2>2 DEF EnterHalfOpen, ClearSuccesses, Goto
    <2>3. ASSUME NEW c \in Callers, Ends(c) PROVE RInv'
      BY <2>3 DEF Ends, OperationSucceeds, OperationFails, ContextExpires,
                  Stamp, Goto
    <2>4. ASSUME NEW c \in Callers, Record(c) PROVE RInv'
      BY <2>4 DEF Record, RecordSuccess, RecordFailure, Close, Open, Goto
    <2>5. CASE Elapse
      BY <2>5 DEF Elapse
    <2>6. CASE UNCHANGED vars
      BY <2>6 DEF vars
    <2> QED
      BY <2>1, <2>2, <2>3, <2>4, <2>5, <2>6 DEF Next, ForceOpen, Reset
  <1>3. RInv => OpenRecovers
    BY DEF RInv
  <1> QED
    BY <1>1, <1>2, <1>3, TypeCorrect, PTL DEF Spec

\* The circuit closes only out of half-open and is probed only out of open.
THEOREM ThreeStates == ASSUME Admin = {} PROVE Spec => ThreeStateMachine
  <1>1. ASSUME TypeOK, [Next]_vars
        PROVE  [state' # state => \/ state = "Closed"   /\ state' = "Open"
                                  \/ state = "Open"     /\ state' = "HalfOpen"
                                  \/ state = "HalfOpen"]_vars
    BY <1>1 DEF TypeOK, States, Next, Execute, Check, CheckCircuitState,
         CheckTimeout, CheckSuccesses, EnterHalfOpen, ClearSuccesses, Ends,
         OperationSucceeds, OperationFails, ContextExpires, Stamp, Record,
         RecordSuccess, RecordFailure, Close, Open, ForceOpen, Reset, Elapse,
         vars
  <1> QED
    BY <1>1, TypeCorrect, PTL DEF Spec, ThreeStateMachine

-----------------------------------------------------------------------------
(* The concurrent breaker implements the sequential machine.               *)

\* A step that does not touch what the machine sees is a stutter of it.
LEMMA Stutter ==
    ASSUME UNCHANGED Recorded, At("clearing")' = At("clearing")
    PROVE  UNCHANGED Machine!bvars
  BY DEF Recorded, Machine!bvars, EpisodeSuccesses, MuFree

LEMMA EnterIsProbe ==
    ASSUME TypeOK, NEW c \in Callers, EnterHalfOpen(c)
    PROVE  Machine!Probe \/ UNCHANGED Machine!bvars
  <1>1. CASE state = "Open" /\ state' = "HalfOpen" /\ Goto(c, "clearing")
    <2>1. c \in At("clearing")'
      BY <1>1 DEF Goto, At, TypeOK
    <2>2. EpisodeSuccesses' = 0
      BY <2>1 DEF EpisodeSuccesses, MuFree
    <2> QED
      BY <1>1, <2>2 DEF EnterHalfOpen, Machine!Probe
  <1>2. CASE state # "Open" /\ Goto(c, "trial") /\ UNCHANGED state
    <2>1. At("clearing")' = At("clearing")
      BY <1>2, MoveKeepsMu DEF EnterHalfOpen, Places
    <2> QED
      BY <1>2, <2>1, Stutter DEF EnterHalfOpen, Recorded
  <1> QED
    BY <1>1, <1>2 DEF EnterHalfOpen

LEMMA ClearIsStutter ==
    ASSUME NEW c \in Callers, ClearSuccesses(c), c \in At("clearing")
    PROVE  UNCHANGED Machine!bvars
  BY DEF ClearSuccesses, Machine!bvars, EpisodeSuccesses, MuFree

LEMMA RecordIsOutcome ==
    ASSUME IInv, NEW c \in Callers, Record(c)
    PROVE  \/ Machine!Succeed \/ Machine!Fail
           \/ UNCHANGED Machine!bvars
  <1>1. At("clearing") = {} /\ At("clearing")' = {}
    <2>1. TypeOK /\ pc[c] # "clearing" /\ Goto(c, "idle") /\ MuFree
      BY DEF Record, RecordSuccess, RecordFailure, IInv
    <2>2. At("clearing")' = At("clearing")
      BY <2>1, MoveKeepsMu DEF Places
    <2> QED
      BY <2>1, <2>2 DEF MuFree
  <1>2. /\ EpisodeSuccesses = successCount
        /\ EpisodeSuccesses' = successCount'
        /\ MuFree
    BY <1>1 DEF EpisodeSuccesses, MuFree
  <1>3. CASE RecordSuccess(c)
    BY <1>2, <1>3, ConfigAssumption
       DEF RecordSuccess, ForgiveFailures, Close, IInv, TypeOK, HalfOpenAdmits,
           Machine!Succeed, Machine!bvars
  <1>4. CASE RecordFailure(c)
    BY <1>2, <1>4, ConfigAssumption
       DEF RecordFailure, Open, IInv, TypeOK, ClosedBelowThreshold,
           Machine!Fail, Machine!bvars
  <1> QED
    BY <1>3, <1>4 DEF Record

LEMMA ManualIsManual ==
    ASSUME ForceOpen \/ Reset \/ Elapse
    PROVE  \/ Machine!ForceOpen \/ Machine!Reset
           \/ UNCHANGED Machine!bvars
  <1>1. At("clearing")' = At("clearing")
    BY DEF ForceOpen, Reset, Elapse, At
  <1>2. CASE ForceOpen
    BY <1>1, <1>2 DEF ForceOpen, Open, Machine!ForceOpen, EpisodeSuccesses, MuFree
  <1>3. CASE Reset
    BY <1>1, <1>3 DEF Reset, Close, Machine!Reset, EpisodeSuccesses, MuFree
  <1>4. CASE Elapse
    BY <1>1, <1>4, Stutter DEF Elapse, Recorded
  <1> QED
    BY <1>2, <1>3, <1>4

LEMMA OtherIsStutter ==
    ASSUME TypeOK, NEW c \in Callers, Execute(c) \/ Check(c) \/ Ends(c)
    PROVE  UNCHANGED Machine!bvars
  <1>1. pc[c] # "clearing"
    BY DEF Execute, Check, CheckCircuitState, CheckTimeout, CheckSuccesses,
           Ends, OperationSucceeds, OperationFails, ContextExpires, Operating,
           At
  <1>2. \E l \in Places \ {"clearing"} : Goto(c, l)
    BY DEF Execute, Check, CheckCircuitState, CheckTimeout, CheckSuccesses,
           Ends, OperationSucceeds, OperationFails, ContextExpires, Stamp,
           Places
  <1>3. At("clearing")' = At("clearing")
    BY <1>1, <1>2, MoveKeepsMu
  <1>4. UNCHANGED Recorded
    BY DEF Execute, Check, CheckCircuitState, CheckTimeout, CheckSuccesses,
           Ends, OperationSucceeds, OperationFails, ContextExpires, Stamp,
           Recorded
  <1> QED
    BY <1>3, <1>4, Stutter

\* Each recorded outcome, each manual control and each probe is one atomic step
\* of the sequential machine, and nothing else the callers do is visible to it.
THEOREM Refinement == Spec => ImplementsMachine
  <1>1. Init => Machine!Init
    BY DEF Init, Machine!Init, EpisodeSuccesses
  <1>2. IInv /\ [Next]_vars => [Machine!Next]_(Machine!bvars)
    <2> SUFFICES ASSUME IInv, [Next]_vars
                 PROVE  Machine!Next \/ UNCHANGED Machine!bvars
      OBVIOUS
    <2>1. TypeOK
      BY DEF IInv
    <2>2. ASSUME NEW c \in Callers, Execute(c) \/ Check(c) \/ Ends(c)
          PROVE  UNCHANGED Machine!bvars
      BY <2>1, <2>2, OtherIsStutter
    <2>3. ASSUME NEW c \in Callers, EnterHalfOpen(c)
          PROVE  Machine!Next \/ UNCHANGED Machine!bvars
      BY <2>1, <2>3, EnterIsProbe DEF Machine!Next
    <2>4. ASSUME NEW c \in Callers, ClearSuccesses(c)
          PROVE  UNCHANGED Machine!bvars
      <3>1. c \in At("clearing")
        BY <2>4 DEF ClearSuccesses, At
      <3> QED
        BY <2>4, <3>1, ClearIsStutter
    <2>5. ASSUME NEW c \in Callers, Record(c)
          PROVE  Machine!Next \/ UNCHANGED Machine!bvars
      BY <2>5, RecordIsOutcome DEF Machine!Next
    <2>6. CASE ForceOpen \/ Reset \/ Elapse
      BY <2>6, ManualIsManual DEF Machine!Next
    <2>7. CASE UNCHANGED vars
      BY <2>7 DEF vars, Machine!bvars, EpisodeSuccesses, MuFree, At
    <2> QED
      BY <2>2, <2>3, <2>4, <2>5, <2>6, <2>7 DEF Next
  <1> QED
    BY <1>1, <1>2, Invariance, PTL DEF Spec, ImplementsMachine, Machine!Spec
=============================================================================
