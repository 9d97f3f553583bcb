--------------------------- MODULE CircuitBreaker ---------------------------
(***************************************************************************)
(* The circuit breaker of circuitbreaker.go.                               *)
(*                                                                         *)
(* Every goroutine inside Execute or ExecuteWithContext is a caller with a *)
(* program counter.  The admission check is lock free in the code (one     *)
(* atomic load per step here); the outcome of an operation is recorded in  *)
(* two steps, the stamp of lastFailure before mu and the state transition  *)
(* under mu.  What holds mu is atomic, except transitionToHalfOpen, whose  *)
(* two stores are seen by the lock-free check.                             *)
(*                                                                         *)
(* Time: the only question the code asks of lastFailure is whether it is   *)
(* unset (0), younger than the timeout or older, so it has three values.   *)
(* The totals are written but never read by the code that decides: module  *)
(* CircuitBreakerMetrics adds them to the steps of this one.               *)
(***************************************************************************)
EXTENDS Naturals, FiniteSets

CONSTANTS PlainCallers,  \* goroutines that call Execute
          CtxCallers,    \* goroutines that call ExecuteWithContext/Timeout
          Threshold,     \* failures that open the circuit
          HalfOpenMax,   \* successes that close it again
          Admin          \* manual controls in use: "ForceOpen", "Reset"

Callers == PlainCallers \cup CtxCallers

ASSUME ConfigAssumption ==
    /\ Threshold \in Nat \ {0}
    /\ HalfOpenMax \in Nat \ {0}
    /\ PlainCallers \cap CtxCallers = {}
    /\ Admin \subseteq {"ForceOpen", "Reset"}

VARIABLES
    state,         \* cb.state
    failureCount,  \* cb.failureCount: failures in a row while closed
    successCount,  \* cb.successCount: successes of the half-open episode
    lastFailure,   \* cb.lastFailure: "never", "recent" or "old"
    healthy,       \* cb.healthStatus = 1
    pc             \* where each caller is

vars == <<state, failureCount, successCount, lastFailure, healthy, pc>>

States == {"Closed", "Open", "HalfOpen"}

\* "running" and "trial" both run the operation: "trial" was admitted because
\* the circuit was open or half-open, "running" because it was closed.
Places == {"idle", "check", "sawOpen", "sawHalfOpen", "transition",
           "clearing", "running", "trial", "recordSuccess", "recordFailure"}

At(l)      == {c \in Callers : pc[c] = l}
Operating  == At("running") \cup At("trial")

\* cb.mu is held across states by transitionToHalfOpen only.
MuFree == At("clearing") = {}

Goto(c, l) == pc' = [pc EXCEPT ![c] = l]

-----------------------------------------------------------------------------
Init == /\ state = "Closed"
        /\ failureCount = 0
        /\ successCount = 0
        /\ lastFailure = "never"
        /\ healthy = TRUE
        /\ pc = [c \in Callers |-> "idle"]

\* A nil operation or a context that is already done changes nothing.
Execute(c) ==
    /\ pc[c] = "idle"
    /\ Goto(c, "check")
    /\ UNCHANGED <<state, failureCount, successCount, lastFailure, healthy>>

CheckCircuitState(c) ==
    /\ pc[c] = "check"
    /\ \/ state = "Closed"   /\ Goto(c, "running")
       \/ state = "Open"     /\ Goto(c, "sawOpen")
       \/ state = "HalfOpen" /\ Goto(c, "sawHalfOpen")
    /\ UNCHANGED <<state, failureCount, successCount, lastFailure, healthy>>

\* Faulty variant: the comparison with the timeout turned round.
TooEarly == lastFailure = "recent"

ShouldAttemptReset == lastFailure = "old"

\* Second load of the open branch; a rejected call returns.
CheckTimeout(c) ==
    /\ pc[c] = "sawOpen"
    /\ \/ ShouldAttemptReset  /\ Goto(c, "transition")
       \/ ~ShouldAttemptReset /\ Goto(c, "idle")
    /\ UNCHANGED <<state, failureCount, successCount, lastFailure, healthy>>

\* Faulty variant: one success too few is awaited.
CheckSuccessesShort(c) ==
    /\ pc[c] = "sawHalfOpen"
    /\ IF successCount + 1 < HalfOpenMax THEN Goto(c, "trial") ELSE Goto(c, "idle")
    /\ UNCHANGED <<state, failureCount, successCount, lastFailure, healthy>>

\* Second load of the half-open branch.
CheckSuccesses(c) ==
    /\ pc[c] = "sawHalfOpen"
    /\ \/ successCount < HalfOpenMax  /\ Goto(c, "trial")
       \/ successCount >= HalfOpenMax /\ Goto(c, "idle")
    /\ UNCHANGED <<state, failureCount, successCount, lastFailure, healthy>>

\* Faulty variant: the state is not read again under mu.
EnterHalfOpenUnchecked(c) ==
    /\ pc[c] = "transition"
    /\ MuFree
    /\ state' = "HalfOpen"
    /\ Goto(c, "clearing")
    /\ UNCHANGED <<failureCount, successCount, lastFailure, healthy>>

\* transitionToHalfOpen up to setState(StateHalfOpen), mu held.  The call is
\* admitted whether or not the circuit was still open.
EnterHalfOpen(c) ==
    /\ pc[c] = "transition"
    /\ MuFree
    /\ \/ /\ state = "Open"
          /\ state' = "HalfOpen"
          /\ Goto(c, "clearing")
       \/ /\ state # "Open"
          /\ Goto(c, "trial")
          /\ UNCHANGED state
    /\ UNCHANGED <<failureCount, successCount, lastFailure, healthy>>

\* Faulty variant: the successes of the last episode are kept.
KeepSuccesses(c) ==
    /\ pc[c] = "clearing"
    /\ Goto(c, "trial")
    /\ UNCHANGED <<state, failureCount, successCount, lastFailure, healthy>>

\* The second store of transitionToHalfOpen and the release of mu.
ClearSuccesses(c) ==
    /\ pc[c] = "clearing"
    /\ successCount' = 0
    /\ Goto(c, "trial")
    /\ UNCHANGED <<state, failureCount, lastFailure, healthy>>

-----------------------------------------------------------------------------
\* The lock-free head of recordSuccess.
OperationSucceeds(c) ==
    /\ c \in Operating
    /\ Goto(c, "recordSuccess")
    /\ UNCHANGED <<state, failureCount, successCount, lastFailure, healthy>>

\* The lock-free head of recordFailure: lastFailure is stamped before mu.
Stamp(c) ==
    /\ lastFailure' = "recent"
    /\ Goto(c, "recordFailure")
    /\ UNCHANGED <<state, failureCount, successCount, healthy>>

\* The operation returned an error, or its panic was recovered (at once in
\* Execute, in the operation's own goroutine in ExecuteWithContext).
OperationFails(c) == c \in Operating /\ Stamp(c)

\* Faulty variant: the select does not listen to ctx.Done.
NeverExpires(c) == FALSE /\ c \in CtxCallers /\ UNCHANGED vars

\* ctx.Done wins the select; the goroutine of the operation goes on alone and
\* its result is dropped.
ContextExpires(c) == c \in Operating \cap CtxCallers /\ Stamp(c)

\* Faulty variant: the reset of the count is forgotten.
CloseKeepsFailures == state' = "Closed" /\ healthy' = TRUE /\ UNCHANGED failureCount

Close == state' = "Closed" /\ failureCount' = 0 /\ healthy' = TRUE

Open == state' = "Open" /\ healthy' = FALSE

\* While closed, a success ends the row of failures.
ForgiveFailures == failureCount' = 0

\* recordSuccess under mu.
RecordSuccess(c) ==
    /\ pc[c] = "recordSuccess"
    /\ MuFree
    /\ \/ /\ state = "Closed"
          /\ ForgiveFailures
          /\ UNCHANGED <<state, successCount, healthy>>
       \/ /\ state = "HalfOpen"
          /\ successCount' = successCount + 1
          /\ IF successCount + 1 >= HalfOpenMax
             THEN Close
             ELSE UNCHANGED <<state, failureCount, healthy>>
       \/ /\ state = "Open"
          /\ UNCHANGED <<state, failureCount, successCount, healthy>>
    /\ Goto(c, "idle")
    /\ UNCHANGED lastFailure

\* recordFailure under mu.
RecordFailure(c) ==
    /\ pc[c] = "recordFailure"
    /\ MuFree
    /\ \/ /\ state = "Closed"
          /\ failureCount' = failureCount + 1
          /\ IF failureCount + 1 >= Threshold
             THEN Open
             ELSE UNCHANGED <<state, healthy>>
       \/ /\ state = "HalfOpen"
          /\ Open
          /\ UNCHANGED failureCount
       \/ /\ state = "Open"
          /\ UNCHANGED <<state, failureCount, healthy>>
    /\ Goto(c, "idle")
    /\ UNCHANGED <<successCount, lastFailure>>

-----------------------------------------------------------------------------
ForceOpen ==
    /\ "ForceOpen" \in Admin
    /\ MuFree
    /\ Open
    /\ UNCHANGED <<failureCount, successCount, lastFailure, pc>>

\* ForceClose and Reset make the same stores.
Reset ==
    /\ "Reset" \in Admin
    /\ MuFree
    /\ Close
    /\ successCount' = 0
    /\ lastFailure' = "never"
    /\ UNCHANGED pc

\* cb.timeout has passed since the last failure.
Elapse ==
    /\ lastFailure = "recent"
    /\ lastFailure' = "old"
    /\ UNCHANGED <<state, failureCount, successCount, healthy, pc>>

-----------------------------------------------------------------------------
Check(c)  == CheckCircuitState(c) \/ CheckTimeout(c) \/ CheckSuccesses(c)
Record(c) == RecordSuccess(c) \/ RecordFailure(c)
Ends(c)   == OperationSucceeds(c) \/ OperationFails(c) \/ ContextExpires(c)

Next == \/ \E c \in Callers :
              \/ Execute(c) \/ Check(c)
              \/ EnterHalfOpen(c) \/ ClearSuccesses(c)
              \/ Ends(c) \/ Record(c)
        \/ ForceOpen \/ Reset
        \/ Elapse

Spec == Init /\ [][Next]_vars

\* The scheduler runs every goroutine, sync.Mutex starves no waiter, the clock
\* and context deadlines advance.  Nothing obliges an operation to end.
Fairness == /\ \A c \in Callers : /\ WF_vars(Check(c))
                                 /\ WF_vars(ClearSuccesses(c))
                                 /\ SF_vars(EnterHalfOpen(c))
                                 /\ SF_vars(Record(c))
            /\ \A c \in CtxCallers : WF_vars(ContextExpires(c))
            /\ WF_vars(Elapse)

FairSpec == Spec /\ Fairness

\* The program keeps calling: some caller always tries again.
BusySpec == FairSpec /\ \A c \in CtxCallers : WF_vars(Execute(c))

-----------------------------------------------------------------------------
(* Properties                                                              *)

\* Every variable holds a value of its type.
TypeOK == /\ state \in States
          /\ failureCount \in Nat
          /\ successCount \in Nat
          /\ lastFailure \in {"never", "recent", "old"}
          /\ healthy \in BOOLEAN
          /\ pc \in [Callers -> Places]

\* A closed circuit has room for a failure: however results of concurrent
\* calls are recorded (recordFailure, recordSuccess), the failure that reaches
\* the threshold opens the circuit, and closing it starts a new count.
ClosedBelowThreshold == state = "Closed" => failureCount < Threshold

\* A half-open circuit still admits a call once transitionToHalfOpen has let go
\* of mu: no timer leaves this state, so a half-open circuit whose successCount
\* is at the limit would reject every call for ever (checkCircuitState).
HalfOpenAdmits == MuFree /\ state = "HalfOpen" => successCount < HalfOpenMax

\* IsHealthy tells the truth about the circuit: it is healthy exactly while
\* closed, so no transition of recordFailure, recordSuccess, ForceOpen or
\* ForceClose may move one without the other.
HealthTracksState == healthy <=> state = "Closed"

\* An open circuit knows when it failed last, so shouldAttemptReset can become
\* true and the circuit can leave the open state by itself after the timeout.
OpenRecovers == state = "Open" => lastFailure # "never"

\* Without manual control the breaker moves only along closed, open, half-open:
\* it never closes without trial calls and never probes from closed.
ThreeStateMachine ==
    [][state' # state => \/ state = "Closed"   /\ state' = "Open"
                         \/ state = "Open"     /\ state' = "HalfOpen"
                         \/ state = "HalfOpen"]_vars

\* ExecuteWithContext returns even when the operation hangs: the deadline ends
\* the wait and the lock of the record step is always released.
CtxCallReturns == \A c \in CtxCallers : pc[c] # "idle" ~> pc[c] = "idle"

\* While the program keeps calling, an open circuit that knows when it failed
\* leaves the open state: late failures that stamp lastFailure again postpone
\* the probe (shouldAttemptReset), never for ever.
Recovery == state = "Open" /\ lastFailure # "never" ~> state # "Open"

\* While the program keeps calling with deadlines, a half-open circuit decides:
\* it closes or opens, no interleaving leaves it rejecting every call.
HalfOpenResolves == state = "HalfOpen" ~> state # "HalfOpen"

-----------------------------------------------------------------------------
\* The successCount that counts: transitionToHalfOpen publishes the half-open
\* state before it clears the count of the previous episode.
EpisodeSuccesses == IF MuFree THEN successCount ELSE 0

Machine == INSTANCE BreakerMachine
             WITH circuit <- state, failures <- failureCount,
                  successes <- EpisodeSuccesses

\* Whatever the callers and their lock-free checks interleave, the breaker is
\* the sequential three-state machine: each recorded outcome is one step of it.
ImplementsMachine == Machine!Spec
=============================================================================
