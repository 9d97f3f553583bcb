------------------------ MODULE RetriedBreakerProofs ------------------------
(***************************************************************************)
(* Proofs about RetriedBreaker, for any callers, policies and errors: how  *)
(* the loops end, that the loops and the totals leave the breaker as it    *)
(* is, that the totals agree with each other, and with the loops.          *)
(***************************************************************************)
EXTENDS RetriedBreaker, FiniteSetTheorems, TLAPS

\* The statistics of a loop on its way, and how it may end.
Steady(l) ==
    /\ at[l] = "start"   => attempt[l] = 0 /\ stats[l].total = 0
                            /\ stats[l].ok = 0 /\ stats[l].failed = 0
    /\ at[l] = "check"   => attempt[l] = stats[l].total
                            /\ stats[l].ok = 0 /\ stats[l].failed = stats[l].total
    /\ at[l] = "calling" => attempt[l] + 1 = stats[l].total
                            /\ stats[l].ok = 0 /\ stats[l].failed + 1 = stats[l].total
    /\ at[l] = "delay"   => attempt[l] + 1 = stats[l].total
                            /\ stats[l].ok = 0 /\ stats[l].failed = stats[l].total
                            /\ attempt[l] + 1 < MaxAttempts
    /\ at[l] = "succeeded" => stats[l].ok = 1
                              /\ stats[l].ok + stats[l].failed = stats[l].total
    /\ at[l] = "permanent" => stats[l].ok = 0 /\ stats[l].failed = stats[l].total
    /\ at[l] = "exhausted" => stats[l].ok = 0 /\ stats[l].failed = MaxAttempts
    /\ at[l] = "cancelled" => stats[l].ok = 0
                              /\ stats[l].failed \in {stats[l].total, stats[l].total - 1}
    /\ at[l] = "panicked"  => l \in StatLoops /\ stats[l].failed > 0
    /\ stats[l].total <= MaxAttempts
    /\ lastError[l] # "none" => stats[l].failed > 0 \/ R!Ended(l)

\* lastError is a function; what its values are does not matter.
LastErrors == lastError = [l \in Callers |-> lastError[l]]

LoopInv == R!RTypeOK /\ LastErrors /\ \A l \in Callers : Steady(l)

-----------------------------------------------------------------------------

\* What a step of one loop leaves of another.
LEMMA OthersStay ==
    ASSUME LoopInv, NEW l \in Callers, NEW m \in Callers \ {l},
           at'[m] = at[m], attempt'[m] = attempt[m], stats'[m] = stats[m],
           lastError'[m] = lastError[m]
    PROVE  Steady(m)'
  BY DEF LoopInv, Steady, R!Ended

\* A value is stored in LastError, or the store panics.
LEMMA Stored ==
    ASSUME LoopInv, NEW l \in Callers, NEW type, NEW stage \in R!Stages,
           R!StoreError(l, type, stage)
    PROVE  /\ at' \in [Callers -> R!Stages]
           /\ LastErrors'
           /\ \/ at'[l] = stage
              \/ at'[l] = "panicked" /\ l \in StatLoops /\ lastError[l] # "none"
           /\ \A m \in Callers \ {l} : at'[m] = at[m] /\ lastError'[m] = lastError[m]
  <1>1. at \in [Callers -> R!Stages] /\ LastErrors
    BY DEF LoopInv, R!RTypeOK
  <1>2. CASE /\ at' = [at EXCEPT ![l] = "panicked"]
             /\ UNCHANGED lastError
             /\ l \in StatLoops /\ lastError[l] # "none"
    BY <1>1, <1>2 DEF LastErrors, R!Stages, R!Ends
  <1>3. CASE /\ at' = [at EXCEPT ![l] = stage]
             /\ lastError' = IF l \in StatLoops THEN [lastError EXCEPT ![l] = type]
                                                ELSE lastError
    BY <1>1, <1>3 DEF LastErrors
  <1> QED
    BY <1>2, <1>3 DEF R!StoreError, R!To

\* What a step of l must show.
LEMMA StepOf ==
    ASSUME LoopInv, NEW l \in Callers,
           at' \in [Callers -> R!Stages],
           attempt' \in [Callers -> 0..(MaxAttempts - 1)],
           ctx' \in [Callers -> {"live", "timed", "done"}],
           stats' \in [Callers -> [total : Nat, ok : Nat, failed : Nat]],
           LastErrors',
           \A m \in Callers \ {l} : /\ at'[m] = at[m] /\ attempt'[m] = attempt[m]
                                    /\ stats'[m] = stats[m] /\ lastError'[m] = lastError[m],
           Steady(l)'
    PROVE  LoopInv'
  <1>1. \A m \in Callers : Steady(m)'
    BY OthersStay
  <1> QED
    BY <1>1 DEF LoopInv, R!RTypeOK

LEMMA CountType ==
    ASSUME LoopInv, NEW l \in Callers
    PROVE  /\ stats[l].total \in Nat /\ stats[l].ok \in Nat /\ stats[l].failed \in Nat
           /\ attempt[l] \in 0..(MaxAttempts - 1)
           /\ MaxAttempts \in Nat \ {0}
           /\ at[l] \in R!Stages
           /\ Steady(l)
  BY PolicyAssumption DEF LoopInv, R!RTypeOK, R!RetryConfig

LEMMA BeginInv == ASSUME LoopInv, NEW l \in Callers, R!Begin(l) PROVE LoopInv'
  <1>1. /\ at[l] = "start" /\ at' = [at EXCEPT ![l] = "check"]
        /\ UNCHANGED <<attempt, ctx, stats, lastError>>
    BY DEF R!Begin, R!To
  <1>2. at' \in [Callers -> R!Stages] /\ at'[l] = "check"
        /\ \A m \in Callers \ {l} : at'[m] = at[m]
    BY <1>1 DEF LoopInv, R!RTypeOK, R!Stages
  <1>3. Steady(l)'
    BY <1>1, <1>2, CountType DEF Steady, R!Ended, R!Ends
  <1> QED
    BY <1>1, <1>2, <1>3, StepOf DEF LoopInv, LastErrors, R!RTypeOK

LEMMA AttemptInv == ASSUME LoopInv, NEW l \in Callers, R!Attempt(l) PROVE LoopInv'
  <1>1. /\ at[l] = "check" /\ at' = [at EXCEPT ![l] = "calling"]
        /\ stats' = [stats EXCEPT ![l].total = stats[l].total + 1]
        /\ UNCHANGED <<attempt, lastError>>
    BY DEF R!Attempt, R!Counted, R!To
  <1>2. at' \in [Callers -> R!Stages] /\ at'[l] = "calling"
        /\ \A m \in Callers \ {l} : at'[m] = at[m]
    BY <1>1 DEF LoopInv, R!RTypeOK, R!Stages
  <1>3. /\ stats' \in [Callers -> [total : Nat, ok : Nat, failed : Nat]]
        /\ stats'[l].total = stats[l].total + 1
        /\ stats'[l].ok = stats[l].ok /\ stats'[l].failed = stats[l].failed
        /\ \A m \in Callers \ {l} : stats'[m] = stats[m]
    BY <1>1, CountType DEF LoopInv, R!RTypeOK
  <1>4. ctx' \in [Callers -> {"live", "timed", "done"}]
    <2>1. ctx' = [ctx EXCEPT ![l] = IF HasTimeout THEN "timed" ELSE ctx[l]]
      BY DEF R!Attempt
    <2> QED
      BY <2>1 DEF LoopInv, R!RTypeOK
  <1>5. Steady(l)'
    BY <1>1, <1>2, <1>3, CountType DEF Steady, R!Ended, R!Ends
  <1> QED
    BY <1>1, <1>2, <1>3, <1>4, <1>5, StepOf DEF LoopInv, LastErrors, R!RTypeOK

LEMMA CancelledBeforeInv ==
    ASSUME LoopInv, NEW l \in Callers, R!CancelledBefore(l)
    PROVE  LoopInv'
  <1>1. /\ at[l] = "check" /\ R!StoreError(l, "wrapErrors", "cancelled")
        /\ stats' = [stats EXCEPT ![l].total = stats[l].total + 1]
        /\ UNCHANGED <<attempt, ctx>>
    BY DEF R!CancelledBefore, R!Counted
  <1>2. /\ at' \in [Callers -> R!Stages] /\ LastErrors'
        /\ \/ at'[l] = "cancelled"
           \/ at'[l] = "panicked" /\ l \in StatLoops /\ lastError[l] # "none"
        /\ \A m \in Callers \ {l} : at'[m] = at[m] /\ lastError'[m] = lastError[m]
    BY <1>1, Stored DEF R!Stages, R!Ends
  <1>3. /\ stats' \in [Callers -> [total : Nat, ok : Nat, failed : Nat]]
        /\ stats'[l].total = stats[l].total + 1
        /\ stats'[l].ok = stats[l].ok /\ stats'[l].failed = stats[l].failed
        /\ \A m \in Callers \ {l} : stats'[m] = stats[m]
    BY <1>1, CountType DEF LoopInv, R!RTypeOK
  <1>4. Steady(l)'
    BY <1>1, <1>2, <1>3, CountType DEF Steady, R!Ended, R!Ends
  <1> QED
    BY <1>1, <1>2, <1>3, <1>4, StepOf DEF LoopInv, R!RTypeOK

LEMMA SucceedInv == ASSUME LoopInv, NEW l \in Callers, R!Succeed(l) PROVE LoopInv'
  <1>1. /\ at[l] = "calling" /\ R!StoreError(l, "errorString", "succeeded")
        /\ stats' = [stats EXCEPT ![l].ok = stats[l].ok + 1]
        /\ UNCHANGED <<attempt, ctx>>
    BY DEF R!Succeed
  <1>2. /\ at' \in [Callers -> R!Stages] /\ LastErrors'
        /\ \/ at'[l] = "succeeded"
           \/ at'[l] = "panicked" /\ l \in StatLoops /\ lastError[l] # "none"
        /\ \A m \in Callers \ {l} : at'[m] = at[m] /\ lastError'[m] = lastError[m]
    BY <1>1, Stored DEF R!Stages, R!Ends
  <1>3. /\ stats' \in [Callers -> [total : Nat, ok : Nat, failed : Nat]]
        /\ stats'[l].ok = stats[l].ok + 1
        /\ stats'[l].total = stats[l].total /\ stats'[l].failed = stats[l].failed
        /\ \A m \in Callers \ {l} : stats'[m] = stats[m]
    BY <1>1, CountType DEF LoopInv, R!RTypeOK
  <1>4. Steady(l)'
    BY <1>1, <1>2, <1>3, CountType DEF Steady, R!Ended, R!Ends
  <1> QED
    BY <1>1, <1>2, <1>3, <1>4, StepOf DEF LoopInv, R!RTypeOK

LEMMA FailInv == ASSUME LoopInv, NEW l \in Callers, NEW e, R!Fail(l, e) PROVE LoopInv'
  <1>1. /\ at[l] = "calling" /\ R!StoreError(l, TypeOf[e], R!Verdict(l, e))
        /\ stats' = [stats EXCEPT ![l].failed = stats[l].failed + 1]
        /\ UNCHANGED <<attempt, ctx>>
    BY DEF R!Fail
  <1>2. /\ R!Verdict(l, e) \in {"permanent", "exhausted", "delay"}
        /\ R!Verdict(l, e) = "exhausted" => attempt[l] = MaxAttempts - 1
        /\ R!Verdict(l, e) = "delay" => attempt[l] # MaxAttempts - 1
    BY DEF R!Verdict
  <1>3. R!Verdict(l, e) \in R!Stages
    BY <1>2 DEF R!Stages, R!Ends
  <1>4. /\ at' \in [Callers -> R!Stages] /\ LastErrors'
        /\ \/ at'[l] = R!Verdict(l, e)
           \/ at'[l] = "panicked" /\ l \in StatLoops /\ lastError[l] # "none"
        /\ \A m \in Callers \ {l} : at'[m] = at[m] /\ lastError'[m] = lastError[m]
    BY <1>1, <1>3, Stored
  <1>5. /\ stats' \in [Callers -> [total : Nat, ok : Nat, failed : Nat]]
        /\ stats'[l].failed = stats[l].failed + 1
        /\ stats'[l].total = stats[l].total /\ stats'[l].ok = stats[l].ok
        /\ \A m \in Callers \ {l} : stats'[m] = stats[m]
    BY <1>1, CountType DEF LoopInv, R!RTypeOK
  <1>6. Steady(l)'
    BY <1>1, <1>2, <1>4, <1>5, CountType DEF Steady, R!Ended, R!Ends
  <1> QED
    BY <1>1, <1>4, <1>5, <1>6, StepOf DEF LoopInv, R!RTypeOK

LEMMA WaitInv == ASSUME LoopInv, NEW l \in Callers, R!Wait(l) PROVE LoopInv'
  <1>1. CASE R!DelayEnds(l)
    <2>1. /\ at[l] = "delay" /\ at' = [at EXCEPT ![l] = "check"]
          /\ attempt' = [attempt EXCEPT ![l] = attempt[l] + 1]
          /\ UNCHANGED <<ctx, stats, lastError>>
      BY <1>1 DEF R!DelayEnds, R!To
    <2>2. at' \in [Callers -> R!Stages] /\ at'[l] = "check"
          /\ \A m \in Callers \ {l} : at'[m] = at[m]
      BY <2>1 DEF LoopInv, R!RTypeOK, R!Stages
    <2>3. attempt[l] + 1 \in 0..(MaxAttempts - 1)
      BY <2>1, CountType DEF Steady
    <2>4. /\ attempt' \in [Callers -> 0..(MaxAttempts - 1)] /\ attempt'[l] = attempt[l] + 1
          /\ \A m \in Callers \ {l} : attempt'[m] = attempt[m]
      BY <2>1, <2>3 DEF LoopInv, R!RTypeOK
    <2>5. Steady(l)'
      BY <2>1, <2>2, <2>4, CountType DEF Steady, R!Ended, R!Ends
    <2> QED
      BY <2>1, <2>2, <2>4, <2>5, StepOf DEF LoopInv, LastErrors, R!RTypeOK
  <1>2. CASE R!CancelledInDelay(l)
    <2>1. /\ at[l] = "delay" /\ R!StoreError(l, "wrapErrors", "cancelled")
          /\ UNCHANGED <<attempt, ctx, stats>>
      BY <1>2 DEF R!CancelledInDelay
    <2>2. /\ at' \in [Callers -> R!Stages] /\ LastErrors'
          /\ \/ at'[l] = "cancelled"
             \/ at'[l] = "panicked" /\ l \in StatLoops /\ lastError[l] # "none"
          /\ \A m \in Callers \ {l} : at'[m] = at[m] /\ lastError'[m] = lastError[m]
      BY <2>1, Stored DEF R!Stages, R!Ends
    <2>3. Steady(l)'
      BY <2>1, <2>2, CountType DEF Steady, R!Ended, R!Ends
    <2> QED
      BY <2>1, <2>2, <2>3, StepOf DEF LoopInv, R!RTypeOK
  <1> QED
    BY <1>1, <1>2 DEF R!Wait

\* The breaker's own steps, and the end of a context.
LEMMA NoLoopStep ==
    ASSUME LoopInv, UNCHANGED <<at, attempt, stats, lastError>>,
           ctx' \in [Callers -> {"live", "timed", "done"}]
    PROVE  LoopInv'
  BY DEF LoopInv, R!RTypeOK, LastErrors, Steady, R!Ended

LEMMA LoopNext == ASSUME LoopInv, [CNext]_allVars PROVE LoopInv'
  <1>1. ASSUME UNCHANGED loopVars PROVE LoopInv'
    BY <1>1, NoLoopStep DEF loopVars, LoopInv, R!RTypeOK
  <1>2. ASSUME NEW c \in Callers, CallExecute(c) PROVE LoopInv'
    BY <1>2, AttemptInv DEF CallExecute
  <1>3. ASSUME NEW c \in Callers, Admit(c) PROVE LoopInv'
    BY <1>1, <1>3 DEF Admit
  <1>4. ASSUME NEW c \in Callers, Return(c) PROVE LoopInv'
    BY <1>4, FailInv, SucceedInv DEF Return, Reject, ReturnNil, ReturnFailure
  <1>5. ASSUME NEW c \in Callers, Alone(c) PROVE LoopInv'
    <2>1. CASE OwnStep(c)
      BY <2>1, BeginInv, CancelledBeforeInv, WaitInv DEF OwnStep
    <2>2. CASE R!ContextEnds(c)
      <3>1. ctx' = [ctx EXCEPT ![c] = "done"] /\ UNCHANGED <<at, attempt, stats, lastError>>
        BY <2>2 DEF R!ContextEnds
      <3>2. ctx' \in [Callers -> {"live", "timed", "done"}]
        BY <3>1 DEF LoopInv, R!RTypeOK
      <3> QED
        BY <3>1, <3>2, NoLoopStep
    <2> QED
      BY <1>5, <2>1, <2>2 DEF Alone
  <1>6. ASSUME NEW c \in Callers, DecideSuccess(c) \/ DecideFailure(c) \/ DecideTimeout(c)
        PROVE  LoopInv'
    BY <1>1, <1>6 DEF DecideSuccess, DecideFailure, DecideTimeout
  <1>7. CASE Inside \/ ResetTotals
    BY <1>1, <1>7 DEF Inside, ResetTotals
  <1>8. CASE UNCHANGED allVars
    BY <1>1, <1>8 DEF allVars
  <1> QED
    BY <1>2, <1>3, <1>4, <1>5, <1>6, <1>7, <1>8 DEF CNext

-----------------------------------------------------------------------------

LEMMA LoopInit == CInit => LoopInv
  BY PolicyAssumption
     DEF CInit, R!RInit, LoopInv, R!RTypeOK, LastErrors, Steady, R!Stages, R!RetryConfig

\* However the breaker answers, every loop ends as its attempts say: success is
\* one attempt and the last, never more than MaxAttempts, and only RetryWithStats
\* panics, after an error.
THEOREM LoopsTell == CSpec => []LoopOutcomes
  <1>1. CInit => LoopInv
    BY LoopInit
  <1>2. LoopInv /\ [CNext]_allVars => LoopInv'
    BY LoopNext
  <1>3. LoopInv => LoopOutcomes
    BY CountType DEF LoopOutcomes, R!OutcomeMatchesStats, Steady
  <1> QED
    BY <1>1, <1>2, <1>3, PTL DEF CSpec

\* The loops and the totals add nothing to what the breaker does: each step is a
\* step of CircuitBreaker or none that it sees, so its theorems hold here too.
THEOREM BreakerUnchanged == CSpec => Spec
  <1>1. CInit => Init
    BY DEF CInit, MInit
  <1>2. [CNext]_allVars => [Next]_vars
    <2> SUFFICES ASSUME [CNext]_allVars PROVE [Next]_vars
      OBVIOUS
    <2>1. ASSUME NEW c \in Callers, CallExecute(c) PROVE Next
      BY <2>1 DEF CallExecute, CountedExecute, Next
    <2>2. ASSUME NEW c \in Callers, Admit(c) PROVE Next
      BY <2>2 DEF Admit, Next
    <2>3. ASSUME NEW c \in Callers, Return(c) PROVE Next
      BY <2>3 DEF Return, Reject, ReturnNil, ReturnFailure, Record, Check, Next
    <2>4. ASSUME NEW c \in Callers, Alone(c) PROVE UNCHANGED vars
      BY <2>4 DEF Alone, mvars
    <2>5. ASSUME NEW c \in Callers, DecideSuccess(c) \/ DecideFailure(c) \/ DecideTimeout(c)
          PROVE  Next
      BY <2>5 DEF DecideSuccess, DecideFailure, DecideTimeout, CountedSuccess,
                  CountedFailure, CountedTimeout, Ends, Next
    <2>6. ASSUME Inside PROVE Next \/ UNCHANGED vars
      BY <2>6 DEF Inside, NotePanic, NoteTimeout, Note, OrphanEnds, Next
    <2>7. ASSUME ResetTotals PROVE Next
      BY <2>7 DEF ResetTotals, CountedReset, Next
    <2>8. ASSUME UNCHANGED allVars PROVE UNCHANGED vars
      BY <2>8 DEF allVars, mvars
    <2> QED
      BY <2>1, <2>2, <2>3, <2>4, <2>5, <2>6, <2>7, <2>8 DEF CNext
  <1> QED
    BY <1>1, <1>2, PTL DEF CSpec, Spec

-----------------------------------------------------------------------------
(* The totals                                                              *)

TotalsType == /\ totals \in [Counters -> Nat]
              /\ noted \in [Callers -> SUBSET Counters]
              /\ orphans \in Nat
              /\ carried \in Nat
              /\ pc \in [Callers -> Places]

Marked(k) == {c \in Callers : k \in noted[c]}

\* Finitely many calls are under way, even if the callers are not.
FewCalls == IsFiniteSet(Pending) /\ \A k \in Counters : IsFiniteSet(Marked(k))

TotalsInv == TotalsType /\ FewCalls /\ Accounting

LEMMA OneMore ==
    ASSUME NEW S, IsFiniteSet(S), NEW x, x \notin S
    PROVE  /\ IsFiniteSet(S \cup {x})
           /\ Cardinality(S) \in Nat /\ Cardinality(S \cup {x}) = Cardinality(S) + 1
  BY FS_AddElement, FS_CardinalityType

LEMMA OneLess ==
    ASSUME NEW S, IsFiniteSet(S), NEW x \in S
    PROVE  /\ IsFiniteSet(S \ {x})
           /\ Cardinality(S) \in Nat /\ Cardinality(S \ {x}) = Cardinality(S) - 1
  BY FS_RemoveElement, FS_CardinalityType

\* Between these places and the others a call becomes pending, or ceases to be.
Settled == {"idle", "recordSuccess", "recordFailure"}

LEMMA Moved ==
    ASSUME pc \in [Callers -> Places], NEW c \in Callers, NEW l \in Places, Goto(c, l)
    PROVE  /\ pc' \in [Callers -> Places] /\ pc'[c] = l
           /\ \A d \in Callers \ {c} : pc'[d] = pc[d]
  BY DEF Goto

LEMMA PendingMoves ==
    ASSUME pc \in [Callers -> Places], NEW c \in Callers, NEW l \in Places, Goto(c, l)
    PROVE  /\ pc[c] \in Settled /\ l \notin Settled
                => c \notin Pending /\ Pending' = Pending \cup {c}
           /\ pc[c] \notin Settled /\ l \in Settled
                => c \in Pending /\ Pending' = Pending \ {c}
           /\ (pc[c] \in Settled <=> l \in Settled) => Pending' = Pending
  <1>1. Pending = {d \in Callers : pc[d] \notin Settled}
    BY DEF Pending, At, Settled
  <1>2. Pending' = {d \in Callers : pc'[d] \notin Settled}
    BY DEF Pending, At, Settled
  <1>3. pc'[c] = l /\ \A d \in Callers \ {c} : pc'[d] = pc[d]
    BY Moved
  <1> HIDE DEF Settled
  <1> QED
    BY <1>1, <1>2, <1>3

\* Steps that neither count nor begin nor end a call.
LEMMA TotalsStay ==
    ASSUME TotalsInv, pc' \in [Callers -> Places], Pending' = Pending,
           UNCHANGED <<totals, noted, orphans, carried>>
    PROVE  TotalsInv'
  <1>1. \A k : Marked(k)' = Marked(k) /\ Noted(k)' = Noted(k)
    BY DEF Marked, Noted
  <1>2. TotalsType' /\ FewCalls'
    BY <1>1 DEF TotalsInv, TotalsType, FewCalls
  <1> QED
    BY <1>1, <1>2 DEF TotalsInv, Accounting

\* What the three conjuncts of Accounting speak of.
LEMMA TotalsFacts ==
    ASSUME TotalsInv
    PROVE  /\ \A k \in Counters : totals[k] \in Nat
           /\ {"requests", "successes", "failures", "timeouts", "panics"} = Counters
           /\ orphans \in Nat /\ carried \in Nat
           /\ Cardinality(Pending) \in Nat
           /\ \A k \in Counters : /\ Noted(k) \in Nat /\ IsFiniteSet(Marked(k))
                                  /\ Noted(k) = Cardinality(Marked(k))
  <1>1. \A k : Noted(k) = Cardinality(Marked(k))
    BY DEF Noted, Marked
  <1> QED
    BY <1>1, FS_CardinalityType DEF TotalsInv, TotalsType, FewCalls, Counters

LEMMA TotalCounted ==
    ASSUME TotalsInv, NEW k \in Counters, Count(k)
    PROVE  /\ totals' \in [Counters -> Nat]
           /\ totals'[k] = totals[k] + 1
           /\ \A j \in Counters \ {k} : totals'[j] = totals[j]
  BY DEF Count, TotalsInv, TotalsType

LEMMA CountedExecuteInv ==
    ASSUME TotalsInv, NEW c \in Callers, CountedExecute(c) PROVE TotalsInv'
  <1>1. Count("requests") /\ UNCHANGED <<noted, orphans, carried>>
        /\ Goto(c, "check") /\ pc[c] = "idle" /\ pc \in [Callers -> Places]
    BY DEF CountedExecute, Execute, TotalsInv, TotalsType
  <1>2. "requests" \in Counters /\ "check" \in Places
    BY DEF Counters, Places
  <1>3. /\ totals' \in [Counters -> Nat] /\ totals'["requests"] = totals["requests"] + 1
        /\ \A j \in Counters \ {"requests"} : totals'[j] = totals[j]
    BY <1>1, <1>2, TotalCounted
  <1>4. c \notin Pending /\ Pending' = Pending \cup {c} /\ pc' \in [Callers -> Places]
    BY <1>1, <1>2, PendingMoves, Moved DEF Settled
  <1>5. /\ IsFiniteSet(Pending') /\ Cardinality(Pending)' = Cardinality(Pending) + 1
    BY <1>4, OneMore DEF TotalsInv, FewCalls
  <1>6. \A k : Marked(k)' = Marked(k) /\ Noted(k)' = Noted(k)
    BY <1>1 DEF Marked, Noted
  <1>7. TotalsType' /\ FewCalls'
    BY <1>1, <1>3, <1>4, <1>5, <1>6 DEF TotalsInv, TotalsType, FewCalls
  <1>8. Accounting'
    BY <1>1, <1>3, <1>5, <1>6, TotalsFacts DEF TotalsInv, Accounting
  <1> QED
    BY <1>7, <1>8 DEF TotalsInv

\* A call that ends is no longer pending.
LEMMA PendingEnds ==
    ASSUME TotalsInv, NEW c \in Callers, NEW l \in Settled, Goto(c, l), pc[c] \notin Settled
    PROVE  /\ pc' \in [Callers -> Places]
           /\ IsFiniteSet(Pending') /\ Cardinality(Pending)' = Cardinality(Pending) - 1
  <1>1. l \in Places /\ pc \in [Callers -> Places]
    BY DEF Settled, Places, TotalsInv, TotalsType
  <1>2. c \in Pending /\ Pending' = Pending \ {c} /\ pc' \in [Callers -> Places]
    BY <1>1, PendingMoves, Moved
  <1> QED
    BY <1>2, OneLess DEF TotalsInv, FewCalls

LEMMA CountedSuccessInv ==
    ASSUME TotalsInv, NEW c \in Callers, CountedSuccess(c) PROVE TotalsInv'
  <1>1. Count("successes") /\ UNCHANGED <<noted, orphans, carried>>
        /\ Goto(c, "recordSuccess") /\ pc[c] \notin Settled
    BY DEF CountedSuccess, OperationSucceeds, Operating, At, Settled
  <1>2. "successes" \in Counters /\ "recordSuccess" \in Settled
    BY DEF Counters, Settled
  <1>3. /\ totals' \in [Counters -> Nat] /\ totals'["successes"] = totals["successes"] + 1
        /\ \A j \in Counters \ {"successes"} : totals'[j] = totals[j]
    BY <1>1, <1>2, TotalCounted
  <1>4. /\ pc' \in [Callers -> Places]
        /\ IsFiniteSet(Pending') /\ Cardinality(Pending)' = Cardinality(Pending) - 1
    BY <1>1, <1>2, PendingEnds
  <1>5. \A k : Marked(k)' = Marked(k) /\ Noted(k)' = Noted(k)
    BY <1>1 DEF Marked, Noted
  <1>6. TotalsType' /\ FewCalls'
    BY <1>1, <1>3, <1>4, <1>5 DEF TotalsInv, TotalsType, FewCalls
  <1>7. Accounting'
    BY <1>1, <1>3, <1>4, <1>5, TotalsFacts DEF TotalsInv, Accounting
  <1> QED
    BY <1>6, <1>7 DEF TotalsInv

\* A failure settles what was noted of its call.
LEMMA Settles ==
    ASSUME TotalsInv, NEW c \in Callers, Settle(c)
    PROVE  /\ noted' \in [Callers -> SUBSET Counters]
           /\ \A k \in Counters :
                 /\ IsFiniteSet(Marked(k)')
                 /\ k \in noted[c] => Noted(k)' = Noted(k) - 1
                 /\ k \notin noted[c] => Noted(k)' = Noted(k)
  <1>1. /\ noted \in [Callers -> SUBSET Counters]
        /\ noted' \in [Callers -> SUBSET Counters]
        /\ noted'[c] = {} /\ \A d \in Callers \ {c} : noted'[d] = noted[d]
    BY DEF Settle, TotalsInv, TotalsType
  <1>2. ASSUME NEW k \in Counters
        PROVE  /\ IsFiniteSet(Marked(k)')
               /\ k \in noted[c] => Noted(k)' = Noted(k) - 1
               /\ k \notin noted[c] => Noted(k)' = Noted(k)
    <2>1. Marked(k)' = Marked(k) \ {c}
      BY <1>1 DEF Marked
    <2>2. Noted(k)' = Cardinality(Marked(k)') /\ Noted(k) = Cardinality(Marked(k))
      BY DEF Noted, Marked
    <2>3. CASE k \in noted[c]
      <3>1. c \in Marked(k) /\ IsFiniteSet(Marked(k))
        BY <2>3, TotalsFacts DEF Marked
      <3> QED
        BY <2>1, <2>2, <2>3, <3>1, OneLess
    <2>4. CASE k \notin noted[c]
      <3>1. Marked(k)' = Marked(k) /\ IsFiniteSet(Marked(k))
        BY <2>1, <2>4, TotalsFacts DEF Marked
      <3> QED
        BY <2>2, <2>4, <3>1
    <2> QED
      BY <2>3, <2>4
  <1> QED
    BY <1>1, <1>2

LEMMA CountedFailureInv ==
    ASSUME TotalsInv, NEW c \in Callers, CountedFailure(c) \/ CountedTimeout(c)
    PROVE  TotalsInv'
  <1>1. /\ Count("failures") /\ Settle(c) /\ carried' = carried
        /\ Goto(c, "recordFailure") /\ pc[c] \notin Settled
    BY DEF CountedFailure, CountedTimeout, OperationFails, ContextExpires, Stamp,
           Operating, At, Settled
  <1>2. \/ "timeouts" \notin noted[c] /\ orphans' = orphans
        \/ "timeouts" \in noted[c]
           /\ orphans' = IF "panics" \in noted[c] THEN orphans ELSE orphans + 1
    BY DEF CountedFailure, CountedTimeout
  <1>3. {"failures", "timeouts", "panics"} \subseteq Counters /\ "recordFailure" \in Settled
    BY DEF Counters, Settled
  <1>4. /\ totals' \in [Counters -> Nat] /\ totals'["failures"] = totals["failures"] + 1
        /\ \A j \in Counters \ {"failures"} : totals'[j] = totals[j]
    BY <1>1, <1>3, TotalCounted
  <1>5. /\ pc' \in [Callers -> Places]
        /\ IsFiniteSet(Pending') /\ Cardinality(Pending)' = Cardinality(Pending) - 1
    BY <1>1, <1>3, PendingEnds
  <1>6. /\ noted' \in [Callers -> SUBSET Counters]
        /\ \A k \in Counters :
              /\ IsFiniteSet(Marked(k)')
              /\ k \in noted[c] => Noted(k)' = Noted(k) - 1
              /\ k \notin noted[c] => Noted(k)' = Noted(k)
    BY <1>1, Settles
  <1>7. orphans' \in Nat
    BY <1>2, TotalsFacts
  <1>8. TotalsType' /\ FewCalls'
    BY <1>1, <1>4, <1>5, <1>6, <1>7 DEF TotalsInv, TotalsType, FewCalls
  <1>9. Accounting'
    BY <1>1, <1>2, <1>3, <1>4, <1>5, <1>6, TotalsFacts DEF TotalsInv, Accounting
  <1> QED
    BY <1>8, <1>9 DEF TotalsInv

LEMMA NoteInv ==
    ASSUME TotalsInv, NEW c \in Callers, NEW k \in {"timeouts", "panics"}, Note(c, k)
    PROVE  TotalsInv'
  <1>1. /\ k \in Counters /\ Count(k) /\ k \notin noted[c]
        /\ noted' = [noted EXCEPT ![c] = noted[c] \cup {k}]
        /\ UNCHANGED <<orphans, carried, pc>>
    BY DEF Note, Counters, vars
  <1>2. /\ totals' \in [Counters -> Nat] /\ totals'[k] = totals[k] + 1
        /\ \A j \in Counters \ {k} : totals'[j] = totals[j]
    BY <1>1, TotalCounted
  <1>3. Pending' = Pending /\ pc' \in [Callers -> Places]
    BY <1>1 DEF Pending, At, TotalsInv, TotalsType
  <1>4. /\ noted' \in [Callers -> SUBSET Counters] /\ noted'[c] = noted[c] \cup {k}
        /\ \A d \in Callers \ {c} : noted'[d] = noted[d]
    BY <1>1 DEF TotalsInv, TotalsType
  <1>5. c \notin Marked(k) /\ Marked(k)' = Marked(k) \cup {c}
        /\ \A j \in Counters \ {k} : Marked(j)' = Marked(j)
    BY <1>1, <1>4 DEF Marked
  <1>6. \A j : Noted(j)' = Cardinality(Marked(j)')
    BY DEF Noted, Marked
  <1>7. /\ IsFiniteSet(Marked(k)') /\ Noted(k)' = Noted(k) + 1
        /\ \A j \in Counters \ {k} : Noted(j)' = Noted(j)
    BY <1>1, <1>5, <1>6, OneMore, TotalsFacts
  <1>8. TotalsType' /\ FewCalls'
    <2>1. TotalsType'
      BY <1>1, <1>2, <1>3, <1>4 DEF TotalsInv, TotalsType
    <2>2. IsFiniteSet(Pending') /\ \A j \in Counters : IsFiniteSet(Marked(j)')
      BY <1>3, <1>5, <1>7 DEF TotalsInv, FewCalls
    <2> QED
      BY <2>1, <2>2 DEF FewCalls
  <1>9. Accounting'
    BY <1>1, <1>2, <1>3, <1>7, TotalsFacts DEF TotalsInv, Accounting
  <1> QED
    BY <1>8, <1>9 DEF TotalsInv

LEMMA OrphanInv == ASSUME TotalsInv, OrphanEnds PROVE TotalsInv'
  <1>1. /\ orphans > 0 /\ orphans' = orphans - 1
        /\ Count("panics") \/ totals' = totals
        /\ UNCHANGED <<noted, carried, pc>>
    BY DEF OrphanEnds, vars
  <1>2. /\ totals' \in [Counters -> Nat]
        /\ totals'["panics"] \in {totals["panics"], totals["panics"] + 1}
        /\ \A j \in Counters \ {"panics"} : totals'[j] = totals[j]
    BY <1>1, TotalCounted DEF TotalsInv, TotalsType, Counters
  <1>3. Pending' = Pending /\ pc' \in [Callers -> Places]
    BY <1>1 DEF Pending, At, TotalsInv, TotalsType
  <1>4. \A k : Marked(k)' = Marked(k) /\ Noted(k)' = Noted(k)
    BY <1>1 DEF Marked, Noted
  <1>5. orphans' \in Nat
    BY <1>1, TotalsFacts
  <1>6. TotalsType' /\ FewCalls'
    BY <1>1, <1>2, <1>3, <1>4, <1>5 DEF TotalsInv, TotalsType, FewCalls
  <1>7. Accounting'
    BY <1>1, <1>2, <1>3, <1>4, TotalsFacts DEF TotalsInv, Accounting
  <1> QED
    BY <1>6, <1>7 DEF TotalsInv

LEMMA CountedResetInv == ASSUME TotalsInv, CountedReset PROVE TotalsInv'
  <1>1. /\ totals' = Zero /\ carried' = Cardinality(Pending) + orphans
        /\ UNCHANGED <<noted, orphans, pc>>
    BY DEF CountedReset, Reset
  <1>2. totals' \in [Counters -> Nat] /\ \A k \in Counters : totals'[k] = 0
    BY <1>1 DEF Zero
  <1>3. Pending' = Pending /\ pc' \in [Callers -> Places]
    BY <1>1 DEF Pending, At, TotalsInv, TotalsType
  <1>4. \A k : Marked(k)' = Marked(k) /\ Noted(k)' = Noted(k)
    BY <1>1 DEF Marked, Noted
  <1>5. carried' \in Nat
    BY <1>1, TotalsFacts
  <1>6. TotalsType' /\ FewCalls'
    BY <1>1, <1>2, <1>3, <1>4, <1>5 DEF TotalsInv, TotalsType, FewCalls
  <1>7. Accounting'
    BY <1>1, <1>2, <1>3, <1>4, TotalsFacts DEF Accounting
  <1> QED
    BY <1>6, <1>7 DEF TotalsInv

\* The steps of a call between its beginning and its end, and its return.
LEMMA CheckMoves ==
    ASSUME TotalsInv, NEW c \in Callers, Check(c)
    PROVE  \E l \in Places : /\ Goto(c, l) /\ pc[c] \notin Settled
                             /\ l = "idle" \/ l \notin Settled
  BY DEF Check, CheckCircuitState, CheckTimeout, CheckSuccesses, Places, Settled

LEMMA AdmitInv == ASSUME TotalsInv, NEW c \in Callers, Admit(c) PROVE TotalsInv'
  <1>1. PICK l \in Places : Goto(c, l) /\ pc[c] \notin Settled /\ (l = "idle" \/ l \notin Settled)
    BY CheckMoves DEF Admit
  <1>2. pc \in [Callers -> Places]
    BY DEF TotalsInv, TotalsType
  <1>3. pc'[c] = l /\ l # "idle" /\ pc' \in [Callers -> Places]
    BY <1>1, <1>2, Moved DEF Admit
  <1>4. Pending' = Pending
    BY <1>1, <1>2, <1>3, PendingMoves
  <1> QED
    BY <1>3, <1>4, TotalsStay DEF Admit

LEMMA RejectInv == ASSUME TotalsInv, NEW c \in Callers, Reject(c) PROVE TotalsInv'
  <1>1. PICK l \in Places : Goto(c, l) /\ pc[c] \notin Settled
    BY CheckMoves DEF Reject, Check
  <1>2. l = "idle" /\ "idle" \in Settled
    BY <1>1, Moved DEF Reject, TotalsInv, TotalsType, Settled
  <1>3. /\ pc' \in [Callers -> Places]
        /\ IsFiniteSet(Pending') /\ Cardinality(Pending)' = Cardinality(Pending) - 1
    BY <1>1, <1>2, PendingEnds
  <1>4. UNCHANGED <<totals, noted, orphans, carried>>
    BY DEF Reject
  <1>5. \A k : Marked(k)' = Marked(k) /\ Noted(k)' = Noted(k)
    BY <1>4 DEF Marked, Noted
  <1>6. TotalsType' /\ FewCalls'
    BY <1>3, <1>4, <1>5 DEF TotalsInv, TotalsType, FewCalls
  <1>7. Accounting'
    BY <1>3, <1>4, <1>5, TotalsFacts DEF TotalsInv, Accounting
  <1> QED
    BY <1>6, <1>7 DEF TotalsInv

LEMMA ReturnInv ==
    ASSUME TotalsInv, NEW c \in Callers, ReturnNil(c) \/ ReturnFailure(c)
    PROVE  TotalsInv'
  <1>1. pc[c] \in Settled /\ Goto(c, "idle") /\ pc \in [Callers -> Places]
    BY DEF ReturnNil, ReturnFailure, RecordSuccess, RecordFailure, Settled, TotalsInv, TotalsType
  <1>2. "idle" \in Settled /\ "idle" \in Places
    BY DEF Settled, Places
  <1>3. Pending' = Pending /\ pc' \in [Callers -> Places]
    BY <1>1, <1>2, PendingMoves, Moved
  <1> QED
    BY <1>3, TotalsStay DEF ReturnNil, ReturnFailure

LEMMA InsideInv == ASSUME TotalsInv, Inside PROVE TotalsInv'
  <1>1. pc \in [Callers -> Places]
    BY DEF TotalsInv, TotalsType
  <1>2. ASSUME NEW c \in Callers, NotePanic(c) \/ NoteTimeout(c) PROVE TotalsInv'
    BY <1>2, NoteInv DEF NotePanic, NoteTimeout
  <1>3. ASSUME NEW c \in Callers, EnterHalfOpen(c) \/ ClearSuccesses(c),
               UNCHANGED <<totals, noted, orphans, carried>>
        PROVE  TotalsInv'
    <2>1. PICK l \in {"clearing", "trial"} : Goto(c, l) /\ pc[c] \notin Settled
      BY <1>3 DEF EnterHalfOpen, ClearSuccesses, Settled
    <2>2. l \in Places /\ l \notin Settled
      BY DEF Places, Settled
    <2>3. Pending' = Pending /\ pc' \in [Callers -> Places]
      BY <1>1, <2>1, <2>2, PendingMoves, Moved
    <2> QED
      BY <1>3, <2>3, TotalsStay
  <1>4. ASSUME ForceOpen \/ Elapse, UNCHANGED <<totals, noted, orphans, carried>>
        PROVE  TotalsInv'
    <2>1. UNCHANGED pc
      BY <1>4 DEF ForceOpen, Elapse
    <2>2. Pending' = Pending
      BY <2>1 DEF Pending, At
    <2> QED
      BY <1>1, <1>4, <2>1, <2>2, TotalsStay
  <1> QED
    BY <1>2, <1>3, <1>4, OrphanInv DEF Inside

LEMMA TotalsNext == ASSUME TotalsInv, [CNext]_allVars PROVE TotalsInv'
  <1>1. ASSUME UNCHANGED mvars PROVE TotalsInv'
    <2>1. UNCHANGED <<pc, totals, noted, orphans, carried>>
      BY <1>1 DEF mvars, vars
    <2>2. Pending' = Pending /\ pc' \in [Callers -> Places]
      BY <2>1 DEF Pending, At, TotalsInv, TotalsType
    <2> QED
      BY <2>1, <2>2, TotalsStay
  <1>2. ASSUME NEW c \in Callers, CallExecute(c) PROVE TotalsInv'
    BY <1>2, CountedExecuteInv DEF CallExecute
  <1>3. ASSUME NEW c \in Callers, Alone(c) PROVE TotalsInv'
    BY <1>1, <1>3 DEF Alone
  <1>4. ASSUME NEW c \in Callers, DecideSuccess(c) \/ DecideFailure(c) \/ DecideTimeout(c)
        PROVE  TotalsInv'
    BY <1>4, CountedSuccessInv, CountedFailureInv DEF DecideSuccess, DecideFailure, DecideTimeout
  <1>5. CASE ResetTotals
    BY <1>5, CountedResetInv DEF ResetTotals
  <1>6. CASE UNCHANGED allVars
    BY <1>1, <1>6 DEF allVars
  <1> QED
    BY <1>2, <1>3, <1>4, <1>5, <1>6, AdmitInv, RejectInv, ReturnInv, InsideInv DEF CNext, Return

LEMMA TotalsInit == CInit => TotalsInv
  <1> SUFFICES ASSUME CInit PROVE TotalsInv
    OBVIOUS
  <1>1. /\ totals = Zero /\ noted = [c \in Callers |-> {}] /\ orphans = 0 /\ carried = 0
        /\ pc = [c \in Callers |-> "idle"]
    BY DEF CInit, MInit, Init
  <1>2. TotalsType
    BY <1>1 DEF TotalsType, Zero, Places
  <1>3. Pending = {} /\ \A k : Marked(k) = {} /\ Noted(k) = Cardinality({})
    <2>1. \A k : Marked(k) = {}
      BY <1>1 DEF Marked
    <2>2. \A k : Noted(k) = Cardinality(Marked(k))
      BY DEF Noted, Marked
    <2> QED
      BY <1>1, <2>1, <2>2 DEF Pending, At
  <1>4. Cardinality({}) = 0 /\ IsFiniteSet({})
    BY FS_EmptySet
  <1>5. FewCalls
    BY <1>3, <1>4 DEF FewCalls
  <1>6. \A k \in Counters : totals[k] = 0
    BY <1>1 DEF Zero
  <1>7. Accounting
    BY <1>1, <1>3, <1>4, <1>6 DEF Accounting, Counters
  <1> QED
    BY <1>2, <1>5, <1>7 DEF TotalsInv

\* Whatever the calls, their timeouts, panics and orphans and Reset interleave, no
\* request has two outcomes and no failure is missing for a timeout or a panic.
THEOREM TotalsAgree == CSpec => []Accounting
  <1>1. TotalsInv => Accounting
    BY DEF TotalsInv
  <1> QED
    BY <1>1, TotalsInit, TotalsNext, PTL DEF CSpec

-----------------------------------------------------------------------------
(* The books of the breaker and of the loops                               *)

Calling == {c \in Callers : at[c] = "calling"}

Results == {"ok", "failed"}

\* Few answers and few calls, so that they can be counted.
FewAnswers == /\ \A r \in Results : IsFiniteSet(Answers(r))
              /\ IsFiniteSet(Calling)
              /\ IsFiniteSet(At("recordSuccess")) /\ IsFiniteSet(At("recordFailure"))

BooksInv == /\ LoopInv /\ TotalsInv
            /\ swallowed \in Nat
            /\ FewAnswers
            /\ BooksAgree

\* What BooksAgree counts.
LEMMA BooksFacts ==
    ASSUME BooksInv
    PROVE  /\ \A k \in {"requests", "successes", "failures"} : totals[k] \in Nat
           /\ \A r \in Results : Told(r) \in Nat
           /\ Cardinality(Calling) \in Nat /\ InFlight = Cardinality(Calling)
           /\ Cardinality(At("recordSuccess")) \in Nat
           /\ Cardinality(At("recordFailure")) \in Nat
           /\ swallowed \in Nat
  <1>1. \A k \in {"requests", "successes", "failures"} : totals[k] \in Nat
    BY DEF BooksInv, TotalsInv, TotalsType, Counters
  <1>2. InFlight = Cardinality(Calling)
    BY DEF InFlight, Calling
  <1>3. \A r \in Results : Told(r) \in Nat
    BY FS_CardinalityType DEF BooksInv, FewAnswers, Told
  <1>4. /\ Cardinality(Calling) \in Nat /\ Cardinality(At("recordSuccess")) \in Nat
        /\ Cardinality(At("recordFailure")) \in Nat
    BY FS_CardinalityType DEF BooksInv, FewAnswers
  <1> QED
    BY <1>1, <1>2, <1>3, <1>4 DEF BooksInv

\* A loop is given one more answer.
LEMMA OneAnswer ==
    ASSUME BooksInv, NEW l \in Callers, NEW r \in Results,
           stats' \in [Callers -> [total : Nat, ok : Nat, failed : Nat]],
           stats'[l][r] = stats[l][r] + 1,
           \A q \in Results \ {r} : stats'[l][q] = stats[l][q],
           \A m \in Callers \ {l} : stats'[m] = stats[m]
    PROVE  /\ \A q \in Results : IsFiniteSet(Answers(q)')
           /\ Told(r)' = Told(r) + 1
           /\ \A q \in Results \ {r} : Told(q)' = Told(q)
  <1> DEFINE n == stats[l][r] + 1
  <1>1. stats[l][r] \in Nat
    BY DEF BooksInv, LoopInv, R!RTypeOK, Results
  <1>2. 1..stats'[l][r] = (1..stats[l][r]) \cup {n} /\ n \notin 1..stats[l][r]
    BY <1>1
  <1>3. <<l, n>> \notin Answers(r)
    BY <1>2 DEF Answers
  <1>4. Answers(r)' = Answers(r) \cup {<<l, n>>}
    BY <1>2 DEF Answers
  <1>5. ASSUME NEW q \in Results \ {r} PROVE Answers(q)' = Answers(q)
    <2>1. \A m \in Callers : stats'[m][q] = stats[m][q]
      OBVIOUS
    <2> QED
      BY <2>1 DEF Answers
  <1>6. \A q \in Results : IsFiniteSet(Answers(q))
    BY DEF BooksInv, FewAnswers
  <1>7. IsFiniteSet(Answers(r)') /\ Told(r)' = Told(r) + 1
    BY <1>3, <1>4, <1>6, OneMore DEF Told
  <1>8. \A q \in Results \ {r} : IsFiniteSet(Answers(q)') /\ Told(q)' = Told(q)
    BY <1>5, <1>6 DEF Told
  <1> QED
    BY <1>7, <1>8

\* A loop goes on, or ends, without an answer.
LEMMA NoAnswer ==
    ASSUME BooksInv,
           \A m \in Callers, q \in Results : stats'[m][q] = stats[m][q]
    PROVE  \A q \in Results : IsFiniteSet(Answers(q)') /\ Told(q)' = Told(q)
  <1>1. \A q \in Results : Answers(q)' = Answers(q)
    BY DEF Answers
  <1> QED
    BY <1>1 DEF BooksInv, FewAnswers, Told

\* The operation of a loop has come back.
LEMMA CallReturns ==
    ASSUME BooksInv, NEW l \in Callers, at[l] = "calling", at'[l] # "calling",
           \A m \in Callers \ {l} : at'[m] = at[m]
    PROVE  IsFiniteSet(Calling') /\ Cardinality(Calling)' = Cardinality(Calling) - 1
  <1>1. l \in Calling /\ Calling' = Calling \ {l}
    BY DEF Calling
  <1> QED
    BY <1>1, OneLess DEF BooksInv, FewAnswers

\* What the two ends of a call do to a loop.
LEMMA AnswerOk ==
    ASSUME BooksInv, NEW l \in Callers, R!Succeed(l)
    PROVE  /\ \A q \in Results : IsFiniteSet(Answers(q)')
           /\ Told("ok")' = Told("ok") + 1 /\ Told("failed")' = Told("failed")
           /\ IsFiniteSet(Calling') /\ Cardinality(Calling)' = Cardinality(Calling) - 1
  <1>1. LoopInv /\ at[l] = "calling" /\ R!StoreError(l, "errorString", "succeeded")
        /\ stats' = [stats EXCEPT ![l].ok = stats[l].ok + 1]
    BY DEF BooksInv, R!Succeed
  <1>2. /\ at'[l] \in {"succeeded", "panicked"}
        /\ \A m \in Callers \ {l} : at'[m] = at[m]
    BY <1>1, Stored DEF R!Stages, R!Ends
  <1>3. /\ stats' \in [Callers -> [total : Nat, ok : Nat, failed : Nat]]
        /\ stats'[l].ok = stats[l].ok + 1 /\ stats'[l].failed = stats[l].failed
        /\ \A m \in Callers \ {l} : stats'[m] = stats[m]
    BY <1>1, CountType DEF LoopInv, R!RTypeOK
  <1>4. Results = {"ok", "failed"}
    BY DEF Results
  <1>5. /\ stats'[l]["ok"] = stats[l]["ok"] + 1
        /\ \A q \in Results \ {"ok"} : stats'[l][q] = stats[l][q]
    BY <1>3, <1>4
  <1>6. /\ \A q \in Results : IsFiniteSet(Answers(q)')
        /\ Told("ok")' = Told("ok") + 1
        /\ \A q \in Results \ {"ok"} : Told(q)' = Told(q)
    BY <1>3, <1>4, <1>5, OneAnswer
  <1>7. IsFiniteSet(Calling') /\ Cardinality(Calling)' = Cardinality(Calling) - 1
    BY <1>1, <1>2, CallReturns
  <1> QED
    BY <1>4, <1>6, <1>7

LEMMA AnswerFailed ==
    ASSUME BooksInv, NEW l \in Callers, NEW e, R!Fail(l, e)
    PROVE  /\ \A q \in Results : IsFiniteSet(Answers(q)')
           /\ Told("failed")' = Told("failed") + 1 /\ Told("ok")' = Told("ok")
           /\ IsFiniteSet(Calling') /\ Cardinality(Calling)' = Cardinality(Calling) - 1
  <1>1. LoopInv /\ at[l] = "calling" /\ R!StoreError(l, TypeOf[e], R!Verdict(l, e))
        /\ stats' = [stats EXCEPT ![l].failed = stats[l].failed + 1]
    BY DEF BooksInv, R!Fail
  <1>2. R!Verdict(l, e) \in {"permanent", "exhausted", "delay"}
    BY DEF R!Verdict
  <1>3. R!Verdict(l, e) \in R!Stages
    BY <1>2 DEF R!Stages, R!Ends
  <1>4. /\ at'[l] \in {"permanent", "exhausted", "delay", "panicked"}
        /\ \A m \in Callers \ {l} : at'[m] = at[m]
    BY <1>1, <1>2, <1>3, Stored
  <1>5. /\ stats' \in [Callers -> [total : Nat, ok : Nat, failed : Nat]]
        /\ stats'[l].failed = stats[l].failed + 1 /\ stats'[l].ok = stats[l].ok
        /\ \A m \in Callers \ {l} : stats'[m] = stats[m]
    BY <1>1, CountType DEF LoopInv, R!RTypeOK
  <1>6. Results = {"ok", "failed"}
    BY DEF Results
  <1>7. /\ stats'[l]["failed"] = stats[l]["failed"] + 1
        /\ \A q \in Results \ {"failed"} : stats'[l][q] = stats[l][q]
    BY <1>5, <1>6
  <1>8. /\ \A q \in Results : IsFiniteSet(Answers(q)')
        /\ Told("failed")' = Told("failed") + 1
        /\ \A q \in Results \ {"failed"} : Told(q)' = Told(q)
    BY <1>5, <1>6, <1>7, OneAnswer
  <1>9. IsFiniteSet(Calling') /\ Cardinality(Calling)' = Cardinality(Calling) - 1
    BY <1>1, <1>4, CallReturns
  <1> QED
    BY <1>6, <1>8, <1>9

\* Where a caller goes decides who records.
LEMMA Recorders ==
    ASSUME BooksInv, NEW c \in Callers, NEW l \in Places, Goto(c, l),
           NEW p \in {"recordSuccess", "recordFailure"}
    PROVE  /\ IsFiniteSet(At(p)')
           /\ pc[c] = p /\ l # p => Cardinality(At(p))' = Cardinality(At(p)) - 1
           /\ pc[c] # p /\ l = p => Cardinality(At(p))' = Cardinality(At(p)) + 1
           /\ (pc[c] = p <=> l = p) => Cardinality(At(p))' = Cardinality(At(p))
  <1>1. pc'[c] = l /\ \A d \in Callers \ {c} : pc'[d] = pc[d]
    BY Moved DEF BooksInv, TotalsInv, TotalsType
  <1>2. IsFiniteSet(At(p))
    BY DEF BooksInv, FewAnswers
  <1>3. CASE pc[c] = p /\ l # p
    <2>1. c \in At(p) /\ At(p)' = At(p) \ {c}
      BY <1>1, <1>3 DEF At
    <2> QED
      BY <1>2, <1>3, <2>1, OneLess
  <1>4. CASE pc[c] # p /\ l = p
    <2>1. c \notin At(p) /\ At(p)' = At(p) \cup {c}
      BY <1>1, <1>4 DEF At
    <2> QED
      BY <1>2, <1>4, <2>1, OneMore
  <1>5. CASE pc[c] = p <=> l = p
    <2>1. At(p)' = At(p)
      BY <1>1, <1>5 DEF At
    <2> QED
      BY <1>2, <1>5, <2>1
  <1> QED
    BY <1>3, <1>4, <1>5

\* A step that is not Reset leaves wasReset alone.
LEMMA BooksStay ==
    ASSUME BooksInv, LoopInv', TotalsInv', UNCHANGED <<wasReset, swallowed>>,
           FewAnswers',
           \A k \in {"requests", "successes", "failures"} : totals'[k] = totals[k],
           \A r \in Results : Told(r)' = Told(r),
           Cardinality(Calling)' = Cardinality(Calling),
           Cardinality(At("recordSuccess"))' = Cardinality(At("recordSuccess")),
           Cardinality(At("recordFailure"))' = Cardinality(At("recordFailure"))
    PROVE  BooksInv'
  <1>1. InFlight' = Cardinality(Calling)' /\ InFlight = Cardinality(Calling)
    BY DEF InFlight, Calling
  <1>2. BooksAgree'
    BY <1>1 DEF BooksInv, BooksAgree, Results
  <1> QED
    BY <1>2 DEF BooksInv

\* Every attempt is one request.
LEMMA CallExecuteBooks ==
    ASSUME BooksInv, LoopInv', TotalsInv', NEW c \in Callers, CallExecute(c)
    PROVE  BooksInv'
  <1>1. /\ at[c] = "check" /\ at' = [at EXCEPT ![c] = "calling"]
        /\ stats' = [stats EXCEPT ![c].total = stats[c].total + 1]
        /\ Count("requests") /\ pc[c] = "idle" /\ Goto(c, "check")
        /\ UNCHANGED <<swallowed, wasReset>>
    BY DEF CallExecute, CountedExecute, Execute, R!Attempt, R!Counted, R!To, ghosts
  <1>2. at \in [Callers -> R!Stages] /\ stats \in [Callers -> [total : Nat, ok : Nat, failed : Nat]]
    BY DEF BooksInv, LoopInv, R!RTypeOK
  <1>3. \A m \in Callers, q \in Results : stats'[m][q] = stats[m][q]
    BY <1>1, <1>2 DEF Results
  <1>4. \A q \in Results : IsFiniteSet(Answers(q)') /\ Told(q)' = Told(q)
    BY <1>3, NoAnswer
  <1>5. c \notin Calling /\ Calling' = Calling \cup {c}
    BY <1>1, <1>2 DEF Calling
  <1>6. IsFiniteSet(Calling') /\ Cardinality(Calling)' = Cardinality(Calling) + 1
    BY <1>5, OneMore DEF BooksInv, FewAnswers
  <1>7. "check" \in Places
    BY DEF Places
  <1>8. \A p \in {"recordSuccess", "recordFailure"} :
            IsFiniteSet(At(p)') /\ Cardinality(At(p))' = Cardinality(At(p))
    BY <1>1, <1>7, Recorders
  <1>9. /\ totals'["requests"] = totals["requests"] + 1
        /\ totals'["successes"] = totals["successes"] /\ totals'["failures"] = totals["failures"]
    BY <1>1, TotalCounted DEF BooksInv, Counters
  <1>10. InFlight' = Cardinality(Calling)' /\ FewAnswers'
    BY <1>4, <1>6, <1>8 DEF InFlight, Calling, FewAnswers
  <1>11. BooksAgree'
    BY <1>1, <1>4, <1>6, <1>8, <1>9, <1>10, BooksFacts DEF BooksInv, BooksAgree, Results
  <1> QED
    BY <1>1, <1>10, <1>11 DEF BooksInv

LEMMA AdmitBooks ==
    ASSUME BooksInv, LoopInv', TotalsInv', NEW c \in Callers, Admit(c)
    PROVE  BooksInv'
  <1>1. PICK l \in Places : Goto(c, l) /\ pc[c] \notin Settled /\ (l = "idle" \/ l \notin Settled)
    BY CheckMoves DEF Admit, BooksInv
  <1>2. \A p \in {"recordSuccess", "recordFailure"} :
            IsFiniteSet(At(p)') /\ Cardinality(At(p))' = Cardinality(At(p))
    BY <1>1, Recorders DEF Settled
  <1>3. UNCHANGED <<at, stats, totals, swallowed, wasReset>>
    BY DEF Admit, loopVars, ghosts
  <1>4. \A q \in Results : IsFiniteSet(Answers(q)') /\ Told(q)' = Told(q)
    BY <1>3, NoAnswer
  <1>5. Calling' = Calling
    BY <1>3 DEF Calling
  <1>6. FewAnswers'
    BY <1>2, <1>4, <1>5 DEF BooksInv, FewAnswers
  <1> QED
    BY <1>2, <1>3, <1>4, <1>5, <1>6, BooksStay

\* A rejection is an answer to an attempt, and no failure of the breaker.
LEMMA RejectBooks ==
    ASSUME BooksInv, LoopInv', TotalsInv', NEW c \in Callers, Reject(c)
    PROVE  BooksInv'
  <1>1. PICK l \in Places : Goto(c, l) /\ pc[c] \notin Settled /\ (l = "idle" \/ l \notin Settled)
    BY CheckMoves DEF Reject, Check, BooksInv
  <1>2. \A p \in {"recordSuccess", "recordFailure"} :
            IsFiniteSet(At(p)') /\ Cardinality(At(p))' = Cardinality(At(p))
    BY <1>1, Recorders DEF Settled
  <1>3. UNCHANGED <<totals, swallowed, wasReset>> /\ R!Fail(c, "open")
    BY DEF Reject, ghosts
  <1>4. /\ \A q \in Results : IsFiniteSet(Answers(q)')
        /\ Told("failed")' = Told("failed") + 1 /\ Told("ok")' = Told("ok")
        /\ IsFiniteSet(Calling') /\ Cardinality(Calling)' = Cardinality(Calling) - 1
    BY <1>3, AnswerFailed
  <1>5. InFlight' = Cardinality(Calling)' /\ FewAnswers'
    BY <1>2, <1>4 DEF InFlight, Calling, FewAnswers
  <1>6. BooksAgree'
    BY <1>2, <1>3, <1>4, <1>5, BooksFacts DEF BooksInv, BooksAgree, Results
  <1> QED
    BY <1>3, <1>5, <1>6 DEF BooksInv

LEMMA ReturnNilBooks ==
    ASSUME BooksInv, LoopInv', TotalsInv', NEW c \in Callers, ReturnNil(c)
    PROVE  BooksInv'
  <1>1. /\ pc[c] = "recordSuccess" /\ Goto(c, "idle") /\ R!Succeed(c)
        /\ UNCHANGED <<totals, swallowed, wasReset>>
    BY DEF ReturnNil, RecordSuccess, ghosts
  <1>2. "idle" \in Places
    BY DEF Places
  <1>3. /\ \A p \in {"recordSuccess", "recordFailure"} : IsFiniteSet(At(p)')
        /\ Cardinality(At("recordSuccess"))' = Cardinality(At("recordSuccess")) - 1
        /\ Cardinality(At("recordFailure"))' = Cardinality(At("recordFailure"))
    BY <1>1, <1>2, Recorders
  <1>4. /\ \A q \in Results : IsFiniteSet(Answers(q)')
        /\ Told("ok")' = Told("ok") + 1 /\ Told("failed")' = Told("failed")
        /\ IsFiniteSet(Calling') /\ Cardinality(Calling)' = Cardinality(Calling) - 1
    BY <1>1, AnswerOk
  <1>5. InFlight' = Cardinality(Calling)' /\ FewAnswers'
    BY <1>3, <1>4 DEF InFlight, Calling, FewAnswers
  <1>6. BooksAgree'
    BY <1>1, <1>3, <1>4, <1>5, BooksFacts DEF BooksInv, BooksAgree, Results
  <1> QED
    BY <1>1, <1>5, <1>6 DEF BooksInv

\* A recorded failure reaches its loop, as an error or swallowed.
LEMMA ReturnFailureBooks ==
    ASSUME BooksInv, LoopInv', TotalsInv', NEW c \in Callers, ReturnFailure(c)
    PROVE  BooksInv'
  <1>1. /\ pc[c] = "recordFailure" /\ Goto(c, "idle")
        /\ UNCHANGED <<totals, wasReset>>
    BY DEF ReturnFailure, RecordFailure
  <1>2. "idle" \in Places
    BY DEF Places
  <1>3. /\ \A p \in {"recordSuccess", "recordFailure"} : IsFiniteSet(At(p)')
        /\ Cardinality(At("recordSuccess"))' = Cardinality(At("recordSuccess"))
        /\ Cardinality(At("recordFailure"))' = Cardinality(At("recordFailure")) - 1
    BY <1>1, <1>2, Recorders
  <1>4. /\ \A q \in Results : IsFiniteSet(Answers(q)')
        /\ \/ /\ Told("ok")' = Told("ok") + 1 /\ Told("failed")' = Told("failed")
              /\ swallowed' = swallowed + 1
           \/ /\ Told("failed")' = Told("failed") + 1 /\ Told("ok")' = Told("ok")
              /\ swallowed' = swallowed
        /\ IsFiniteSet(Calling') /\ Cardinality(Calling)' = Cardinality(Calling) - 1
    BY AnswerOk, AnswerFailed DEF ReturnFailure
  <1>5. InFlight' = Cardinality(Calling)' /\ FewAnswers'
    BY <1>3, <1>4 DEF InFlight, Calling, FewAnswers
  <1>6. BooksAgree' /\ swallowed' \in Nat
    BY <1>1, <1>3, <1>4, <1>5, BooksFacts DEF BooksInv, BooksAgree, Results
  <1> QED
    BY <1>5, <1>6 DEF BooksInv

\* An outcome is counted before it is recorded.
LEMMA DecideBooks ==
    ASSUME BooksInv, LoopInv', TotalsInv', NEW c \in Callers,
           DecideSuccess(c) \/ DecideFailure(c) \/ DecideTimeout(c)
    PROVE  BooksInv'
  <1>1. UNCHANGED <<at, stats, swallowed, wasReset>>
    BY DEF DecideSuccess, DecideFailure, DecideTimeout, loopVars, ghosts
  <1>2. \A q \in Results : IsFiniteSet(Answers(q)') /\ Told(q)' = Told(q)
    BY <1>1, NoAnswer
  <1>3. Calling' = Calling /\ InFlight' = InFlight
    BY <1>1 DEF Calling, InFlight
  <1>4. pc[c] \notin {"recordSuccess", "recordFailure"}
    BY DEF DecideSuccess, DecideFailure, DecideTimeout, CountedSuccess, CountedFailure,
           CountedTimeout, OperationSucceeds, OperationFails, ContextExpires, Operating, At
  <1>5. {"recordSuccess", "recordFailure"} \subseteq Places
        /\ {"requests", "successes", "failures"} \subseteq Counters
    BY DEF Places, Counters
  <1>6. CASE DecideSuccess(c)
    <2>1. Goto(c, "recordSuccess") /\ Count("successes")
      BY <1>6 DEF DecideSuccess, CountedSuccess, OperationSucceeds
    <2>2. /\ \A p \in {"recordSuccess", "recordFailure"} : IsFiniteSet(At(p)')
          /\ Cardinality(At("recordSuccess"))' = Cardinality(At("recordSuccess")) + 1
          /\ Cardinality(At("recordFailure"))' = Cardinality(At("recordFailure"))
      BY <1>4, <1>5, <2>1, Recorders
    <2>3. /\ totals'["successes"] = totals["successes"] + 1
          /\ totals'["requests"] = totals["requests"] /\ totals'["failures"] = totals["failures"]
      BY <1>5, <2>1, TotalCounted DEF BooksInv
    <2>4. FewAnswers'
      BY <1>2, <1>3, <2>2 DEF BooksInv, FewAnswers
    <2>5. BooksAgree'
      BY <1>1, <1>2, <1>3, <2>2, <2>3, BooksFacts DEF BooksInv, BooksAgree, Results
    <2> QED
      BY <1>1, <2>4, <2>5 DEF BooksInv
  <1>7. CASE DecideFailure(c) \/ DecideTimeout(c)
    <2>1. Goto(c, "recordFailure") /\ Count("failures")
      BY <1>7 DEF DecideFailure, DecideTimeout, CountedFailure, CountedTimeout,
                  OperationFails, ContextExpires, Stamp
    <2>2. /\ \A p \in {"recordSuccess", "recordFailure"} : IsFiniteSet(At(p)')
          /\ Cardinality(At("recordFailure"))' = Cardinality(At("recordFailure")) + 1
          /\ Cardinality(At("recordSuccess"))' = Cardinality(At("recordSuccess"))
      BY <1>4, <1>5, <2>1, Recorders
    <2>3. /\ totals'["failures"] = totals["failures"] + 1
          /\ totals'["requests"] = totals["requests"] /\ totals'["successes"] = totals["successes"]
      BY <1>5, <2>1, TotalCounted DEF BooksInv
    <2>4. FewAnswers'
      BY <1>2, <1>3, <2>2 DEF BooksInv, FewAnswers
    <2>5. BooksAgree'
      BY <1>1, <1>2, <1>3, <2>2, <2>3, BooksFacts DEF BooksInv, BooksAgree, Results
    <2> QED
      BY <1>1, <2>4, <2>5 DEF BooksInv
  <1> QED
    BY <1>6, <1>7

\* What a loop does without the breaker answers nothing.
LEMMA AloneBooks ==
    ASSUME BooksInv, LoopInv', TotalsInv', NEW c \in Callers, Alone(c)
    PROVE  BooksInv'
  <1>1. UNCHANGED <<pc, totals, swallowed, wasReset>>
    BY DEF Alone, mvars, vars, ghosts
  <1>2. \A m \in Callers, q \in Results : stats'[m][q] = stats[m][q]
    <2>1. stats' = stats \/ stats' = [stats EXCEPT ![c].total = stats[c].total + 1]
      BY DEF Alone, OwnStep, R!Begin, R!CancelledBefore, R!Wait, R!DelayEnds,
             R!CancelledInDelay, R!ContextEnds, R!Counted
    <2>2. stats \in [Callers -> [total : Nat, ok : Nat, failed : Nat]]
      BY DEF BooksInv, LoopInv, R!RTypeOK
    <2> QED
      BY <2>1, <2>2 DEF Results
  <1>3. Calling' = Calling
    <2>1. at \in [Callers -> R!Stages] /\ LoopInv
      BY DEF BooksInv, LoopInv, R!RTypeOK
    <2>2. CASE R!ContextEnds(c)
      BY <2>2 DEF R!ContextEnds, Calling
    <2>3. CASE R!Begin(c) \/ R!DelayEnds(c)
      BY <2>1, <2>3 DEF R!Begin, R!DelayEnds, R!To, Calling
    <2>4. CASE R!CancelledBefore(c) \/ R!CancelledInDelay(c)
      <3>1. at[c] \in {"check", "delay"} /\ R!StoreError(c, "wrapErrors", "cancelled")
        BY <2>4 DEF R!CancelledBefore, R!CancelledInDelay
      <3>2. at'[c] \in {"cancelled", "panicked"} /\ \A m \in Callers \ {c} : at'[m] = at[m]
        BY <2>1, <3>1, Stored DEF R!Stages, R!Ends
      <3> QED
        BY <3>1, <3>2 DEF Calling
    <2> QED
      BY <2>2, <2>3, <2>4 DEF Alone, OwnStep, R!Wait
  <1>4. \A q \in Results : IsFiniteSet(Answers(q)') /\ Told(q)' = Told(q)
    BY <1>2, NoAnswer
  <1>5. \A p : At(p)' = At(p)
    BY <1>1 DEF At
  <1>6. FewAnswers'
    BY <1>3, <1>4, <1>5 DEF BooksInv, FewAnswers
  <1> QED
    BY <1>1, <1>3, <1>4, <1>5, <1>6, BooksStay

\* The breaker's own steps move nobody to or from a record step, and count only
\* timeouts and panics.
LEMMA InsideBooks ==
    ASSUME BooksInv, LoopInv', TotalsInv', Inside
    PROVE  BooksInv'
  <1>1. UNCHANGED <<at, stats, swallowed, wasReset>>
    BY DEF Inside, loopVars, ghosts
  <1>2. \A q \in Results : IsFiniteSet(Answers(q)') /\ Told(q)' = Told(q)
    BY <1>1, NoAnswer
  <1>3. Calling' = Calling
    BY <1>1 DEF Calling
  <1>4. \A k \in {"requests", "successes", "failures"} : totals'[k] = totals[k]
    <2>1. \/ UNCHANGED totals
          \/ \E j \in {"timeouts", "panics"} : Count(j)
      BY DEF Inside, NotePanic, NoteTimeout, Note, OrphanEnds
    <2> QED
      BY <2>1, TotalCounted DEF BooksInv, Counters
  <1>5. \/ UNCHANGED pc
        \/ \E c \in Callers, l \in {"clearing", "trial"} :
              Goto(c, l) /\ pc[c] \in {"transition", "clearing"}
    BY DEF Inside, NotePanic, NoteTimeout, Note, OrphanEnds, EnterHalfOpen, ClearSuccesses,
           ForceOpen, Elapse, vars
  <1>6. {"clearing", "trial"} \subseteq Places
    BY DEF Places
  <1>7. \A p \in {"recordSuccess", "recordFailure"} :
            IsFiniteSet(At(p)') /\ Cardinality(At(p))' = Cardinality(At(p))
    <2>1. CASE UNCHANGED pc
      <3>1. \A p : At(p)' = At(p)
        BY <2>1 DEF At
      <3> QED
        BY <3>1 DEF BooksInv, FewAnswers
    <2>2. CASE ~UNCHANGED pc
      BY <1>5, <1>6, <2>2, Recorders
    <2> QED
      BY <2>1, <2>2
  <1>8. FewAnswers'
    BY <1>2, <1>3, <1>7 DEF BooksInv, FewAnswers
  <1> QED
    BY <1>1, <1>2, <1>3, <1>4, <1>7, <1>8, BooksStay

\* After Reset the books are closed.
LEMMA ResetBooks ==
    ASSUME BooksInv, LoopInv', TotalsInv', ResetTotals
    PROVE  BooksInv'
  <1>1. UNCHANGED <<at, stats, pc, swallowed>> /\ wasReset'
    BY DEF ResetTotals, CountedReset, Reset, loopVars
  <1>2. \A q \in Results : IsFiniteSet(Answers(q)') /\ Told(q)' = Told(q)
    BY <1>1, NoAnswer
  <1>3. Calling' = Calling /\ \A p : At(p)' = At(p)
    BY <1>1 DEF Calling, At
  <1>4. FewAnswers'
    BY <1>2, <1>3 DEF BooksInv, FewAnswers
  <1>5. BooksAgree'
    BY <1>1 DEF BooksAgree
  <1> QED
    BY <1>1, <1>4, <1>5 DEF BooksInv

LEMMA BooksNext == ASSUME BooksInv, [CNext]_allVars PROVE BooksInv'
  <1>1. LoopInv' /\ TotalsInv'
    BY LoopNext, TotalsNext DEF BooksInv
  <1>2. CASE UNCHANGED allVars
    <2>1. UNCHANGED <<pc, totals, at, stats, swallowed, wasReset>>
      BY <1>2 DEF allVars, mvars, vars, loopVars, ghosts
    <2>2. Calling' = Calling /\ \A p : At(p)' = At(p)
      BY <2>1 DEF Calling, At
    <2>3. \A q \in Results : IsFiniteSet(Answers(q)') /\ Told(q)' = Told(q)
      BY <2>1, NoAnswer
    <2>4. FewAnswers'
      BY <2>2, <2>3 DEF BooksInv, FewAnswers
    <2> QED
      BY <1>1, <2>1, <2>2, <2>3, <2>4, BooksStay
  <1>3. ASSUME NEW c \in Callers,
               \/ CallExecute(c) \/ Admit(c) \/ Return(c) \/ Alone(c)
               \/ DecideSuccess(c) \/ DecideFailure(c) \/ DecideTimeout(c)
        PROVE  BooksInv'
    BY <1>1, <1>3, CallExecuteBooks, AdmitBooks, RejectBooks, ReturnNilBooks,
       ReturnFailureBooks, AloneBooks, DecideBooks DEF Return
  <1> QED
    BY <1>1, <1>2, <1>3, InsideBooks, ResetBooks DEF CNext

LEMMA BooksInit == CInit => BooksInv
  <1> SUFFICES ASSUME CInit PROVE BooksInv
    OBVIOUS
  <1>1. LoopInv /\ TotalsInv
    BY LoopInit, TotalsInit
  <1>2. /\ at = [c \in Callers |-> "start"]
        /\ stats = [c \in Callers |-> [total |-> 0, ok |-> 0, failed |-> 0]]
        /\ pc = [c \in Callers |-> "idle"]
        /\ totals = Zero /\ swallowed = 0
    BY DEF CInit, MInit, Init, R!RInit
  <1>3. Calling = {} /\ At("recordSuccess") = {} /\ At("recordFailure") = {}
    BY <1>2 DEF Calling, At
  <1>4. \A r \in Results : Answers(r) = {}
    <2>1. \A c \in Callers, r \in Results : 1..stats[c][r] = {}
      BY <1>2 DEF Results
    <2> QED
      BY <2>1 DEF Answers
  <1>5. IsFiniteSet({}) /\ Cardinality({}) = 0
    BY FS_EmptySet
  <1>6. FewAnswers
    BY <1>3, <1>4, <1>5 DEF FewAnswers
  <1>7. Told("ok") = 0 /\ Told("failed") = 0 /\ InFlight = 0
    BY <1>3, <1>4, <1>5 DEF Told, Results, InFlight, Calling
  <1>8. totals["requests"] = 0 /\ totals["successes"] = 0 /\ totals["failures"] = 0
    BY <1>2 DEF Zero, Counters
  <1>9. BooksAgree
    BY <1>2, <1>3, <1>5, <1>7, <1>8 DEF BooksAgree
  <1> QED
    BY <1>1, <1>2, <1>6, <1>9 DEF BooksInv

\* The breaker and its callers tell the same story: until a Reset the requests are
\* the attempts, and the answers of the loops are the outcomes of the breaker, but
\* for the panics that Execute returns as nil.
THEOREM OneStory == CSpec => []BooksAgree
  <1>1. BooksInv => BooksAgree
    BY DEF BooksInv
  <1> QED
    BY <1>1, BooksInit, BooksNext, PTL DEF CSpec

=============================================================================
