------------------------ MODULE CircuitBreakerMetrics ------------------------
(***************************************************************************)
(* The totals of circuitbreaker.go, added to the steps of CircuitBreaker.  *)
(* They are updated with lock-free atomic additions, before the step that  *)
(* records the outcome under mu; a timed-out operation lives on as an      *)
(* orphan goroutine whose panic is still counted.  RetriedBreaker has the  *)
(* next-state relation.                                                    *)
(***************************************************************************)
EXTENDS CircuitBreaker

CONSTANT MaxRequests      \* bound on totalRequests and on the orphans, for TLC

ASSUME BoundAssumption == MaxRequests \in Nat

VARIABLES totals,         \* cb.totalRequests, ..., cb.totalPanics
          noted,          \* what is counted of a call whose failure is not yet
          orphans,        \* operations whose caller gave up on ctx.Done
          carried         \* ghost: the calls and orphans of the last Reset

mvars == <<vars, totals, noted, orphans, carried>>

Counters == {"requests", "successes", "failures", "timeouts", "panics"}

Zero == [k \in Counters |-> 0]

\* atomic.AddInt64(..., 1)
Count(k) == totals' = [totals EXCEPT ![k] = @ + 1]

MInit == /\ Init
         /\ totals = Zero
         /\ noted = [c \in Callers |-> {}]
         /\ orphans = 0
         /\ carried = 0

Note(c, k) == /\ c \in Operating
              /\ k \notin noted[c]
              /\ noted' = [noted EXCEPT ![c] = @ \cup {k}]
              /\ Count(k)
              /\ UNCHANGED <<vars, orphans, carried>>

Settle(c) == noted' = [noted EXCEPT ![c] = {}]

CountedExecute(c) ==
    /\ totals["requests"] < MaxRequests
    /\ Execute(c)
    /\ Count("requests")
    /\ UNCHANGED <<noted, orphans, carried>>

\* The recovered panic, and the deadline, are counted before recordFailure.
NotePanic(c)   == Note(c, "panics")
NoteTimeout(c) == c \in CtxCallers /\ Note(c, "timeouts")

CountedSuccess(c) ==
    /\ noted[c] = {}
    /\ OperationSucceeds(c)
    /\ Count("successes")
    /\ UNCHANGED <<noted, orphans, carried>>

CountedFailure(c) ==
    /\ "timeouts" \notin noted[c]
    /\ OperationFails(c)
    /\ Count("failures")
    /\ Settle(c)
    /\ UNCHANGED <<orphans, carried>>

CountedTimeout(c) ==
    /\ "timeouts" \in noted[c]
    /\ orphans < MaxRequests
    /\ ContextExpires(c)
    /\ Count("failures")
    /\ orphans' = IF "panics" \in noted[c] THEN orphans ELSE orphans + 1
    /\ Settle(c)
    /\ UNCHANGED carried

\* Faulty variant: the goroutine of the operation records its own outcome.
OrphanRecords ==
    /\ orphans > 0
    /\ orphans' = orphans - 1
    /\ Count("successes") \/ Count("failures")
    /\ UNCHANGED <<vars, noted, carried>>

\* The result goes into a buffered channel nobody reads; a panic is counted.
OrphanEnds ==
    /\ orphans > 0
    /\ orphans' = orphans - 1
    /\ Count("panics") \/ UNCHANGED totals
    /\ UNCHANGED <<vars, noted, carried>>

\* Calls that have been counted and whose outcome has not.
Pending == Callers \ UNION {At(l) : l \in {"idle", "recordSuccess", "recordFailure"}}

\* Reset and ForceClose zero the totals under running calls.
CountedReset ==
    /\ Reset
    /\ totals' = Zero
    /\ carried' = Cardinality(Pending) + orphans
    /\ UNCHANGED <<noted, orphans>>

-----------------------------------------------------------------------------
(* Properties                                                              *)

Noted(k) == Cardinality({c \in Callers : k \in noted[c]})

\* Every request is counted at most once by its outcome, so FailureRate and
\* SuccessRate share at most 100 percent; a timeout or a panic is a failure too,
\* counted or about to be, and an operation that panics after its deadline does
\* not fail a second time.  Reset lets no more outcomes go without a request,
\* and panics without a failure, than it found calls and orphans.
Accounting ==
    /\ totals["successes"] + totals["failures"] + Cardinality(Pending)
         <= totals["requests"] + carried
    /\ totals["timeouts"] <= totals["failures"] + Noted("timeouts")
    /\ totals["panics"] + orphans
         <= totals["failures"] + Noted("panics") + carried
=============================================================================
