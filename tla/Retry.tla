-------------------------------- MODULE Retry --------------------------------
(***************************************************************************)
(* The attempt loop of retry.go.                                           *)
(*                                                                         *)
(* A loop is one call of RetryWithContext, RetryWithResultAndContext or    *)
(* RetryWithStatsAndContext; the three make the same steps, and the last   *)
(* keeps statistics, which the model keeps of all.  The operation answers  *)
(* nil or an error and takes as long as it likes: it is not given the      *)
(* context, so nothing ends it.  What it does is left to the module that   *)
(* composes this one with a component (RetriedBreaker).                    *)
(*                                                                         *)
(* The length of a delay is not modelled, and of the context only whether  *)
(* it is done.  Each attempt derives a context with policy.Timeout from    *)
(* the one before, so the first deadline is the earliest, and once armed   *)
(* it bounds all attempts together.                                        *)
(***************************************************************************)
EXTENDS Naturals

CONSTANTS Loops,
          StatLoops,    \* those that call RetryWithStats
          MaxAttempts,  \* policy.MaxAttempts
          HasTimeout,   \* policy.Timeout > 0
          Cancellable,  \* loops whose context the program may cancel
          Permanent,    \* errors that policy.RetryableErrors does not cover
          TypeOf        \* the concrete type of an error

\* What validatePolicy accepts, and who is who.
RetryConfig ==
    /\ StatLoops \subseteq Loops
    /\ Cancellable \subseteq Loops
    /\ MaxAttempts \in Nat \ {0}
    /\ HasTimeout \in BOOLEAN
    /\ Permanent \subseteq DOMAIN TypeOf

VARIABLES at,        \* where each loop is, or how it ended
          attempt,   \* the number of the attempt, from 0
          ctx,       \* "live", "timed" (it has a deadline) or "done"
          stats,     \* RetryStats
          lastError  \* the type of the value in stats.LastError

Ends   == {"succeeded", "permanent", "exhausted", "cancelled", "panicked"}
Stages == {"start", "check", "calling", "delay"} \cup Ends

Ended(l) == at[l] \in Ends

RInit == /\ at = [l \in Loops |-> "start"]
         /\ attempt = [l \in Loops |-> 0]
         /\ ctx = [l \in Loops |-> "live"]
         /\ stats = [l \in Loops |-> [total |-> 0, ok |-> 0, failed |-> 0]]
         /\ lastError = [l \in Loops |-> "none"]

To(l, stage) == at' = [at EXCEPT ![l] = stage]

\* LastError is an atomic.Value, which panics when it is given a second type.
\* fmt.Errorf with two %w makes a wrapErrors, errors.New an errorString.
StoreError(l, type, stage) ==
    IF l \in StatLoops /\ lastError[l] \notin {"none", type}
    THEN To(l, "panicked") /\ UNCHANGED lastError
    ELSE /\ To(l, stage)
         /\ lastError' = IF l \in StatLoops THEN [lastError EXCEPT ![l] = type] ELSE lastError

Begin(l) ==
    /\ at[l] = "start"
    /\ To(l, "check")
    /\ UNCHANGED <<attempt, ctx, stats, lastError>>

\* TotalAttempts is counted before the context is looked at.
Counted(l) == stats' = [stats EXCEPT ![l].total = @ + 1]

\* The context is live and gets its deadline; the operation is called.
Attempt(l) ==
    /\ at[l] = "check"
    /\ ctx[l] # "done"
    /\ Counted(l)
    /\ ctx' = [ctx EXCEPT ![l] = IF HasTimeout THEN "timed" ELSE @]
    /\ To(l, "calling")
    /\ UNCHANGED <<attempt, lastError>>

CancelledBefore(l) ==
    /\ at[l] = "check"
    /\ ctx[l] = "done"
    /\ Counted(l)
    /\ StoreError(l, "wrapErrors", "cancelled")
    /\ UNCHANGED <<attempt, ctx>>

\* The operation returned nil.
Succeed(l) ==
    /\ at[l] = "calling"
    /\ stats' = [stats EXCEPT ![l].ok = @ + 1]
    /\ StoreError(l, "errorString", "succeeded")
    /\ UNCHANGED <<attempt, ctx>>

\* Faulty variant: one attempt too many.
VerdictLate(l, e) == IF e \in Permanent THEN "permanent"
                     ELSE IF attempt[l] = MaxAttempts THEN "exhausted"
                     ELSE "delay"

\* What follows an error.
Verdict(l, e) == IF e \in Permanent THEN "permanent"
                 ELSE IF attempt[l] = MaxAttempts - 1 THEN "exhausted"
                 ELSE "delay"

\* The operation returned error e.
Fail(l, e) ==
    /\ at[l] = "calling"
    /\ stats' = [stats EXCEPT ![l].failed = @ + 1]
    /\ StoreError(l, TypeOf[e], Verdict(l, e))
    /\ UNCHANGED <<attempt, ctx>>

\* time.After of the delay.
DelayEnds(l) ==
    /\ at[l] = "delay"
    /\ attempt' = [attempt EXCEPT ![l] = @ + 1]
    /\ To(l, "check")
    /\ UNCHANGED <<ctx, stats, lastError>>

CancelledInDelay(l) ==
    /\ at[l] = "delay"
    /\ ctx[l] = "done"
    /\ StoreError(l, "wrapErrors", "cancelled")
    /\ UNCHANGED <<attempt, ctx, stats>>

\* The deadline passes, or the program cancels.
ContextEnds(l) ==
    /\ ctx[l] = "timed" \/ (ctx[l] = "live" /\ l \in Cancellable)
    /\ ~Ended(l)
    /\ ctx' = [ctx EXCEPT ![l] = "done"]
    /\ UNCHANGED <<at, attempt, stats, lastError>>

Wait(l) == DelayEnds(l) \/ CancelledInDelay(l)

RTypeOK == /\ at \in [Loops -> Stages]
           /\ attempt \in [Loops -> 0..(MaxAttempts - 1)]
           /\ ctx \in [Loops -> {"live", "timed", "done"}]
           /\ stats \in [Loops -> [total : Nat, ok : Nat, failed : Nat]]

-----------------------------------------------------------------------------
(* Properties                                                              *)

\* The end of a loop agrees with what it did (retry.go:209, :381): success is one
\* attempt and the last, a permanent error ends the loop, only MaxAttempts
\* failures exhaust it, and there are never more attempts than that.  A context
\* that is done at the head of the loop leaves one attempt counted that was not
\* made; RetryWithStats panics only after an error it could not store.
OutcomeMatchesStats ==
    \A l \in Loops :
        LET s == stats[l]
            made == s.ok + s.failed
        IN  /\ s.total <= MaxAttempts
            /\ at[l] = "start"            => s.total = 0
            /\ at[l] \in {"check", "delay"} => s.ok = 0 /\ s.failed = s.total
            /\ at[l] = "calling"          => s.ok = 0 /\ s.failed + 1 = s.total
            /\ at[l] = "succeeded"        => s.ok = 1 /\ made = s.total
            /\ at[l] = "permanent"        => s.ok = 0 /\ made = s.total
            /\ at[l] = "exhausted"        => s.ok = 0 /\ made = MaxAttempts
            /\ at[l] = "cancelled"        => s.ok = 0 /\ made \in {s.total, s.total - 1}
            /\ at[l] = "panicked"         => l \in StatLoops /\ s.failed > 0
=============================================================================
