---------------------------- MODULE RetriedBreaker ----------------------------
(***************************************************************************)
(* Retry around a circuit breaker: the operation of every loop is Execute  *)
(* (PlainCallers) or ExecuteWithTimeout (CtxCallers) of one breaker that   *)
(* all loops share.  The context of ExecuteWithTimeout is new for each     *)
(* attempt and not done when the call begins.                              *)
(*                                                                         *)
(* A call of the breaker (CircuitBreaker, CircuitBreakerMetrics) is one    *)
(* attempt of a loop (Retry): the loop makes its step when the breaker     *)
(* takes the call, and another one when the breaker gives its answer.      *)
(***************************************************************************)
EXTENDS CircuitBreakerMetrics

CONSTANTS StatLoops, MaxAttempts, HasTimeout, Cancellable, Permanent, TypeOf,
          OpErrors  \* errors of the operation itself

VARIABLES at, attempt, ctx, stats, lastError,  \* of Retry
          answer,     \* what the breaker will return, once it is decided
          swallowed,  \* ghost: panics that a loop was given as nil
          wasReset    \* ghost: the totals have been zeroed

R == INSTANCE Retry WITH Loops <- Callers

ASSUME PolicyAssumption == R!RetryConfig

ASSUME AnswerAssumption ==
    /\ OpErrors \cup {"open", "panic", "timeout"} \subseteq DOMAIN TypeOf
    /\ {"nil", "none"} \cap OpErrors = {}

loopVars == <<at, attempt, ctx, stats, lastError>>
ghosts   == <<swallowed, wasReset>>
allVars  == <<mvars, loopVars, answer, ghosts>>

CInit == /\ MInit
         /\ R!RInit
         /\ answer = [c \in Callers |-> "none"]
         /\ swallowed = 0
         /\ wasReset = FALSE

\* The loop calls Execute.
CallExecute(c) ==
    /\ R!Attempt(c)
    /\ CountedExecute(c)
    /\ UNCHANGED <<answer, ghosts>>

\* checkCircuitState returns ErrCircuitBreakerOpen.
Reject(c) ==
    /\ CheckTimeout(c) \/ CheckSuccesses(c)
    /\ pc'[c] = "idle"
    /\ R!Fail(c, "open")
    /\ UNCHANGED <<totals, noted, orphans, carried, answer, ghosts>>

Admit(c) ==
    /\ Check(c)
    /\ pc'[c] # "idle"
    /\ UNCHANGED <<totals, noted, orphans, carried, loopVars, answer, ghosts>>

\* What a failed operation amounts to for the caller of the breaker.  The panic
\* that executeWithRecovery recovers leaves its result nil.
FailureAnswers(c) == IF "panics" \notin noted[c] THEN OpErrors
                     ELSE IF c \in PlainCallers THEN {"nil"} ELSE {"panic"}

DecideFailure(c) ==
    /\ CountedFailure(c)
    /\ \E e \in FailureAnswers(c) : answer' = [answer EXCEPT ![c] = e]
    /\ UNCHANGED <<loopVars, ghosts>>

DecideTimeout(c) ==
    /\ CountedTimeout(c)
    /\ answer' = [answer EXCEPT ![c] = "timeout"]
    /\ UNCHANGED <<loopVars, ghosts>>

DecideSuccess(c) == CountedSuccess(c) /\ UNCHANGED <<loopVars, answer, ghosts>>

ReturnNil(c) ==
    /\ RecordSuccess(c)
    /\ R!Succeed(c)
    /\ UNCHANGED <<totals, noted, orphans, carried, answer, ghosts>>

\* Faulty variant: the error of a timeout is lost like that of a panic.
ReturnLost(c) ==
    /\ RecordFailure(c)
    /\ answer' = [answer EXCEPT ![c] = "none"]
    /\ IF answer[c] \in {"nil", "timeout"} THEN R!Succeed(c) ELSE R!Fail(c, answer[c])
    /\ swallowed' = IF answer[c] = "nil" THEN swallowed + 1 ELSE swallowed
    /\ UNCHANGED <<totals, noted, orphans, carried, wasReset>>

\* The loop is given the error, or nil for a panic.
ReturnFailure(c) ==
    /\ RecordFailure(c)
    /\ answer' = [answer EXCEPT ![c] = "none"]
    /\ \/ /\ answer[c] = "nil"
          /\ R!Succeed(c)
          /\ swallowed' = swallowed + 1
       \/ /\ answer[c] # "nil"
          /\ R!Fail(c, answer[c])
          /\ UNCHANGED swallowed
    /\ UNCHANGED <<totals, noted, orphans, carried, wasReset>>

\* Steps of the breaker that no loop sees.
Inside == /\ \/ \E c \in Callers : NotePanic(c) \/ NoteTimeout(c)
             \/ OrphanEnds
             \/ /\ \/ \E c \in Callers : EnterHalfOpen(c) \/ ClearSuccesses(c)
                   \/ ForceOpen
                   \/ Elapse
                /\ UNCHANGED <<totals, noted, orphans, carried>>
          /\ UNCHANGED <<loopVars, answer, ghosts>>

ResetTotals == /\ CountedReset
               /\ wasReset' = TRUE
               /\ UNCHANGED <<loopVars, answer, swallowed>>

\* Steps of a loop that the breaker does not see.
OwnStep(c) == R!Begin(c) \/ R!CancelledBefore(c) \/ R!Wait(c)

Alone(c) == /\ OwnStep(c) \/ R!ContextEnds(c)
            /\ UNCHANGED <<mvars, answer, ghosts>>

Return(c) == Reject(c) \/ ReturnNil(c) \/ ReturnFailure(c)

CNext == \/ \E c \in Callers : \/ CallExecute(c) \/ Admit(c) \/ Return(c) \/ Alone(c)
                               \/ DecideSuccess(c) \/ DecideFailure(c) \/ DecideTimeout(c)
         \/ Inside
         \/ ResetTotals

CSpec == CInit /\ [][CNext]_allVars

-----------------------------------------------------------------------------
(* Properties                                                              *)

\* How a loop ended agrees with the attempts it made (retry.go:209, :381),
\* when the attempts are calls of a breaker.
LoopOutcomes == R!OutcomeMatchesStats

\* The answers all loops were given so far: "ok" or "failed".
Answers(result) == UNION {{c} \X (1..stats[c][result]) : c \in Callers}

Told(result) == Cardinality(Answers(result))
InFlight     == Cardinality({c \in Callers : at[c] = "calling"})

\* The breaker and its callers tell the same story until the totals are reset:
\* every attempt of a loop is one request; what the loops take for successes are
\* the successes of the breaker and the panics that Execute returns as nil
\* (circuitbreaker.go:232), and nothing else; and no failure that the breaker has
\* recorded is hidden from a loop in any other way.
BooksAgree ==
    ~wasReset =>
        /\ totals["requests"] = Told("ok") + Told("failed") + InFlight
        /\ Told("ok") =
               totals["successes"] - Cardinality(At("recordSuccess")) + swallowed
        /\ totals["failures"] - Cardinality(At("recordFailure"))
               <= Told("failed") + swallowed
=============================================================================
