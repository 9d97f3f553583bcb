--------------------------- MODULE BreakerMachine ---------------------------
(***************************************************************************)
(* What circuitbreaker.go promises: a three-state machine that reacts to   *)
(* one outcome at a time.  It counts failures in a row while closed, opens *)
(* at Threshold of them, and closes after HalfOpenMax successes in a row   *)
(* while half-open.  No callers, locks or clocks.                          *)
(***************************************************************************)
EXTENDS Naturals

CONSTANTS Threshold, HalfOpenMax, Admin

VARIABLES circuit,   \* "Closed", "Open" or "HalfOpen"
          failures,  \* failures in a row, kept while not closed
          successes  \* successes since the circuit became half-open

bvars == <<circuit, failures, successes>>

Init == circuit = "Closed" /\ failures = 0 /\ successes = 0

\* A late outcome, recorded while the circuit is open, changes nothing.
Succeed ==
    \/ /\ circuit = "Closed"
       /\ failures' = 0
       /\ UNCHANGED <<circuit, successes>>
    \/ /\ circuit = "HalfOpen"
       /\ successes' = successes + 1
       /\ \/ successes' < HalfOpenMax /\ UNCHANGED <<circuit, failures>>
          \/ successes' = HalfOpenMax /\ circuit' = "Closed" /\ failures' = 0

Fail ==
    \/ /\ circuit = "Closed"
       /\ failures' = failures + 1
       /\ \/ failures' < Threshold /\ UNCHANGED circuit
          \/ failures' = Threshold /\ circuit' = "Open"
       /\ UNCHANGED successes
    \/ /\ circuit = "HalfOpen"
       /\ circuit' = "Open"
       /\ UNCHANGED <<failures, successes>>

Probe ==
    /\ circuit = "Open"
    /\ circuit' = "HalfOpen"
    /\ successes' = 0
    /\ UNCHANGED failures

ForceOpen ==
    /\ "ForceOpen" \in Admin
    /\ circuit' = "Open"
    /\ UNCHANGED <<failures, successes>>

Reset ==
    /\ "Reset" \in Admin
    /\ circuit' = "Closed" /\ failures' = 0 /\ successes' = 0

Next == Succeed \/ Fail \/ Probe \/ ForceOpen \/ Reset

Spec == Init /\ [][Next]_bvars
=============================================================================
