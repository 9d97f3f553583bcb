----------------------------- MODULE Admission -----------------------------
(***************************************************************************)
(* What a bulkhead promises: a room for MaxInside calls with a waiting     *)
(* line of MaxWaiting.  No channels, counters or shutdown.                 *)
(***************************************************************************)
EXTENDS Naturals, FiniteSets

CONSTANTS Callers, MaxInside, MaxWaiting

VARIABLES inside, waiting    \* disjoint sets of callers

avars == <<inside, waiting>>

Init == inside = {} /\ waiting = {}

Enter(c) == /\ c \notin inside \cup waiting
            /\ Cardinality(inside) < MaxInside
            /\ inside' = inside \cup {c}
            /\ UNCHANGED waiting

Wait(c) == /\ c \notin inside \cup waiting
           /\ Cardinality(waiting) < MaxWaiting
           /\ waiting' = waiting \cup {c}
           /\ UNCHANGED inside

Promote(c) == /\ c \in waiting
              /\ Cardinality(inside) < MaxInside
              /\ waiting' = waiting \ {c}
              /\ inside' = inside \cup {c}

GiveUp(c) == /\ c \in waiting
             /\ waiting' = waiting \ {c}
             /\ UNCHANGED inside

Leave(c) == /\ c \in inside
            /\ inside' = inside \ {c}
            /\ UNCHANGED waiting

Next == \E c \in Callers : Enter(c) \/ Wait(c) \/ Promote(c) \/ GiveUp(c) \/ Leave(c)

Spec == Init /\ [][Next]_avars
=============================================================================
