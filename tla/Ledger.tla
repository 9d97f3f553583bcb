------------------------------ MODULE Ledger ------------------------------
(***************************************************************************)
(* What a dead-letter queue promises of every operation: it is offered,    *)
(* and accepted or turned away; one that was accepted is owed an end until *)
(* it has one, which is counted and is the last.  No channel, no workers,  *)
(* no map and no shutdown.                                                 *)
(***************************************************************************)
EXTENDS Naturals

CONSTANT Ops

VARIABLES offered, owed, resolved,   \* disjoint sets of operations
          count                      \* the ends of each kind

lvars == <<offered, owed, resolved, count>>

Init == /\ offered = {} /\ owed = {} /\ resolved = {}
        /\ count = [succeeded |-> 0, dropped |-> 0]

Offer(op) == /\ op \notin offered \cup owed \cup resolved
             /\ offered' = offered \cup {op}
             /\ UNCHANGED <<owed, resolved, count>>

TurnAway(op) == /\ op \in offered
                /\ offered' = offered \ {op}
                /\ UNCHANGED <<owed, resolved, count>>

Accept(op) == /\ op \in offered
              /\ offered' = offered \ {op}
              /\ owed' = owed \cup {op}
              /\ UNCHANGED <<resolved, count>>

Resolve(op, how) == /\ op \in owed
                    /\ owed' = owed \ {op}
                    /\ resolved' = resolved \cup {op}
                    /\ count' = [count EXCEPT ![how] = @ + 1]
                    /\ UNCHANGED offered

Next == \E op \in Ops :
            \/ Offer(op) \/ TurnAway(op) \/ Accept(op)
            \/ \E how \in {"succeeded", "dropped"} : Resolve(op, how)

Spec == Init /\ [][Next]_lvars
=============================================================================
