------------------------------ MODULE JobLine ------------------------------
(***************************************************************************)
(* What a pool of workers promises of every job: it waits in line, one     *)
(* worker takes it, keeps it until there is room for its result, and the   *)
(* result is delivered to one reader.  Jobs are lost only after the pool   *)
(* was closed.  No gauges, no scaling, no list of workers, no WaitGroup.   *)
(***************************************************************************)
EXTENDS Naturals, FiniteSets

CONSTANTS Jobs, Workers, QueueSize, NoJob

VARIABLES line, results, delivered, lost,   \* disjoint sets of jobs
          task,                             \* the job of each worker, or NoJob
          open

jvars == <<line, results, delivered, lost, task, open>>

Init == /\ line = {} /\ results = {} /\ delivered = {} /\ lost = {}
        /\ task = [w \in Workers |-> NoJob]
        /\ open = TRUE

\* No worker has the job, and it was not accepted before.
Fresh(j) == /\ j \notin line \cup results \cup delivered \cup lost
            /\ \A w \in Workers : task[w] # j

Accept(j) == /\ Fresh(j)
             /\ Cardinality(line) < QueueSize
             /\ line' = line \cup {j}
             /\ UNCHANGED <<results, delivered, lost, task, open>>

Take(w, j) == /\ j \in line /\ task[w] = NoJob
              /\ line' = line \ {j}
              /\ task' = [task EXCEPT ![w] = j]
              /\ UNCHANGED <<results, delivered, lost, open>>

LetGo(w) == task[w] \in Jobs /\ task' = [task EXCEPT ![w] = NoJob]

Finish(w) == /\ LetGo(w)
             /\ Cardinality(results) < QueueSize
             /\ results' = results \cup {task[w]}
             /\ UNCHANGED <<line, delivered, lost, open>>

Lose(w) == /\ LetGo(w)
           /\ ~open
           /\ lost' = lost \cup {task[w]}
           /\ UNCHANGED <<line, results, delivered, open>>

Deliver(j) == /\ j \in results
              /\ results' = results \ {j}
              /\ delivered' = delivered \cup {j}
              /\ UNCHANGED <<line, lost, task, open>>

Shut == open /\ open' = FALSE /\ UNCHANGED <<line, results, delivered, lost, task>>

Next == \/ \E j \in Jobs : Accept(j) \/ Deliver(j) \/ \E w \in Workers : Take(w, j)
        \/ \E w \in Workers : Finish(w) \/ Lose(w)
        \/ Shut

Spec == Init /\ [][Next]_jvars
=============================================================================
