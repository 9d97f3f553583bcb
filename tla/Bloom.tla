-------------------------------- MODULE Bloom --------------------------------
(***************************************************************************)
(* The Bloom filter of bloom.go and its copy in a store.                   *)
(*                                                                         *)
(* A filter is one process's instance; filters with one key prefix share   *)
(* one key of the store.  A caller is a goroutine that uses one filter.    *)
(* Add, AddBatch and Clear hold bf.mu from the first bit to the last       *)
(* answer of the store, so a call is: wait for mu, change the memory, talk *)
(* to the store.  The saves of AddBatch and Add are the same.              *)
(*                                                                         *)
(* The store is external: a call of it may fail without effect, be applied *)
(* though its answer is lost, or be applied later ("Late").  A process may *)
(* crash between any two steps and start again.                            *)
(***************************************************************************)
EXTENDS Naturals, Sequences, FiniteSets

CONSTANTS Filters,      \* instances that share the key
          Callers,
          Uses,         \* the filter each caller uses
          Items, Bits,
          Positions,    \* getHashPositions: the bits of an item
          Batches,      \* the slices passed to AddBatch
          CheckEvery,   \* AddBatch looks at its context every so many items
          MaxItems,     \* maxItems
          MaxRetryAttempts,
          Previous,     \* what an older version may have left in the store
          MaxLate,      \* bound on the requests under way, for TLC
          Faults        \* of "Cancel", "Fail", "Late", "Expire", "Crash"

Nothing == [format |-> "none", bits |-> {}, count |-> 0]

Nobody == "nobody"

ASSUME ConfigAssumption ==
    /\ Nobody \notin Filters
    /\ Uses \in [Callers -> Filters]
    /\ Positions \in [Items -> SUBSET Bits]
    /\ Batches \subseteq Seq(Items)
    /\ CheckEvery \in Nat \ {0}
    /\ MaxItems \in Nat
    /\ MaxRetryAttempts \in Nat \ {0}
    /\ MaxLate \in Nat
    /\ Previous \subseteq [format : {"legacy"}, bits : SUBSET Bits, count : 0..MaxItems]

VARIABLES
    bits,         \* bf.bitset: the bits that are set
    itemCount,    \* bf.itemCount
    closed,       \* bf.closed
    storeErrors,  \* bf.metrics.StoreErrors > 0
    pc,           \* where each caller is
    tries,        \* its failed attempts to save
    stored,       \* the value of the key
    late,         \* requests the store has yet to apply
    members,      \* ghost: the items put in since the filter was empty
    writer        \* ghost: the filter that has the store to itself, see below

memory == <<bits, itemCount, members>>
store  == <<stored, late, writer>>
vars   == <<memory, closed, storeErrors, pc, tries, store>>

StoredStates == [format : {"none", "legacy", "enhanced"}, bits : SUBSET Bits, count : Nat]

\* The ghost writer is the filter whose request was applied last, unless its
\* memory has changed since in a way that it need not save.
Outdated(f) == writer' = IF writer = f THEN Nobody ELSE writer

Goto(c, l) == pc' = [pc EXCEPT ![c] = l]

\* bf.mu, exclusive; Contains and ContainsBatch share it and change nothing.
MuFree(f) == \A c \in Callers : Uses[c] = f => pc[c] \notin {"saving", "deleting"}

Init == /\ bits = [f \in Filters |-> {}]
        /\ itemCount = [f \in Filters |-> 0]
        /\ closed = [f \in Filters |-> FALSE]
        /\ storeErrors = [f \in Filters |-> FALSE]
        /\ pc = [c \in Callers |-> "idle"]
        /\ tries = [c \in Callers |-> 0]
        /\ stored \in Previous \cup {Nothing}
        /\ late = {}
        /\ members = [f \in Filters |-> {}]
        /\ writer = Nobody

-----------------------------------------------------------------------------
(* Calls                                                                   *)

\* The checks before the lock: a filter closed after them does not stop a call.
Call(c) ==
    /\ pc[c] = "idle"
    /\ ~closed[Uses[c]]
    /\ Goto(c, "waiting")
    /\ UNCHANGED <<memory, closed, storeErrors, tries, store>>

HasLock(c) == pc[c] = "waiting" /\ MuFree(Uses[c])

\* The context is done once the lock is held.
Cancelled(c) ==
    /\ "Cancel" \in Faults
    /\ HasLock(c)
    /\ Goto(c, "idle")
    /\ UNCHANGED <<memory, closed, storeErrors, tries, store>>

First(s, n) == {s[k] : k \in 1..n}

\* Faulty variant: an item whose first bit is taken is thought to be in.
PutNew(f, s, n) ==
    /\ bits' = [bits EXCEPT ![f] = @ \cup
                    UNION {Positions[i] : i \in {j \in First(s, n) : Positions[j] \cap @ = {}}}]
    /\ itemCount' = [itemCount EXCEPT ![f] = @ + n]
    /\ members' = [members EXCEPT ![f] = @ \cup First(s, n)]

\* The bits of the first n items of s are set, and n items counted; an item that
\* is in already counts again.
Put(f, s, n) ==
    /\ bits' = [bits EXCEPT ![f] = @ \cup UNION {Positions[i] : i \in First(s, n)}]
    /\ itemCount' = [itemCount EXCEPT ![f] = @ + n]
    /\ members' = [members EXCEPT ![f] = @ \cup First(s, n)]

Room(f) == MaxItems - itemCount[f]

\* At capacity Add returns ErrCapacityExceeded.
Add(c) ==
    LET f == Uses[c] IN
    /\ HasLock(c)
    /\ \/ /\ Room(f) > 0
          /\ \E i \in Items : Put(f, <<i>>, 1)
          /\ Goto(c, "saving")
       \/ /\ Room(f) = 0
          /\ Goto(c, "idle")
          /\ UNCHANGED memory
    /\ UNCHANGED <<closed, storeErrors, tries, store>>

\* Faulty variant: capacity is checked once, before the loop.
FittingAtStart(f, s) == IF Room(f) > 0 THEN Len(s) ELSE 0

\* At capacity the loop of AddBatch breaks.
Fitting(f, s) == IF Room(f) < Len(s) THEN Room(f) ELSE Len(s)

\* The items that fit are added, the others dropped; either way it returns nil.
AddBatch(c) ==
    LET f == Uses[c] IN
    /\ HasLock(c)
    /\ \E s \in Batches :
          /\ Put(f, s, Fitting(f, s))
          /\ IF Fitting(f, s) > 0 THEN Goto(c, "saving") ELSE Goto(c, "idle")
    /\ UNCHANGED <<closed, storeErrors, tries, store>>

\* The context is done at one of the checks of the loop: AddBatch returns with
\* the items so far in memory and no save.
AddBatchCancelled(c) ==
    LET f == Uses[c] IN
    /\ "Cancel" \in Faults
    /\ HasLock(c)
    /\ \E s \in Batches, n \in 1..MaxItems :
          /\ n < Len(s) /\ n <= Room(f) /\ n % CheckEvery = 0
          /\ Put(f, s, n)
    /\ Outdated(f)
    /\ Goto(c, "idle")
    /\ UNCHANGED <<closed, storeErrors, tries, stored, late>>

Clear(c) ==
    LET f == Uses[c] IN
    /\ HasLock(c)
    /\ bits' = [bits EXCEPT ![f] = {}]
    /\ itemCount' = [itemCount EXCEPT ![f] = 0]
    /\ members' = [members EXCEPT ![f] = {}]
    /\ Goto(c, "deleting")
    /\ UNCHANGED <<closed, storeErrors, tries, store>>

-----------------------------------------------------------------------------
(* The store                                                               *)

\* saveToStore and serializeState: the whole filter.
Snapshot(f) == [format |-> "enhanced", bits |-> bits[f], count |-> itemCount[f]]

\* A request of f takes effect.
Apply(f, content) == stored' = content /\ writer' = f /\ UNCHANGED late

\* A request whose answer is an error: without effect, applied, or applied later.
Unanswered(f, content) ==
    \/ "Fail" \in Faults /\ UNCHANGED store
    \/ "Fail" \in Faults /\ Apply(f, content)
    \/ /\ "Late" \in Faults
       /\ Cardinality(late) < MaxLate
       /\ late' = late \cup {content}
       /\ UNCHANGED <<stored, writer>>

\* The request has its effect and its answer.
Answered(c, content) ==
    /\ Apply(Uses[c], content)
    /\ Goto(c, "idle")
    /\ tries' = [tries EXCEPT ![c] = 0]
    /\ UNCHANGED <<memory, closed, storeErrors>>

SaveSucceeds(c) == pc[c] = "saving" /\ Answered(c, Snapshot(Uses[c]))

\* Faulty variant: the error is logged and not counted.
GiveUpUncounted(c) ==
    /\ Goto(c, "idle")
    /\ tries' = [tries EXCEPT ![c] = 0]
    /\ UNCHANGED <<memory, storeErrors>>

\* The failure is counted; Add and AddBatch return nil all the same, Clear an
\* error.
GiveUp(c) ==
    /\ storeErrors' = [storeErrors EXCEPT ![Uses[c]] = TRUE]
    /\ Goto(c, "idle")
    /\ tries' = [tries EXCEPT ![c] = 0]
    /\ UNCHANGED memory

\* Faulty variant: the last attempt is followed by the first.
TryForEver(c) == /\ tries' = [tries EXCEPT ![c] = (@ + 1) % MaxRetryAttempts]
                 /\ UNCHANGED <<memory, storeErrors, pc>>

\* After a failed attempt: another one, after a delay with mu held.
TryAgain(c) ==
    \/ /\ tries[c] + 1 < MaxRetryAttempts
       /\ tries' = [tries EXCEPT ![c] = @ + 1]
       /\ UNCHANGED <<memory, storeErrors, pc>>
    \/ /\ tries[c] + 1 >= MaxRetryAttempts
       /\ GiveUp(c)

SaveFails(c) ==
    /\ pc[c] = "saving"
    /\ Unanswered(Uses[c], Snapshot(Uses[c]))
    /\ TryAgain(c)
    /\ UNCHANGED <<closed>>

\* The context is done before an attempt or during a delay.
SaveCancelled(c) ==
    /\ "Cancel" \in Faults
    /\ pc[c] = "saving"
    /\ GiveUp(c)
    /\ UNCHANGED <<closed, store>>

DeleteSucceeds(c) == pc[c] = "deleting" /\ Answered(c, Nothing)

\* Clear does not try again.
DeleteFails(c) ==
    /\ pc[c] = "deleting"
    /\ Unanswered(Uses[c], Nothing)
    /\ GiveUp(c)
    /\ UNCHANGED <<closed>>

\* A request whose caller has its error is applied after all.
Arrive ==
    /\ \E content \in late : stored' = content /\ late' = late \ {content}
    /\ writer' = Nobody
    /\ UNCHANGED <<memory, closed, storeErrors, pc, tries>>

\* The ttl of the key runs out.
Expire ==
    /\ "Expire" \in Faults
    /\ stored # Nothing
    /\ stored' = Nothing
    /\ writer' = Nobody
    /\ UNCHANGED <<memory, closed, storeErrors, pc, tries, late>>

-----------------------------------------------------------------------------
(* Instances                                                               *)

\* Calls that have passed the check go on.
Close(f) ==
    /\ ~closed[f]
    /\ closed' = [closed EXCEPT ![f] = TRUE]
    /\ UNCHANGED <<memory, storeErrors, pc, tries, store>>

\* What deserializeState accepts.  The bit set of serializeState is a []byte,
\* which is a string in JSON, and the assertion wants an array.  An object with
\* an array of Booleans never gets to deserializeLegacyState, and bytesToBitset
\* takes each of its elements for a byte, finds no number, and sets no bit.
Accepts(content)     == content.format = "legacy"
Deserialize(content) == [bits |-> {}, count |-> content.count]

\* loadFromStoreWithRetry in NewBloomFilter: if no attempt succeeds the filter
\* starts empty.
Load(f) ==
    LET Start(b, n) == /\ bits' = [bits EXCEPT ![f] = b]
                       /\ itemCount' = [itemCount EXCEPT ![f] = n]
    IN  \/ /\ Accepts(stored)
           /\ Start(Deserialize(stored).bits, Deserialize(stored).count)
        \/ /\ ~Accepts(stored) \/ "Fail" \in Faults
           /\ Start({}, 0)

\* The process ends, its calls with it, and a new one makes the filter again.
Restart(f) ==
    /\ "Crash" \in Faults
    /\ Load(f)
    /\ pc' = [c \in Callers |-> IF Uses[c] = f THEN "idle" ELSE pc[c]]
    /\ tries' = [c \in Callers |-> IF Uses[c] = f THEN 0 ELSE tries[c]]
    /\ closed' = [closed EXCEPT ![f] = FALSE]
    /\ storeErrors' = [storeErrors EXCEPT ![f] = FALSE]
    /\ members' = [members EXCEPT ![f] = {}]
    /\ Outdated(f)
    /\ UNCHANGED <<stored, late>>

-----------------------------------------------------------------------------
Enter(c) == Cancelled(c) \/ Add(c) \/ AddBatch(c) \/ AddBatchCancelled(c) \/ Clear(c)

StoreStep(c) == \/ SaveSucceeds(c) \/ SaveFails(c) \/ SaveCancelled(c)
                \/ DeleteSucceeds(c) \/ DeleteFails(c)

Next == \/ \E c \in Callers : Call(c) \/ Enter(c) \/ StoreStep(c)
        \/ \E f \in Filters : Close(f) \/ Restart(f)
        \/ Arrive \/ Expire

Spec == Init /\ [][Next]_vars

\* The store answers, at the latest with the context; sync.RWMutex starves no
\* writer.
Fairness == \A c \in Callers : WF_vars(StoreStep(c)) /\ SF_vars(Enter(c))

FairSpec == Spec /\ Fairness

-----------------------------------------------------------------------------
(* Properties                                                              *)

\* Every variable holds a value of its type.
TypeOK == /\ bits \in [Filters -> SUBSET Bits]
          /\ itemCount \in [Filters -> Nat]
          /\ closed \in [Filters -> BOOLEAN]
          /\ storeErrors \in [Filters -> BOOLEAN]
          /\ pc \in [Callers -> {"idle", "waiting", "saving", "deleting"}]
          /\ tries \in [Callers -> 0..(MaxRetryAttempts - 1)]
          /\ stored \in StoredStates
          /\ late \subseteq StoredStates
          /\ members \in [Filters -> SUBSET Items]
          /\ writer \in Filters \cup {Nobody}

\* What Contains and ContainsBatch answer while they hold the lock.
Contains(f, i) == Positions[i] \subseteq bits[f]

\* No false negative as long as the process lives: what Add or AddBatch has put
\* in is found until a Clear, whatever saves fail, calls overlap, batches stop
\* half way or other instances write to the store.
NoFalseNegative == \A f \in Filters : \A i \in members[f] : Contains(f, i)

\* The number of different items never exceeds the count, nor the count the
\* capacity that the bits were sized for (bloom.go:179, :305): the promised rate
\* of false positives rests on it, and a batch may not jump over it.
Capacity == \A f \in Filters : /\ Cardinality(members[f]) <= itemCount[f]
                               /\ itemCount[f] <= MaxItems

\* The metric StoreErrors tells when the store is behind: while it is zero and no
\* batch was cancelled half way, what a filter wrote last is what it holds, or
\* the key is gone and so are the items, unless someone else has written since: a
\* second instance, the ttl, or a request of its own that came in late.
StoreErrorsTell ==
    \A f \in Filters :
        writer = f /\ MuFree(f) /\ ~storeErrors[f] =>
            stored = IF itemCount[f] = 0 THEN Nothing ELSE Snapshot(f)

\* Every call returns as long as the store answers: attempts are limited, and the
\* lock that is held over them is always given back.
CallsReturn == \A c \in Callers : pc[c] # "idle" ~> pc[c] = "idle"

\* A new filter takes over what is in the store (bloom.go:125 "Load existing
\* state if store is provided", README.md:337 "Bloom Filter with Persistence").
RestartRestores ==
    [][\A f \in Filters :
          Restart(f) /\ stored # Nothing => bits'[f] = stored.bits]_vars
=============================================================================
