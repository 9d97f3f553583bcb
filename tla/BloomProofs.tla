----------------------------- MODULE BloomProofs -----------------------------
(***************************************************************************)
(* Proofs about Bloom, for any number of filters that share a key, any     *)
(* callers, items, bit positions, capacity and faults.                     *)
(***************************************************************************)
EXTENDS Bloom, Functions, FiniteSetTheorems, TLAPS

Busy(c) == pc[c] \in {"saving", "deleting"}

\* bf.mu is exclusive.
OneWriter == \A c, d \in Callers : Busy(c) /\ Busy(d) /\ Uses[c] = Uses[d] => c = d

\* What is being written is what the memory calls for.
RightRequest == \A c \in Callers : /\ pc[c] = "saving" => itemCount[Uses[c]] > 0
                                   /\ pc[c] = "deleting" => itemCount[Uses[c]] = 0

\* Cardinality means something.
Finite == \A f \in Filters : IsFiniteSet(members[f])

\* What an older version left fits.
LegacyFits == \A content \in late \cup {stored} :
                 content.format = "legacy" => content.count <= MaxItems

Memory == Finite /\ NoFalseNegative /\ Capacity /\ LegacyFits
Copy   == OneWriter /\ RightRequest /\ StoreErrorsTell

IInv == TypeOK /\ Memory /\ Copy

-----------------------------------------------------------------------------
(* Putting items in                                                        *)

\* n items of a sequence are at most n different ones.
LEMMA FirstCount ==
    ASSUME NEW s \in Seq(Items), NEW n \in Nat, n <= Len(s)
    PROVE  /\ First(s, n) \subseteq Items
           /\ IsFiniteSet(First(s, n))
           /\ Cardinality(First(s, n)) \in Nat
           /\ Cardinality(First(s, n)) <= n
  <1> DEFINE g == [k \in 1..n |-> s[k]]
  <1>1. g \in Surjection(1..n, First(s, n))
    BY DEF First, Surjection
  <1>2. IsFiniteSet(1..n) /\ Cardinality(1..n) = n
    BY FS_Interval
  <1>3. IsFiniteSet(First(s, n)) /\ Cardinality(First(s, n)) <= n
    BY <1>1, <1>2, FS_Surjection
  <1>4. First(s, n) \subseteq Items
    BY DEF First
  <1> QED
    BY <1>3, <1>4, FS_CardinalityType

LEMMA UnionCount ==
    ASSUME NEW S, NEW T, IsFiniteSet(S), IsFiniteSet(T)
    PROVE  /\ IsFiniteSet(S \cup T)
           /\ Cardinality(S \cup T) \in Nat
           /\ Cardinality(S \cup T) <= Cardinality(S) + Cardinality(T)
  <1>1. Cardinality(S \cup T) = Cardinality(S) + Cardinality(T) - Cardinality(S \cap T)
    BY FS_Union
  <1>2. IsFiniteSet(S \cap T)
    BY FS_Subset, S \cap T \in SUBSET S
  <1>3. IsFiniteSet(S \cup T)
    BY FS_Union
  <1> QED
    BY <1>1, <1>2, <1>3, FS_CardinalityType

LEMMA CapacityType == MaxItems \in Nat
  BY ConfigAssumption

LEMMA RoomType ==
    ASSUME TypeOK, Capacity, NEW f \in Filters
    PROVE  Room(f) \in Nat
  BY ConfigAssumption DEF TypeOK, Capacity, Room

LEMMA FittingFits ==
    ASSUME TypeOK, Capacity, NEW f \in Filters, NEW s \in Seq(Items)
    PROVE  /\ Fitting(f, s) \in Nat
           /\ Fitting(f, s) <= Len(s)
           /\ Fitting(f, s) <= Room(f)
  BY RoomType DEF Fitting

\* As long as there is room, items go in without harm.
LEMMA PutKeeps ==
    ASSUME TypeOK, Memory, UNCHANGED <<stored, late>>,
           NEW f \in Filters, NEW s \in Seq(Items),
           NEW n \in Nat, n <= Len(s), n <= Room(f), Put(f, s, n)
    PROVE  /\ bits' \in [Filters -> SUBSET Bits]
           /\ itemCount' \in [Filters -> Nat]
           /\ members' \in [Filters -> SUBSET Items]
           /\ Memory'
           /\ itemCount'[f] = itemCount[f] + n
           /\ \A g \in Filters \ {f} : bits'[g] = bits[g] /\ itemCount'[g] = itemCount[g]
  <1> DEFINE new == First(s, n)
  <1>1. /\ new \subseteq Items
        /\ IsFiniteSet(new)
        /\ Cardinality(new) \in Nat
        /\ Cardinality(new) <= n
    BY FirstCount
  <1> HIDE DEF new
  <1>2. /\ bits' = [bits EXCEPT ![f] = bits[f] \cup UNION {Positions[i] : i \in new}]
        /\ itemCount' = [itemCount EXCEPT ![f] = itemCount[f] + n]
        /\ members' = [members EXCEPT ![f] = members[f] \cup new]
    BY DEF Put, new
  <1>3. UNION {Positions[i] : i \in new} \subseteq Bits
    BY <1>1, ConfigAssumption
  <1>4. /\ bits' \in [Filters -> SUBSET Bits]
        /\ itemCount' \in [Filters -> Nat]
        /\ members' \in [Filters -> SUBSET Items]
        /\ itemCount'[f] = itemCount[f] + n
        /\ \A g \in Filters \ {f} : bits'[g] = bits[g] /\ itemCount'[g] = itemCount[g]
    BY <1>1, <1>2, <1>3 DEF TypeOK
  <1>5. /\ IsFiniteSet(members[f] \cup new)
        /\ Cardinality(members[f] \cup new) \in Nat
        /\ Cardinality(members[f] \cup new) <= Cardinality(members[f]) + Cardinality(new)
    BY <1>1, UnionCount DEF Memory, Finite
  <1>6. Cardinality(members[f]) \in Nat
    BY FS_CardinalityType DEF Memory, Finite
  <1>7. members'[f] = members[f] \cup new /\ \A g \in Filters \ {f} : members'[g] = members[g]
    BY <1>2 DEF TypeOK
  <1>8. Finite'
    BY <1>5, <1>7 DEF Memory, Finite
  <1>9. NoFalseNegative'
    <2>1. bits'[f] = bits[f] \cup UNION {Positions[i] : i \in new}
      BY <1>2 DEF TypeOK
    <2>2. \A i \in members'[f] : Positions[i] \subseteq bits'[f]
      BY <1>7, <2>1 DEF Memory, NoFalseNegative, Contains
    <2> QED
      BY <2>2, <1>4, <1>7 DEF Memory, NoFalseNegative, Contains
  <1>10. Capacity'
    <2>1. Cardinality(members'[f]) <= itemCount'[f] /\ itemCount'[f] <= MaxItems
      BY <1>1, <1>4, <1>5, <1>6, <1>7, ConfigAssumption
         DEF Memory, Capacity, Room, TypeOK
    <2> QED
      BY <2>1, <1>4, <1>7 DEF Memory, Capacity
  <1>11. LegacyFits'
    BY DEF Memory, LegacyFits
  <1> QED
    BY <1>4, <1>8, <1>9, <1>10, <1>11 DEF Memory

-----------------------------------------------------------------------------
(* The lock                                                                *)

\* A caller that has the lock finds nobody writing, and the copy is as it was.
LEMMA AloneInLock ==
    ASSUME NEW c \in Callers, HasLock(c)
    PROVE  \A d \in Callers : Busy(d) => Uses[d] # Uses[c]
  BY DEF HasLock, MuFree, Busy

\* A caller that has the lock changes its filter and goes on to write.
LEMMA StartWriting ==
    ASSUME IInv, NEW c \in Callers, HasLock(c),
           NEW l \in {"saving", "deleting"}, Goto(c, l),
           itemCount' \in [Filters -> Nat],
           IF l = "saving" THEN itemCount'[Uses[c]] > 0 ELSE itemCount'[Uses[c]] = 0,
           \A g \in Filters \ {Uses[c]} : bits'[g] = bits[g] /\ itemCount'[g] = itemCount[g],
           UNCHANGED <<storeErrors, store>>
    PROVE  Copy'
  <1>1. \A d \in Callers : Busy(d) => Uses[d] # Uses[c]
    BY AloneInLock
  <1>2. pc' = [pc EXCEPT ![c] = l] /\ pc \in [Callers -> {"idle", "waiting", "saving", "deleting"}]
    BY DEF Goto, IInv, TypeOK
  <1>3. Uses \in [Callers -> Filters]
    BY ConfigAssumption
  <1>4. OneWriter'
    BY <1>1, <1>2 DEF OneWriter, Busy, IInv, Copy
  <1>5. RightRequest'
    BY <1>1, <1>2, <1>3 DEF RightRequest, Busy, IInv, Copy
  <1>6. StoreErrorsTell'
    <2> SUFFICES ASSUME NEW f \in Filters, writer' = f, MuFree(f)', ~storeErrors'[f]
                 PROVE  stored' = IF itemCount'[f] = 0 THEN Nothing ELSE Snapshot(f)'
      BY DEF StoreErrorsTell
    <2>1. f # Uses[c]
      BY <1>2 DEF MuFree
    <2>2. MuFree(f)
      BY <1>2, <2>1 DEF MuFree
    <2>3. stored = IF itemCount[f] = 0 THEN Nothing ELSE Snapshot(f)
      BY <2>2 DEF IInv, Copy, StoreErrorsTell, store
    <2> QED
      BY <2>1, <2>3 DEF Snapshot, store
  <1> QED
    BY <1>4, <1>5, <1>6 DEF Copy

\* Whoever writes after a step was writing the same before it.
LEMMA LockStays ==
    ASSUME IInv, UNCHANGED itemCount, \A c \in Callers : Busy(c)' => pc'[c] = pc[c]
    PROVE  OneWriter' /\ RightRequest'
  <1>1. \A c \in Callers : Busy(c)' => Busy(c)
    BY DEF Busy
  <1>2. OneWriter'
    BY <1>1 DEF IInv, Copy, OneWriter
  <1>3. RightRequest'
    BY DEF IInv, Copy, RightRequest, Busy
  <1> QED
    BY <1>2, <1>3

LEMMA MemoryStays ==
    ASSUME Memory, UNCHANGED memory, LegacyFits'
    PROVE  Memory'
  BY DEF Memory, memory, Finite, NoFalseNegative, Contains, Capacity

\* A step that touches neither memory nor store, and after which nobody writes
\* who did not, harms nothing.
LEMMA QuietStep ==
    ASSUME IInv, UNCHANGED <<memory, store>>,
           \A f \in Filters : storeErrors[f] => storeErrors'[f],
           \A c \in Callers : Busy(c)' => pc'[c] = pc[c],
           \A f \in Filters : MuFree(f)' => MuFree(f) \/ storeErrors'[f]
    PROVE  Memory' /\ Copy'
  <1>1. LegacyFits'
    BY DEF IInv, Memory, LegacyFits, store
  <1>2. Memory'
    BY <1>1, MemoryStays DEF IInv
  <1>3. OneWriter' /\ RightRequest'
    BY LockStays DEF memory
  <1>4. StoreErrorsTell'
    BY DEF IInv, Copy, StoreErrorsTell, Snapshot, memory, store
  <1> QED
    BY <1>2, <1>3, <1>4 DEF Copy

-----------------------------------------------------------------------------
(* The store                                                               *)

\* What a request puts in the store.
LEMMA RequestType ==
    ASSUME TypeOK
    PROVE  /\ Nothing \in StoredStates /\ Nothing.format # "legacy"
           /\ \A f \in Filters : /\ Snapshot(f) \in StoredStates
                                 /\ Snapshot(f).format # "legacy"
  BY DEF TypeOK, Nothing, Snapshot, StoredStates

\* A request that is applied, lost or delayed leaves the store well typed.
LEMMA UnansweredKeeps ==
    ASSUME TypeOK, Memory, NEW f \in Filters, NEW content \in StoredStates,
           content.format # "legacy", Unanswered(f, content), UNCHANGED memory
    PROVE  /\ stored' \in StoredStates /\ late' \subseteq StoredStates
           /\ writer' \in Filters \cup {Nobody}
           /\ Memory'
           /\ \A g \in Filters \ {f} : writer' = g => writer = g /\ stored' = stored
  <1>1. /\ stored' \in {stored, content}
        /\ late' \in {late, late \cup {content}}
        /\ writer' \in {writer, f}
        /\ writer' # f => stored' = stored /\ writer' = writer
    BY DEF Unanswered, Apply, store
  <1>2. LegacyFits'
    BY <1>1 DEF Memory, LegacyFits
  <1> QED
    BY <1>1, <1>2, MemoryStays DEF TypeOK

LEMMA TryAgainKeeps ==
    ASSUME TypeOK, NEW c \in Callers, TryAgain(c) \/ GiveUp(c)
    PROVE  /\ UNCHANGED memory
           /\ storeErrors' \in [Filters -> BOOLEAN]
           /\ pc' \in [Callers -> {"idle", "waiting", "saving", "deleting"}]
           /\ tries' \in [Callers -> 0..(MaxRetryAttempts - 1)]
           /\ pc' = pc \/ (pc' = [pc EXCEPT ![c] = "idle"] /\ storeErrors'[Uses[c]])
           /\ \A f \in Filters : storeErrors[f] => storeErrors'[f]
  <1>1. CASE GiveUp(c)
    <2>1. tries' \in [Callers -> 0..(MaxRetryAttempts - 1)]
      BY <1>1, ConfigAssumption DEF GiveUp, TypeOK
    <2>2. pc' = [pc EXCEPT ![c] = "idle"]
          /\ pc' \in [Callers -> {"idle", "waiting", "saving", "deleting"}]
      BY <1>1 DEF GiveUp, Goto, TypeOK
    <2>3. /\ storeErrors' \in [Filters -> BOOLEAN]
          /\ storeErrors'[Uses[c]]
          /\ \A f \in Filters : storeErrors[f] => storeErrors'[f]
      BY <1>1, ConfigAssumption, Zenon DEF GiveUp, TypeOK
    <2> QED
      BY <1>1, <2>1, <2>2, <2>3 DEF GiveUp
  <1>2. CASE TryAgain(c) /\ ~GiveUp(c)
    <2>1. /\ tries[c] + 1 < MaxRetryAttempts
          /\ tries' = [tries EXCEPT ![c] = tries[c] + 1]
          /\ UNCHANGED <<memory, storeErrors, pc>>
      BY <1>2 DEF TryAgain
    <2>2. tries' \in [Callers -> 0..(MaxRetryAttempts - 1)]
      BY <2>1, ConfigAssumption DEF TypeOK
    <2> QED
      BY <2>1, <2>2 DEF TypeOK
  <1> QED
    BY <1>1, <1>2

\* A request of c whose answer is an error.
LEMMA ErrorKeeps ==
    ASSUME IInv, NEW c \in Callers, Busy(c), NEW content \in StoredStates,
           content.format # "legacy", Unanswered(Uses[c], content),
           TryAgain(c) \/ GiveUp(c), UNCHANGED closed
    PROVE  IInv'
  <1> DEFINE f == Uses[c]
  <1>0. f \in Filters
    BY ConfigAssumption
  <1>1. /\ UNCHANGED memory
        /\ storeErrors' \in [Filters -> BOOLEAN]
        /\ pc' \in [Callers -> {"idle", "waiting", "saving", "deleting"}]
        /\ tries' \in [Callers -> 0..(MaxRetryAttempts - 1)]
        /\ pc' = pc \/ (pc' = [pc EXCEPT ![c] = "idle"] /\ storeErrors'[f])
        /\ \A g \in Filters : storeErrors[g] => storeErrors'[g]
    BY TryAgainKeeps DEF IInv
  <1>2. /\ stored' \in StoredStates /\ late' \subseteq StoredStates
        /\ writer' \in Filters \cup {Nobody}
        /\ Memory'
        /\ \A g \in Filters \ {f} : writer' = g => writer = g /\ stored' = stored
    BY <1>0, <1>1, UnansweredKeeps DEF IInv
  <1>3. TypeOK'
    BY <1>1, <1>2 DEF IInv, TypeOK, memory
  <1>4. pc \in [Callers -> {"idle", "waiting", "saving", "deleting"}]
    BY DEF IInv, TypeOK
  <1>5. \A d \in Callers : Busy(d)' => pc'[d] = pc[d]
    BY <1>1, <1>4 DEF Busy
  <1>6. OneWriter' /\ RightRequest'
    BY <1>1, <1>5, LockStays DEF memory
  <1>7. StoreErrorsTell'
    <2> SUFFICES ASSUME NEW g \in Filters, writer' = g, MuFree(g)', ~storeErrors'[g]
                 PROVE  stored' = IF itemCount'[g] = 0 THEN Nothing ELSE Snapshot(g)'
      BY DEF StoreErrorsTell
    <2>1. g # f
      <3>1. CASE pc' = pc
        BY <3>1 DEF MuFree, Busy
      <3>2. CASE storeErrors'[f]
        BY <3>2
      <3> QED
        BY <3>1, <3>2, <1>1
    <2>2. MuFree(g)
      BY <1>1, <1>4, <2>1 DEF MuFree
    <2>3. writer = g /\ stored' = stored
      BY <1>2, <2>1
    <2>4. ~storeErrors[g]
      BY <1>1
    <2>5. stored = IF itemCount[g] = 0 THEN Nothing ELSE Snapshot(g)
      BY <2>2, <2>3, <2>4 DEF IInv, Copy, StoreErrorsTell
    <2> QED
      BY <1>1, <2>3, <2>5 DEF Snapshot, memory
  <1> QED
    BY <1>2, <1>3, <1>6, <1>7 DEF IInv, Copy

\* A request of c that is applied and answered.
LEMMA AnswerKeeps ==
    ASSUME IInv, NEW c \in Callers, Busy(c), NEW content \in StoredStates,
           content.format # "legacy", Answered(c, content),
           content = IF itemCount[Uses[c]] = 0 THEN Nothing ELSE Snapshot(Uses[c])
    PROVE  IInv'
  <1> DEFINE f == Uses[c]
  <1>0. f \in Filters
    BY ConfigAssumption
  <1>1. /\ stored' = content /\ writer' = f /\ UNCHANGED late
        /\ pc' = [pc EXCEPT ![c] = "idle"]
        /\ tries' = [tries EXCEPT ![c] = 0]
        /\ UNCHANGED <<memory, closed, storeErrors>>
    BY DEF Answered, Apply, Goto
  <1>2. pc \in [Callers -> {"idle", "waiting", "saving", "deleting"}]
    BY DEF IInv, TypeOK
  <1>3. TypeOK'
    <2>1. tries' \in [Callers -> 0..(MaxRetryAttempts - 1)]
      BY <1>1, ConfigAssumption DEF IInv, TypeOK
    <2> QED
      BY <1>0, <1>1, <1>2, <2>1 DEF IInv, TypeOK, memory
  <1>4. LegacyFits'
    BY <1>1 DEF IInv, Memory, LegacyFits
  <1>5. Memory'
    BY <1>1, <1>4, MemoryStays DEF IInv
  <1>6. \A d \in Callers : Busy(d)' => pc'[d] = pc[d]
    BY <1>1, <1>2 DEF Busy
  <1>7. OneWriter' /\ RightRequest'
    BY <1>1, <1>6, LockStays DEF memory
  <1>8. StoreErrorsTell'
    BY <1>0, <1>1 DEF StoreErrorsTell, Snapshot, memory
  <1> QED
    BY <1>3, <1>5, <1>7, <1>8 DEF IInv, Copy

-----------------------------------------------------------------------------
(* The invariant                                                           *)

LEMMA InitInv == Init => IInv
  <1> SUFFICES ASSUME Init PROVE IInv
    OBVIOUS
  <1>1. stored \in StoredStates /\ (stored.format = "legacy" => stored.count <= MaxItems)
    BY ConfigAssumption DEF Init, Nothing, StoredStates
  <1>2. TypeOK
    BY <1>1, ConfigAssumption DEF Init, TypeOK
  <1>3. Finite /\ Capacity
    <2>1. \A f \in Filters : members[f] = {} /\ itemCount[f] = 0
      BY DEF Init
    <2>2. IsFiniteSet({}) /\ Cardinality({}) = 0
      BY FS_EmptySet
    <2>3. \A f \in Filters : IsFiniteSet(members[f]) /\ Cardinality(members[f]) = 0
      BY <2>1, <2>2, Zenon
    <2> QED
      BY <2>1, <2>3, ConfigAssumption DEF Finite, Capacity
  <1>4. NoFalseNegative /\ LegacyFits
    BY <1>1 DEF Init, NoFalseNegative, LegacyFits
  <1>5. OneWriter /\ RightRequest
    BY DEF Init, OneWriter, RightRequest, Busy
  <1>6. StoreErrorsTell
    BY ConfigAssumption DEF Init, StoreErrorsTell
  <1> QED
    BY <1>2, <1>3, <1>4, <1>5, <1>6 DEF IInv, Memory, Copy

LEMMA EnterInv ==
    ASSUME IInv, NEW c \in Callers, Enter(c)
    PROVE  IInv'
  <1> DEFINE f == Uses[c]
  <1>0. f \in Filters
    BY ConfigAssumption
  <1>1. pc \in [Callers -> {"idle", "waiting", "saving", "deleting"}]
    BY DEF IInv, TypeOK
  <1>2. HasLock(c) /\ \A d \in Callers : Busy(d) => Uses[d] # f
    BY AloneInLock DEF Enter, Cancelled, Add, AddBatch, AddBatchCancelled, Clear
  <1>3. ASSUME Goto(c, "idle")
        PROVE  /\ pc' \in [Callers -> {"idle", "waiting", "saving", "deleting"}]
               /\ \A d \in Callers : Busy(d)' => pc'[d] = pc[d]
               /\ \A g \in Filters : MuFree(g)' => MuFree(g)
    <2>1. pc' = [pc EXCEPT ![c] = "idle"]
      BY <1>3 DEF Goto
    <2>2. pc' \in [Callers -> {"idle", "waiting", "saving", "deleting"}]
          /\ \A d \in Callers : Busy(d)' => pc'[d] = pc[d]
      BY <2>1, <1>1 DEF Busy
    <2>3. \A g \in Filters : MuFree(g)' => MuFree(g)
      BY <2>1, <1>1, <1>2 DEF MuFree, HasLock
    <2> QED
      BY <2>2, <2>3
  <1>4. ASSUME Goto(c, "idle"), UNCHANGED <<memory, closed, storeErrors, tries, store>>
        PROVE  IInv'
    <2>1. TypeOK'
      BY <1>3, <1>4 DEF IInv, TypeOK, memory, store
    <2>2. Memory' /\ Copy'
      BY <1>3, <1>4, QuietStep
    <2> QED
      BY <2>1, <2>2 DEF IInv
  <1>5. ASSUME NEW s \in Seq(Items), NEW n \in Nat \ {0}, n <= Len(s), n <= Room(f),
               Put(f, s, n), Goto(c, "saving"),
               UNCHANGED <<closed, storeErrors, tries, store>>
        PROVE  IInv'
    <2>1. /\ bits' \in [Filters -> SUBSET Bits]
          /\ itemCount' \in [Filters -> Nat]
          /\ members' \in [Filters -> SUBSET Items]
          /\ Memory'
          /\ itemCount'[f] = itemCount[f] + n
          /\ \A g \in Filters \ {f} : bits'[g] = bits[g] /\ itemCount'[g] = itemCount[g]
      BY <1>0, <1>5, PutKeeps DEF IInv, store
    <2>2. itemCount'[f] > 0
      BY <1>0, <2>1 DEF IInv, TypeOK
    <2>3. TypeOK'
      BY <1>1, <1>5, <2>1 DEF IInv, TypeOK, Goto, store
    <2>4. Copy'
      BY <1>2, <1>5, <2>1, <2>2, StartWriting
    <2> QED
      BY <2>1, <2>3, <2>4 DEF IInv
  <1>6. CASE Cancelled(c)
    BY <1>4, <1>6 DEF Cancelled
  <1>7. CASE Add(c)
    <2>1. CASE Room(f) = 0 /\ Goto(c, "idle") /\ UNCHANGED memory
      BY <1>4, <1>7, <2>1 DEF Add
    <2>2. CASE Room(f) > 0 /\ (\E i \in Items : Put(f, <<i>>, 1)) /\ Goto(c, "saving")
      <3>1. PICK i \in Items : Put(f, <<i>>, 1)
        BY <2>2
      <3>2. <<i>> \in Seq(Items) /\ Len(<<i>>) = 1
        OBVIOUS
      <3>3. Room(f) \in Nat
        BY <1>0, RoomType DEF IInv, Memory
      <3>4. 1 <= Len(<<i>>) /\ 1 <= Room(f) /\ 1 \in Nat \ {0}
        BY <2>2, <3>2, <3>3
      <3>5. UNCHANGED <<closed, storeErrors, tries, store>>
        BY <1>7 DEF Add
      <3> QED
        BY <1>5, <2>2, <3>1, <3>2, <3>4, <3>5
    <2> QED
      BY <1>7, <2>1, <2>2 DEF Add
  <1>8. CASE AddBatch(c)
    <2>1. PICK s \in Batches : /\ Put(f, s, Fitting(f, s))
                               /\ IF Fitting(f, s) > 0 THEN Goto(c, "saving")
                                                       ELSE Goto(c, "idle")
      BY <1>8 DEF AddBatch
    <2>2. s \in Seq(Items)
      BY ConfigAssumption
    <2>3. Fitting(f, s) \in Nat /\ Fitting(f, s) <= Len(s) /\ Fitting(f, s) <= Room(f)
      BY <1>0, <2>2, FittingFits DEF IInv, Memory
    <2>4. CASE Fitting(f, s) > 0
      BY <1>5, <1>8, <2>1, <2>2, <2>3, <2>4 DEF AddBatch
    <2>5. CASE Fitting(f, s) = 0
      <3>1. First(s, 0) = {}
        BY DEF First
      <3>2. UNCHANGED memory
        BY <1>0, <2>1, <2>5, <3>1 DEF Put, memory, IInv, TypeOK
      <3> QED
        BY <1>4, <1>8, <2>1, <2>5, <3>2 DEF AddBatch
    <2> QED
      BY <2>3, <2>4, <2>5
  <1>9. CASE AddBatchCancelled(c)
    <2>1. PICK s \in Batches, n \in 1..MaxItems : n < Len(s) /\ n <= Room(f) /\ Put(f, s, n)
      BY <1>9 DEF AddBatchCancelled
    <2>2. s \in Seq(Items) /\ n \in Nat /\ n <= Len(s)
      BY <2>1, ConfigAssumption
    <2>3. /\ bits' \in [Filters -> SUBSET Bits]
          /\ itemCount' \in [Filters -> Nat]
          /\ members' \in [Filters -> SUBSET Items]
          /\ Memory'
          /\ \A g \in Filters \ {f} : bits'[g] = bits[g] /\ itemCount'[g] = itemCount[g]
      BY <1>0, <1>9, <2>1, <2>2, PutKeeps DEF IInv, AddBatchCancelled
    <2>4. /\ Goto(c, "idle") /\ UNCHANGED <<closed, storeErrors, tries, stored, late>>
          /\ writer' = IF writer = f THEN Nobody ELSE writer
      BY <1>9 DEF AddBatchCancelled, Outdated
    <2>5. TypeOK'
      BY <1>3, <2>3, <2>4 DEF IInv, TypeOK
    <2>6. pc' = [pc EXCEPT ![c] = "idle"]
      BY <2>4 DEF Goto
    <2>7. OneWriter'
      BY <1>1, <2>6 DEF OneWriter, Busy, IInv, Copy
    <2>8. RightRequest'
      BY <1>1, <1>2, <2>3, <2>6, ConfigAssumption DEF RightRequest, Busy, IInv, Copy
    <2>9. StoreErrorsTell'
      <3> SUFFICES ASSUME NEW g \in Filters, writer' = g, MuFree(g)', ~storeErrors'[g]
                   PROVE  stored' = IF itemCount'[g] = 0 THEN Nothing ELSE Snapshot(g)'
        BY DEF StoreErrorsTell
      <3>1. g # f /\ writer = g
        BY <2>4, ConfigAssumption
      <3>2. stored = IF itemCount[g] = 0 THEN Nothing ELSE Snapshot(g)
        BY <1>3, <2>4, <3>1 DEF IInv, Copy, StoreErrorsTell
      <3> QED
        BY <2>3, <2>4, <3>1, <3>2 DEF Snapshot
    <2> QED
      BY <2>3, <2>5, <2>7, <2>8, <2>9 DEF IInv, Copy
  <1>10. CASE Clear(c)
    <2>1. /\ bits' = [bits EXCEPT ![f] = {}]
          /\ itemCount' = [itemCount EXCEPT ![f] = 0]
          /\ members' = [members EXCEPT ![f] = {}]
          /\ Goto(c, "deleting")
          /\ UNCHANGED <<closed, storeErrors, tries, store>>
      BY <1>10 DEF Clear
    <2>2. TypeOK'
      BY <1>1, <2>1 DEF IInv, TypeOK, Goto, store
    <2>3. /\ itemCount' \in [Filters -> Nat] /\ itemCount'[f] = 0 /\ members'[f] = {}
          /\ \A g \in Filters \ {f} : /\ bits'[g] = bits[g]
                                      /\ itemCount'[g] = itemCount[g]
                                      /\ members'[g] = members[g]
      BY <1>0, <2>1 DEF IInv, TypeOK
    <2>4. Finite' /\ Capacity'
      <3>1. IsFiniteSet(members'[f]) /\ Cardinality(members'[f]) = 0
        BY <2>3, FS_EmptySet, Zenon
      <3>2. \A g \in Filters : /\ IsFiniteSet(members'[g])
                              /\ Cardinality(members'[g]) <= itemCount'[g]
                              /\ itemCount'[g] <= MaxItems
        <4> SUFFICES ASSUME NEW g \in Filters
                     PROVE  /\ IsFiniteSet(members'[g])
                            /\ Cardinality(members'[g]) <= itemCount'[g]
                            /\ itemCount'[g] <= MaxItems
          OBVIOUS
        <4>1. CASE g = f
          BY <2>3, <3>1, <4>1, CapacityType
        <4>2. CASE g # f
          BY <2>3, <4>2 DEF IInv, Memory, Finite, Capacity
        <4> QED
          BY <4>1, <4>2
      <3> QED
        BY <3>2 DEF Finite, Capacity
    <2>5. NoFalseNegative' /\ LegacyFits'
      BY <2>1, <2>3 DEF IInv, Memory, NoFalseNegative, Contains, LegacyFits, store
    <2>6. Copy'
      BY <1>2, <2>1, <2>3, StartWriting
    <2> QED
      BY <2>2, <2>4, <2>5, <2>6 DEF IInv, Memory
  <1> QED
    BY <1>6, <1>7, <1>8, <1>9, <1>10 DEF Enter

LEMMA StoreStepInv ==
    ASSUME IInv, NEW c \in Callers, StoreStep(c)
    PROVE  IInv'
  <1> DEFINE f == Uses[c]
  <1>0. f \in Filters
    BY ConfigAssumption
  <1>1. /\ Nothing \in StoredStates /\ Nothing.format # "legacy"
        /\ Snapshot(f) \in StoredStates /\ Snapshot(f).format # "legacy"
    BY <1>0, RequestType DEF IInv
  <1>2. CASE SaveSucceeds(c)
    <2>1. Busy(c) /\ itemCount[f] > 0 /\ itemCount[f] \in Nat
      BY <1>0, <1>2 DEF SaveSucceeds, Busy, IInv, Copy, RightRequest, TypeOK
    <2> QED
      BY <1>1, <1>2, <2>1, AnswerKeeps DEF SaveSucceeds
  <1>3. CASE SaveFails(c)
    BY <1>1, <1>3, ErrorKeeps DEF SaveFails, Busy
  <1>4. CASE SaveCancelled(c)
    <2>1. GiveUp(c) /\ UNCHANGED <<closed, store>>
      BY <1>4 DEF SaveCancelled
    <2>2. /\ UNCHANGED memory
          /\ storeErrors' \in [Filters -> BOOLEAN]
          /\ pc' \in [Callers -> {"idle", "waiting", "saving", "deleting"}]
          /\ tries' \in [Callers -> 0..(MaxRetryAttempts - 1)]
          /\ pc' = pc \/ (pc' = [pc EXCEPT ![c] = "idle"] /\ storeErrors'[f])
          /\ \A g \in Filters : storeErrors[g] => storeErrors'[g]
      BY <2>1, TryAgainKeeps DEF IInv
    <2>3. pc \in [Callers -> {"idle", "waiting", "saving", "deleting"}]
      BY DEF IInv, TypeOK
    <2>4. TypeOK'
      BY <2>1, <2>2 DEF IInv, TypeOK, memory, store
    <2>5. \A d \in Callers : Busy(d)' => pc'[d] = pc[d]
      BY <2>2, <2>3 DEF Busy
    <2>6. \A g \in Filters : MuFree(g)' => MuFree(g) \/ storeErrors'[g]
      BY <2>2, <2>3 DEF MuFree
    <2> QED
      BY <2>1, <2>2, <2>4, <2>5, <2>6, QuietStep DEF IInv
  <1>5. CASE DeleteSucceeds(c)
    <2>1. Busy(c) /\ itemCount[f] = 0
      BY <1>5 DEF DeleteSucceeds, Busy, IInv, Copy, RightRequest
    <2> QED
      BY <1>1, <1>5, <2>1, AnswerKeeps DEF DeleteSucceeds
  <1>6. CASE DeleteFails(c)
    BY <1>1, <1>6, ErrorKeeps DEF DeleteFails, Busy
  <1> QED
    BY <1>2, <1>3, <1>4, <1>5, <1>6 DEF StoreStep

LEMMA StoreInv == ASSUME IInv, Arrive \/ Expire PROVE IInv'
  <1>1. /\ stored' \in late \cup {Nothing} /\ late' \subseteq late
        /\ writer' = Nobody
        /\ UNCHANGED <<memory, closed, storeErrors, pc, tries>>
    BY DEF Arrive, Expire
  <1>2. Nothing \in StoredStates /\ Nothing.format # "legacy"
    BY RequestType DEF IInv
  <1>3. TypeOK'
    BY <1>1, <1>2 DEF IInv, TypeOK, memory
  <1>4. LegacyFits'
    BY <1>1, <1>2 DEF IInv, Memory, LegacyFits
  <1>5. Memory'
    BY <1>1, <1>4, MemoryStays DEF IInv
  <1>6. OneWriter' /\ RightRequest'
    BY <1>1, LockStays DEF memory
  <1>7. StoreErrorsTell'
    BY <1>1, ConfigAssumption DEF StoreErrorsTell
  <1> QED
    BY <1>3, <1>5, <1>6, <1>7 DEF IInv, Copy

LEMMA RestartInv == ASSUME IInv, NEW f \in Filters, Restart(f) PROVE IInv'
  <1>1. \E n \in 0..MaxItems : /\ bits' = [bits EXCEPT ![f] = {}]
                               /\ itemCount' = [itemCount EXCEPT ![f] = n]
    <2>1. stored.format = "legacy" => stored.count \in 0..MaxItems
      <3>1. /\ stored.count \in Nat
            /\ stored.format = "legacy" => stored.count <= MaxItems
        BY DEF IInv, TypeOK, StoredStates, Memory, LegacyFits
      <3> QED
        BY <3>1, CapacityType
    <2>2. 0 \in 0..MaxItems
      BY CapacityType
    <2> QED
      BY <2>1, <2>2 DEF Restart, Load, Accepts, Deserialize
  <1>2. PICK n \in 0..MaxItems : /\ bits' = [bits EXCEPT ![f] = {}]
                                 /\ itemCount' = [itemCount EXCEPT ![f] = n]
    BY <1>1
  <1>3. /\ pc' = [c \in Callers |-> IF Uses[c] = f THEN "idle" ELSE pc[c]]
        /\ tries' = [c \in Callers |-> IF Uses[c] = f THEN 0 ELSE tries[c]]
        /\ closed' = [closed EXCEPT ![f] = FALSE]
        /\ storeErrors' = [storeErrors EXCEPT ![f] = FALSE]
        /\ members' = [members EXCEPT ![f] = {}]
        /\ writer' = IF writer = f THEN Nobody ELSE writer
        /\ UNCHANGED <<stored, late>>
    BY DEF Restart, Outdated
  <1>4. /\ bits'[f] = {} /\ itemCount'[f] = n /\ members'[f] = {}
        /\ \A g \in Filters \ {f} : /\ bits'[g] = bits[g]
                                    /\ itemCount'[g] = itemCount[g]
                                    /\ members'[g] = members[g]
    BY <1>2, <1>3 DEF IInv, TypeOK
  <1>5. closed' \in [Filters -> BOOLEAN] /\ storeErrors' \in [Filters -> BOOLEAN]
    BY <1>3, Zenon DEF IInv, TypeOK
  <1>6. bits' \in [Filters -> SUBSET Bits] /\ members' \in [Filters -> SUBSET Items]
    BY <1>2, <1>3 DEF IInv, TypeOK
  <1>7. itemCount' \in [Filters -> Nat]
    BY <1>2, ConfigAssumption DEF IInv, TypeOK
  <1>8. /\ pc' \in [Callers -> {"idle", "waiting", "saving", "deleting"}]
        /\ tries' \in [Callers -> 0..(MaxRetryAttempts - 1)]
    BY <1>3, ConfigAssumption DEF IInv, TypeOK
  <1>9. TypeOK'
    BY <1>3, <1>5, <1>6, <1>7, <1>8 DEF IInv, TypeOK
  <1>10. Finite' /\ Capacity'
    <2>1. IsFiniteSet(members'[f]) /\ Cardinality(members'[f]) = 0
      BY <1>4, FS_EmptySet, Zenon
    <2>2. \A g \in Filters : /\ IsFiniteSet(members'[g])
                            /\ Cardinality(members'[g]) <= itemCount'[g]
                            /\ itemCount'[g] <= MaxItems
      <3> SUFFICES ASSUME NEW g \in Filters
                   PROVE  /\ IsFiniteSet(members'[g])
                          /\ Cardinality(members'[g]) <= itemCount'[g]
                          /\ itemCount'[g] <= MaxItems
        OBVIOUS
      <3>1. CASE g = f
        BY <1>2, <1>4, <2>1, <3>1, CapacityType
      <3>2. CASE g # f
        BY <1>4, <3>2 DEF IInv, Memory, Finite, Capacity
      <3> QED
        BY <3>1, <3>2
    <2> QED
      BY <2>2 DEF Finite, Capacity
  <1>11. NoFalseNegative' /\ LegacyFits'
    BY <1>3, <1>4 DEF IInv, Memory, NoFalseNegative, Contains, LegacyFits
  <1>12. OneWriter' /\ RightRequest'
    BY <1>3, <1>4, ConfigAssumption DEF IInv, Copy, OneWriter, RightRequest, Busy
  <1>13. StoreErrorsTell'
    <2> SUFFICES ASSUME NEW g \in Filters, writer' = g, MuFree(g)', ~storeErrors'[g]
                 PROVE  stored' = IF itemCount'[g] = 0 THEN Nothing ELSE Snapshot(g)'
      BY DEF StoreErrorsTell
    <2>1. g # f /\ writer = g
      BY <1>3, ConfigAssumption
    <2>2. MuFree(g)
      BY <1>3, <2>1 DEF MuFree
    <2>3. storeErrors'[g] = storeErrors[g]
      BY <1>3, <2>1 DEF IInv, TypeOK
    <2>4. stored = IF itemCount[g] = 0 THEN Nothing ELSE Snapshot(g)
      BY <2>1, <2>2, <2>3 DEF IInv, Copy, StoreErrorsTell
    <2> QED
      BY <1>3, <1>4, <2>1, <2>4 DEF Snapshot
  <1> QED
    BY <1>9, <1>10, <1>11, <1>12, <1>13 DEF IInv, Memory, Copy

LEMMA NextInv == ASSUME IInv, [Next]_vars PROVE IInv'
  <1>1. ASSUME NEW c \in Callers, Call(c) PROVE IInv'
    <2>1. /\ pc' = [pc EXCEPT ![c] = "waiting"] /\ pc[c] = "idle"
          /\ UNCHANGED <<memory, closed, storeErrors, tries, store>>
      BY <1>1 DEF Call, Goto
    <2>2. TypeOK'
      BY <2>1 DEF IInv, TypeOK, memory, store
    <2>3. \A d \in Callers : Busy(d)' => pc'[d] = pc[d]
      BY <2>1 DEF Busy, IInv, TypeOK
    <2>4. \A f \in Filters : MuFree(f)' => MuFree(f)
      BY <2>1 DEF MuFree, IInv, TypeOK
    <2> QED
      BY <2>1, <2>2, <2>3, <2>4, QuietStep DEF IInv
  <1>2. ASSUME NEW f \in Filters, Close(f) PROVE IInv'
    <2>1. /\ closed' \in [Filters -> BOOLEAN]
          /\ UNCHANGED <<memory, storeErrors, pc, tries, store>>
      BY <1>2, Zenon DEF Close, IInv, TypeOK
    <2>2. TypeOK'
      BY <2>1 DEF IInv, TypeOK, memory, store
    <2> QED
      BY <2>1, <2>2, QuietStep DEF IInv, MuFree
  <1>3. CASE UNCHANGED vars
    <2>1. TypeOK'
      BY <1>3 DEF vars, memory, store, IInv, TypeOK
    <2> QED
      BY <1>3, <2>1, QuietStep DEF IInv, MuFree, vars
  <1> QED
    BY <1>1, <1>2, <1>3, EnterInv, StoreStepInv, StoreInv, RestartInv DEF Next

LEMMA Invariant == Spec => []IInv
  <1>1. Init => IInv
    BY InitInv
  <1>2. IInv /\ [Next]_vars => IInv'
    BY NextInv
  <1> QED
    BY <1>1, <1>2, PTL DEF Spec

-----------------------------------------------------------------------------
(* The theorems                                                            *)

\* Every reachable state of the filters and their store is well typed.
THEOREM TypeCorrect == Spec => []TypeOK
  BY Invariant, PTL DEF IInv

\* What Add or AddBatch has put in is found until a Clear, whatever the store
\* does and whatever items share bits.
THEOREM NothingForgotten == Spec => []NoFalseNegative
  <1>1. IInv => NoFalseNegative
    BY DEF IInv, Memory
  <1> QED
    BY <1>1, Invariant, PTL

\* No call of Add or AddBatch goes past maxItems, and the count covers the items.
THEOREM WithinCapacity == Spec => []Capacity
  <1>1. IInv => Capacity
    BY DEF IInv, Memory
  <1> QED
    BY <1>1, Invariant, PTL

\* While StoreErrors is zero the store holds what the filter that wrote last
\* holds, for any number of filters that share the key.
THEOREM ErrorsTell == Spec => []StoreErrorsTell
  <1>1. IInv => StoreErrorsTell
    BY DEF IInv, Copy
  <1> QED
    BY <1>1, Invariant, PTL
=============================================================================
