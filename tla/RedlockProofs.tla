--------------------------- MODULE RedlockProofs ---------------------------
(***************************************************************************)
(* Proofs about Redlock for every number of owners, clients and retries.   *)
(*                                                                         *)
(* The argument for mutual exclusion: every unexpired lock is backed by a  *)
(* quorum of clients that store its owner's value for at least as long as  *)
(* the lease lasts, and two quorums have a client in common.               *)
(***************************************************************************)
EXTENDS Redlock, FiniteSetTheorems, TLAPS

\* Without these MutualExclusion fails: two disjoint quorums, a Set that
\* replaces a live key, a release that is applied after the next attempt of the
\* same value, a pause the drift does not cover, and an Extend that shortens
\* the life of the keys, be it by the truncation to whole seconds.
SafeConfig ==
    /\ 2 * Quorum > N
    /\ ~Overwrites
    /\ "LateRelease" \notin Faults
    /\ Pause <= Drift
    /\ ExtendTTL > 0 => Whole(ExtendTTL) = ExtendTTL /\ TTL <= ExtendTTL

-----------------------------------------------------------------------------
(* Types                                                                   *)

LEMMA WholeType == ASSUME ConfigAssumption PROVE Whole(ExtendTTL) \in Nat
<1>1. ExtendTTL \in Nat /\ Second \in Nat \ {0}
  BY DEF ConfigAssumption
<1>2. ExtendTTL \div Second \in Nat
  BY <1>1
<1> QED
  BY <1>1, <1>2 DEF Whole

\* The keys of the clients after any of the scripts, or none.
LEMMA KeyType ==
    ASSUME TypeOK, NEW c \in Clients, NEW o \in Owners,
           SetKey(c, o) \/ DropKey(c, o) \/ RenewKey(c, o) \/ UNCHANGED key
    PROVE  /\ key' \in [Clients -> [by : Owners \cup {NoOwner}, left : Nat]]
           /\ \A d \in Clients : key'[d].by = NoOwner <=> key'[d].left = 0
<1> USE ConfigAssumption, WholeType DEF ConfigAssumption
<1>1. CASE SetKey(c, o)
  BY <1>1 DEF TypeOK, SetKey
<1>2. CASE DropKey(c, o)
  BY <1>2 DEF TypeOK, DropKey, NoKey
<1>3. CASE RenewKey(c, o)
  BY <1>3 DEF TypeOK, RenewKey, NoKey
<1>4. CASE UNCHANGED key
  BY <1>4 DEF TypeOK
<1> QED
  BY <1>1, <1>2, <1>3, <1>4

LEMMA TypeInit == Init => TypeOK
BY ConfigAssumption DEF ConfigAssumption, Init, TypeOK, NoKey, Clients

LEMMA TypeStep == TypeOK /\ [Next]_vars => TypeOK'
<1> SUFFICES ASSUME TypeOK, [Next]_vars PROVE TypeOK'
  OBVIOUS
<1> USE ConfigAssumption DEF ConfigAssumption
<1>1. CASE UNCHANGED vars
  BY <1>1 DEF TypeOK, vars
<1>2. ASSUME NEW o \in Owners, Lock(o) PROVE TypeOK'
  BY <1>2 DEF TypeOK, Lock, Attempt, Enter, Aged
<1>3. ASSUME NEW o \in Owners, SetCall(o) PROVE TypeOK'
  <2> PICK c \in Clients : /\ Visit(o, "setting", c)
                           /\ \/ /\ SetKey(c, o)
                                 /\ IF Settable(c) THEN Ack(o, c) ELSE UNCHANGED acks
                                 /\ UNCHANGED late
                              \/ TimeOut("set", o, c) /\ UNCHANGED <<key, acks>>
                           /\ UNCHANGED <<age, lease, attempt>>
    BY <1>3 DEF SetCall
  <2>1. /\ key' \in [Clients -> [by : Owners \cup {NoOwner}, left : Nat]]
        /\ \A d \in Clients : key'[d].by = NoOwner <=> key'[d].left = 0
    BY KeyType
  <2>2. acks' \in [Owners -> SUBSET Clients]
    BY DEF TypeOK, Ack
  <2>3. late' \subseteq {"set", "release"} \X Owners \X Clients \X (1..MaxRetries+1)
    BY DEF TypeOK, TimeOut
  <2>4. next' \in [Owners -> 1..N+1]
    BY DEF TypeOK, Visit, Clients
  <2> QED
    BY <2>1, <2>2, <2>3, <2>4 DEF TypeOK, Visit
<1>4. ASSUME NEW o \in Owners, JudgeAttempt(o) PROVE TypeOK'
  <2>1. Cardinality(acks[o]) >= Quorum /\ Validity(o) > 0 => Validity(o) \in Nat
    BY DEF TypeOK, Validity
  <2>2. lease' \in [Owners -> Nat]
    BY <1>4, <2>1 DEF TypeOK, JudgeAttempt, Lease
  <2>3. pc' \in [Owners -> {"idle", "setting", "granted", "releasing", "held",
                            "extending", "unlocking", "done", "failed"}]
        /\ next' \in [Owners -> 1..N+1]
    BY <1>4 DEF TypeOK, JudgeAttempt, Enter
  <2> QED
    BY <1>4, <2>2, <2>3 DEF TypeOK, JudgeAttempt, NoAcks, Aged
<1>5. ASSUME NEW o \in Owners, Acquire(o) PROVE TypeOK'
  BY <1>5 DEF TypeOK, Acquire, Enter, Aged
<1>6. ASSUME NEW o \in Owners, ReleaseCall(o) PROVE TypeOK'
  <2> PICK c \in Clients, phase \in {"releasing", "unlocking"} :
                           /\ Visit(o, phase, c)
                           /\ \/ DropKey(c, o) /\ UNCHANGED late
                              \/ TimeOut("release", o, c) /\ UNCHANGED key
                           /\ UNCHANGED <<acks, age, lease, attempt>>
    BY <1>6 DEF ReleaseCall
  <2>1. /\ key' \in [Clients -> [by : Owners \cup {NoOwner}, left : Nat]]
        /\ \A d \in Clients : key'[d].by = NoOwner <=> key'[d].left = 0
    BY KeyType
  <2>2. late' \subseteq {"set", "release"} \X Owners \X Clients \X (1..MaxRetries+1)
    BY DEF TypeOK, TimeOut
  <2>3. next' \in [Owners -> 1..N+1]
    BY DEF TypeOK, Visit, Clients
  <2> QED
    BY <2>1, <2>2, <2>3 DEF TypeOK, Visit
<1>7. ASSUME NEW o \in Owners, Retry(o) PROVE TypeOK'
  BY <1>7 DEF TypeOK, Retry, Attempt, Enter, Aged
<1>8. ASSUME NEW o \in Owners, Fail(o) PROVE TypeOK'
  BY <1>8 DEF TypeOK, Fail, Enter
<1>9. ASSUME NEW o \in Owners, Unlock(o) PROVE TypeOK'
  BY <1>9 DEF TypeOK, Unlock, Enter, Aged, Lease
<1>10. ASSUME NEW o \in Owners, Unlocked(o) PROVE TypeOK'
  BY <1>10 DEF TypeOK, Unlocked, Enter
<1>11. ASSUME NEW o \in Owners, Extend(o) PROVE TypeOK'
  BY <1>11 DEF TypeOK, Extend, Enter
<1>12. ASSUME NEW o \in Owners, ExtendCall(o) PROVE TypeOK'
  <2> PICK c \in Clients :
        /\ Visit(o, "extending", c)
        /\ \/ RenewKey(c, o) /\ Ack(o, c)
           \/ RenewKey(c, o) /\ "Timeout" \in Faults /\ UNCHANGED acks
           \/ /\ key[c].by # o \/ "Timeout" \in Faults
              /\ UNCHANGED <<key, acks>>
        /\ UNCHANGED <<age, lease, attempt, late>>
    BY <1>12 DEF ExtendCall
  <2>1. /\ key' \in [Clients -> [by : Owners \cup {NoOwner}, left : Nat]]
        /\ \A d \in Clients : key'[d].by = NoOwner <=> key'[d].left = 0
    BY KeyType
  <2>2. acks' \in [Owners -> SUBSET Clients]
    BY DEF TypeOK, Ack
  <2>3. next' \in [Owners -> 1..N+1]
    BY DEF TypeOK, Visit, Clients
  <2> QED
    BY <2>1, <2>2, <2>3 DEF TypeOK, Visit
<1>13. ASSUME NEW o \in Owners, JudgeExtension(o) PROVE TypeOK'
  BY <1>13 DEF TypeOK, JudgeExtension, Enter, NoAcks, Lease
<1>14. CASE ApplyLate
  <2> PICK o \in Owners, c \in Clients, n \in 1..MaxRetries+1 :
        /\ \/ /\ <<"set", o, c, n>> \in late
              /\ late' = late \ {<<"set", o, c, n>>}
              /\ SetKey(c, o)
           \/ /\ <<"release", o, c, n>> \in late
              /\ late' = late \ {<<"release", o, c, n>>}
              /\ DropKey(c, o)
        /\ UNCHANGED <<pc, next, acks, age, lease, attempt>>
    BY <1>14 DEF ApplyLate
  <2>1. /\ key' \in [Clients -> [by : Owners \cup {NoOwner}, left : Nat]]
        /\ \A d \in Clients : key'[d].by = NoOwner <=> key'[d].left = 0
    BY KeyType
  <2> QED
    BY <2>1 DEF TypeOK
<1>15. CASE Tick
  <2>1. /\ key' \in [Clients -> [by : Owners \cup {NoOwner}, left : Nat]]
        /\ \A d \in Clients : key'[d].by = NoOwner <=> key'[d].left = 0
    BY <1>15 DEF TypeOK, Tick, NoKey
  <2>2. age' \in [Owners -> Nat]
    BY <1>15 DEF TypeOK, Tick
  <2>3. lease' \in [Owners -> Nat]
    BY <1>15 DEF TypeOK, Tick
  <2> QED
    BY <1>15, <2>1, <2>2, <2>3 DEF TypeOK, Tick
<1> QED
  BY <1>1, <1>2, <1>3, <1>4, <1>5, <1>6, <1>7, <1>8, <1>9, <1>10, <1>11, <1>12,
     <1>13, <1>14, <1>15 DEF Next, OwnerStep

\* Every reachable state is well typed.
THEOREM TypeCorrect == Spec => []TypeOK
BY TypeInit, TypeStep, PTL DEF Spec
-----------------------------------------------------------------------------
(* Mutual exclusion                                                        *)

\* Client c stores o's value for at least t more ticks, if t is positive.
Secures(c, o, t) == t > 0 => key[c].by = o /\ t <= key[c].left

\* What is left until the lease ends, from the instant the validity was computed.
Bound(o) == IF pc[o] = "granted" THEN lease[o] + Drift - age[o] ELSE lease[o]

Backed(o) == \E Q \in SUBSET Clients : /\ Cardinality(Q) >= Quorum
                                       /\ \A c \in Q : Secures(c, o, Bound(o))

\* The part of the invariant that speaks of one owner.
Sound(o) ==
    /\ pc[o] \notin {"setting", "extending"} => acks[o] = {}
    /\ pc[o] = "setting" => \A c \in acks[o] : Secures(c, o, TTL - age[o])
    /\ pc[o] = "extending" => \A c \in acks[o] : Secures(c, o, ExtendTTL - age[o])
    /\ pc[o] = "granted" => age[o] <= Pause /\ Drift < TTL
    /\ ExtendTTL > 0 => lease[o] <= ExtendTTL
    /\ pc[o] = "extending" => ExtendTTL > 0
    /\ pc[o] \in {"granted", "held", "extending"} => Backed(o)

OnlySets == \A m \in late : m[1] = "set"

IInv == TypeOK /\ OnlySets /\ \A o \in Owners : Sound(o)

\* A step of owner p leaves the others alone, and the keys they have.
Spares(p) == \A o \in Owners \ {p} :
    /\ pc'[o] = pc[o] /\ acks'[o] = acks[o] /\ age'[o] = age[o] /\ lease'[o] = lease[o]
    /\ \A c \in Clients : key[c].by = o => key'[c] = key[c]

LEMMA SparedSound ==
    ASSUME TypeOK, NEW o \in Owners, Sound(o),
           pc'[o] = pc[o], acks'[o] = acks[o], age'[o] = age[o], lease'[o] = lease[o],
           \A c \in Clients : key[c].by = o => key'[c] = key[c]
    PROVE  Sound(o)'
<1>1. \A c \in Clients, t \in Int : Secures(c, o, t) => Secures(c, o, t)'
  BY DEF Secures
<1>2. Bound(o)' = Bound(o) /\ Bound(o) \in Int
  BY ConfigAssumption DEF Bound, TypeOK, ConfigAssumption
<1>3. Backed(o) => Backed(o)'
  BY <1>1, <1>2 DEF Backed, Secures
<1>4. acks[o] \subseteq Clients /\ TTL - age[o] \in Int /\ ExtendTTL - age[o] \in Int
  BY ConfigAssumption DEF TypeOK, ConfigAssumption
<1>5. \A c \in acks[o] : Secures(c, o, TTL - age[o]) => Secures(c, o, TTL - age[o])'
  BY <1>1, <1>4 DEF Secures
<1>6. \A c \in acks[o] : Secures(c, o, ExtendTTL - age[o]) => Secures(c, o, ExtendTTL - age[o])'
  BY <1>1, <1>4 DEF Secures
<1> QED
  BY <1>3, <1>5, <1>6 DEF Sound

LEMMA OthersSound ==
    ASSUME IInv, NEW p \in Owners, Spares(p), Sound(p)'
    PROVE  \A o \in Owners : Sound(o)'
BY SparedSound DEF IInv, Spares

\* Without Overwrites a Set takes a key from nobody.
LEMMA SetSpares ==
    ASSUME TypeOK, SafeConfig, NEW c \in Clients, NEW o \in Owners, SetKey(c, o)
    PROVE  \A d \in Clients, q \in Owners : key[d].by = q => key'[d] = key[d]
BY ConfigAssumption DEF SetKey, Settable, Free, NoKey, SafeConfig, TypeOK, ConfigAssumption

\* The two scripts touch only keys with the caller's value.
LEMMA ScriptSpares ==
    ASSUME TypeOK, NEW c \in Clients, NEW o \in Owners, DropKey(c, o) \/ RenewKey(c, o)
    PROVE  \A d \in Clients, q \in Owners \ {o} : key[d].by = q => key'[d] = key[d]
BY DEF DropKey, RenewKey, NoKey, TypeOK

LEMMA SoundInit == Init => IInv
<1> SUFFICES ASSUME Init PROVE IInv
  OBVIOUS
<1>1. TypeOK /\ OnlySets
  BY TypeInit DEF Init, OnlySets
<1>2. ASSUME NEW o \in Owners PROVE Sound(o)
  BY ConfigAssumption DEF Init, Sound, ConfigAssumption
<1> QED
  BY <1>1, <1>2 DEF IInv

\* The steps that change neither a key nor an acknowledgement, and end in a
\* phase that promises nothing.
LEMMA QuietStep ==
    ASSUME IInv, NEW o \in Owners,
           \/ Lock(o) \/ Retry(o) \/ Fail(o) \/ Unlock(o) \/ Unlocked(o)
    PROVE  \A q \in Owners : Sound(q)'
<1>1. Spares(o)
  BY DEF IInv, TypeOK, Spares, Lock, Retry, Fail, Unlock, Unlocked, Attempt, Enter, Aged, Lease
<1>2. Sound(o) /\ TypeOK
  BY DEF IInv
<1>3. pc[o] \notin {"setting", "extending"} /\ acks'[o] = {}
  BY <1>2 DEF TypeOK, Sound, Lock, Retry, Fail, Unlock, Unlocked, Attempt, Visited
<1>4. pc'[o] \in {"setting", "failed", "unlocking", "done"}
  BY <1>2 DEF TypeOK, Lock, Retry, Fail, Unlock, Unlocked, Attempt, Enter
<1>5. lease'[o] \in {lease[o], 0}
  BY <1>2 DEF TypeOK, Lock, Retry, Fail, Unlock, Unlocked, Attempt, Lease
<1>6. Sound(o)'
  BY <1>2, <1>3, <1>4, <1>5, ConfigAssumption DEF Sound, TypeOK, ConfigAssumption
<1> QED
  BY <1>1, <1>6, OthersSound

LEMMA SetStep ==
    ASSUME IInv, SafeConfig, NEW o \in Owners, SetCall(o)
    PROVE  \A q \in Owners : Sound(q)'
<1> PICK c \in Clients : /\ Visit(o, "setting", c)
                         /\ \/ /\ SetKey(c, o)
                               /\ IF Settable(c) THEN Ack(o, c) ELSE UNCHANGED acks
                               /\ UNCHANGED late
                            \/ TimeOut("set", o, c) /\ UNCHANGED <<key, acks>>
                         /\ UNCHANGED <<age, lease, attempt>>
  BY DEF SetCall
<1>1. TypeOK /\ Sound(o)
  BY DEF IInv
<1>2. \A d \in Clients, q \in Owners : key[d].by = q => key'[d] = key[d]
  BY <1>1, SetSpares
<1>3. Spares(o)
  BY <1>1, <1>2 DEF Spares, Visit, Ack, TypeOK
<1>4. pc[o] = "setting" /\ pc'[o] = "setting" /\ age'[o] = age[o] /\ lease'[o] = lease[o]
  BY DEF Visit
<1>5. \A d \in acks[o] : Secures(d, o, TTL - age[o])'
  BY <1>1, <1>2, <1>4, ConfigAssumption DEF Sound, Secures, TypeOK, ConfigAssumption
<1>6. ASSUME c \in acks'[o], c \notin acks[o] PROVE Secures(c, o, TTL - age[o])'
  <2>1. SetKey(c, o) /\ Settable(c)
    BY <1>1, <1>6 DEF TypeOK
  <2>2. key'[c] = [by |-> o, left |-> TTL]
    BY <1>1, <2>1 DEF SetKey, TypeOK
  <2> QED
    BY <1>1, <1>4, <2>2, ConfigAssumption DEF Secures, TypeOK, ConfigAssumption
<1>7. acks'[o] \subseteq acks[o] \cup {c}
  BY <1>1 DEF Ack, TypeOK
<1>8. Sound(o)'
  BY <1>1, <1>4, <1>5, <1>6, <1>7 DEF Sound
<1> QED
  BY <1>3, <1>8, OthersSound

\* The clients that acknowledged are the quorum that backs the lock.
LEMMA JudgeStep ==
    ASSUME IInv, SafeConfig, NEW o \in Owners, JudgeAttempt(o)
    PROVE  \A q \in Owners : Sound(q)'
<1>1. TypeOK /\ Sound(o)
  BY DEF IInv
<1>2. Spares(o)
  BY <1>1 DEF Spares, JudgeAttempt, NoAcks, Aged, Enter, Lease, TypeOK
<1>3. pc[o] = "setting" /\ acks'[o] = {} /\ age'[o] = 0 /\ key' = key
  BY <1>1 DEF JudgeAttempt, Visited, NoAcks, Aged, TypeOK
<1>4. CASE Cardinality(acks[o]) >= Quorum /\ Validity(o) > 0
  <2>1. pc'[o] = "granted" /\ lease'[o] = TTL - age[o] - Drift
    BY <1>1, <1>4 DEF JudgeAttempt, Enter, Lease, Validity, TypeOK
  <2>2. Bound(o)' = TTL - age[o]
    BY <1>1, <1>3, <2>1, ConfigAssumption DEF Bound, TypeOK, ConfigAssumption
  <2>3. \A c \in acks[o] : Secures(c, o, Bound(o))'
    BY <1>1, <1>3, <2>2 DEF Sound, Secures
  <2>4. Backed(o)'
    BY <1>1, <1>4, <2>3 DEF Backed, TypeOK
  <2>5. (ExtendTTL > 0 => lease'[o] <= ExtendTTL) /\ Drift < TTL
    BY <1>1, <1>4, <2>1, ConfigAssumption DEF SafeConfig, Validity, TypeOK, ConfigAssumption
  <2> QED
    BY <1>2, <1>3, <2>1, <2>4, <2>5, OthersSound, ConfigAssumption DEF Sound, ConfigAssumption
<1>5. CASE ~(Cardinality(acks[o]) >= Quorum /\ Validity(o) > 0)
  <2>1. pc'[o] = "releasing" /\ lease'[o] = lease[o]
    BY <1>1, <1>5 DEF JudgeAttempt, Enter, TypeOK
  <2> QED
    BY <1>1, <1>2, <1>3, <2>1, OthersSound DEF Sound
<1> QED
  BY <1>4, <1>5

\* The pause before the second reading of the clock is within the drift.
LEMMA AcquireStep ==
    ASSUME IInv, SafeConfig, NEW o \in Owners, Acquire(o)
    PROVE  \A q \in Owners : Sound(q)'
<1>1. TypeOK /\ Sound(o)
  BY DEF IInv
<1>2. Spares(o)
  BY <1>1 DEF Spares, Acquire, Aged, Enter, TypeOK
<1>3. /\ pc[o] = "granted" /\ pc'[o] = "held" /\ acks'[o] = acks[o]
      /\ lease'[o] = lease[o] /\ key' = key
  BY <1>1 DEF Acquire, Enter, TypeOK
<1>4. Bound(o)' <= Bound(o) /\ Bound(o)' \in Int /\ Bound(o) \in Int
  BY <1>1, <1>3, ConfigAssumption DEF Bound, Sound, TypeOK, SafeConfig, ConfigAssumption
<1>5. Backed(o)'
  <2>1. PICK Q \in SUBSET Clients : /\ Cardinality(Q) >= Quorum
                                    /\ \A c \in Q : Secures(c, o, Bound(o))
    BY <1>1, <1>3 DEF Sound, Backed
  <2>2. \A c \in Q : Secures(c, o, Bound(o))'
    BY <1>1, <1>3, <1>4, <2>1 DEF Secures, TypeOK
  <2> QED
    BY <2>1, <2>2 DEF Backed
<1> QED
  BY <1>1, <1>2, <1>3, <1>5, OthersSound DEF Sound

LEMMA ReleaseStep ==
    ASSUME IInv, NEW o \in Owners, ReleaseCall(o)
    PROVE  \A q \in Owners : Sound(q)'
<1> PICK c \in Clients, phase \in {"releasing", "unlocking"} :
        /\ Visit(o, phase, c)
        /\ \/ DropKey(c, o) /\ UNCHANGED late
           \/ TimeOut("release", o, c) /\ UNCHANGED key
        /\ UNCHANGED <<acks, age, lease, attempt>>
  BY DEF ReleaseCall
<1>1. TypeOK /\ Sound(o)
  BY DEF IInv
<1>2. Spares(o)
  BY <1>1, ScriptSpares DEF Spares, Visit
<1>3. pc[o] = phase /\ pc'[o] = phase
  BY DEF Visit
<1> QED
  BY <1>1, <1>2, <1>3, OthersSound DEF Sound

LEMMA ExtendStep ==
    ASSUME IInv, NEW o \in Owners, Extend(o)
    PROVE  \A q \in Owners : Sound(q)'
<1>1. TypeOK /\ Sound(o)
  BY DEF IInv
<1>2. Spares(o)
  BY <1>1 DEF Spares, Extend, Enter, TypeOK
<1>3. /\ pc[o] = "held" /\ pc'[o] = "extending" /\ ExtendTTL > 0
      /\ UNCHANGED <<key, acks, age, lease>>
  BY <1>1 DEF Extend, Enter, TypeOK
<1>4. Backed(o)'
  BY <1>1, <1>3 DEF Sound, Backed, Bound, Secures
<1> QED
  BY <1>1, <1>2, <1>3, <1>4, OthersSound DEF Sound

\* A renewed key lasts longer than any lease of its owner.
LEMMA ExtendCallStep ==
    ASSUME IInv, SafeConfig, NEW o \in Owners, ExtendCall(o)
    PROVE  \A q \in Owners : Sound(q)'
<1> PICK c \in Clients :
        /\ Visit(o, "extending", c)
        /\ \/ RenewKey(c, o) /\ Ack(o, c)
           \/ RenewKey(c, o) /\ "Timeout" \in Faults /\ UNCHANGED acks
           \/ /\ key[c].by # o \/ "Timeout" \in Faults
              /\ UNCHANGED <<key, acks>>
        /\ UNCHANGED <<age, lease, attempt, late>>
  BY DEF ExtendCall
<1>1. TypeOK /\ Sound(o)
  BY DEF IInv
<1>2. /\ pc[o] = "extending" /\ pc'[o] = "extending" /\ ExtendTTL > 0
      /\ age'[o] = age[o] /\ lease'[o] = lease[o]
  BY <1>1 DEF Visit, Sound
<1>3. Spares(o)
  BY <1>1, ScriptSpares DEF Spares, Visit, Ack, TypeOK
<1>4. \A d \in Clients : \/ key'[d] = key[d]
                         \/ d = c /\ key'[d] = [by |-> o, left |-> ExtendTTL]
  BY <1>1, <1>2 DEF RenewKey, SafeConfig, TypeOK
<1>5. ASSUME NEW d \in Clients, NEW t \in Int, t <= ExtendTTL, Secures(d, o, t)
      PROVE  Secures(d, o, t)'
  BY <1>1, <1>4, <1>5, ConfigAssumption DEF Secures, TypeOK, ConfigAssumption
<1>6. Backed(o)'
  <2>1. Bound(o) \in Int /\ Bound(o) <= ExtendTTL /\ Bound(o)' = Bound(o)
    BY <1>1, <1>2 DEF Bound, Sound, TypeOK
  <2>2. PICK Q \in SUBSET Clients : /\ Cardinality(Q) >= Quorum
                                    /\ \A d \in Q : Secures(d, o, Bound(o))
    BY <1>1, <1>2 DEF Sound, Backed
  <2>3. \A d \in Q : Secures(d, o, Bound(o))'
    BY <1>5, <2>1, <2>2 DEF Secures
  <2> QED
    BY <2>2, <2>3 DEF Backed
<1>7. \A d \in acks'[o] : Secures(d, o, ExtendTTL - age[o])'
  <2>1. ExtendTTL - age[o] \in Int /\ ExtendTTL - age[o] <= ExtendTTL
    BY <1>1, ConfigAssumption DEF TypeOK, ConfigAssumption
  <2>2. \A d \in acks[o] : Secures(d, o, ExtendTTL - age[o])'
    <3> TAKE d \in acks[o]
    <3>1. d \in Clients /\ Secures(d, o, ExtendTTL - age[o])
      BY <1>1, <1>2 DEF Sound, TypeOK
    <3>2. key'[d] = key[d] \/ key'[d] = [by |-> o, left |-> ExtendTTL]
      BY <1>4, <3>1
    <3> QED
      BY <1>1, <1>2, <2>1, <3>1, <3>2, ConfigAssumption DEF Secures, TypeOK, ConfigAssumption
  <2>3. ASSUME c \in acks'[o], c \notin acks[o] PROVE Secures(c, o, ExtendTTL - age[o])'
    <3>1. key'[c] = [by |-> o, left |-> ExtendTTL]
      BY <1>1, <1>2, <2>3 DEF RenewKey, SafeConfig, TypeOK
    <3> QED
      BY <1>2, <2>1, <3>1 DEF Secures
  <2>4. acks'[o] \subseteq acks[o] \cup {c}
    BY <1>1 DEF Ack, TypeOK
  <2> QED
    BY <2>2, <2>3, <2>4
<1>8. Sound(o)'
  BY <1>1, <1>2, <1>6, <1>7 DEF Sound
<1> QED
  BY <1>3, <1>8, OthersSound

LEMMA JudgeExtensionStep ==
    ASSUME IInv, SafeConfig, NEW o \in Owners, JudgeExtension(o)
    PROVE  \A q \in Owners : Sound(q)'
<1>1. TypeOK /\ Sound(o)
  BY DEF IInv
<1>2. Spares(o)
  BY <1>1 DEF Spares, JudgeExtension, NoAcks, Enter, Lease, TypeOK
<1>3. /\ pc[o] = "extending" /\ pc'[o] = "held" /\ acks'[o] = {}
      /\ age'[o] = age[o] /\ key' = key
  BY <1>1 DEF JudgeExtension, Visited, NoAcks, Enter, TypeOK
<1>4. CASE Cardinality(acks[o]) >= Quorum
  <2>1. lease'[o] = IF age[o] < ExtendTTL THEN ExtendTTL - age[o] ELSE 0
    BY <1>1, <1>4 DEF JudgeExtension, Lease, TypeOK
  <2>2. \A c \in acks[o] : Secures(c, o, Bound(o))'
    BY <1>1, <1>3, <2>1, ConfigAssumption DEF Sound, Secures, Bound, TypeOK, ConfigAssumption
  <2>3. Backed(o)'
    BY <1>1, <1>4, <2>2 DEF Backed, TypeOK
  <2> QED
    BY <1>1, <1>2, <1>3, <2>1, <2>3, OthersSound, ConfigAssumption DEF Sound, TypeOK, ConfigAssumption
<1>5. CASE ~(Cardinality(acks[o]) >= Quorum)
  <2>1. lease'[o] = lease[o]
    BY <1>1, <1>5 DEF JudgeExtension
  <2>2. Backed(o)'
    BY <1>1, <1>3, <2>1 DEF Sound, Backed, Bound, Secures
  <2> QED
    BY <1>1, <1>2, <1>3, <2>1, <2>2, OthersSound DEF Sound
<1> QED
  BY <1>4, <1>5

\* Only a Set can be applied late, and it takes a key from nobody.
LEMMA LateStep ==
    ASSUME IInv, SafeConfig, ApplyLate
    PROVE  \A q \in Owners : Sound(q)'
<1> PICK o \in Owners, c \in Clients, n \in 1..MaxRetries+1 :
        /\ \/ /\ <<"set", o, c, n>> \in late
              /\ late' = late \ {<<"set", o, c, n>>}
              /\ SetKey(c, o)
           \/ /\ <<"release", o, c, n>> \in late
              /\ late' = late \ {<<"release", o, c, n>>}
              /\ DropKey(c, o)
        /\ UNCHANGED <<pc, next, acks, age, lease, attempt>>
  BY DEF ApplyLate
<1>1. TypeOK /\ OnlySets
  BY DEF IInv
<1>2. SetKey(c, o)
  BY <1>1 DEF OnlySets
<1>3. \A d \in Clients, q \in Owners : key[d].by = q => key'[d] = key[d]
  BY <1>1, <1>2, SetSpares
<1> QED
  BY <1>1, <1>3, SparedSound DEF IInv

LEMMA TickStep ==
    ASSUME IInv, SafeConfig, Tick
    PROVE  \A q \in Owners : Sound(q)'
<1> TAKE o \in Owners
<1>1. TypeOK /\ Sound(o) /\ UNCHANGED <<pc, acks>>
  BY DEF IInv, Tick
<1>2. ASSUME NEW c \in Clients, NEW s \in Int, NEW t \in Int, Secures(c, o, s),
             t <= s - 1 \/ t <= 0
      PROVE  t > 0 => key'[c].by = o /\ t <= key'[c].left
  <2> SUFFICES ASSUME t > 0 PROVE key'[c].by = o /\ t <= key'[c].left
    OBVIOUS
  <2>1. key[c].by = o /\ s <= key[c].left /\ key[c].left \in Nat /\ key[c].left > 1
    BY <1>1, <1>2 DEF Secures, TypeOK
  <2>2. key'[c] = [by |-> key[c].by, left |-> key[c].left - 1]
    BY <2>1 DEF Tick
  <2> QED
    BY <1>2, <2>1, <2>2
<1>3. /\ age[o] \in Nat /\ age'[o] \in Nat /\ lease[o] \in Nat /\ lease'[o] \in Nat
      /\ acks[o] \subseteq Clients
      /\ pc[o] \in Aging /\ age'[o] # age[o] + 1
           => age'[o] = age[o] /\ TTL + ExtendTTL <= age[o]
      /\ lease'[o] = IF pc[o] \in Leasing /\ lease[o] > 0 THEN lease[o] - 1 ELSE lease[o]
  BY <1>1, ConfigAssumption DEF Tick, TypeOK, ConfigAssumption
<1>4. pc[o] = "setting" => \A c \in acks[o] : Secures(c, o, TTL - age[o])'
  <2> SUFFICES ASSUME pc[o] = "setting", NEW c \in acks[o] PROVE Secures(c, o, TTL - age[o])'
    BY <1>1
  <2>1. TTL - age'[o] <= (TTL - age[o]) - 1 \/ TTL - age'[o] <= 0
    BY <1>3, ConfigAssumption DEF Aging, ConfigAssumption
  <2>2. c \in Clients /\ Secures(c, o, TTL - age[o]) /\ TTL - age[o] \in Int /\ TTL - age'[o] \in Int
    BY <1>1, <1>3, ConfigAssumption DEF Sound, ConfigAssumption
  <2> QED
    BY <1>2, <2>1, <2>2 DEF Secures
<1>5. pc[o] = "extending" => \A c \in acks[o] : Secures(c, o, ExtendTTL - age[o])'
  <2> SUFFICES ASSUME pc[o] = "extending", NEW c \in acks[o] PROVE Secures(c, o, ExtendTTL - age[o])'
    BY <1>1
  <2>1. ExtendTTL - age'[o] <= (ExtendTTL - age[o]) - 1 \/ ExtendTTL - age'[o] <= 0
    BY <1>3, ConfigAssumption DEF Aging, ConfigAssumption
  <2>2. c \in Clients /\ Secures(c, o, ExtendTTL - age[o])
        /\ ExtendTTL - age[o] \in Int /\ ExtendTTL - age'[o] \in Int
    BY <1>1, <1>3, ConfigAssumption DEF Sound, ConfigAssumption
  <2> QED
    BY <1>2, <2>1, <2>2 DEF Secures
<1>6. pc[o] \in {"granted", "held", "extending"} => Backed(o)'
  <2> SUFFICES ASSUME pc[o] \in {"granted", "held", "extending"} PROVE Backed(o)'
    OBVIOUS
  <2>1. PICK Q \in SUBSET Clients : /\ Cardinality(Q) >= Quorum
                                    /\ \A c \in Q : Secures(c, o, Bound(o))
    BY <1>1 DEF Sound, Backed
  <2>2. Bound(o) \in Int /\ Bound(o)' \in Int
    BY <1>1, <1>3, ConfigAssumption DEF Bound, ConfigAssumption
  <2>3. Bound(o)' <= Bound(o) - 1 \/ Bound(o)' <= 0
    <3>1. CASE pc[o] = "granted"
      <4>1. lease'[o] = lease[o]
        BY <1>3, <3>1 DEF Leasing
      <4>2. age[o] < Pause /\ Pause \in Nat /\ Drift \in Nat
        BY <3>1, ConfigAssumption DEF Tick, ConfigAssumption
      <4>3. CASE age'[o] = age[o] + 1
        BY <1>1, <1>3, <3>1, <4>1, <4>2, <4>3 DEF Bound
      <4>4. CASE age'[o] = age[o] /\ TTL + ExtendTTL <= age[o]
        BY <1>1, <1>3, <3>1, <4>1, <4>2, <4>4, ConfigAssumption
           DEF Bound, Sound, SafeConfig, ConfigAssumption
      <4> QED
        BY <1>3, <3>1, <4>3, <4>4 DEF Aging
    <3>2. CASE pc[o] # "granted"
      BY <1>1, <1>3, <3>2 DEF Bound, Leasing
    <3> QED
      BY <3>1, <3>2
  <2>4. \A c \in Q : Secures(c, o, Bound(o))'
    BY <1>2, <2>1, <2>2, <2>3 DEF Secures
  <2> QED
    BY <2>1, <2>4 DEF Backed
<1>7. pc[o] = "granted" => age'[o] <= Pause /\ Drift < TTL
  BY <1>1, <1>3, ConfigAssumption DEF Tick, Sound, Aging, ConfigAssumption
<1> QED
  BY <1>1, <1>3, <1>4, <1>5, <1>6, <1>7, ConfigAssumption DEF Sound, ConfigAssumption

LEMMA OnlySetsStep ==
    ASSUME IInv, SafeConfig, [Next]_vars
    PROVE  OnlySets'
<1> USE DEF IInv, OnlySets
<1>1. CASE UNCHANGED late
  BY <1>1
<1>2. ASSUME NEW o \in Owners, SetCall(o) PROVE OnlySets'
  BY <1>2 DEF SetCall, TimeOut
<1>3. ASSUME NEW o \in Owners, ReleaseCall(o) PROVE OnlySets'
  BY <1>3 DEF ReleaseCall, TimeOut, SafeConfig
<1>4. CASE ApplyLate
  BY <1>4 DEF ApplyLate
<1> QED
  BY <1>1, <1>2, <1>3, <1>4 DEF Next, OwnerStep, vars, Lock, Attempt, JudgeAttempt, Acquire,
     Retry, Fail, Unlock, Unlocked, Extend, ExtendCall, JudgeExtension, Tick

LEMMA SoundStep == IInv /\ SafeConfig /\ [Next]_vars => IInv'
<1> SUFFICES ASSUME IInv, SafeConfig, [Next]_vars PROVE IInv'
  OBVIOUS
<1>1. TypeOK' /\ OnlySets'
  BY TypeStep, OnlySetsStep DEF IInv
<1>2. ASSUME UNCHANGED vars, NEW o \in Owners PROVE Sound(o)'
  BY <1>2, SparedSound DEF IInv, vars
<1>3. ASSUME Next PROVE \A o \in Owners : Sound(o)'
  <2>1. CASE ApplyLate \/ Tick
    BY <2>1, LateStep, TickStep
  <2>2. CASE \E p \in Owners : Lock(p) \/ Unlock(p) \/ Extend(p) \/ OwnerStep(p)
    BY <2>2, QuietStep, SetStep, JudgeStep, AcquireStep, ReleaseStep, ExtendStep,
       ExtendCallStep, JudgeExtensionStep DEF OwnerStep
  <2> QED
    BY <1>3, <2>1, <2>2 DEF Next
<1>4. \A o \in Owners : Sound(o)'
  BY <1>2, <1>3
<1> QED
  BY <1>1, <1>4 DEF IInv

\* Two owners with unexpired locks have a client in common that stores the
\* value of both.
LEMMA SoundExcludes == IInv /\ SafeConfig => MutualExclusion
<1> SUFFICES ASSUME IInv, SafeConfig, NEW o \in Owners, NEW p \in Owners, Holds(o), Holds(p)
             PROVE  o = p
  BY DEF MutualExclusion
<1>1. ASSUME NEW q \in Owners, Holds(q)
      PROVE  \E Q \in SUBSET Clients : Cardinality(Q) >= Quorum /\ \A c \in Q : key[c].by = q
  BY <1>1 DEF Holds, Leasing, IInv, Sound, Backed, Bound, Secures
<1>2. PICK Q \in SUBSET Clients : Cardinality(Q) >= Quorum /\ \A c \in Q : key[c].by = o
  BY <1>1
<1>3. PICK R \in SUBSET Clients : Cardinality(R) >= Quorum /\ \A c \in R : key[c].by = p
  BY <1>1
<1>4. IsFiniteSet(Clients) /\ Cardinality(Clients) = N
  BY FS_Interval, ConfigAssumption DEF Clients, ConfigAssumption
<1>5. Cardinality(Q) \in Nat /\ Cardinality(R) \in Nat
  BY <1>4, FS_Subset, FS_CardinalityType
<1>6. Cardinality(Q) + Cardinality(R) > Cardinality(Clients)
  BY <1>2, <1>3, <1>4, <1>5, ConfigAssumption DEF SafeConfig, ConfigAssumption
<1>7. Q \cap R # {}
  BY <1>4, <1>6, FS_MajoritiesIntersect
<1> QED
  BY <1>2, <1>3, <1>7

\* Under SafeConfig no two owners hold unexpired locks.
THEOREM LockExcludes == SafeConfig => (Spec => []MutualExclusion)
<1>1. SafeConfig => (Init => IInv)
  BY SoundInit
<1>2. SafeConfig /\ IInv /\ [Next]_vars => IInv'
  BY SoundStep
<1>3. SafeConfig /\ IInv => MutualExclusion
  BY SoundExcludes
<1>4. SafeConfig => []SafeConfig
  <2>1. SafeConfig => SafeConfig'
    BY DEF SafeConfig, Whole
  <2> QED
    BY <2>1, PTL
<1> QED
  BY <1>1, <1>2, <1>3, <1>4, PTL DEF Spec

\* One step takes an unexpired key only from an owner that is releasing.
LEMMA StepKeeps ==
    ASSUME IInv, SafeConfig, [Next]_vars, NEW c \in Clients, NEW o \in Owners,
           key[c].by = o, key[c].left > 1, key'[c].by # o
    PROVE  pc[o] \in {"releasing", "unlocking"}
<1>1. TypeOK /\ OnlySets /\ Sound(o)
  BY DEF IInv
<1>2. key'[c] # key[c]
  OBVIOUS
<1>3. ASSUME NEW d \in Clients, NEW p \in Owners, SetKey(d, p) PROVE FALSE
  BY <1>1, <1>2, <1>3, SetSpares
<1>4. ASSUME NEW d \in Clients, NEW p \in Owners, DropKey(d, p) PROVE p = o
  BY <1>1, <1>2, <1>4, ScriptSpares
<1>5. ASSUME NEW p \in Owners, SetCall(p) PROVE FALSE
  BY <1>2, <1>3, <1>5 DEF SetCall
<1>6. ASSUME NEW p \in Owners, ReleaseCall(p) PROVE pc[o] \in {"releasing", "unlocking"}
  BY <1>2, <1>4, <1>6 DEF ReleaseCall, Visit
<1>7. ASSUME NEW p \in Owners, ExtendCall(p) PROVE FALSE
  <2>1. PICK d \in Clients : Visit(p, "extending", d) /\ RenewKey(d, p)
    BY <1>2, <1>7 DEF ExtendCall
  <2>2. ExtendTTL > 0
    BY <2>1 DEF IInv, Sound, Visit
  <2>3. p = o
    BY <1>1, <1>2, <2>1, ScriptSpares
  <2>4. key'[c] = key[c] \/ key'[c].by = o
    BY <1>1, <2>1, <2>2, <2>3, ConfigAssumption DEF RenewKey, SafeConfig, TypeOK, ConfigAssumption
  <2> QED
    BY <1>2, <2>4
<1>8. CASE ApplyLate
  BY <1>1, <1>3, <1>8 DEF ApplyLate, OnlySets
<1>9. CASE Tick
  BY <1>9 DEF Tick
<1>10. CASE UNCHANGED key
  BY <1>2, <1>10
<1> QED
  BY <1>5, <1>6, <1>7, <1>8, <1>9, <1>10 DEF Next, OwnerStep, vars, Lock, Attempt,
     JudgeAttempt, Acquire, Retry, Fail, Unlock, Unlocked, Extend, JudgeExtension

\* Under SafeConfig an owner loses a key only by expiry or by its own release.
THEOREM KeysAreKept == SafeConfig => (Spec => KeyIsKept)
<1>1. SafeConfig => (Init => IInv)
  BY SoundInit
<1>2. SafeConfig /\ IInv /\ [Next]_vars => IInv'
  BY SoundStep
<1>3. SafeConfig /\ IInv /\ [Next]_vars =>
        [\A c \in Clients, o \in Owners :
            key[c].by = o /\ key[c].left > 1 /\ key'[c].by # o
              => pc[o] \in {"releasing", "unlocking", "failed", "done"}]_vars
  BY StepKeeps
<1>4. SafeConfig => []SafeConfig
  <2>1. SafeConfig => SafeConfig'
    BY DEF SafeConfig, Whole
  <2> QED
    BY <2>1, PTL
<1> QED
  BY <1>1, <1>2, <1>3, <1>4, PTL DEF Spec, KeyIsKept

-----------------------------------------------------------------------------
(* Nothing is left behind                                                  *)

\* Every call of a client is answered; a call that times out may leave a key
\* that only its expiry removes.
Answering == "Timeout" \notin Faults

\* Where an owner is that has a key: the loop of the Sets has been at the client,
\* the loop of the releases has not.
Owned(o, c) ==
    \/ pc[o] = "setting" /\ c < next[o]
    \/ pc[o] \in {"granted", "held", "extending"}
    \/ pc[o] \in {"releasing", "unlocking"} /\ next[o] <= c

Clean == /\ TypeOK
         /\ late = {}
         /\ \A o \in Owners, c \in Clients : key[c].by = o => Owned(o, c)

\* A step of owner p leaves the others where they are, and gives them no key.
Minds(p) == \A o \in Owners \ {p} :
    /\ pc'[o] = pc[o] /\ next'[o] = next[o]
    /\ \A c \in Clients : key'[c].by = o => key[c].by = o

LEMMA MindsClean ==
    ASSUME Clean, NEW p \in Owners, TypeOK', late' = {}, Minds(p),
           \A c \in Clients : key'[c].by = p => Owned(p, c)'
    PROVE  Clean'
<1>1. ASSUME NEW o \in Owners \ {p}, NEW c \in Clients, key'[c].by = o
      PROVE  Owned(o, c)'
  BY <1>1 DEF Clean, Minds, Owned
<1> QED
  BY <1>1 DEF Clean

\* The steps of the owner itself that go on to another phase; c is past the last
\* client where it has visited them all.
LEMMA PhaseClean ==
    ASSUME Clean, Answering, TypeOK', NEW o \in Owners,
           \/ Lock(o) \/ JudgeAttempt(o) \/ Acquire(o) \/ Retry(o) \/ Fail(o)
           \/ Unlock(o) \/ Unlocked(o) \/ Extend(o) \/ JudgeExtension(o)
    PROVE  Clean'
<1>1. TypeOK /\ key' = key /\ late' = {}
  BY DEF Clean, Lock, JudgeAttempt, Acquire, Retry, Fail, Unlock, Unlocked, Extend,
         JudgeExtension, Attempt
<1>2. \E phase : Enter(o, phase)
  BY DEF Lock, JudgeAttempt, Acquire, Retry, Fail, Unlock, Unlocked, Extend,
         JudgeExtension, Attempt
<1>3. Minds(o) /\ next'[o] = 1
  BY <1>1, <1>2 DEF Minds, Enter, TypeOK
<1>4. ASSUME NEW c \in Clients, key[c].by = o PROVE Owned(o, c)'
  <2>1. Owned(o, c) /\ c \in 1..N /\ N \in Nat
    BY <1>4, ConfigAssumption DEF Clean, Clients, ConfigAssumption
  <2>2. CASE JudgeAttempt(o)
    BY <1>1, <1>3, <2>1, <2>2 DEF JudgeAttempt, Enter, Owned, TypeOK
  <2>3. CASE Acquire(o) \/ Extend(o) \/ Unlock(o) \/ JudgeExtension(o)
    BY <1>1, <1>3, <2>1, <2>3 DEF Acquire, Extend, Unlock, JudgeExtension, Enter, Owned, TypeOK
  <2>4. CASE Lock(o) \/ Retry(o) \/ Fail(o) \/ Unlocked(o)
    BY <2>1, <2>4 DEF Lock, Retry, Fail, Unlocked, Visited, Owned
  <2> QED
    BY <2>2, <2>3, <2>4
<1> QED
  BY <1>1, <1>3, <1>4, MindsClean

\* The steps of a loop over the clients.
LEMMA SetClean ==
    ASSUME Clean, Answering, TypeOK', NEW o \in Owners, SetCall(o)
    PROVE  Clean'
<1> PICK c \in Clients : /\ Visit(o, "setting", c)
                         /\ SetKey(c, o) /\ UNCHANGED late
  BY DEF SetCall, TimeOut, Answering
<1>1. TypeOK /\ late' = {}
  BY DEF Clean
<1>2. \A d \in Clients : key'[d] = key[d] \/ (d = c /\ key'[d].by = o)
  BY <1>1 DEF SetKey, TypeOK
<1>3. Minds(o) /\ pc'[o] = "setting" /\ next[o] = c /\ next'[o] = c + 1 /\ c \in Int
  BY <1>1, <1>2 DEF Minds, Visit, TypeOK, Clients
<1>4. ASSUME NEW d \in Clients, key'[d].by = o PROVE Owned(o, d)'
  <2>1. d = c \/ Owned(o, d)
    BY <1>2, <1>4 DEF Clean
  <2> QED
    BY <1>3, <2>1 DEF Owned, Visit, Clients
<1> QED
  BY <1>1, <1>3, <1>4, MindsClean

LEMMA ReleaseClean ==
    ASSUME Clean, Answering, TypeOK', NEW o \in Owners, ReleaseCall(o)
    PROVE  Clean'
<1> PICK c \in Clients, phase \in {"releasing", "unlocking"} :
        Visit(o, phase, c) /\ DropKey(c, o) /\ UNCHANGED late
  BY DEF ReleaseCall, TimeOut, Answering
<1>1. TypeOK /\ late' = {}
  BY DEF Clean
<1>2. \A d \in Clients : key'[d] = key[d] \/ (d = c /\ key'[d] = NoKey)
  BY <1>1 DEF DropKey, TypeOK
<1>3. key'[c].by # o
  BY <1>1, ConfigAssumption DEF DropKey, NoKey, TypeOK, ConfigAssumption
<1>4. \A q \in Owners, d \in Clients : key'[d].by = q => key[d].by = q
  BY <1>2, ConfigAssumption DEF NoKey, ConfigAssumption
<1>5. Minds(o) /\ pc'[o] = phase /\ next[o] = c /\ next'[o] = c + 1 /\ c \in Int
  BY <1>1, <1>4 DEF Minds, Visit, TypeOK, Clients
<1>6. ASSUME NEW d \in Clients, key'[d].by = o PROVE Owned(o, d)'
  <2>1. d # c /\ Owned(o, d) /\ d \in Int
    BY <1>3, <1>4, <1>6 DEF Clean, Clients
  <2> QED
    BY <1>5, <2>1 DEF Owned, Visit
<1> QED
  BY <1>1, <1>5, <1>6, MindsClean

LEMMA ExtendClean ==
    ASSUME Clean, Answering, TypeOK', NEW o \in Owners, ExtendCall(o)
    PROVE  Clean'
<1> PICK c \in Clients : /\ Visit(o, "extending", c)
                         /\ RenewKey(c, o) \/ UNCHANGED key
                         /\ UNCHANGED late
  BY DEF ExtendCall
<1>1. TypeOK /\ late' = {} /\ pc'[o] = "extending"
  BY DEF Clean, Visit
<1>2. Minds(o)
  BY <1>1, ConfigAssumption DEF Minds, Visit, RenewKey, NoKey, TypeOK, ConfigAssumption
<1> QED
  BY <1>1, <1>2, MindsClean DEF Owned

\* Time only takes keys away.
LEMMA TickClean == ASSUME Clean, TypeOK', Tick PROVE Clean'
<1>1. \A o \in Owners, c \in Clients : key'[c].by = o => key[c].by = o
  BY ConfigAssumption DEF Tick, NoKey, ConfigAssumption
<1>2. UNCHANGED <<pc, next, late>>
  BY DEF Tick
<1> QED
  BY <1>1, <1>2 DEF Clean, Owned

\* When the clients answer, a Lock that failed and a Lock that was unlocked have
\* left no key on any of them, however the calls of the owners interleave.
THEOREM NothingIsLeft == Answering => (Spec => []NothingLeft)
<1>1. Init => Clean
  <2>1. Init => \A c \in Clients : key[c].by = NoOwner
    BY DEF Init, NoKey
  <2> QED
    BY <2>1, TypeInit, ConfigAssumption DEF Init, Clean, ConfigAssumption
<1>2. Answering /\ Clean /\ [Next]_vars => Clean'
  <2> SUFFICES ASSUME Answering, Clean, [Next]_vars PROVE Clean'
    OBVIOUS
  <2>1. TypeOK'
    BY TypeStep DEF Clean
  <2>2. CASE UNCHANGED vars
    BY <2>1, <2>2 DEF Clean, Owned, vars
  <2>3. CASE ApplyLate
    BY <2>3 DEF ApplyLate, Clean
  <2>4. CASE Tick
    BY <2>1, <2>4, TickClean
  <2>5. ASSUME NEW o \in Owners, Lock(o) \/ Unlock(o) \/ Extend(o) \/ OwnerStep(o)
        PROVE  Clean'
    BY <2>1, <2>5, PhaseClean, SetClean, ReleaseClean, ExtendClean DEF OwnerStep
  <2> QED
    BY <2>2, <2>3, <2>4, <2>5 DEF Next
<1>3. Clean => NothingLeft
  BY DEF Clean, NothingLeft, Owned
<1>4. Answering => []Answering
  <2>1. Answering => Answering'
    BY DEF Answering
  <2> QED
    BY <2>1, PTL
<1> QED
  BY <1>1, <1>2, <1>3, <1>4, PTL DEF Spec

=============================================================================
