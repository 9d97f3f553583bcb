------------------------------ MODULE Redlock ------------------------------
(***************************************************************************)
(* The distributed lock of redlock.go, for one resource.                   *)
(*                                                                         *)
(* An owner is one call of Lock with the value it generates, and then the  *)
(* Lock that call returns, used by one goroutine.  Clients are visited in  *)
(* the order of the slice.  Time passes in ticks, any number of steps      *)
(* between two; instead of instants the state has the ticks that passed    *)
(* since one (age) or that are left until one (left, lease).               *)
(* The server behind a client (a key with an expiry, set, compare-and-     *)
(* delete, compare-and-expire) is external: what the code needs of it.     *)
(***************************************************************************)
EXTENDS Integers, FiniteSets

CONSTANTS Owners, NoOwner,
          N,            \* how many clients
          Quorum,
          TTL,          \* the ttl of every Lock
          Drift,        \* int(ttl * driftFactor)
          Pause,        \* bound on the ticks between the two reads of the clock
                        \* at the end of tryAcquireLockWithTimeout
          ExtendTTL,    \* the ttl of every Extend; 0: Extend is not called
          Second,       \* ticks per second, the unit of EXPIRE
          MaxRetries,
          Overwrites,   \* TRUE: Set replaces a live key, as its signature allows
          Faults,       \* what may happen to a call of a client: "Timeout",
                        \* and, after it, that the server still applies it:
                        \* "LateSet", "LateRelease"
          MaxLate       \* bound on the calls still to be applied, for TLC

Clients == 1..N

ASSUME ConfigAssumption ==
    /\ NoOwner \notin Owners
    /\ N \in Nat \ {0} /\ Quorum \in 1..N
    /\ TTL \in Nat \ {0} /\ Drift \in Nat /\ Pause \in Nat
    /\ ExtendTTL \in Nat /\ Second \in Nat \ {0}
    /\ MaxRetries \in Nat /\ Overwrites \in BOOLEAN
    /\ MaxLate \in Nat

VARIABLES
    key,        \* what each client stores for the resource, for how long yet
    pc,         \* where each owner is
    next,       \* the client it calls next
    acks,       \* the clients that acknowledged in the round under way
    age,        \* the ticks since startTime, then since lock.created
    lease,      \* the ticks left until lock.created + lock.ttl
    attempt,
    late        \* timed-out calls that a server may still apply

vars == <<key, pc, next, acks, age, lease, attempt, late>>

NoKey == [by |-> NoOwner, left |-> 0]
Free(c) == key[c] = NoKey

Init == /\ key = [c \in Clients |-> NoKey]
        /\ pc = [o \in Owners |-> "idle"]
        /\ next = [o \in Owners |-> 1]
        /\ acks = [o \in Owners |-> {}]
        /\ age = [o \in Owners |-> 0]
        /\ lease = [o \in Owners |-> 0]
        /\ attempt = [o \in Owners |-> 1]
        /\ late = {}

-----------------------------------------------------------------------------
(* The servers                                                             *)

Settable(c) == Free(c) \/ Overwrites
SetKey(c, o) ==
    key' = IF Settable(c) THEN [key EXCEPT ![c] = [by |-> o, left |-> TTL]] ELSE key

\* Not the code: Del without the comparison.
DropAny(c, o) == key' = [key EXCEPT ![c] = NoKey]

\* The script of releaseLockWithTimeout.
DropKey(c, o) ==
    key' = IF key[c].by = o THEN [key EXCEPT ![c] = NoKey] ELSE key

\* The script of Extend: EXPIRE takes whole seconds and deletes the key at 0.
Whole(t) == (t \div Second) * Second
RenewKey(c, o) ==
    /\ key[c].by = o
    /\ key' = [key EXCEPT ![c] = IF Whole(ExtendTTL) = 0 THEN NoKey
                                 ELSE [by |-> o, left |-> Whole(ExtendTTL)]]

-----------------------------------------------------------------------------
(* The loops over the clients: owner o visits client c in phase, or has    *)
(* visited them all and goes on to the phase that follows.                 *)

Visit(o, phase, c) == /\ pc[o] = phase /\ next[o] = c
                      /\ next' = [next EXCEPT ![o] = c + 1]
                      /\ UNCHANGED pc
Visited(o, phase) == pc[o] = phase /\ next[o] = N + 1
Enter(o, phase) == /\ pc' = [pc EXCEPT ![o] = phase]
                   /\ next' = [next EXCEPT ![o] = 1]

Ack(o, c) == acks' = [acks EXCEPT ![o] = @ \cup {c}]
NoAcks(o) == acks' = [acks EXCEPT ![o] = {}]
Aged(o, t) == age' = [age EXCEPT ![o] = t]
Lease(o, t) == lease' = [lease EXCEPT ![o] = t]

\* A call that ended with an error of the client or its context's deadline.
TimeOut(call, o, c) ==
    /\ "Timeout" \in Faults
    /\ \/ UNCHANGED late
       \/ /\ Cardinality(late) < MaxLate
          /\ \/ call = "set" /\ "LateSet" \in Faults
             \/ call = "release" /\ "LateRelease" \in Faults
          /\ late' = late \cup {<<call, o, c, attempt[o]>>}

ApplyLate ==
    \E o \in Owners, c \in Clients, n \in 1..MaxRetries+1 :
        /\ \/ /\ <<"set", o, c, n>> \in late
              /\ late' = late \ {<<"set", o, c, n>>}
              /\ SetKey(c, o)
           \/ /\ <<"release", o, c, n>> \in late
              /\ late' = late \ {<<"release", o, c, n>>}
              /\ DropKey(c, o)
        /\ UNCHANGED <<pc, next, acks, age, lease, attempt>>

-----------------------------------------------------------------------------
(* Lock, LockWithRetry, TryLock (no retries) and LockWithTimeout           *)

Attempt(o) ==
    /\ Enter(o, "setting")
    /\ Aged(o, 0)
    /\ UNCHANGED <<key, acks, lease, late>>

Lock(o) == /\ pc[o] = "idle"
           /\ Attempt(o)
           /\ UNCHANGED attempt

\* One Set of the loop in tryAcquireLockWithTimeout.
SetCall(o) ==
    \E c \in Clients :
        /\ Visit(o, "setting", c)
        /\ \/ /\ SetKey(c, o)
              /\ IF Settable(c) THEN Ack(o, c) ELSE UNCHANGED acks
              /\ UNCHANGED late
           \/ TimeOut("set", o, c) /\ UNCHANGED <<key, acks>>
        /\ UNCHANGED <<age, lease, attempt>>

\* Not the code: the drift is forgotten.
ValidityUndrifted(o) == TTL - age[o]

\* ttl - elapsed - drift
Validity(o) == TTL - age[o] - Drift

JudgeAttempt(o) ==
    /\ Visited(o, "setting")
    /\ NoAcks(o)
    /\ Aged(o, 0)
    /\ IF Cardinality(acks[o]) >= Quorum /\ Validity(o) > 0
       THEN Enter(o, "granted") /\ Lease(o, Validity(o))
       ELSE Enter(o, "releasing") /\ UNCHANGED lease
    /\ UNCHANGED <<key, attempt, late>>

\* created is a second reading of the clock, after the validity was computed;
\* the lease runs from here.
Acquire(o) ==
    /\ pc[o] = "granted"
    /\ Enter(o, "held")
    /\ Aged(o, 0)
    /\ UNCHANGED <<key, acks, lease, attempt, late>>

\* Not the code: the loop stops before the last client.
ReleaseAllButLast(o) ==
    \E c \in Clients, phase \in {"releasing", "unlocking"} :
        /\ Visit(o, phase, c)
        /\ \/ c < N /\ DropKey(c, o) /\ UNCHANGED late
           \/ c = N /\ UNCHANGED <<key, late>>
        /\ UNCHANGED <<acks, age, lease, attempt>>

\* One Eval of releaseLocksWithTimeout or of Unlock.
ReleaseCall(o) ==
    \E c \in Clients, phase \in {"releasing", "unlocking"} :
        /\ Visit(o, phase, c)
        /\ \/ DropKey(c, o) /\ UNCHANGED late
           \/ TimeOut("release", o, c) /\ UNCHANGED key
        /\ UNCHANGED <<acks, age, lease, attempt>>

\* Faulty variant: an attempt that is not counted.
RetryUncounted(o) ==
    /\ Visited(o, "releasing")
    /\ Attempt(o)
    /\ UNCHANGED attempt

\* After the retry delay; the value stays the same.
Retry(o) ==
    /\ Visited(o, "releasing")
    /\ attempt[o] <= MaxRetries
    /\ Attempt(o)
    /\ attempt' = [attempt EXCEPT ![o] = @ + 1]

\* The retries are used up, or the context is done.
Fail(o) ==
    /\ Visited(o, "releasing")
    /\ attempt[o] > MaxRetries \/ "Timeout" \in Faults
    /\ Enter(o, "failed")
    /\ UNCHANGED <<key, acks, age, lease, attempt, late>>

-----------------------------------------------------------------------------
(* Unlock and Extend                                                       *)

\* The compare-and-swap of acquired.
Unlock(o) ==
    /\ pc[o] = "held"
    /\ Enter(o, "unlocking")
    /\ Aged(o, 0) /\ Lease(o, 0)
    /\ UNCHANGED <<key, acks, attempt, late>>

Unlocked(o) ==
    /\ Visited(o, "unlocking")
    /\ Enter(o, "done")
    /\ UNCHANGED <<key, acks, age, lease, attempt, late>>

Extend(o) ==
    /\ ExtendTTL > 0
    /\ pc[o] = "held"
    /\ Enter(o, "extending")
    /\ UNCHANGED <<key, acks, age, lease, attempt, late>>

\* One Eval of Extend; an answer can be lost after the server applied it.
ExtendCall(o) ==
    \E c \in Clients :
        /\ Visit(o, "extending", c)
        /\ \/ RenewKey(c, o) /\ Ack(o, c)
           \/ RenewKey(c, o) /\ "Timeout" \in Faults /\ UNCHANGED acks
           \/ /\ key[c].by # o \/ "Timeout" \in Faults
              /\ UNCHANGED <<key, acks>>
        /\ UNCHANGED <<age, lease, attempt, late>>

\* lock.ttl is set; created stays.
JudgeExtension(o) ==
    /\ Visited(o, "extending")
    /\ Enter(o, "held")
    /\ NoAcks(o)
    /\ IF Cardinality(acks[o]) >= Quorum
       THEN Lease(o, IF age[o] < ExtendTTL THEN ExtendTTL - age[o] ELSE 0)
       ELSE UNCHANGED lease
    /\ UNCHANGED <<key, age, attempt, late>>

-----------------------------------------------------------------------------
(* A tick.  Beyond the longest ttl an age makes no difference.             *)

Aging   == {"setting", "granted", "held", "extending"}
Leasing == {"held", "extending"}

Tick ==
    /\ \A o \in Owners : pc[o] = "granted" => age[o] < Pause
    /\ key' = [c \in Clients |-> IF key[c].left > 1
                  THEN [by |-> key[c].by, left |-> key[c].left - 1] ELSE NoKey]
    /\ age' = [o \in Owners |-> IF pc[o] \in Aging /\ age[o] < TTL + ExtendTTL
                  THEN age[o] + 1 ELSE age[o]]
    /\ lease' = [o \in Owners |-> IF pc[o] \in Leasing /\ lease[o] > 0
                  THEN lease[o] - 1 ELSE lease[o]]
    /\ UNCHANGED <<pc, next, acks, attempt, late>>

OwnerStep(o) == \/ SetCall(o) \/ JudgeAttempt(o) \/ Acquire(o)
                \/ ReleaseCall(o) \/ Retry(o) \/ Fail(o)
                \/ Unlocked(o) \/ ExtendCall(o) \/ JudgeExtension(o)

Next == \/ \E o \in Owners : Lock(o) \/ Unlock(o) \/ Extend(o) \/ OwnerStep(o)
        \/ ApplyLate
        \/ Tick

Spec == Init /\ [][Next]_vars

\* Every call of a client ends, at the latest with its context; nobody need
\* call Lock, Unlock or Extend.
FairSpec == Spec /\ \A o \in Owners : WF_vars(OwnerStep(o))

-----------------------------------------------------------------------------
(* Properties                                                              *)

\* The owner has the Lock, has not unlocked it, and IsExpired is false (up to
\* the nanosecond at which created + ttl is reached).
Holds(o) == pc[o] \in Leasing /\ lease[o] > 0

\* Every variable holds a value of its type.
TypeOK == /\ key \in [Clients -> [by : Owners \cup {NoOwner}, left : Nat]]
          /\ \A c \in Clients : key[c].by = NoOwner <=> key[c].left = 0
          /\ pc \in [Owners -> {"idle", "setting", "granted", "releasing", "held",
                                "extending", "unlocking", "done", "failed"}]
          /\ next \in [Owners -> 1..N+1]
          /\ acks \in [Owners -> SUBSET Clients]
          /\ age \in [Owners -> Nat]
          /\ lease \in [Owners -> Nat]
          /\ attempt \in [Owners -> 1..MaxRetries+1]
          /\ late \subseteq {"set", "release"} \X Owners \X Clients \X (1..MaxRetries+1)

\* No two owners hold unexpired locks (redlock.go:36 "a distributed lock").
MutualExclusion == \A o, p \in Owners : Holds(o) /\ Holds(p) => o = p

\* An owner that has not started to release its lock loses a key only when the
\* key expires, whatever the other owners' sets, releases, timeouts and retries
\* do meanwhile (redlock.go:343, the compare-and-delete script).
KeyIsKept ==
    [][\A c \in Clients, o \in Owners :
          key[c].by = o /\ key[c].left > 1 /\ key'[c].by # o
            => pc[o] \in {"releasing", "unlocking", "failed", "done"}]_vars

\* A Lock that failed and a Lock that was unlocked leave no key behind, when
\* the clients answer (redlock.go:280 "Release locks on clients where we succeeded").
NothingLeft == \A o \in Owners, c \in Clients :
    pc[o] \in {"failed", "done"} => key[c].by # o

\* Lock returns whatever the clients do (redlock.go:188 "with retry logic and
\* context awareness").
LockReturns == \A o \in Owners : pc[o] = "setting" ~> pc[o] \in {"held", "failed"}
=============================================================================
