-------------------------- MODULE RWLockerFactory --------------------------
(***************************************************************************)
(* synckit.RWLockerFactory (pkg/synckit/synckit.go): a table of reference- *)
(* counted read/write locks, one per key in use.                           *)
(*                                                                         *)
(* The factory's own RWMutex m guards the table.  A section under m that   *)
(* does not outlive its statement is one action; the one read lock that    *)
(* does, the ReadOptimised shortcut, is the set of Shortcut readers.  The  *)
(* read/write lock of an entry is free or held according to who is "in".   *)
(* The user count is incremented under m but decremented outside of it,    *)
(* so a goroutine that found zero reaches the table later ("sweeping").    *)
(* Every goroutine uses a handle of its own.                               *)
(***************************************************************************)
EXTENDS Integers, FiniteSets

CONSTANTS Callers,         \* the goroutines that use the factory
          Keys,
          Locks,           \* identities for the _Lock objects
          NoLock,          \* no entry, no lock, no key
          Configurations   \* the values RWLockerFactory.ReadOptimised may have

ASSUME NoLockAssumption == NoLock \notin Locks \cup Keys
ASSUME ConfigurationsAssumption == Configurations \subseteq BOOLEAN
ASSUME TablesAssumption ==
    IsFiniteSet(Callers) /\ IsFiniteSet(Keys) /\ IsFiniteSet(Locks)

(* A new lock can always be allocated: no more identities are in use than  *)
(* the table has keys and goroutines have locks.                           *)
ASSUME LocksAssumption ==
    Cardinality(Locks) >= Cardinality(Callers) + Cardinality(Keys)

VARIABLES ReadOptimised,   \* a field set before use, never after
          locks,   \* RWLockerFactory.locks: the entry of each key
          users,   \* _Lock.UserCount
          at,      \* where a goroutine is between its calls of a handle
          key, mode,
          lk,      \* the _Lock a goroutine got from the table
          queued   \* the goroutines blocked in m.Lock by shortcut readers

factoryVars == <<ReadOptimised, locks, users, at, key, mode, lk, queued>>

FactoryPCs == {"idle", "creating", "acquiring", "announced", "in", "leaving",
               "sweeping"}

(* The goroutines counted as users of a lock. *)
Users(l) == {g \in Callers :
                lk[g] = l /\ at[g] \in {"acquiring", "announced", "in", "leaving"}}

(* Readers that hold m.RLock of the factory in place of a lock of the key. *)
Shortcut == {g \in Callers : at[g] = "in" /\ lk[g] = NoLock}

(* A _Lock nobody can reach any more; its memory may serve a new one. *)
Unreachable == {l \in Locks : /\ \A k \in Keys : locks[k] # l
                              /\ \A g \in Callers : lk[g] # l}

----------------------------------------------------------------------------
FactoryInit == /\ ReadOptimised \in Configurations
               /\ locks = [k \in Keys |-> NoLock]
               /\ users = [l \in Locks |-> 0]
               /\ at = [g \in Callers |-> "idle"]
               /\ key = [g \in Callers |-> NoLock]
               /\ mode = [g \in Callers |-> "write"]
               /\ lk = [g \in Callers |-> NoLock]
               /\ queued = {}

(* m.incUserCount() of an entry found or made, before m is given up. *)
Use(g, l) == /\ users' = [users EXCEPT ![l] = @ + 1]
             /\ lk' = [lk EXCEPT ![g] = l]
             /\ at' = [at EXCEPT ![g] = "acquiring"]

(* Lock and RLock of a handle: the lookup under m.RLock, which a blocked   *)
(* m.Lock keeps out.                                                       *)
Call(g, k, md) ==
    /\ at[g] = "idle"
    /\ queued = {}
    /\ key' = [key EXCEPT ![g] = k]
    /\ mode' = [mode EXCEPT ![g] = md]
    /\ \/ /\ locks[k] # NoLock
          /\ Use(g, locks[k])
       \/ /\ locks[k] = NoLock /\ md = "read" /\ ReadOptimised
          /\ at' = [at EXCEPT ![g] = "in"]
          /\ UNCHANGED <<users, lk>>
       \/ /\ locks[k] = NoLock /\ ~(md = "read" /\ ReadOptimised)
          /\ at' = [at EXCEPT ![g] = "creating"]
          /\ UNCHANGED <<users, lk>>
    /\ UNCHANGED <<ReadOptimised, locks, queued>>

(* m.Lock, of sync or of release, has to wait for shortcut readers. *)
Queue(g) ==
    /\ at[g] \in {"creating", "sweeping"}
    /\ Shortcut # {}
    /\ g \notin queued
    /\ queued' = queued \cup {g}
    /\ UNCHANGED <<ReadOptimised, locks, users, at, key, mode, lk>>

(* The second lookup, under m.Lock, and the new entry if there is none. *)
Create(g) ==
    /\ at[g] = "creating"
    /\ Shortcut = {}
    /\ \/ /\ locks[key[g]] # NoLock
          /\ Use(g, locks[key[g]])
          /\ UNCHANGED locks
       \/ /\ locks[key[g]] = NoLock
          /\ LET l == CHOOSE l \in Unreachable : TRUE
             IN  /\ locks' = [locks EXCEPT ![key[g]] = l]
                 /\ users' = [users EXCEPT ![l] = 1]
                 /\ lk' = [lk EXCEPT ![g] = l]
          /\ at' = [at EXCEPT ![g] = "acquiring"]
    /\ queued' = queued \ {g}
    /\ UNCHANGED <<ReadOptimised, key, mode>>

(* Lock or RLock of the entry's embedded sync.RWMutex.  A writer announces *)
(* itself, one at a time, which keeps new readers out; then it waits for   *)
(* the readers that are in.                                                *)
Acquire(g) ==
    /\ at[g] = "acquiring"
    /\ \A h \in Callers :
          at[h] \in {"announced", "in"} /\ lk[h] = lk[g] => mode[h] = "read"
    /\ at' = [at EXCEPT ![g] = IF mode[g] = "read" THEN "in" ELSE "announced"]
    /\ UNCHANGED <<ReadOptimised, locks, users, key, mode, lk, queued>>

Enter(g) ==
    /\ at[g] = "announced"
    /\ \A h \in Callers : ~(at[h] = "in" /\ lk[h] = lk[g])
    /\ at' = [at EXCEPT ![g] = "in"]
    /\ UNCHANGED <<ReadOptimised, locks, users, key, mode, lk, queued>>

(* The call is over; what it was about is forgotten. *)
Forget(g) == /\ at' = [at EXCEPT ![g] = "idle"]
             /\ lk' = [lk EXCEPT ![g] = NoLock]
             /\ key' = [key EXCEPT ![g] = NoLock]
             /\ mode' = [mode EXCEPT ![g] = "write"]

(* A bug: a shortcut reader treats the factory's lock like a lock of its   *)
(* own that somebody else will give up.                                    *)
UnlockForgetful(g) ==
    /\ at[g] = "in"
    /\ lk[g] # NoLock
    /\ at' = [at EXCEPT ![g] = "leaving"]
    /\ UNCHANGED <<ReadOptimised, locks, users, key, mode, lk, queued>>

(* Unlock and RUnlock: the entry's mutex, or the factory's, is given up. *)
UnlockKey(g) ==
    /\ at[g] = "in"
    /\ IF lk[g] = NoLock
         THEN Forget(g)
         ELSE at' = [at EXCEPT ![g] = "leaving"] /\ UNCHANGED <<lk, key, mode>>
    /\ UNCHANGED <<ReadOptimised, locks, users, queued>>

(* decUserCount, without m: zero sends the goroutine on to the table. *)
Release(g) ==
    /\ at[g] = "leaving"
    /\ users' = [users EXCEPT ![lk[g]] = @ - 1]
    /\ IF users[lk[g]] = 1
         THEN at' = [at EXCEPT ![g] = "sweeping"] /\ UNCHANGED <<lk, key, mode>>
         ELSE Forget(g)
    /\ UNCHANGED <<ReadOptimised, locks, queued>>

(* A bug: the second check of the user count, under m, is inverted. *)
SweepInverted(g) ==
    /\ at[g] = "sweeping"
    /\ Shortcut = {}
    /\ locks' = [locks EXCEPT ![key[g]] = IF users[lk[g]] # 0 THEN NoLock ELSE @]
    /\ Forget(g)
    /\ queued' = queued \ {g}
    /\ UNCHANGED <<ReadOptimised, users>>

(* The rest of release under m.Lock: whatever entry the key has now is     *)
(* deleted if the goroutine's own lock still has no user.                  *)
Sweep(g) ==
    /\ at[g] = "sweeping"
    /\ Shortcut = {}
    /\ locks' = [locks EXCEPT ![key[g]] = IF users[lk[g]] = 0 THEN NoLock ELSE @]
    /\ Forget(g)
    /\ queued' = queued \ {g}
    /\ UNCHANGED <<ReadOptimised, users>>

(* The steps a goroutine takes once it has called. *)
FactoryStep(g) == \/ Queue(g) \/ Create(g) \/ Acquire(g) \/ Enter(g)
                  \/ UnlockKey(g) \/ Release(g) \/ Sweep(g)

FactoryNext == \E g \in Callers :
                  \/ \E k \in Keys, md \in {"read", "write"} : Call(g, k, md)
                  \/ FactoryStep(g)

(* A sync.RWMutex starves neither readers nor writers, hence the strong    *)
(* fairness of a goroutine that waits for one; holders unlock at last.     *)
FactoryFairness == \A g \in Callers : SF_factoryVars(FactoryStep(g))

FactorySpec == FactoryInit /\ [][FactoryNext]_factoryVars
FairFactorySpec == FactorySpec /\ FactoryFairness

----------------------------------------------------------------------------
FactoryTypeOK == /\ ReadOptimised \in Configurations
                 /\ locks \in [Keys -> Locks \cup {NoLock}]
                 /\ users \in [Locks -> Nat]
                 /\ at \in [Callers -> FactoryPCs]
                 /\ key \in [Callers -> Keys \cup {NoLock}]
                 /\ mode \in [Callers -> {"read", "write"}]
                 /\ lk \in [Callers -> Locks \cup {NoLock}]
                 /\ queued \subseteq Callers

(* The table leaks nothing: an entry always has a user, or a goroutine     *)
(* that found its count at zero and is on its way to remove it.  When      *)
(* every goroutine is done the table is empty again.                       *)
NoLeak == \A k \in Keys : locks[k] # NoLock =>
             \E g \in Callers : lk[g] = locks[k] /\ key[g] = k

(* The user count of a lock is the number of goroutines between their      *)
(* increment and their decrement, and a lock in the table is never one     *)
(* that a goroutine of another key uses.                                   *)
UsersCounted == \A l \in Locks :
                   /\ users[l] = Cardinality(Users(l))
                   /\ \A g \in Users(l), k \in Keys : locks[k] = l => key[g] = k

(* The table is exact: every variable has its type, no entry is left       *)
(* behind, and every lock is used and counted by the goroutines of its key *)
(* only, although the count is decremented before m is taken (unlock).     *)
TableExact == FactoryTypeOK /\ NoLeak /\ UsersCounted

(* A goroutine that asks for a lock gets it, as long as holders unlock. *)
Granted == \A g \in Callers : at[g] \in {"creating", "acquiring"} ~> at[g] = "in"

(* Per-key mutual exclusion of writers: "write lockers for the same key    *)
(* will hang when they try to acquire the lock", so that two goroutines    *)
(* never hold the write lock of one key at once.                           *)
MutualExclusion == \A g, h \in Callers :
    /\ g # h
    /\ at[g] = "in" /\ at[h] = "in"
    /\ key[g] = key[h]
    => mode[g] = "read" \/ mode[h] = "read"
=============================================================================
