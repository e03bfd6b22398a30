------------------------------ MODULE Limiter ------------------------------
(***************************************************************************)
(* synckit.Limiter and synckit.LimiterWithCeiling (pkg/synckit/synckit.go) *)
(*                                                                         *)
(* A Limiter is a counter `held' and a ceiling `limit' guarded by the      *)
(* mutex m, with a condition variable c on which Lock waits for room.      *)
(* Every critical section of m is one action.  A goroutine that waits is   *)
(* "parked" from c.Wait until a Signal or a Broadcast names it, and        *)
(* "woken" until it has m again and re-checks hasRoom: between the two any *)
(* other goroutine may take the slot it was woken for.                     *)
(***************************************************************************)
EXTENDS Integers, FiniteSets

CONSTANTS Goroutines,   \* the goroutines that use the Limiter
          Limits,       \* arguments of SetLimit: < 0 disabled, 0 unlimited
          Ceiling       \* what LimitCeiling.Limit() of the wrapper returns

ASSUME GoroutinesAssumption == IsFiniteSet(Goroutines)
ASSUME LimitsAssumption == Limits \subseteq Int
ASSUME CeilingAssumption == Ceiling \in Limits

VARIABLES limit,   \* Limiter.limit
          held,    \* Limiter.held
          pc,      \* where each goroutine is in the methods of the Limiter
          arg,     \* the argument of the SetLimit a goroutine is inside of
          after    \* where that goroutine goes when SetLimit returns

vars == <<limit, held, pc, arg, after>>

PCs == {"idle",       \* outside of the Limiter, no slot held
        "holding",    \* outside of the Limiter, one slot held
        "setting",    \* in SetLimit, past the fast check
        "locking",    \* in Lock, before m is taken
        "trying",     \* in TryLock, before m is taken
        "parked",     \* in Lock, in the wait list of c
        "woken",      \* in Lock, taken off the wait list, not yet in m
        "panicked"}   \* Unlock found nothing held

Parked == {g \in Goroutines : pc[g] = "parked"}
Woken == {g \in Goroutines : pc[g] = "woken"}
Holders == {g \in Goroutines : pc[g] = "holding"}

----------------------------------------------------------------------------
(* A bug: the ceiling itself is taken for a free slot. *)
hasRoomOffByOne(lim, n) == \/ lim = 0
                           \/ lim > 0 /\ n <= lim

(* hasRoom with limit = lim and held = n. *)
hasRoom(lim, n) == \/ lim = 0
                   \/ lim > 0 /\ n < lim

Init == /\ limit = 0
        /\ held = 0
        /\ pc = [g \in Goroutines |-> "idle"]
        /\ arg = [g \in Goroutines |-> 0]
        /\ after = [g \in Goroutines |-> "idle"]

(* The body of Lock's loop, run with m held: take the slot or wait. *)
LoopBody(g) ==
    \/ /\ hasRoom(limit, held)
       /\ held' = held + 1
       /\ pc' = [pc EXCEPT ![g] = "holding"]
    \/ /\ ~hasRoom(limit, held)
       /\ pc' = [pc EXCEPT ![g] = "parked"]
       /\ UNCHANGED held

Lock(g) == /\ pc[g] \in {"idle", "locking"}
           /\ LoopBody(g)
           /\ UNCHANGED <<limit, arg, after>>

(* c.Wait returns with m: re-checked after every wake. *)
Recheck(g) == /\ pc[g] = "woken"
              /\ LoopBody(g)
              /\ UNCHANGED <<limit, arg, after>>

TryLock(g) == /\ pc[g] \in {"idle", "trying"}
              /\ IF hasRoom(limit, held)
                   THEN held' = held + 1 /\ pc' = [pc EXCEPT ![g] = "holding"]
                   ELSE pc' = [pc EXCEPT ![g] = "idle"] /\ UNCHANGED held
              /\ UNCHANGED <<limit, arg, after>>

(* A bug: the slot is given back and nobody is told. *)
UnlockSilent(g) == /\ pc[g] = "holding"
                   /\ held > 0
                   /\ held' = held - 1
                   /\ pc' = [pc EXCEPT ![g] = "idle"]
                   /\ UNCHANGED <<limit, arg, after>>

(* held-- and c.Signal(): one parked goroutine, if there is one, is woken. *)
Unlock(g) == /\ pc[g] = "holding"
             /\ held > 0
             /\ held' = held - 1
             /\ \/ /\ Parked = {}
                   /\ pc' = [pc EXCEPT ![g] = "idle"]
                \/ \E w \in Parked :
                      pc' = [pc EXCEPT ![g] = "idle", ![w] = "woken"]
             /\ UNCHANGED <<limit, arg, after>>

(* Unlock without Lock, while nothing is held: the deferred m.Unlock runs. *)
UnlockPanic(g) == /\ pc[g] \in {"idle", "holding"}
                  /\ held = 0
                  /\ pc' = [pc EXCEPT ![g] = "panicked"]
                  /\ UNCHANGED <<limit, held, arg, after>>

(* The fast check of SetLimit under m.RLock; `next' is where the caller    *)
(* goes on afterwards.                                                     *)
SetLimitFastCheck(g, n, next) ==
    /\ pc[g] = "idle"
    /\ IF limit = n
         THEN /\ pc' = [pc EXCEPT ![g] = next]
              /\ UNCHANGED <<arg, after>>
         ELSE /\ pc' = [pc EXCEPT ![g] = "setting"]
              /\ arg' = [arg EXCEPT ![g] = n]
              /\ after' = [after EXCEPT ![g] = next]
    /\ UNCHANGED <<limit, held>>

(* Limiter.SetLimit, and the Lock and TryLock of LimiterWithCeiling, which *)
(* set the limit to the ceiling before they go on.                         *)
CallSetLimit(g) == \E n \in Limits : SetLimitFastCheck(g, n, "idle")
CeilingLock(g) == SetLimitFastCheck(g, Ceiling, "locking")
CeilingTryLock(g) == SetLimitFastCheck(g, Ceiling, "trying")

(* A bug: SetLimit wakes one waiter instead of all of them. *)
SetLimitSignals(g) ==
    /\ pc[g] = "setting"
    /\ limit' = arg[g]
    /\ \/ /\ ~hasRoom(arg[g], held) \/ Parked = {} \/ limit = arg[g]
          /\ pc' = [pc EXCEPT ![g] = after[g]]
       \/ /\ hasRoom(arg[g], held) /\ limit # arg[g]
          /\ \E w \in Parked : pc' = [pc EXCEPT ![g] = after[g], ![w] = "woken"]
    /\ arg' = [arg EXCEPT ![g] = 0]
    /\ after' = [after EXCEPT ![g] = "idle"]
    /\ UNCHANGED held

(* SetLimit with m held; every parked goroutine is woken if there is room. *)
SetLimit(g) ==
    /\ pc[g] = "setting"
    /\ limit' = arg[g]
    /\ pc' = [h \in Goroutines |->
                IF h = g THEN after[g]
                ELSE IF h \in Parked /\ limit # arg[g] /\ hasRoom(arg[g], held)
                  THEN "woken" ELSE pc[h]]
    /\ arg' = [arg EXCEPT ![g] = 0]
    /\ after' = [after EXCEPT ![g] = "idle"]
    /\ UNCHANGED held

Step(g) == \/ Lock(g) \/ Recheck(g) \/ TryLock(g)
           \/ Unlock(g) \/ UnlockPanic(g)
           \/ CallSetLimit(g) \/ CeilingLock(g) \/ CeilingTryLock(g)
           \/ SetLimit(g)

Next == \E g \in Goroutines : Step(g)

(* A goroutine inside a method goes on, and a holder unlocks at last;      *)
(* nobody has to call Lock, TryLock or SetLimit.                           *)
Fairness == \A g \in Goroutines :
               /\ WF_vars(pc[g] = "locking" /\ Lock(g))
               /\ WF_vars(pc[g] = "trying" /\ TryLock(g))
               /\ WF_vars(Recheck(g))
               /\ WF_vars(SetLimit(g))
               /\ WF_vars(Unlock(g))

Spec == Init /\ [][Next]_vars
FairSpec == Spec /\ Fairness

----------------------------------------------------------------------------
TypeOK == /\ limit \in Limits \cup {0}
          /\ held \in Nat
          /\ pc \in [Goroutines -> PCs]
          /\ arg \in [Goroutines -> Limits \cup {0}]
          /\ after \in [Goroutines -> {"idle", "locking", "trying"}]
          /\ \A g \in Goroutines : pc[g] = "setting" => arg[g] \in Limits

(* No wake-up is lost: while a goroutine is parked in Lock, every free     *)
(* slot is matched by a goroutine that has been woken and not yet had its  *)
(* turn.  A waiter is never left parked with room and nobody on the way.   *)
NoLostWakeup ==
    Parked # {} => \/ limit < 0
                   \/ limit > 0 /\ held + Cardinality(Woken) >= limit

(* The count is the number of goroutines that have a slot, so that the     *)
(* panic of Unlock never meets a goroutine that did lock.                  *)
HeldCounted == held = Cardinality(Holders)

(* Seen from outside, the Limiter is a semaphore: every slot is granted    *)
(* under the ceiling of that moment, however wake-ups, barging goroutines  *)
(* and SetLimit interleave, and lowering the limit preempts no holder.     *)
Sem == INSTANCE Semaphore WITH ceiling <- limit, holders <- Holders
IsSemaphore == Sem!Spec

(* The Limiter does not stall: as long as somebody waits in Lock and the   *)
(* Limiter is not disabled again and again, slots keep being granted.      *)
NoStall == \/ []<>(Parked = {})
           \/ []<>(limit < 0)
           \/ []<><<held' > held>>_vars
=============================================================================
