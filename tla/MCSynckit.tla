----------------------------- MODULE MCSynckit -----------------------------
(***************************************************************************)
(* The synchronisation primitives of pkg/synckit that share no state: a    *)
(* Limiter, an RWLockerFactory and a Phaser, each with goroutines of its   *)
(* own.  As they cannot meet, a behaviour uses one of them, chosen at the  *)
(* start, and leaves the others as they are: interleaving them would show  *)
(* nothing more.                                                           *)
(***************************************************************************)
EXTENDS Limiter, RWLockerFactory, Phaser, TLC

CONSTANTS g1, g2, g3, k1, a, b

VARIABLE used   \* which primitive this behaviour is about

(* Limiter: a disabled, an unlimited and two bounded limits.               *)
MCGoroutines == {g1, g2, g3}
MCLimits == {-1, 0, 1, 2}
MCCeiling == 1

(* RWLockerFactory: as many locks as can be in use at once, one for each   *)
(* goroutine and one for the key.                                          *)
OneKey == {k1}
MCLocks == 1..4
BothConfigurations == BOOLEAN

(* Phaser: two goroutines that wait with the same two lockers, one without.*)
MCLockers == {a, b}
MCLockersOf == (g1 :> <<a, b>>) @@ (g2 :> <<a, b>>) @@ (g3 :> << >>)

SynckitInit == /\ used \in {"limiter", "factory", "phaser"}
               /\ Init /\ FactoryInit /\ PhaserInit
               /\ used # "factory" => ~ReadOptimised

SynckitNext ==
    /\ UNCHANGED used
    /\ \/ /\ used = "limiter" /\ Next
          /\ UNCHANGED <<factoryVars, phaserVars>>
       \/ /\ used = "factory" /\ FactoryNext
          /\ UNCHANGED <<vars, phaserVars>>
       \/ /\ used = "phaser" /\ PhaserNext
          /\ UNCHANGED <<vars, factoryVars>>

(* What the fairness of a primitive asks for is disabled while it is not   *)
(* in use.                                                                 *)
SynckitSpec == /\ SynckitInit
               /\ [][SynckitNext]_<<used, vars, factoryVars, phaserVars>>
               /\ Fairness /\ FactoryFairness /\ PhaserFairness
=============================================================================
