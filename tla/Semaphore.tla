----------------------------- MODULE Semaphore -----------------------------
(***************************************************************************)
(* What a synckit.Limiter promises its callers: a counting semaphore whose *)
(* ceiling may be moved at any time.  A slot is granted in one step, only  *)
(* when there is room under the ceiling of that moment; moving the ceiling *)
(* never takes a slot away from a holder.                                  *)
(***************************************************************************)
EXTENDS Integers, FiniteSets

CONSTANTS Goroutines,   \* the callers
          Limits        \* the ceilings SetLimit is called with

VARIABLES ceiling,      \* the limit in force: < 0 disabled, 0 unlimited
          holders       \* the callers that have a slot

vars == <<ceiling, holders>>

Room == \/ ceiling = 0
        \/ ceiling > 0 /\ Cardinality(holders) < ceiling

Init == /\ ceiling = 0
        /\ holders = {}

Grant(g) == /\ g \notin holders
            /\ Room
            /\ holders' = holders \cup {g}
            /\ UNCHANGED ceiling

Return(g) == /\ g \in holders
             /\ holders' = holders \ {g}
             /\ UNCHANGED ceiling

Move(n) == /\ ceiling' = n
           /\ UNCHANGED holders

Next == \/ \E g \in Goroutines : Grant(g) \/ Return(g)
        \/ \E n \in Limits : Move(n)

Spec == Init /\ [][Next]_vars
=============================================================================
