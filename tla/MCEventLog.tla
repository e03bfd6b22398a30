----------------------------- MODULE MCEventLog -----------------------------
(* Two clients, both with transactions or one with nested ones, two ids. *)
EXTENDS EventLog, TLC

CONSTANTS c1, c2, k1, k2

MCClients == {c1, c2}
MCKeys == {k1, k2}
MCDepths == {(c1 :> 2) @@ (c2 :> 0), (c1 :> 1) @@ (c2 :> 1)}
MCCancellable == {c1}
Symmetry == Permutations(MCKeys)
=============================================================================
