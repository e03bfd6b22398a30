----------------------------- MODULE MCCommits -----------------------------
(***************************************************************************)
(* Commit and rollback in the two models that share no state: MemoryTx,    *)
(* with two clients of the in-memory store, each with a transaction, one   *)
(* of them with a nested one; and Transactions, with one goroutine, two    *)
(* queues behind the exchange and two migration steps.  A behaviour is     *)
(* about one of them, chosen at the start.                                 *)
(***************************************************************************)
EXTENDS MemoryTx, MCTransactions, TLC

CONSTANTS c1, c2, k1, k2

MCClients == {c1, c2}
MCKeys == {k1, k2}
MCNesting == (c1 :> 2) @@ (c2 :> 1)
Symmetry == Permutations(MCKeys)

VARIABLE used   \* which model this behaviour is about

CommitsInit == used \in {"memory", "transactions"} /\ MemoryInit /\ Init

CommitsNext ==
    /\ UNCHANGED used
    /\ \/ used = "memory" /\ MemoryNext /\ UNCHANGED vars
       \/ used = "transactions" /\ Next /\ UNCHANGED memoryVars

CommitsSpec == CommitsInit /\ [][CommitsNext]_<<used, memoryVars, vars>>
=============================================================================
