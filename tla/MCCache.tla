------------------------------- MODULE MCCache ------------------------------
(* A cache that refreshes in the background, one that two clients use at   *)
(* the same time, and one with two ids.                                    *)
EXTENDS Cache

CONSTANTS k1, k2, c1, c2

MCKeys == {k1, k2}
MCClients == {c1, c2}
MCSetups == {[RefreshBehind |-> TRUE, clients |-> {c1}, keys |-> {k1},
              MaxFaults |-> 2],
             [RefreshBehind |-> FALSE, clients |-> {c1, c2}, keys |-> {k1},
              MaxFaults |-> 1],
             [RefreshBehind |-> FALSE, clients |-> {c1}, keys |-> {k1, k2},
              MaxFaults |-> 2]}
=============================================================================
