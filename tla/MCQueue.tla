------------------------------ MODULE MCQueue ------------------------------
(* Two publishers, one reply and two subscriptions. *)
EXTENDS Queue

CONSTANTS r1, r2, y1, s1, s2

MCRoots == {r1, r2}
MCReplies == {y1}
MCReplyTo == [y \in MCReplies |-> r1]
MCRank == (r1 :> 2) @@ (r2 :> 1) @@ (y1 :> 1)
MCSubs == {s1, s2}
MCConfigs == {[order |-> "FIFO", volatile |-> FALSE, blocking |-> FALSE],
              [order |-> "less", volatile |-> TRUE, blocking |-> FALSE],
              [order |-> "LIFO", volatile |-> FALSE, blocking |-> TRUE]}
=============================================================================
