------------------------------ MODULE MCGroup ------------------------------
(* Two members, two goroutines that Wait and one that uses Done. *)
EXTENDS Group

CONSTANTS t1, t2, w1, w2, d1

MCTasks == {t1, t2}
MCWaiters == {w1, w2}
MCReceivers == {d1}
=============================================================================
