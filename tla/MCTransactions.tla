--------------------------- MODULE MCTransactions ---------------------------
(* One goroutine, two queues behind the exchange, and two migration steps. *)
EXTENDS Transactions

MCQueues == <<"q1", "q2">>
=============================================================================
