---------------------------- MODULE MCExchange -----------------------------
(* Two publishers, two consumers one of which may NACK, one closer. *)
EXTENDS Exchange

CONSTANTS p1, p2, c1, c2, k1

MCPublishers == {p1, p2}
MCConsumers == {c1, c2}
MCClosers == {k1}
MCCancellable == {c1}
MCNackers == {c1}
BothKinds == {"fan", "broadcast"}
=============================================================================
