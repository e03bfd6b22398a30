------------------------- MODULE MCRWLockerFactory -------------------------
(* Two goroutines and one key, without the ReadOptimised shortcut.  As     *)
(* many lock identities as can be in use at once.                          *)
EXTENDS RWLockerFactory

CONSTANTS g1, g2, k1

TwoCallers == {g1, g2}
OneKey == {k1}
MCLocks == 1..3
NotReadOptimised == {FALSE}
=============================================================================
