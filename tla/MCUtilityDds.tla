---------------------------- MODULE MCUtilityDds -----------------------------
(* Small instances of UtilityDds for TLC.  The threads are alike.            *)
EXTENDS UtilityDds, TLC

Threads == Permutations(Thread)
=============================================================================
