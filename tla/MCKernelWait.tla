---------------------------- MODULE MCKernelWait -----------------------------
(***************************************************************************)
(* KernelWait for TLC.                                                     *)
(***************************************************************************)
EXTENDS KernelWait

MCOids == Threads \cup Pages \cup Activities

\* Pairs <<val1, val2>> of the futex call: with a waiter to wake or to move ...
SomeCounts == {<<1, 1>>, <<2, 1>>, <<0, 2>>}
\* ... and with none.
ZeroCounts == {<<0, 0>>}
WakeNone == {<<1, 0>>}

Symmetry == Permutations(Threads) \cup Permutations(Pages) \cup Permutations(Offsets)
=============================================================================
