---------------------------- MODULE MCThreadPool ----------------------------
(***************************************************************************)
(* ThreadPool on small sets of threads.  Workers, spare slots and callers  *)
(* are interchangeable, each among themselves.                             *)
(***************************************************************************)
EXTENDS ThreadPool, TLC

Symmetry ==
    Permutations(Workers) \cup Permutations(SpareSlots) \cup Permutations(Producers)
=============================================================================
