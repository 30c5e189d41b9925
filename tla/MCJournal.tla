------------------------------- MODULE MCJournal -------------------------------
(* Instances of Journal for TLC.                                           *)
EXTENDS Journal, TLC

Symmetric == Permutations(Writers) \cup Permutations(Paths) \cup Permutations(Hashes)
===============================================================================
