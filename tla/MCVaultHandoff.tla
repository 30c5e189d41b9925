---------------------------- MODULE MCVaultHandoff ----------------------------
(* Instances of VaultHandoff for TLC.                                      *)
EXTENDS VaultHandoff, TLC

Symmetric == Permutations(Sessions) \cup Permutations(Borrowers)
===============================================================================
