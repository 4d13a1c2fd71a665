-------------------------- MODULE MCVaultRotation --------------------------
(* Small instances of VaultRotation for TLC. *)
EXTENDS VaultRotation

\* Tabs, keys and repos are only compared for equality.
Interchangeable == Permutations(Tabs) \cup Permutations(Keys) \cup Permutations(Repos)
=============================================================================
