---------------------------- MODULE MCModelSlots ----------------------------
(* Small instances of ModelSlots for TLC. *)
EXTENDS ModelSlots

Alike == Permutations(Accounts) \cup Permutations(Requests)
=============================================================================
