---------------------------- MODULE MCRepoClaim ----------------------------
(* Small instances of RepoClaim for TLC. *)
EXTENDS RepoClaim, TLC

\* Requests, users, installations and readings of the clock are interchangeable:
\* the specification only compares them for equality.
Interchangeable ==
    Permutations(Requests) \cup Permutations(Users)
        \cup Permutations(Installs) \cup Permutations(Times)
=============================================================================
