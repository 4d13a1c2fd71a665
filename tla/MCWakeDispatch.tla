--------------------------- MODULE MCWakeDispatch ---------------------------
(* Small instances of WakeDispatch for TLC. *)
EXTENDS WakeDispatch, TLC

\* Deliveries are interchangeable, and so are head commits: the specification
\* only compares them for equality.
Interchangeable == Permutations(Dispatch) \cup Permutations(Shas) \cup Permutations(Homes)
=============================================================================
