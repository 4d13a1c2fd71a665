-------------------------- MODULE MCWakeAdmission --------------------------
(* Small instances of WakeAdmission for TLC. *)
EXTENDS WakeAdmission

Ann == [login |-> "ann", user |-> "u1", association |-> "OWNER"]
Ben == [login |-> "ben", user |-> "u2", association |-> "COLLABORATOR"]
Cid == [login |-> "cid", user |-> "u3", association |-> "NONE"]

People == {Ann, Ben, Cid}
Globs == [next |-> {"next"}]

Older(authors, skip, branches) ==
    [RowFromDefaults(ProductDefaults) EXCEPT !.authors = authors, !.authorSkip = skip,
                                             !.branches = branches]

\* The rows the tests of the Home store leave behind, one of them with a
\* cadence that does not parse.
LeftRows ==
    {Older("outsiders", {"ann"}, "all"), Older("bots", {}, "all"),
     [Older("everyone", {}, "all") EXCEPT !.cadence = "hourly"]}
=============================================================================
