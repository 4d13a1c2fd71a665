---------------------------- MODULE WakePromise -----------------------------
(***************************************************************************)
(* What the wake pipeline promises a pull request, without the database,   *)
(* the comments and the polls: a wake is live from the moment it gets its  *)
(* row until it ends, for good; only a live wake is given the right to     *)
(* write a review, one wake of each Home repo at a time; and only a wake   *)
(* that holds the right writes, once.                                      *)
(***************************************************************************)
CONSTANTS Dispatch, Homes, NoOne

VARIABLES
    phase,      \* "new", "live" or "ended"
    writer,     \* by Home repo, the wake that may write a review now, or NoOne
    reviewed    \* the wakes whose review was written (or found unchanged)

vars == <<phase, writer, reviewed>>

Init ==
    /\ phase = [d \in Dispatch |-> "new"]
    /\ writer = [h \in Homes |-> NoOne]
    /\ reviewed = {}

\* The wake gets its row.
Enter(d) ==
    /\ phase[d] = "new"
    /\ phase' = [phase EXCEPT ![d] = "live"]
    /\ UNCHANGED <<writer, reviewed>>

\* Wakes are refused, fail, are superseded or replaced; several at a time when
\* a newer wake supersedes them.  A writer already let through stays one.
End(ended) ==
    /\ phase' = [d \in Dispatch |-> IF d \in ended THEN "ended" ELSE phase[d]]
    /\ UNCHANGED <<writer, reviewed>>

\* The last recheck finds the wake live and lets its run write, the only one of
\* its Home repo; a wake has a run in one Home repo.
Grant(d, h) ==
    /\ phase[d] = "live"
    /\ d \notin reviewed
    /\ writer[h] = NoOne
    /\ \A k \in Homes : writer[k] # d
    /\ writer' = [writer EXCEPT ![h] = d]
    /\ UNCHANGED <<phase, reviewed>>

\* The run writes, or fails to, or is stopped.
Write(h) ==
    /\ writer[h] # NoOne
    /\ reviewed' = reviewed \cup {writer[h]}
    /\ writer' = [writer EXCEPT ![h] = NoOne]
    /\ UNCHANGED phase

GiveUp(h) ==
    /\ writer' = [writer EXCEPT ![h] = NoOne]
    /\ UNCHANGED <<phase, reviewed>>

Next ==
    \/ \E d \in Dispatch : Enter(d)
    \/ \E ended \in SUBSET Dispatch : End(ended)
    \/ \E h \in Homes : (\E d \in Dispatch : Grant(d, h)) \/ Write(h) \/ GiveUp(h)

Spec == Init /\ [][Next]_vars
=============================================================================
