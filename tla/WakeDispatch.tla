---------------------------- MODULE WakeDispatch ----------------------------
(***************************************************************************)
(* One consumer pull request, from the GitHub webhook to the posted review.*)
(*                                                                         *)
(* Three kinds of process share the wake_runs table of D1, the comments of *)
(* the pull request and the Actions runs of the Home repo:                 *)
(*   - the Worker's webhook handlers (apps/web/src/wake), one per delivery,*)
(*     each a chain of awaits on D1 and on GitHub;                         *)
(*   - GitHub, which lists, queues and cancels the Home runs of the        *)
(*     concurrency group home-{target_repo}-{pull_number}; every Home repo *)
(*     the claim was ever with has such a group of its own;                *)
(*   - the Home runs (packages/action), which recheck their dispatch before*)
(*     they post and report a failure back to the Worker.                  *)
(*                                                                         *)
(* One D1 statement or one GitHub call is one step; every await between    *)
(* two of them is a point where other processes run.  Each delivery mints  *)
(* at most one dispatch id, so deliveries, dispatches and Home runs share  *)
(* the set Dispatch.  A Worker killed between two steps is a handler that  *)
(* never takes its next step: safety is checked without fairness.          *)
(***************************************************************************)
EXTENDS Integers, Sequences, FiniteSets

CONSTANTS
    Dispatch,   \* deliveries, and the dispatch ids their handlers mint
    Homes,      \* the Home repos of the users the claim may be with
    Shas,       \* head commits a pull_request event may carry
    Mentions,   \* comments with a trigger phrase
    PullKey,    \* the key repo#pull, used by once-per-pr
    Cadences,   \* auto review cadences the repo's row may hold
    Faults,     \* the external calls that may fail
    NoOne,      \* not a dispatch: no run may write
    Tick        \* the least difference of two readings of Date.now()

AllFaults == {"token", "slots", "list", "comment", "mint", "branch", "dispatch",
              "poll", "boot", "prepare", "hold", "post", "report", "death"}

ASSUME WakeAssumption ==
    /\ Cadences \subseteq {"every-push", "once-per-pr"}
    /\ Faults \subseteq AllFaults
    /\ Shas \cap Mentions = {}
    /\ NoOne \notin Dispatch \cup Homes
    /\ PullKey \notin Shas \cup Mentions
    /\ Tick \in {0, 1}

VARIABLES
    pc,         \* the next step of each handler
    event,      \* the sha or the mention the delivery is about
    cadence,    \* the cadence the handler read with the route
    house,      \* the Home repo the route named, of the claim at that moment
    prior,      \* the status findAutoWakeForPr returned
    clock,      \* Date.now() of the Worker, read by insertWake only
    status,     \* wake_runs.status by dispatch id; "none" when there is no row
    createdAt,  \* wake_runs.created_at by dispatch id (of a row or its insert)
    victims,    \* the superseded rows whose runs are still to be cancelled
    comments,   \* comments on the pull request that once held the wake marker
    progress,   \* the handler's progress comment, 0 when it has none
    told,       \* the dispatch's failure: never told, told in a comment, or
                \* told in vain (GitHub took no comment, or nobody could leave one)
    home,       \* the Home run of the dispatch
    review      \* what the Home run did to the pull request

handlerVars == <<event, cadence, house, prior>>
rowVars     == <<clock, status, createdAt>>
prVars      == <<comments, progress, told>>
vars        == <<pc, handlerVars, rowVars, victims, prVars, home, review>>

-----------------------------------------------------------------------------
(* Values *)

Blocking  == {"queued", "dispatched"}
Retryable == {"cancelled", "failed", "superseded"}
WakeStatus == Blocking \cup Retryable

Keys == Shas \cup Mentions \cup {PullKey}

HandlerSteps ==
    {"idle", "prior", "decided", "insert", "readback", "supersede", "list",
     "upsert", "mint", "cancel", "checkMint", "branch", "checkBranch",
     "dispatch", "checkDispatch", "poll", "checkPoll", "patch", "commit",
     "failComment", "failDelete", "failPatch", "finish", "done"}

Running == {"boot", "gate", "post", "late", "clear",
            "failCheck", "failComment", "failClear", "mark"}

\* Where a run ends: "done" by itself; "silenced" when the report of its failure
\* found the claim moved or no answer; cancelled by the handler that superseded
\* it, displaced by a run of its group, killed by anything else.
Ended == {"done", "silenced", "cancelled", "displaced", "killed"}
HomeSteps == {"none", "requested", "pending"} \cup Running \cup Ended

Bodies == {"queued", "started", "failure", "deleted"}

IsReview(d) == event[d] \in Shas
HasRow(d)   == status[d] # "none"
InFlight(d) == status[d] \in Blocking

\* wakeKeyFor: the primary key of the row the handler of d inserts.
WakeKeyOf(d) ==
    IF IsReview(d) /\ cadence[d] = "once-per-pr" THEN PullKey ELSE event[d]

CadenceBlocks(c, priorStatus) == c = "once-per-pr" /\ priorStatus \in Blocking

CadenceMayReplace(c, priorStatus) ==
    c = "once-per-pr" /\ priorStatus \in Retryable

\* The review rows of the pull request, and the newest of them; of two rows of
\* one millisecond the query may return either.
IsAutoRow(x) == HasRow(x) /\ IsReview(x)

IsNewest(x) ==
    IsAutoRow(x) /\ \A y \in Dispatch : IsAutoRow(y) => createdAt[y] <= createdAt[x]

FindAutoWakeForPr ==
    IF \E x \in Dispatch : IsAutoRow(x)
    THEN {status[x] : x \in {y \in Dispatch : IsNewest(y)}} ELSE {"none"}

\* The first comment of the listing that still carries the wake marker, or 0.
HasMarker(i) == comments[i] \in {"queued", "started"}

IsFirstMarked(i) == HasMarker(i) /\ \A j \in 1..Len(comments) : HasMarker(j) => i <= j

MarkedComment ==
    IF \E i \in 1..Len(comments) : IsFirstMarked(i)
    THEN CHOOSE i \in 1..Len(comments) : IsFirstMarked(i) ELSE 0

\* Editing a comment that was deleted is an error of GitHub's and changes nothing.
Exists(i) == i # 0 /\ comments[i] # "deleted"
Edited(i, body) == IF Exists(i) THEN [comments EXCEPT ![i] = body] ELSE comments

\* A failure comment that GitHub took, and one that nobody will read.
Tell(d) == told' = [told EXCEPT ![d] = "told"]
TellInVain(d) == told' = [told EXCEPT ![d] = IF @ = "told" THEN @ ELSE "unheard"]

Goto(d, from, to) == pc[d] = from /\ pc' = [pc EXCEPT ![d] = to]
GotoHome(d, from, to) == home[d] = from /\ home' = [home EXCEPT ![d] = to]

Init ==
    /\ pc = [d \in Dispatch |-> "idle"]
    /\ event = [d \in Dispatch |-> PullKey]
    /\ cadence = [d \in Dispatch |-> "every-push"]
    /\ house = [d \in Dispatch |-> NoOne]
    /\ prior = [d \in Dispatch |-> "none"]
    /\ clock = 0
    /\ status = [d \in Dispatch |-> "none"]
    /\ createdAt = [d \in Dispatch |-> 0]
    /\ victims = [d \in Dispatch |-> {}]
    /\ comments = << >>
    /\ progress = [d \in Dispatch |-> 0]
    /\ told = [d \in Dispatch |-> "untold"]
    /\ home = [d \in Dispatch |-> "none"]
    /\ review = [d \in Dispatch |-> "none"]

-----------------------------------------------------------------------------
(***************************************************************************)
(* Planning: the route is read, with its cadence and the Home repo of the  *)
(* user who has the claim, then the newest auto row.                       *)
(***************************************************************************)

\* GitHub delivers in any order and may deliver the same event again.
Deliver(d) ==
    /\ Goto(d, "idle", "prior")
    /\ \E e \in Shas \cup Mentions : event' = [event EXCEPT ![d] = e]
    /\ \E c \in Cadences : cadence' = [cadence EXCEPT ![d] = c]
    /\ \E h \in Homes : house' = [house EXCEPT ![d] = h]
    /\ UNCHANGED <<prior, rowVars, victims, prVars, home, review>>

\* findPriorAutoWake, then the decision: a blocking prior row is a duplicate.
FindPrior(d) ==
    /\ pc[d] = "prior"
    /\ \E found \in IF IsReview(d) THEN FindAutoWakeForPr ELSE {"none"} :
          /\ prior' = [prior EXCEPT ![d] = found]
          /\ pc' = [pc EXCEPT ![d] =
                      IF IsReview(d) /\ CadenceBlocks(cadence[d], found)
                      THEN "done" ELSE "decided"]
    /\ UNCHANGED <<event, cadence, house, rowVars, victims, prVars, home, review>>

\* No installation token: unavailable.  No model slots: a comment says so.
Refuse(d) ==
    /\ Goto(d, "decided", "done")
    /\ \/ /\ "token" \in Faults
          /\ UNCHANGED told
       \/ /\ "slots" \in Faults
          /\ Tell(d)
    /\ UNCHANGED <<handlerVars, rowVars, victims, comments, progress, home, review>>

-----------------------------------------------------------------------------
(***************************************************************************)
(* insertWake: Date.now(), DELETE (when the prior row may be replaced),    *)
(* INSERT, SELECT back; three statements and no transaction.               *)
(***************************************************************************)

DeleteReplaced(d) ==
    /\ Goto(d, "decided", "insert")
    /\ status' = [x \in Dispatch |->
                    IF /\ CadenceMayReplace(cadence[d], prior[d])
                       /\ HasRow(x) /\ WakeKeyOf(x) = WakeKeyOf(d)
                    THEN "none" ELSE status[x]]
    /\ clock' \in (clock + Tick)..(clock + 1)
    /\ createdAt' = [createdAt EXCEPT ![d] = clock']
    /\ UNCHANGED <<handlerVars, victims, prVars, home, review>>

KeyTaken(d) == \E x \in Dispatch : HasRow(x) /\ WakeKeyOf(x) = WakeKeyOf(d)

\* INSERT ... ON CONFLICT DO NOTHING.
InsertRow(d) ==
    /\ Goto(d, "insert", "readback")
    /\ \/ /\ KeyTaken(d)
          /\ UNCHANGED status
       \/ /\ ~KeyTaken(d)
          /\ status' = [status EXCEPT ![d] = "queued"]
    /\ UNCHANGED <<handlerVars, clock, createdAt, victims, prVars, home, review>>

\* The row under the key carries another dispatch id, or none: duplicate.
ReadBack(d) ==
    /\ pc[d] = "readback"
    /\ pc' = [pc EXCEPT ![d] =
                IF ~HasRow(d) THEN "done"
                ELSE IF IsReview(d) THEN "supersede" ELSE "list"]
    /\ UNCHANGED <<handlerVars, rowVars, victims, prVars, home, review>>

\* A variant that forgets the rows already dispatched.
SupersedeQueuedOnly(d) ==
    LET older == {x \in Dispatch \ {d} : IsReview(x) /\ status[x] = "queued"}
    IN  /\ Goto(d, "supersede", "list")
        /\ status' = [x \in Dispatch |->
                        IF x \in older THEN "superseded" ELSE status[x]]
        /\ victims' = [victims EXCEPT ![d] = older]
        /\ UNCHANGED <<handlerVars, clock, createdAt, prVars, home, review>>

\* One UPDATE ... RETURNING over the other review rows still in flight.
Supersede(d) ==
    LET older == {x \in Dispatch \ {d} : IsReview(x) /\ InFlight(x)}
    IN  /\ Goto(d, "supersede", "list")
        /\ status' = [x \in Dispatch |->
                        IF x \in older THEN "superseded" ELSE status[x]]
        /\ victims' = [victims EXCEPT ![d] = older]
        /\ UNCHANGED <<handlerVars, clock, createdAt, prVars, home, review>>

-----------------------------------------------------------------------------
(***************************************************************************)
(* upsertProgressComment: list, then patch the marked comment or create one*)
(***************************************************************************)

ListComments(d) ==
    /\ pc[d] = "list"
    /\ \/ /\ pc' = [pc EXCEPT ![d] = "upsert"]
          /\ progress' = [progress EXCEPT ![d] = MarkedComment]
       \/ /\ "list" \in Faults
          /\ pc' = [pc EXCEPT ![d] = "mint"]
          /\ UNCHANGED progress
    /\ UNCHANGED <<handlerVars, rowVars, victims, comments, told, home, review>>

\* A variant that names a comment it did not create.
UpsertWithoutCreate(d) ==
    /\ Goto(d, "upsert", "mint")
    /\ progress' = [progress EXCEPT ![d] = IF @ = 0 THEN Len(comments) + 1 ELSE @]
    /\ UNCHANGED <<comments, handlerVars, rowVars, victims, told, home, review>>

\* wake_runs.progress_comment_id is written here too; nothing reads it.
UpsertProgressComment(d) ==
    /\ Goto(d, "upsert", "mint")
    /\ \/ /\ Exists(progress[d])
          /\ comments' = Edited(progress[d], "queued")
          /\ UNCHANGED progress
       \/ /\ progress[d] = 0
          /\ comments' = Append(comments, "queued")
          /\ progress' = [progress EXCEPT ![d] = Len(comments) + 1]
       \/ /\ (progress[d] # 0 /\ ~Exists(progress[d])) \/ "comment" \in Faults
          /\ progress' = [progress EXCEPT ![d] = 0]
          /\ UNCHANGED comments
    /\ UNCHANGED <<handlerVars, rowVars, victims, told, home, review>>

-----------------------------------------------------------------------------
(***************************************************************************)
(* startHomeRun, dispatchAndPoll and finalizeStartedRun                    *)
(***************************************************************************)

\* A GitHub call of the handler that changes nothing the model keeps.
HandlerCall(d, from, to, fault) ==
    /\ \/ Goto(d, from, to)
       \/ fault \in Faults /\ Goto(d, from, "failComment")
    /\ UNCHANGED <<handlerVars, rowVars, victims, prVars, home, review>>

MintHomeToken(d) == HandlerCall(d, "mint", "cancel", "mint")
FetchBranch(d)   == HandlerCall(d, "branch", "checkBranch", "branch")

\* The run is looked for in the Home repo of the new wake, and found only if it
\* is one of that repo's and GitHub lists it; a cancel request answered late lets
\* the run go on.
CancelSupersededRun(d) ==
    /\ pc[d] = "cancel"
    /\ \E x \in victims[d] :
          /\ victims' = [victims EXCEPT ![d] = @ \ {x}]
          /\ \/ UNCHANGED home
             \/ /\ house[x] = house[d]
                /\ home[x] \in Running \cup {"pending"}
                /\ home' = [home EXCEPT ![x] = "cancelled"]
    /\ UNCHANGED <<pc, handlerVars, rowVars, prVars, review>>

SupersededRunsCancelled(d) ==
    /\ victims[d] = {}
    /\ Goto(d, "cancel", "checkMint")
    /\ UNCHANGED <<handlerVars, rowVars, victims, prVars, home, review>>

\* isWakeQueued, read before each stage of the start.
StillQueued(d, from, to) ==
    /\ pc[d] = from
    /\ pc' = [pc EXCEPT ![d] = IF status[d] = "queued" THEN to ELSE "done"]
    /\ UNCHANGED <<handlerVars, rowVars, victims, prVars, home, review>>

IsWakeQueued(d) ==
    \/ StillQueued(d, "checkMint", "branch")
    \/ StillQueued(d, "checkBranch", "dispatch")
    \/ StillQueued(d, "checkDispatch", "poll")
    \/ StillQueued(d, "checkPoll", "patch")

\* A failed answer does not say whether GitHub took the request.
DispatchWorkflow(d) ==
    /\ \/ /\ Goto(d, "dispatch", "checkDispatch")
          /\ home' = [home EXCEPT ![d] = "requested"]
       \/ /\ "dispatch" \in Faults
          /\ Goto(d, "dispatch", "failComment")
          /\ \/ UNCHANGED home
             \/ home' = [home EXCEPT ![d] = "requested"]
    /\ UNCHANGED <<handlerVars, rowVars, victims, prVars, review>>

Listed(d) == home[d] \notin {"none", "requested"}

\* Variants that give up on a missing run without failToStart: one fails the
\* row and says nothing, the other leaves the row queued.
PollWithoutComment(d) ==
    /\ pc[d] = "poll"
    /\ pc' = [pc EXCEPT ![d] = IF Listed(d) THEN "checkPoll" ELSE "finish"]
    /\ UNCHANGED <<handlerVars, rowVars, victims, prVars, home, review>>

PollAndReturn(d) ==
    /\ pc[d] = "poll"
    /\ pc' = [pc EXCEPT ![d] = IF Listed(d) THEN "checkPoll" ELSE "done"]
    /\ UNCHANGED <<handlerVars, rowVars, victims, prVars, home, review>>

\* The last of the three polls: found, missing, or broken.
PollRunUrl(d) ==
    /\ pc[d] = "poll"
    /\ \/ Listed(d) /\ pc' = [pc EXCEPT ![d] = "checkPoll"]
       \/ ~Listed(d) /\ pc' = [pc EXCEPT ![d] = "failComment"]
       \/ "poll" \in Faults /\ pc' = [pc EXCEPT ![d] = "failComment"]
    /\ UNCHANGED <<handlerVars, rowVars, victims, prVars, home, review>>

PatchStarted(d) ==
    /\ Goto(d, "patch", "commit")
    /\ \/ comments' = Edited(progress[d], "started")
       \/ "comment" \in Faults /\ UNCHANGED comments
    /\ UNCHANGED <<handlerVars, rowVars, victims, progress, told, home, review>>

\* updateWakeIfStatus(dispatchId, from, to): no row in status from, no change.
UpdateWakeIfStatus(d, from, to) ==
    status' = IF status[d] = from THEN [status EXCEPT ![d] = to] ELSE status

CommitDispatched(d) ==
    /\ Goto(d, "commit", "done")
    /\ UpdateWakeIfStatus(d, "queued", "dispatched")
    /\ UNCHANGED <<handlerVars, clock, createdAt, victims, prVars, home, review>>

-----------------------------------------------------------------------------
(***************************************************************************)
(* failToStart: failure comment, progress comment, row.                    *)
(***************************************************************************)

CreateFailureComment(d) ==
    /\ \/ /\ Goto(d, "failComment", "failDelete")
          /\ Tell(d)
       \/ /\ "comment" \in Faults
          /\ Goto(d, "failComment", "failPatch")
          /\ UNCHANGED told
    /\ UNCHANGED <<handlerVars, rowVars, victims, comments, progress, home, review>>

\* The progress comment goes once the failure comment is there ...
DeleteProgressComment(d) ==
    /\ Goto(d, "failDelete", "finish")
    /\ \/ comments' = Edited(progress[d], "deleted")
       \/ "comment" \in Faults /\ UNCHANGED comments
    /\ UNCHANGED <<handlerVars, rowVars, victims, progress, told, home, review>>

\* ... and without it the progress comment is turned into the failure comment, if
\* there is one still.
PatchProgressComment(d) ==
    /\ Goto(d, "failPatch", "finish")
    /\ \/ /\ Exists(progress[d])
          /\ comments' = Edited(progress[d], "failure")
          /\ Tell(d)
       \/ /\ ~Exists(progress[d]) \/ "comment" \in Faults
          /\ TellInVain(d)
          /\ UNCHANGED comments
    /\ UNCHANGED <<handlerVars, rowVars, victims, progress, home, review>>

\* A variant without the status condition.
FinishAnyWakeRun(d, terminal) ==
    status' = IF HasRow(d) THEN [status EXCEPT ![d] = terminal] ELSE status

\* finishWakeRun: only a row in flight takes a terminal status.
FinishWakeRun(d, terminal) ==
    status' = IF InFlight(d) THEN [status EXCEPT ![d] = terminal] ELSE status

FinishFailed(d) ==
    /\ Goto(d, "finish", "done")
    /\ FinishWakeRun(d, "failed")
    /\ UNCHANGED <<handlerVars, clock, createdAt, victims, prVars, home, review>>

-----------------------------------------------------------------------------
(***************************************************************************)
(* GitHub Actions on a Home repo: one run of the group at a time, and a    *)
(* new one cancels the others (cancel-in-progress), whether they review a  *)
(* push or answer a mention.  Runs of two Home repos know nothing of each  *)
(* other.                                                                  *)
(***************************************************************************)

SameGroup(x, d) == house[x] = house[d]

RunAppears(d) ==
    /\ home[d] = "requested"
    /\ \E stopped \in BOOLEAN :
          home' = [x \in Dispatch |->
                    IF x = d THEN "pending"
                    ELSE IF /\ SameGroup(x, d)
                            /\ \/ home[x] = "pending"
                               \/ stopped /\ home[x] \in Running
                         THEN "displaced" ELSE home[x]]
    /\ UNCHANGED <<pc, handlerVars, rowVars, victims, prVars, review>>

RunStarts(d) ==
    /\ \A x \in Dispatch : SameGroup(x, d) => home[x] \notin Running
    /\ GotoHome(d, "pending", "boot")
    /\ UNCHANGED <<pc, handlerVars, rowVars, victims, prVars, review>>

\* Stopped by hand, by a lost runner or by the job's time limit.
RunDies(d) ==
    /\ "death" \in Faults
    /\ home[d] \in Running \cup {"pending"}
    /\ home' = [home EXCEPT ![d] = "killed"]
    /\ UNCHANGED <<pc, handlerVars, rowVars, victims, prVars, review>>

-----------------------------------------------------------------------------
(***************************************************************************)
(* runHomeReview                                                           *)
(***************************************************************************)

\* A variant that trusts any status of the row.
RecheckRowOnly(d, from, to, otherwise) ==
    /\ \/ HasRow(d) /\ GotoHome(d, from, to)
       \/ (~HasRow(d) \/ "hold" \in Faults) /\ GotoHome(d, from, otherwise)
    /\ UNCHANGED <<pc, handlerVars, rowVars, victims, prVars, review>>

\* dispatchStillActive: superseded, ended and gone are not.
DispatchStillActive(d) == InFlight(d)

\* holdsRecheck: any answer but an active dispatch, an answer that cannot be
\* read, and a claim that moved ("hold"), sends the run to `otherwise`.
Recheck(d, from, to, otherwise) ==
    /\ \/ DispatchStillActive(d) /\ GotoHome(d, from, to)
       \/ (~DispatchStillActive(d) \/ "hold" \in Faults) /\ GotoHome(d, from, otherwise)
    /\ UNCHANGED <<pc, handlerVars, rowVars, victims, prVars, review>>

HomeCall(d, from, to, fault) ==
    /\ fault \in Faults
    /\ GotoHome(d, from, to)
    /\ UNCHANGED <<pc, handlerVars, rowVars, victims, prVars, review>>

\* No bot credentials or no token: the wake is marked failed, and nobody is there
\* to comment.
BootFails(d) ==
    /\ "boot" \in Faults
    /\ GotoHome(d, "boot", "mark")
    /\ TellInVain(d)
    /\ UNCHANGED <<pc, handlerVars, rowVars, victims, comments, progress, review>>

\* Runtime pack, engines or checkout failed.
PrepareFails(d) == HomeCall(d, "boot", "failCheck", "prepare")

EarlyRecheck(d) == Recheck(d, "boot", "gate", "failCheck")

\* A variant that returns the failure of the queue and does not report it.
EnginesFailQuietly(d) == HomeCall(d, "gate", "done", "prepare")

\* Engine passes failed, or the queue of model slots is exhausted.
EnginesFail(d) == HomeCall(d, "gate", "failCheck", "prepare")

\* beforePost.  A failed result goes to failProgress whatever the late recheck
\* of settleRun answers.
GateRecheck(d) == Recheck(d, "gate", "post", "failCheck")

ReconcileAndPost(d) ==
    /\ GotoHome(d, "post", "late")
    /\ \/ review' = [review EXCEPT ![d] = "posted"]
       \/ /\ \E x \in Dispatch \ {d} : review[x] = "posted"
          /\ review' = [review EXCEPT ![d] = "unchanged"]
    /\ UNCHANGED <<pc, handlerVars, rowVars, victims, prVars>>

\* An answer that never came does not say whether the review was created; an
\* answer that reads like an auth failure starts over with the next model slot.
PostFails(d) ==
    /\ "post" \in Faults
    /\ \/ /\ GotoHome(d, "post", "failCheck")
          /\ \/ UNCHANGED review
             \/ review' = [review EXCEPT ![d] = "posted"]
       \/ /\ GotoHome(d, "post", "gate")
          /\ UNCHANGED review
    /\ UNCHANGED <<pc, handlerVars, rowVars, victims, prVars>>

LateRecheck(d) == Recheck(d, "late", "clear", "failCheck")

\* clearProgress; a comment that stays fails the job but not the wake.
ClearProgress(d, from, to) ==
    /\ GotoHome(d, from, to)
    /\ \/ comments' = Edited(progress[d], "deleted")
       \/ "comment" \in Faults /\ UNCHANGED comments
    /\ UNCHANGED <<pc, handlerVars, rowVars, victims, progress, told, review>>

ClearAfterReview(d) == ClearProgress(d, "clear", "done")

\* failureReporter: recheck, failure comment, progress comment, PATCH failed.  A
\* run whose dispatch ended, whose claim moved or whose answer cannot be read
\* reports nothing.
FailureRecheck(d) ==
    /\ \/ DispatchStillActive(d) /\ GotoHome(d, "failCheck", "failComment")
       \/ ~DispatchStillActive(d) /\ GotoHome(d, "failCheck", "done")
       \/ "hold" \in Faults /\ GotoHome(d, "failCheck", "silenced")
    /\ UNCHANGED <<pc, handlerVars, rowVars, victims, prVars, review>>

PostFailureOutcome(d) ==
    /\ \/ /\ GotoHome(d, "failComment", "failClear")
          /\ Tell(d)
       \/ /\ "comment" \in Faults
          /\ GotoHome(d, "failComment", "mark")
          /\ TellInVain(d)
    /\ UNCHANGED <<pc, handlerVars, rowVars, victims, comments, progress, review>>

ClearAfterFailure(d) == ClearProgress(d, "failClear", "mark")

\* reportWakeStatus is best effort: the PATCH may never arrive.
ReportWakeStatus(d, ended) ==
    \/ FinishWakeRun(d, ended)
    \/ "report" \in Faults /\ UNCHANGED status

MarkWakeFailed(d) ==
    /\ GotoHome(d, "mark", "done")
    /\ ReportWakeStatus(d, "failed")
    /\ UNCHANGED <<pc, handlerVars, clock, createdAt, victims, prVars, review>>

-----------------------------------------------------------------------------
(* The system *)

Insertion(d) ==
    \/ Deliver(d) \/ FindPrior(d) \/ Refuse(d)
    \/ DeleteReplaced(d) \/ InsertRow(d) \/ ReadBack(d) \/ Supersede(d)

Start(d) ==
    \/ ListComments(d) \/ UpsertProgressComment(d)
    \/ MintHomeToken(d) \/ CancelSupersededRun(d) \/ SupersededRunsCancelled(d)
    \/ IsWakeQueued(d) \/ FetchBranch(d) \/ DispatchWorkflow(d)
    \/ PollRunUrl(d) \/ PatchStarted(d) \/ CommitDispatched(d)
    \/ CreateFailureComment(d) \/ DeleteProgressComment(d)
    \/ PatchProgressComment(d) \/ FinishFailed(d)

HandlerStep(d) == Insertion(d) \/ Start(d)

HomeStep(d) ==
    \/ BootFails(d) \/ PrepareFails(d) \/ EarlyRecheck(d)
    \/ EnginesFail(d) \/ GateRecheck(d) \/ ReconcileAndPost(d) \/ PostFails(d)
    \/ LateRecheck(d) \/ ClearAfterReview(d)
    \/ FailureRecheck(d) \/ PostFailureOutcome(d)
    \/ ClearAfterFailure(d) \/ MarkWakeFailed(d)

GithubStep(d) == RunAppears(d) \/ RunStarts(d) \/ RunDies(d)

\* Every delivery was handled and every Home run is over.
Settled ==
    \A d \in Dispatch :
        pc[d] = "done" /\ home[d] \in Ended \cup {"none"}

Next ==
    \/ \E d \in Dispatch : HandlerStep(d) \/ HomeStep(d) \/ GithubStep(d)
    \/ Settled /\ UNCHANGED vars

Spec == Init /\ [][Next]_vars

\* A Worker that is not killed runs its handler to the end, GitHub lists and
\* starts the runs it accepted, and a run that is not killed ends.
Fairness ==
    \A d \in Dispatch :
        /\ WF_vars(pc[d] # "idle" /\ HandlerStep(d))
        /\ WF_vars(HomeStep(d))
        /\ WF_vars(RunAppears(d) \/ RunStarts(d))

FairSpec == Spec /\ Fairness
-----------------------------------------------------------------------------
(* Properties *)

\* Every variable keeps its type.
PrTypeOK ==
    /\ comments \in Seq(Bodies)
    /\ progress \in [Dispatch -> 0..Len(comments)]
    /\ told \in [Dispatch -> {"untold", "told", "unheard"}]

TypeOK ==
    /\ pc \in [Dispatch -> HandlerSteps]
    /\ event \in [Dispatch -> Keys]
    /\ cadence \in [Dispatch -> {"every-push", "once-per-pr"}]
    /\ house \in [Dispatch -> Homes \cup {NoOne}]
    /\ prior \in [Dispatch -> WakeStatus \cup {"none"}]
    /\ clock \in Nat
    /\ status \in [Dispatch -> WakeStatus \cup {"none"}]
    /\ createdAt \in [Dispatch -> Nat]
    /\ victims \in [Dispatch -> SUBSET Dispatch]
    /\ PrTypeOK
    /\ home \in [Dispatch -> HomeSteps]
    /\ review \in [Dispatch -> {"none", "posted", "unchanged"}]

\* Two review wakes of the pull request are in flight together only while the
\* handler of one of them has inserted its row and not superseded the others
\* (queueWakeRun), however inserts, updates and failures interleave.
OneLiveReview ==
    \A x, y \in Dispatch :
        (x # y /\ IsReview(x) /\ IsReview(y) /\ InFlight(x) /\ InFlight(y))
            => pc[x] \in {"readback", "supersede"} \/ pc[y] \in {"readback", "supersede"}

\* A failed, cancelled or superseded row keeps its status until a later wake
\* replaces it: no late writer of the handler or the Home run revives it.
TerminalIsFinal ==
    [][\A d \in Dispatch :
          status[d] \in Retryable => status'[d] \in {status[d], "none"}]_vars

\* A dispatch that ended (or lost its row) before its Home run passed the last
\* recheck never posts a review afterwards.
Doomed(d) ==
    /\ pc[d] \notin {"idle", "prior", "decided", "insert"}
    /\ ~InFlight(d)
    /\ home[d] # "post"
    /\ review[d] = "none"

DoomedNeverPosts ==
    [][\A d \in Dispatch : Doomed(d) => Doomed(d)']_vars

\* A wake that ends as failed told the pull request so first, or tried every
\* comment it could and was refused, whichever of the handler and the Home run
\* gave up (failToStart, failureReporter).
FailureIsTold == \A d \in Dispatch : status[d] = "failed" => told[d] # "untold"

\* A queued row is dispatched, ended or replaced: no path of the handler
\* returns and leaves it queued.
QueuedIsSettled ==
    \A d \in Dispatch : (status[d] = "queued") ~> (status[d] # "queued")

\* The handler and the Home run of a wake are over and its row is there.
AtRest(d) == pc[d] = "done" /\ home[d] \in Ended \cup {"none"} /\ HasRow(d)

\* Every wake that came to rest with its row was answered: by a review, by a
\* failure comment (or a vain attempt at one), or by a newer wake that superseded
\* it.  Otherwise its run did not end by itself: it was killed, or its failure
\* found the claim moved, or a run of the same Home repo (of a mention, say)
\* displaced it, and then a run of that group was not displaced.
EveryWakeIsAnswered ==
    \A d \in Dispatch : AtRest(d) =>
        /\ status[d] # "queued"
        /\ \/ review[d] # "none" \/ told[d] # "untold" \/ status[d] = "superseded"
           \/ home[d] \in {"killed", "silenced"}
           \/ /\ home[d] = "displaced"
              /\ \E x \in Dispatch :
                    /\ SameGroup(x, d)
                    /\ home[x] \notin {"none", "requested", "displaced"}

-----------------------------------------------------------------------------
(* The refinement of WakePromise *)

BeforeRow == {"idle", "prior", "decided", "insert"}

PhaseOf(d) ==
    IF pc[d] \in BeforeRow THEN "new" ELSE IF InFlight(d) THEN "live" ELSE "ended"

\* The wakes that may post from a Home repo, one at most.
Posters(h) == {d \in Dispatch : house[d] = h /\ home[d] = "post"}

OneOf(wakes) == IF wakes = {} THEN NoOne ELSE CHOOSE d \in wakes : TRUE

WriterNow == [h \in Homes |-> OneOf(Posters(h))]

Promise == INSTANCE WakePromise WITH
    phase    <- [d \in Dispatch |-> PhaseOf(d)],
    writer   <- WriterNow,
    reviewed <- {d \in Dispatch : review[d] # "none"}

\* Whatever D1 statements, GitHub calls, cancellations and failures interleave,
\* a review is written only by a wake that its last recheck found live, one from
\* each Home repo at a time, and a wake that ended is never live again.
KeepsPromise == Promise!Spec
=============================================================================
