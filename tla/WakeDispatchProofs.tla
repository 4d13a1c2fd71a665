------------------------- MODULE WakeDispatchProofs -------------------------
(***************************************************************************)
(* Theorems about WakeDispatch, for every number of deliveries, head       *)
(* commits and mentions, every cadence and every set of failing calls.     *)
(***************************************************************************)
EXTENDS WakeDispatch, TLAPS

-----------------------------------------------------------------------------
(* Type correctness *)

\* A step that touches neither the comments nor the progress of a handler keeps
\* their types.
LEMMA PrUnchanged ==
    ASSUME PrTypeOK, UNCHANGED prVars
    PROVE  PrTypeOK'
BY DEF PrTypeOK, prVars

\* Leaving a failure comment, or trying in vain, or not at all, keeps the type.
LEMMA ToldType ==
    ASSUME PrTypeOK, NEW d \in Dispatch, UNCHANGED <<comments, progress>>,
           told' = told \/ Tell(d) \/ TellInVain(d)
    PROVE  PrTypeOK'
BY DEF PrTypeOK, Tell, TellInVain

\* Editing a comment keeps the comments of the pull request and their number.
LEMMA EditedType ==
    ASSUME PrTypeOK, NEW d \in Dispatch, NEW body \in Bodies, UNCHANGED progress,
           \/ comments' = Edited(progress[d], body)
           \/ UNCHANGED comments
    PROVE  /\ comments' \in Seq(Bodies)
           /\ progress' \in [Dispatch -> 0..Len(comments')]
<1>1. progress[d] \in 0..Len(comments)
  BY DEF PrTypeOK
<1>2. Len(comments') = Len(comments) /\ comments' \in Seq(Bodies)
  BY <1>1 DEF PrTypeOK, Edited, Exists
<1> QED
  BY <1>2 DEF PrTypeOK

\* The marked comment is one of the comments, or 0.
LEMMA MarkedCommentType ==
    ASSUME comments \in Seq(Bodies)
    PROVE  MarkedComment \in 0..Len(comments)
BY DEF MarkedComment

\* findAutoWakeForPr returns statuses of wake_runs, or none.
LEMMA FindAutoWakeType ==
    ASSUME TypeOK
    PROVE  FindAutoWakeForPr \subseteq WakeStatus \cup {"none"}
BY DEF FindAutoWakeForPr, TypeOK

USE DEF TypeOK, Goto, GotoHome

\* Every step of a handler up to its row (webhook, plan, insert) keeps the types.
LEMMA TypeInsertion ==
    ASSUME TypeOK, NEW d \in Dispatch, Insertion(d)
    PROVE  TypeOK'
<1> USE DEF handlerVars, rowVars, HandlerSteps, WakeStatus, Retryable, Blocking
<1>1. CASE Deliver(d)
  BY <1>1, WakeAssumption, PrUnchanged DEF Deliver, Keys
<1>2. CASE FindPrior(d)
  BY <1>2, FindAutoWakeType, PrUnchanged DEF FindPrior
<1>3. CASE Refuse(d)
  BY <1>3, ToldType DEF Refuse
<1>4. CASE DeleteReplaced(d)
  BY <1>4, WakeAssumption, PrUnchanged DEF DeleteReplaced
<1>5. CASE InsertRow(d)
  BY <1>5, PrUnchanged DEF InsertRow
<1>6. CASE ReadBack(d)
  BY <1>6, PrUnchanged DEF ReadBack
<1>7. CASE Supersede(d)
  BY <1>7, PrUnchanged DEF Supersede
<1> QED
  BY <1>1, <1>2, <1>3, <1>4, <1>5, <1>6, <1>7 DEF Insertion

\* Every step of a handler from its progress comment on keeps the types.
LEMMA TypeStart ==
    ASSUME TypeOK, NEW d \in Dispatch, Start(d)
    PROVE  TypeOK'
<1> USE DEF handlerVars, rowVars, HandlerSteps
<1>1. CASE ListComments(d)
  <2>1. PrTypeOK'
    BY <1>1, MarkedCommentType DEF ListComments, PrTypeOK
  <2> QED
    BY <1>1, <2>1 DEF ListComments
<1>2. CASE UpsertProgressComment(d)
  <2>1. PrTypeOK'
    <3>1. CASE comments' = Edited(progress[d], "queued") /\ UNCHANGED progress
      BY <1>2, <3>1, EditedType DEF UpsertProgressComment, PrTypeOK, Bodies
    <3>2. CASE /\ comments' = Append(comments, "queued")
               /\ progress' = [progress EXCEPT ![d] = Len(comments) + 1]
      BY <1>2, <3>2 DEF UpsertProgressComment, PrTypeOK, Bodies
    <3>3. CASE progress' = [progress EXCEPT ![d] = 0] /\ UNCHANGED comments
      BY <1>2, <3>3 DEF UpsertProgressComment, PrTypeOK
    <3> QED
      BY <1>2, <3>1, <3>2, <3>3 DEF UpsertProgressComment
  <2> QED
    BY <1>2, <2>1 DEF UpsertProgressComment
<1>3. CASE MintHomeToken(d)
  BY <1>3, PrUnchanged DEF MintHomeToken, HandlerCall
<1>4. CASE CancelSupersededRun(d)
  BY <1>4, PrUnchanged DEF CancelSupersededRun, HomeSteps, Ended
<1>5. CASE SupersededRunsCancelled(d)
  BY <1>5, PrUnchanged DEF SupersededRunsCancelled
<1>6. CASE IsWakeQueued(d)
  BY <1>6, PrUnchanged DEF IsWakeQueued, StillQueued
<1>7. CASE FetchBranch(d)
  BY <1>7, PrUnchanged DEF FetchBranch, HandlerCall
<1>8. CASE DispatchWorkflow(d)
  BY <1>8, PrUnchanged DEF DispatchWorkflow, HomeSteps
<1>9. CASE PollRunUrl(d)
  BY <1>9, PrUnchanged DEF PollRunUrl
<1>10. CASE PatchStarted(d)
  <2>1. "started" \in Bodies
    BY DEF Bodies
  <2>2. PrTypeOK'
    BY <1>10, <2>1, EditedType DEF PatchStarted, PrTypeOK
  <2> QED
    BY <1>10, <2>2 DEF PatchStarted
<1>11. CASE CommitDispatched(d)
  BY <1>11, PrUnchanged DEF CommitDispatched, UpdateWakeIfStatus, WakeStatus, Blocking
<1>12. CASE CreateFailureComment(d)
  BY <1>12, ToldType DEF CreateFailureComment
<1>13. CASE DeleteProgressComment(d)
  <2>1. "deleted" \in Bodies
    BY DEF Bodies
  <2>2. PrTypeOK'
    BY <1>13, <2>1, EditedType DEF DeleteProgressComment, PrTypeOK
  <2> QED
    BY <1>13, <2>2 DEF DeleteProgressComment
<1>14. CASE PatchProgressComment(d)
  <2>1. "failure" \in Bodies
    BY DEF Bodies
  <2>2. PrTypeOK'
    BY <1>14, <2>1, EditedType DEF PatchProgressComment, PrTypeOK, Tell, TellInVain
  <2> QED
    BY <1>14, <2>2 DEF PatchProgressComment
<1>15. CASE FinishFailed(d)
  BY <1>15, PrUnchanged DEF FinishFailed, FinishWakeRun, WakeStatus, Retryable
<1> QED
  BY <1>1, <1>2, <1>3, <1>4, <1>5, <1>6, <1>7, <1>8, <1>9, <1>10, <1>11,
     <1>12, <1>13, <1>14, <1>15 DEF Start

\* Every step of a Home run keeps the types.
LEMMA TypeHome ==
    ASSUME TypeOK, NEW d \in Dispatch, HomeStep(d)
    PROVE  TypeOK'
<1> USE DEF handlerVars, rowVars, HomeSteps, Ended, Running
<1>1. CASE PrepareFails(d) \/ EnginesFail(d)
  BY <1>1, PrUnchanged DEF PrepareFails, EnginesFail, HomeCall
<1>7. CASE BootFails(d)
  BY <1>7, ToldType DEF BootFails
<1>2. CASE EarlyRecheck(d) \/ GateRecheck(d) \/ LateRecheck(d) \/ FailureRecheck(d)
  BY <1>2, PrUnchanged DEF EarlyRecheck, GateRecheck, LateRecheck, FailureRecheck, Recheck,
     DispatchStillActive
<1>3. CASE ReconcileAndPost(d) \/ PostFails(d)
  BY <1>3, PrUnchanged DEF ReconcileAndPost, PostFails
<1>4. CASE ClearAfterReview(d) \/ ClearAfterFailure(d)
  <2>1. "deleted" \in Bodies
    BY DEF Bodies
  <2>2. PrTypeOK'
    BY <1>4, <2>1, EditedType DEF ClearAfterReview, ClearAfterFailure, ClearProgress, PrTypeOK
  <2> QED
    BY <1>4, <2>2 DEF ClearAfterReview, ClearAfterFailure, ClearProgress
<1>5. CASE PostFailureOutcome(d)
  BY <1>5, ToldType DEF PostFailureOutcome
<1>6. CASE MarkWakeFailed(d)
  BY <1>6, PrUnchanged DEF MarkWakeFailed, ReportWakeStatus, FinishWakeRun, WakeStatus, Retryable
<1> QED
  BY <1>1, <1>2, <1>3, <1>4, <1>5, <1>6, <1>7 DEF HomeStep

\* Every step of GitHub Actions keeps the types.
LEMMA TypeGithub ==
    ASSUME TypeOK, NEW d \in Dispatch, GithubStep(d)
    PROVE  TypeOK'
<1> USE DEF handlerVars, rowVars, HomeSteps, Ended, Running
<1>1. CASE RunAppears(d)
  BY <1>1, PrUnchanged DEF RunAppears
<1>2. CASE RunStarts(d)
  BY <1>2, PrUnchanged DEF RunStarts
<1>3. CASE RunDies(d)
  BY <1>3, PrUnchanged DEF RunDies
<1> QED
  BY <1>1, <1>2, <1>3 DEF GithubStep

\* Every step of the system keeps the types.
LEMMA TypeStep ==
    ASSUME TypeOK, [Next]_vars
    PROVE  TypeOK'
<1>1. CASE UNCHANGED vars
  BY <1>1, PrUnchanged DEF vars, handlerVars, rowVars
<1>2. CASE \E d \in Dispatch : HandlerStep(d) \/ HomeStep(d) \/ GithubStep(d)
  BY <1>2, TypeInsertion, TypeStart, TypeHome, TypeGithub DEF HandlerStep
<1> QED
  BY <1>1, <1>2 DEF Next

\* The initial state is well typed.
LEMMA TypeCorrectInit == Init => TypeOK
BY DEF Init, PrTypeOK, HandlerSteps, Keys, HomeSteps, Bodies

\* Every variable keeps its type, whatever the handlers, the Home runs and
\* GitHub do.
THEOREM TypeCorrect == Spec => []TypeOK
BY TypeCorrectInit, TypeStep, PTL DEF Spec

-----------------------------------------------------------------------------
(***************************************************************************)
(* Safety.  OneLiveReview is inductive once a row in flight is known to    *)
(* belong to a handler past its INSERT (RowOwned).  What the Home runs     *)
(* write needs the same of the runs: a run exists only after its handler   *)
(* asked for it and knows its Home repo (RunOwned, HouseKnown), the        *)
(* concurrency group of a Home repo runs one at a time (OneRunning), and a *)
(* run that wrote its review is past "post" (ReviewedLate).                *)
(***************************************************************************)

BeforeRun == BeforeRow \cup {"readback", "supersede", "list", "upsert", "mint",
                             "cancel", "checkMint", "branch", "checkBranch", "dispatch"}

BeforeReview == {"none", "requested", "pending", "boot", "gate", "post"}

RowOwned == \A d \in Dispatch : pc[d] \in BeforeRow => status[d] = "none"
RunOwned == \A d \in Dispatch : pc[d] \in BeforeRun => home[d] = "none"
HouseKnown == \A d \in Dispatch : pc[d] # "idle" => house[d] \in Homes
OneRunning ==
    \A x, y \in Dispatch :
        house[x] = house[y] /\ home[x] \in Running /\ home[y] \in Running => x = y
ReviewedLate ==
    \A d \in Dispatch : home[d] \in BeforeReview => review[d] = "none"

Safe ==
    RowOwned /\ RunOwned /\ HouseKnown /\ OneLiveReview /\ OneRunning /\ ReviewedLate

IInv == TypeOK /\ Safe

USE DEF Safe, RowOwned, RunOwned, HouseKnown, SameGroup, OneLiveReview, OneRunning, ReviewedLate,
        InFlight, HasRow, IsReview

\* The inductive invariant is kept by a handler that plans, inserts, supersedes.
LEMMA SafeInsertion ==
    ASSUME IInv, NEW d \in Dispatch, Insertion(d)
    PROVE  Safe'
<1> USE DEF IInv, handlerVars, rowVars, BeforeRow, BeforeRun, Blocking
<1>1. CASE Deliver(d)
  <2>1. /\ pc[d] = "idle" /\ home[d] = "none" /\ status[d] = "none"
        /\ pc' = [pc EXCEPT ![d] = "prior"]
        /\ UNCHANGED <<status, home, review>>
        /\ \A x \in Dispatch \ {d} : event'[x] = event[x] /\ house'[x] = house[x]
        /\ house'[d] \in Homes
    BY <1>1 DEF Deliver
  <2>2. OneLiveReview'
    BY <2>1
  <2>3. OneRunning'
    BY <2>1 DEF Running
  <2>4. RowOwned' /\ RunOwned' /\ HouseKnown' /\ ReviewedLate'
    BY <2>1
  <2> QED
    BY <2>2, <2>3, <2>4
<1>2. CASE FindPrior(d)
  BY <1>2 DEF FindPrior
<1>3. CASE Refuse(d)
  BY <1>3 DEF Refuse
<1>4. CASE DeleteReplaced(d)
  BY <1>4 DEF DeleteReplaced
<1>5. CASE InsertRow(d)
  BY <1>5 DEF InsertRow
<1>6. CASE ReadBack(d)
  BY <1>6 DEF ReadBack
<1>7. CASE Supersede(d)
  BY <1>7 DEF Supersede
<1> QED
  BY <1>1, <1>2, <1>3, <1>4, <1>5, <1>6, <1>7 DEF Insertion

\* The inductive invariant is kept by a handler that starts its Home run.
LEMMA SafeStart ==
    ASSUME IInv, NEW d \in Dispatch, Start(d)
    PROVE  Safe'
<1> USE DEF IInv, handlerVars, rowVars, BeforeRow, BeforeRun, Blocking
<1>1. CASE ListComments(d)
  BY <1>1 DEF ListComments
<1>2. CASE UpsertProgressComment(d)
  BY <1>2 DEF UpsertProgressComment
<1>3. CASE MintHomeToken(d)
  BY <1>3 DEF MintHomeToken, HandlerCall
<1>4. CASE CancelSupersededRun(d)
  BY <1>4 DEF CancelSupersededRun, Running, BeforeReview, Ended
<1>5. CASE SupersededRunsCancelled(d)
  BY <1>5 DEF SupersededRunsCancelled
<1>6. CASE IsWakeQueued(d)
  BY <1>6 DEF IsWakeQueued, StillQueued
<1>7. CASE FetchBranch(d)
  BY <1>7 DEF FetchBranch, HandlerCall
<1>8. CASE DispatchWorkflow(d)
  BY <1>8 DEF DispatchWorkflow, Running, BeforeReview
<1>9. CASE PollRunUrl(d)
  BY <1>9 DEF PollRunUrl
<1>10. CASE PatchStarted(d)
  BY <1>10 DEF PatchStarted
<1>11. CASE CommitDispatched(d)
  BY <1>11 DEF CommitDispatched, UpdateWakeIfStatus
<1>12. CASE CreateFailureComment(d)
  BY <1>12 DEF CreateFailureComment
<1>13. CASE DeleteProgressComment(d)
  BY <1>13 DEF DeleteProgressComment
<1>14. CASE PatchProgressComment(d)
  BY <1>14 DEF PatchProgressComment
<1>15. CASE FinishFailed(d)
  BY <1>15 DEF FinishFailed, FinishWakeRun
<1> QED
  BY <1>1, <1>2, <1>3, <1>4, <1>5, <1>6, <1>7, <1>8, <1>9, <1>10, <1>11,
     <1>12, <1>13, <1>14, <1>15 DEF Start

\* The inductive invariant is kept by a Home run, its rechecks and its reports.
LEMMA SafeHome ==
    ASSUME IInv, NEW d \in Dispatch, HomeStep(d)
    PROVE  Safe'
<1> USE DEF IInv, handlerVars, rowVars, BeforeRow, BeforeRun, BeforeReview,
            Running, Blocking
<1>1. CASE BootFails(d) \/ PrepareFails(d) \/ EnginesFail(d)
  BY <1>1 DEF BootFails, PrepareFails, EnginesFail, HomeCall
<1>2. CASE EarlyRecheck(d) \/ GateRecheck(d) \/ LateRecheck(d) \/ FailureRecheck(d)
  BY <1>2 DEF EarlyRecheck, GateRecheck, LateRecheck, FailureRecheck, Recheck, DispatchStillActive
<1>3. CASE ReconcileAndPost(d) \/ PostFails(d)
  BY <1>3 DEF ReconcileAndPost, PostFails
<1>4. CASE ClearAfterReview(d) \/ ClearAfterFailure(d)
  BY <1>4 DEF ClearAfterReview, ClearAfterFailure, ClearProgress
<1>5. CASE PostFailureOutcome(d)
  BY <1>5 DEF PostFailureOutcome
<1>6. CASE MarkWakeFailed(d)
  BY <1>6 DEF MarkWakeFailed, ReportWakeStatus, FinishWakeRun
<1> QED
  BY <1>1, <1>2, <1>3, <1>4, <1>5, <1>6 DEF HomeStep

\* The inductive invariant is kept by GitHub, which starts one run at a time.
LEMMA SafeGithub ==
    ASSUME IInv, NEW d \in Dispatch, GithubStep(d)
    PROVE  Safe'
<1> USE DEF IInv, handlerVars, rowVars, BeforeRow, BeforeRun, BeforeReview,
            Running, Blocking
<1>1. CASE RunAppears(d)
  BY <1>1 DEF RunAppears
<1>2. CASE RunStarts(d)
  BY <1>2 DEF RunStarts
<1>3. CASE RunDies(d)
  BY <1>3 DEF RunDies
<1> QED
  BY <1>1, <1>2, <1>3 DEF GithubStep

\* The inductive invariant is kept by every step of the system.
LEMMA IInvStep ==
    ASSUME IInv, [Next]_vars
    PROVE  IInv'
<1>1. CASE UNCHANGED vars
  BY <1>1, TypeStep DEF IInv, vars, handlerVars, rowVars, PrTypeOK, prVars
<1>2. CASE \E d \in Dispatch : HandlerStep(d) \/ HomeStep(d) \/ GithubStep(d)
  BY <1>2, TypeStep, SafeInsertion, SafeStart, SafeHome, SafeGithub DEF HandlerStep, IInv, Next
<1> QED
  BY <1>1, <1>2 DEF Next

\* The inductive invariant holds in every reachable state.
THEOREM Invariance == Spec => []IInv
<1>1. Init => IInv
  BY TypeCorrectInit DEF Init, IInv, BeforeRow, BeforeRun, Blocking, Running
<1> QED
  BY <1>1, IInvStep, PTL DEF Spec

\* Two review wakes of one pull request are in flight together only until the
\* later of the two has superseded the other (queueWakeRun).
THEOREM OneLiveReviewAlways == Spec => []OneLiveReview
BY Invariance, PTL DEF IInv, Safe

-----------------------------------------------------------------------------
(***************************************************************************)
(* What one step may do to a dispatch: its row changes status only along   *)
(* none -> queued -> dispatched -> ended, or goes; its handler does not    *)
(* return before the INSERT; and its run reaches "post" only from the last *)
(* recheck, with the row in flight.                                        *)
(***************************************************************************)

RowMoves(x) ==
    \/ status'[x] \in {status[x], "none"}
    \/ pc[x] = "insert" /\ status[x] = "none" /\ status'[x] = "queued"
    \/ InFlight(x) /\ status'[x] \in {"dispatched", "failed", "superseded"}

HandlerMoves(x) == pc[x] \notin BeforeRow => pc'[x] \notin BeforeRow

RunMoves(x) ==
    /\ home'[x] = "post" => home[x] = "post" \/ (home[x] = "gate" /\ InFlight(x))
    /\ review'[x] # review[x] => home[x] = "post"

Moves(x) == RowMoves(x) /\ HandlerMoves(x) /\ RunMoves(x)

USE DEF Moves, RowMoves, HandlerMoves, RunMoves

\* Up to its row, no handler revives a row that ended, or the run behind it.
LEMMA MovesInsertion ==
    ASSUME IInv, NEW d \in Dispatch, Insertion(d), NEW x \in Dispatch
    PROVE  Moves(x)
<1> USE DEF IInv, handlerVars, rowVars, BeforeRow, Blocking
<1>1. CASE Deliver(d)
  BY <1>1 DEF Deliver
<1>2. CASE FindPrior(d)
  BY <1>2 DEF FindPrior
<1>3. CASE Refuse(d)
  BY <1>3 DEF Refuse
<1>4. CASE DeleteReplaced(d)
  BY <1>4 DEF DeleteReplaced
<1>5. CASE InsertRow(d)
  BY <1>5 DEF InsertRow
<1>6. CASE ReadBack(d)
  BY <1>6 DEF ReadBack
<1>7. CASE Supersede(d)
  BY <1>7 DEF Supersede
<1> QED
  BY <1>1, <1>2, <1>3, <1>4, <1>5, <1>6, <1>7 DEF Insertion

\* From its row on, no handler revives a row that ended, or the run behind it.
LEMMA MovesStart ==
    ASSUME IInv, NEW d \in Dispatch, Start(d), NEW x \in Dispatch
    PROVE  Moves(x)
<1> USE DEF IInv, handlerVars, rowVars, BeforeRow
<1>1. CASE \/ ListComments(d) \/ UpsertProgressComment(d)
           \/ PatchStarted(d) \/ CreateFailureComment(d)
           \/ DeleteProgressComment(d) \/ PatchProgressComment(d)
  BY <1>1 DEF ListComments, UpsertProgressComment, PatchStarted,
     CreateFailureComment, DeleteProgressComment, PatchProgressComment
<1>2. CASE MintHomeToken(d) \/ FetchBranch(d) \/ IsWakeQueued(d) \/ PollRunUrl(d)
  BY <1>2 DEF MintHomeToken, FetchBranch, HandlerCall, IsWakeQueued, StillQueued, PollRunUrl
<1>3. CASE CancelSupersededRun(d) \/ SupersededRunsCancelled(d)
  BY <1>3 DEF CancelSupersededRun, SupersededRunsCancelled
<1>4. CASE DispatchWorkflow(d)
  BY <1>4 DEF DispatchWorkflow
<1>5. CASE CommitDispatched(d)
  BY <1>5 DEF CommitDispatched, UpdateWakeIfStatus, Blocking
<1>6. CASE FinishFailed(d)
  BY <1>6 DEF FinishFailed, FinishWakeRun
<1> QED
  BY <1>1, <1>2, <1>3, <1>4, <1>5, <1>6 DEF Start

\* No Home run revives a row that ended, and none posts for such a row.
LEMMA MovesHome ==
    ASSUME IInv, NEW d \in Dispatch, HomeStep(d), NEW x \in Dispatch
    PROVE  Moves(x)
<1> USE DEF IInv, handlerVars, rowVars
<1>1. CASE BootFails(d) \/ PrepareFails(d) \/ EnginesFail(d)
  BY <1>1 DEF BootFails, PrepareFails, EnginesFail, HomeCall
<1>2. CASE EarlyRecheck(d) \/ GateRecheck(d) \/ LateRecheck(d) \/ FailureRecheck(d)
  BY <1>2 DEF EarlyRecheck, GateRecheck, LateRecheck, FailureRecheck, Recheck, DispatchStillActive
<1>3. CASE ReconcileAndPost(d) \/ PostFails(d)
  BY <1>3 DEF ReconcileAndPost, PostFails
<1>4. CASE ClearAfterReview(d) \/ ClearAfterFailure(d)
  BY <1>4 DEF ClearAfterReview, ClearAfterFailure, ClearProgress
<1>5. CASE PostFailureOutcome(d)
  BY <1>5 DEF PostFailureOutcome
<1>6. CASE MarkWakeFailed(d)
  BY <1>6 DEF MarkWakeFailed, ReportWakeStatus, FinishWakeRun
<1> QED
  BY <1>1, <1>2, <1>3, <1>4, <1>5, <1>6 DEF HomeStep

\* GitHub revives no row and moves no run to its last recheck.
LEMMA MovesGithub ==
    ASSUME IInv, NEW d \in Dispatch, GithubStep(d), NEW x \in Dispatch
    PROVE  Moves(x)
BY DEF IInv, handlerVars, rowVars, GithubStep, RunAppears, RunStarts, RunDies

\* No step of the system revives a row that ended, or posts for it.
LEMMA MovesStep ==
    ASSUME IInv, [Next]_vars, NEW x \in Dispatch
    PROVE  Moves(x)
<1>1. CASE UNCHANGED vars
  BY <1>1 DEF vars, rowVars
<1>2. CASE \E d \in Dispatch : HandlerStep(d) \/ HomeStep(d) \/ GithubStep(d)
  BY <1>2, MovesInsertion, MovesStart, MovesHome, MovesGithub DEF HandlerStep
<1> QED
  BY <1>1, <1>2 DEF Next

\* A failed, cancelled or superseded row is never revived: every writer of the
\* status is guarded (finishWakeRun, updateWakeIfStatus, supersede).
THEOREM TerminalIsFinalAlways == Spec => TerminalIsFinal
<1>1. IInv /\ [Next]_vars =>
        [\A d \in Dispatch :
           status[d] \in Retryable => status'[d] \in {status[d], "none"}]_vars
  BY MovesStep DEF Retryable, Blocking
<1> QED
  BY <1>1, Invariance, PTL DEF Spec, TerminalIsFinal

\* A dispatch that ended before its Home run passed the last recheck never
\* posts: no later step of any process gives it back the right to.
THEOREM DoomedNeverPostsAlways == Spec => DoomedNeverPosts
<1>1. IInv /\ [Next]_vars => [\A d \in Dispatch : Doomed(d) => Doomed(d)']_vars
  <2> SUFFICES ASSUME IInv, [Next]_vars, NEW d \in Dispatch, Doomed(d)
               PROVE  Doomed(d)'
    OBVIOUS
  <2> QED
    BY MovesStep DEF Doomed, BeforeRow, Blocking
<1> QED
  BY <1>1, Invariance, PTL DEF Spec, DoomedNeverPosts

-----------------------------------------------------------------------------
(***************************************************************************)
(* Answers.  What a step does to the row, the handler, the run and the     *)
(* comments of one dispatch, stated without quantifiers, carries both      *)
(* invariants below: a step to "failed" comes after the comment, and a run *)
(* ends by itself only after its review, its comment, or with its row      *)
(* ended.                                                                  *)
(***************************************************************************)

\* What was told or reviewed stays so.
Keeps(x) ==
    /\ told[x] # "untold" => told'[x] # "untold"
    /\ review[x] # "none" => review'[x] # "none"

\* The ways of a row and its handler to where they end.
HandlerEnds(x) ==
    /\ pc'[x] = "done" => status'[x] # "queued" \/ pc[x] = "done"
    /\ pc'[x] \in {"failDelete", "finish"} =>
          pc[x] \in {"failDelete", "finish"} \/ told'[x] # "untold"
    /\ pc'[x] \in {"checkPoll", "patch", "commit"} =>
          pc[x] \in {"checkPoll", "patch", "commit"} \/ Listed(x)
    /\ status'[x] = "failed" =>
          status[x] = "failed" \/ pc[x] = "finish" \/ home[x] = "mark"
    /\ status'[x] = "dispatched" => status[x] = "dispatched" \/ pc[x] = "commit"

\* The ways of a run to where it ends.
RunEnds(x) ==
    /\ Listed(x) => Listed(x)'
    /\ home'[x] \in {"late", "clear"} => home[x] \in {"late", "clear"} \/ review'[x] # "none"
    /\ home'[x] \in {"failClear", "mark"} =>
          home[x] \in {"failClear", "mark"} \/ told'[x] # "untold"
    /\ home'[x] = "done" =>
          home[x] \in {"clear", "mark", "done"} \/ (home[x] = "failCheck" /\ ~InFlight(x))
    /\ home'[x] = "cancelled" =>
          home[x] = "cancelled" \/ \E d \in Dispatch : x \in victims[d]

Ends(x) == Keeps(x) /\ HandlerEnds(x) /\ RunEnds(x)

USE DEF Ends, Keeps, HandlerEnds, RunEnds, Listed

\* A handler up to its row ends only without one.
LEMMA EndsInsertion ==
    ASSUME IInv, NEW d \in Dispatch, Insertion(d), NEW x \in Dispatch
    PROVE  Ends(x)
<1> USE DEF IInv, PrTypeOK, handlerVars, rowVars, prVars, BeforeRow
<1>1. CASE Deliver(d) \/ FindPrior(d)
  BY <1>1 DEF Deliver, FindPrior
<1>2. CASE Refuse(d)
  BY <1>2 DEF Refuse, Tell
<1>3. CASE DeleteReplaced(d) \/ InsertRow(d)
  BY <1>3 DEF DeleteReplaced, InsertRow
<1>4. CASE ReadBack(d)
  BY <1>4 DEF ReadBack
<1>5. CASE Supersede(d)
  BY <1>5 DEF Supersede
<1> QED
  BY <1>1, <1>2, <1>3, <1>4, <1>5 DEF Insertion

\* A handler that has its row ends with the row dispatched or ended, and fails it
\* only after it left the comment or tried to.
LEMMA EndsStart ==
    ASSUME IInv, NEW d \in Dispatch, Start(d), NEW x \in Dispatch
    PROVE  Ends(x)
<1> USE DEF IInv, PrTypeOK, handlerVars, rowVars, prVars
<1>1. CASE ListComments(d) \/ UpsertProgressComment(d) \/ PatchStarted(d)
  BY <1>1 DEF ListComments, UpsertProgressComment, PatchStarted
<1>2. CASE MintHomeToken(d) \/ FetchBranch(d)
  BY <1>2 DEF MintHomeToken, FetchBranch, HandlerCall
<1>3. CASE CancelSupersededRun(d)
  <2>1. PICK v \in victims[d] :
           home' = home \/ (home[v] \in Running \cup {"pending"}
                             /\ home' = [home EXCEPT ![v] = "cancelled"])
    BY <1>3 DEF CancelSupersededRun
  <2>2. Keeps(x) /\ HandlerEnds(x)
    BY <1>3 DEF CancelSupersededRun
  <2>3. RunEnds(x)
    BY <1>3, <2>1 DEF CancelSupersededRun, Running
  <2> QED
    BY <2>2, <2>3
<1>4. CASE SupersededRunsCancelled(d)
  BY <1>4 DEF SupersededRunsCancelled
<1>12. CASE DispatchWorkflow(d)
  <2>1. home[d] = "none" /\ pc[d] = "dispatch"
    BY <1>12 DEF DispatchWorkflow, BeforeRun
  <2>2. Keeps(x) /\ HandlerEnds(x)
    BY <1>12 DEF DispatchWorkflow
  <2>3. home' = home \/ home' = [home EXCEPT ![d] = "requested"]
    BY <1>12 DEF DispatchWorkflow
  <2>4. RunEnds(x)
    BY <2>1, <2>2, <2>3
  <2> QED
    BY <2>2, <2>4
<1>5. CASE IsWakeQueued(d)
  BY <1>5 DEF IsWakeQueued, StillQueued
<1>6. CASE PollRunUrl(d)
  BY <1>6 DEF PollRunUrl
<1>7. CASE CommitDispatched(d)
  BY <1>7 DEF CommitDispatched, UpdateWakeIfStatus
<1>8. CASE CreateFailureComment(d)
  BY <1>8 DEF CreateFailureComment, Tell
<1>9. CASE DeleteProgressComment(d)
  BY <1>9 DEF DeleteProgressComment
<1>10. CASE PatchProgressComment(d)
  BY <1>10 DEF PatchProgressComment, Tell, TellInVain
<1>11. CASE FinishFailed(d)
  BY <1>11 DEF FinishFailed, FinishWakeRun, Blocking
<1> QED
  BY <1>1, <1>2, <1>3, <1>4, <1>5, <1>6, <1>7, <1>8, <1>9, <1>10, <1>11,
     <1>12 DEF Start

\* A Home run ends by itself after its review, after its failure was told, or
\* with its row ended.
LEMMA EndsHome ==
    ASSUME IInv, NEW d \in Dispatch, HomeStep(d), NEW x \in Dispatch
    PROVE  Ends(x)
<1> USE DEF IInv, PrTypeOK, handlerVars, rowVars, prVars
<1>1. CASE PrepareFails(d) \/ EnginesFail(d)
  BY <1>1 DEF PrepareFails, EnginesFail, HomeCall
<1>2. CASE BootFails(d)
  BY <1>2 DEF BootFails, TellInVain
<1>3. CASE EarlyRecheck(d) \/ GateRecheck(d) \/ LateRecheck(d)
  BY <1>3 DEF EarlyRecheck, GateRecheck, LateRecheck, Recheck, DispatchStillActive
<1>4. CASE FailureRecheck(d)
  BY <1>4 DEF FailureRecheck, DispatchStillActive
<1>5. CASE ReconcileAndPost(d) \/ PostFails(d)
  BY <1>5 DEF ReconcileAndPost, PostFails
<1>6. CASE ClearAfterReview(d) \/ ClearAfterFailure(d)
  BY <1>6 DEF ClearAfterReview, ClearAfterFailure, ClearProgress
<1>7. CASE PostFailureOutcome(d)
  BY <1>7 DEF PostFailureOutcome, Tell, TellInVain
<1>8. CASE MarkWakeFailed(d)
  BY <1>8 DEF MarkWakeFailed, ReportWakeStatus, FinishWakeRun
<1> QED
  BY <1>1, <1>2, <1>3, <1>4, <1>5, <1>6, <1>7, <1>8 DEF HomeStep

\* GitHub ends no run the way a run ends itself.
LEMMA EndsGithub ==
    ASSUME IInv, NEW d \in Dispatch, GithubStep(d), NEW x \in Dispatch
    PROVE  Ends(x)
BY DEF IInv, PrTypeOK, handlerVars, rowVars, prVars, GithubStep, RunAppears, RunStarts, RunDies

\* Whatever the step, a dispatch ends only in these ways.
LEMMA EndsStep ==
    ASSUME IInv, [Next]_vars, NEW x \in Dispatch
    PROVE  Ends(x)
<1>1. CASE UNCHANGED vars
  BY <1>1 DEF vars, rowVars, prVars
<1>2. CASE \E d \in Dispatch : HandlerStep(d) \/ HomeStep(d) \/ GithubStep(d)
  BY <1>2, EndsInsertion, EndsStart, EndsHome, EndsGithub DEF HandlerStep
<1> QED
  BY <1>1, <1>2 DEF Next

\* Every way to the status "failed" comes from a step after the comment.
TellsFirst ==
    \A d \in Dispatch :
        /\ status[d] = "failed" => told[d] # "untold"
        /\ pc[d] \in {"failDelete", "finish"} => told[d] # "untold"
        /\ home[d] \in {"failClear", "mark"} => told[d] # "untold"

\* Every step tells first.
LEMMA TellsStep ==
    ASSUME IInv, TellsFirst, [Next]_vars
    PROVE  TellsFirst'
<1> SUFFICES ASSUME NEW x \in Dispatch
             PROVE  /\ status'[x] = "failed" => told'[x] # "untold"
                    /\ pc'[x] \in {"failDelete", "finish"} => told'[x] # "untold"
                    /\ home'[x] \in {"failClear", "mark"} => told'[x] # "untold"
  BY DEF TellsFirst
<1>1. Ends(x)
  BY EndsStep
<1> QED
  BY <1>1 DEF TellsFirst

\* A wake that ends as failed told the pull request so first, or tried to,
\* whichever of the handler (failToStart) and the Home run (failureReporter) gave
\* up, and whichever calls failed.
THEOREM FailureIsToldAlways == Spec => []FailureIsTold
<1>1. Init => TellsFirst
  BY DEF Init, TellsFirst
<1>2. TellsFirst => FailureIsTold
  BY DEF TellsFirst, FailureIsTold
<1> QED
  BY <1>1, <1>2, TellsStep, Invariance, PTL DEF Spec

\* No handler returns with its row queued; a dispatched row has its run; a run is
\* over by itself only with its review written, its failure told or its row ended;
\* and only rows that ended are superseded and have their runs cancelled.
Settles ==
    \A d \in Dispatch :
        /\ pc[d] = "done" => status[d] # "queued"
        /\ status[d] # "cancelled"
        /\ pc[d] \in {"checkPoll", "patch", "commit"} \/ status[d] = "dispatched" => Listed(d)
        /\ home[d] \in {"late", "clear"} => review[d] # "none"
        /\ home[d] = "done" => review[d] # "none" \/ told[d] # "untold" \/ ~InFlight(d)
        /\ home[d] = "cancelled" => ~InFlight(d)

VictimsEnded ==
    \A d \in Dispatch : \A x \in victims[d] : pc[x] \notin BeforeRow /\ ~InFlight(x)

\* The rows a handler superseded stay ended.
LEMMA VictimsStep ==
    ASSUME IInv, VictimsEnded, [Next]_vars
    PROVE  VictimsEnded'
<1> SUFFICES ASSUME NEW d \in Dispatch, NEW x \in victims'[d]
             PROVE  pc'[x] \notin BeforeRow /\ ~InFlight(x)'
  BY DEF VictimsEnded
<1>1. x \in Dispatch
  BY TypeStep DEF IInv
<1>2. Moves(x)
  BY <1>1, MovesStep
<1>3. CASE x \in victims[d]
  BY <1>1, <1>2, <1>3 DEF VictimsEnded, BeforeRow, Blocking
<1>4. CASE x \notin victims[d]
  <2>1. Supersede(d)
    <3>1. \A k \in Dispatch : Insertion(k) /\ ~Supersede(k) => victims' = victims
      BY DEF Insertion, Deliver, FindPrior, Refuse, DeleteReplaced, InsertRow, ReadBack
    <3>2. \A k \in Dispatch : Insertion(k) /\ Supersede(k) /\ k # d => victims'[d] = victims[d]
      BY DEF Supersede, IInv
    <3>6. \A k \in Dispatch : CancelSupersededRun(k) => victims'[d] \subseteq victims[d]
      BY DEF IInv, CancelSupersededRun
    <3>3. \A k \in Dispatch : Start(k) /\ ~CancelSupersededRun(k) => victims' = victims
      BY DEF Start, ListComments, UpsertProgressComment, MintHomeToken, HandlerCall,
         SupersededRunsCancelled, IsWakeQueued, StillQueued,
         FetchBranch, DispatchWorkflow, PollRunUrl, PatchStarted, CommitDispatched,
         CreateFailureComment, DeleteProgressComment, PatchProgressComment, FinishFailed
    <3>4. \A k \in Dispatch : HomeStep(k) \/ GithubStep(k) => victims' = victims
      BY DEF HomeStep, BootFails, PrepareFails, EnginesFail, HomeCall, EarlyRecheck,
         GateRecheck, LateRecheck, FailureRecheck, Recheck, ReconcileAndPost, PostFails,
         ClearAfterReview, ClearAfterFailure, ClearProgress, PostFailureOutcome,
         MarkWakeFailed, GithubStep, RunAppears, RunStarts, RunDies
    <3>5. UNCHANGED vars => victims' = victims
      BY DEF vars
    <3> QED
      BY <1>4, <3>1, <3>2, <3>3, <3>4, <3>5, <3>6 DEF Next, HandlerStep
  <2>2. IsReview(x) /\ InFlight(x) /\ status'[x] = "superseded" /\ pc'[x] \notin BeforeRow
    BY <1>1, <1>4, <2>1 DEF Supersede, IInv, handlerVars, BeforeRow, Blocking
  <2> QED
    BY <2>2 DEF Blocking
<1> QED
  BY <1>3, <1>4

\* Every step settles the dispatches it ends.
LEMMA SettlesStep ==
    ASSUME IInv, TellsFirst, VictimsEnded, Settles, [Next]_vars
    PROVE  Settles'
<1> SUFFICES ASSUME NEW x \in Dispatch
             PROVE  /\ pc'[x] = "done" => status'[x] # "queued"
                    /\ status'[x] # "cancelled"
                    /\ pc'[x] \in {"checkPoll", "patch", "commit"} \/ status'[x] = "dispatched"
                         => Listed(x)'
                    /\ home'[x] \in {"late", "clear"} => review'[x] # "none"
                    /\ home'[x] = "done" =>
                         review'[x] # "none" \/ told'[x] # "untold" \/ ~InFlight(x)'
                    /\ home'[x] = "cancelled" => ~InFlight(x)'
  BY DEF Settles
<1>1. Ends(x) /\ Moves(x)
  BY EndsStep, MovesStep
<1>2. /\ pc[x] = "done" => status[x] # "queued"
      /\ status[x] # "cancelled"
      /\ pc[x] \in {"checkPoll", "patch", "commit"} \/ status[x] = "dispatched" => Listed(x)
      /\ home[x] \in {"late", "clear"} => review[x] # "none"
      /\ home[x] = "done" => review[x] # "none" \/ told[x] # "untold" \/ ~InFlight(x)
      /\ home[x] = "cancelled" => ~InFlight(x)
      /\ home[x] = "mark" => told[x] # "untold"
  BY DEF Settles, TellsFirst
<1>3. ~InFlight(x) /\ InFlight(x)' => pc[x] = "insert" /\ home[x] = "none"
  BY <1>1 DEF IInv, BeforeRun, BeforeRow, Blocking
<1>5. /\ pc'[x] = "done" => status'[x] # "queued"
      /\ status'[x] # "cancelled"
  BY <1>1, <1>2 DEF Blocking
<1>6. pc'[x] \in {"checkPoll", "patch", "commit"} \/ status'[x] = "dispatched" => Listed(x)'
  BY <1>1, <1>2
<1>7. home'[x] \in {"late", "clear"} => review'[x] # "none"
  BY <1>1, <1>2
<1>8. home'[x] = "done" => review'[x] # "none" \/ told'[x] # "untold" \/ ~InFlight(x)'
  <2>1. home'[x] = "done" =>
          home[x] \in {"clear", "mark", "done"} \/ (home[x] = "failCheck" /\ ~InFlight(x))
    BY <1>1
  <2>2. Keeps(x)
    BY <1>1
  <2> QED
    BY <1>2, <1>3, <2>1, <2>2
<1>9. home'[x] = "cancelled" => ~InFlight(x)'
  <2>1. home'[x] = "cancelled" => ~InFlight(x)
    <3>1. home'[x] = "cancelled" => home[x] = "cancelled" \/ \E d \in Dispatch : x \in victims[d]
      BY <1>1
    <3>2. home[x] = "cancelled" => ~InFlight(x)
      BY <1>2
    <3>3. (\E d \in Dispatch : x \in victims[d]) => ~InFlight(x)
      BY DEF VictimsEnded
    <3> QED
      BY <3>1, <3>2, <3>3
  <2>2. home'[x] = "cancelled" => pc[x] \notin BeforeRow
    BY <1>1 DEF VictimsEnded, IInv, BeforeRun
  <2> QED
    BY <1>3, <2>1, <2>2 DEF BeforeRow
<1> QED
  BY <1>5, <1>6, <1>7, <1>8, <1>9

\* A run displaced by another of its group leaves one of them that is not.
Replaced ==
    \A d \in Dispatch : home[d] = "displaced" =>
        \E x \in Dispatch : SameGroup(x, d) /\ home[x] \notin {"none", "requested", "displaced"}

\* Only a run that appears displaces others.
LEMMA NoneIsDisplaced ==
    ASSUME IInv, [Next]_vars, \A d \in Dispatch : ~RunAppears(d), NEW x \in Dispatch
    PROVE  home'[x] = "displaced" => home[x] = "displaced"
<1>1. \A d \in Dispatch : HandlerStep(d) => (home'[x] = "displaced" => home[x] = "displaced")
  BY DEF IInv, HandlerStep, Insertion, Deliver, FindPrior, Refuse, DeleteReplaced, InsertRow,
     ReadBack, Supersede, Start, ListComments, UpsertProgressComment, MintHomeToken,
     HandlerCall, CancelSupersededRun, SupersededRunsCancelled, IsWakeQueued, StillQueued,
     FetchBranch, DispatchWorkflow, PollRunUrl, PatchStarted, CommitDispatched,
     CreateFailureComment, DeleteProgressComment, PatchProgressComment, FinishFailed
<1>2. \A d \in Dispatch : HomeStep(d) => (home'[x] = "displaced" => home[x] = "displaced")
  BY DEF IInv, HomeStep, BootFails, PrepareFails, EnginesFail, HomeCall, EarlyRecheck,
     GateRecheck, LateRecheck, FailureRecheck, Recheck, ReconcileAndPost, PostFails,
     ClearAfterReview, ClearAfterFailure, ClearProgress, PostFailureOutcome, MarkWakeFailed
<1>3. \A d \in Dispatch : GithubStep(d) => (home'[x] = "displaced" => home[x] = "displaced")
  BY DEF IInv, GithubStep, RunStarts, RunDies
<1>4. UNCHANGED vars => home' = home
  BY DEF vars
<1> QED
  BY <1>1, <1>2, <1>3, <1>4 DEF Next

\* The Home repo of a dispatch is read once, before it has a run.
LEMMA HouseStays ==
    ASSUME IInv, [Next]_vars, NEW x \in Dispatch, home[x] # "none"
    PROVE  house'[x] = house[x]
<1>1. \A d \in Dispatch : Deliver(d) => house'[x] = house[x]
  BY DEF Deliver, IInv, BeforeRun, BeforeRow
<1>2. \A d \in Dispatch : HandlerStep(d) /\ ~Deliver(d) => house' = house
  BY DEF HandlerStep, Insertion, FindPrior, Refuse, DeleteReplaced, InsertRow, handlerVars,
     ReadBack, Supersede, Start, ListComments, UpsertProgressComment, MintHomeToken,
     HandlerCall, CancelSupersededRun, SupersededRunsCancelled, IsWakeQueued, StillQueued,
     FetchBranch, DispatchWorkflow, PollRunUrl, PatchStarted, CommitDispatched,
     CreateFailureComment, DeleteProgressComment, PatchProgressComment, FinishFailed
<1>3. \A d \in Dispatch : HomeStep(d) \/ GithubStep(d) => house' = house
  BY DEF HomeStep, BootFails, PrepareFails, EnginesFail, HomeCall, EarlyRecheck, handlerVars,
     GateRecheck, LateRecheck, FailureRecheck, Recheck, ReconcileAndPost, PostFails,
     ClearAfterReview, ClearAfterFailure, ClearProgress, PostFailureOutcome, MarkWakeFailed,
     GithubStep, RunAppears, RunStarts, RunDies
<1>4. UNCHANGED vars => house' = house
  BY DEF vars, handlerVars
<1> QED
  BY <1>1, <1>2, <1>3, <1>4 DEF Next

\* Every step leaves a group that displaced a run with one that was not.
LEMMA ReplacedStep ==
    ASSUME IInv, Replaced, [Next]_vars
    PROVE  Replaced'
<1> SUFFICES ASSUME NEW d \in Dispatch, home'[d] = "displaced"
             PROVE  \E x \in Dispatch :
                      house'[x] = house'[d] /\ home'[x] \notin {"none", "requested", "displaced"}
  BY DEF Replaced
<1>1. CASE \E k \in Dispatch : RunAppears(k)
  <2>1. PICK k \in Dispatch : RunAppears(k)
    BY <1>1
  <2>2. house' = house /\ home'[k] = "pending"
    BY <2>1 DEF RunAppears, handlerVars, IInv
  <2>3. CASE house[d] = house[k]
    BY <2>2, <2>3
  <2>4. CASE house[d] # house[k]
    <3>1. \A x \in Dispatch : house[x] = house[d] => home'[x] = home[x]
      BY <2>1, <2>4 DEF RunAppears, IInv
    <3> QED
      BY <2>2, <3>1 DEF Replaced
  <2> QED
    BY <2>3, <2>4
<1>2. CASE \A k \in Dispatch : ~RunAppears(k)
  <2>1. home[d] = "displaced"
    BY <1>2, NoneIsDisplaced
  <2>2. PICK x \in Dispatch : house[x] = house[d] /\ home[x] \notin {"none", "requested", "displaced"}
    BY <2>1 DEF Replaced
  <2>3. house'[x] = house[x] /\ house'[d] = house[d]
    BY <2>1, <2>2, HouseStays
  <2>4. home'[x] # "displaced"
    BY <1>2, <2>2, NoneIsDisplaced
  <2>5. Listed(x)'
    BY <2>2, EndsStep
  <2> QED
    BY <2>2, <2>3, <2>4, <2>5
<1> QED
  BY <1>1, <1>2

\* Every wake that came to rest with its row was answered, by a review, a failure
\* comment or a newer wake, unless its run was killed, lost the claim, or was
\* displaced by a run of its own group.
THEOREM EveryWakeIsAnsweredAlways == Spec => []EveryWakeIsAnswered
<1>1. Init => TellsFirst /\ VictimsEnded /\ Settles /\ Replaced
  BY DEF Init, TellsFirst, VictimsEnded, Settles, Replaced, Blocking
<1>2. IInv /\ TellsFirst /\ Settles /\ Replaced => EveryWakeIsAnswered
  <2> SUFFICES ASSUME IInv, TellsFirst, Settles, Replaced, NEW d \in Dispatch, AtRest(d)
               PROVE  /\ status[d] # "queued"
                      /\ \/ review[d] # "none" \/ told[d] # "untold" \/ status[d] = "superseded"
                         \/ home[d] \in {"killed", "silenced"}
                         \/ /\ home[d] = "displaced"
                            /\ \E x \in Dispatch :
                                  SameGroup(x, d) /\ home[x] \notin {"none", "requested", "displaced"}
    BY DEF EveryWakeIsAnswered
  <2>1. status[d] \in {"dispatched", "failed", "superseded"}
    BY DEF AtRest, Settles, IInv, WakeStatus, Blocking, Retryable
  <2>2. CASE status[d] = "failed"
    BY <2>2 DEF TellsFirst
  <2>3. CASE status[d] = "dispatched"
    BY <2>3 DEF AtRest, Settles, Replaced, Ended, Blocking
  <2> QED
    BY <2>1, <2>2, <2>3
<1> QED
  BY <1>1, <1>2, TellsStep, VictimsStep, SettlesStep, ReplacedStep, Invariance, PTL DEF Spec

-----------------------------------------------------------------------------
(* WakeDispatch implements WakePromise.  A step of the implementation      *)
(* either inserts a row (Enter), ends a set of wakes and leaves the writer *)
(* alone (End, which includes stuttering), or moves the run that holds the *)
(* right to write (Grant, Write, GiveUp).                                  *)

phaseBar    == [d \in Dispatch |-> PhaseOf(d)]
reviewedBar == {d \in Dispatch : review[d] # "none"}

\* The initial states are initial states of the promise.
LEMMA BarInit == Init => Promise!Init
BY DEF Init, Promise!Init, PhaseOf, BeforeRow, WriterNow, Posters, OneOf

\* A run has the Home repo its handler was told of.
LEMMA HouseIsKnown ==
    ASSUME IInv, NEW d \in Dispatch, home[d] # "none"
    PROVE  house[d] \in Homes
BY DEF IInv, BeforeRun, BeforeRow

\* The writer among no wakes, and among one.
LEMMA OneOfFew ==
    /\ OneOf({}) = NoOne
    /\ \A d \in Dispatch : OneOf({d}) = d
BY DEF OneOf

\* With one run of the group at a time, the run at "post" is the one writer of its
\* Home repo.
LEMMA WriterIsPoster ==
    ASSUME IInv, NEW d \in Dispatch, home[d] = "post"
    PROVE  /\ house[d] \in Homes
           /\ Posters(house[d]) = {d}
           /\ WriterNow[house[d]] = d
<1>1. house[d] \in Homes
  BY HouseIsKnown
<1>2. Posters(house[d]) = {d}
  BY DEF IInv, Posters, Running
<1> QED
  BY <1>1, <1>2, OneOfFew DEF WriterNow

\* Home repos whose posters stay the same keep their writer.
LEMMA SameWriters ==
    ASSUME \A k \in Homes : Posters(k)' = Posters(k)
    PROVE  WriterNow' = WriterNow
BY DEF WriterNow

\* A Home repo that alone changes its posters alone changes its writer.
LEMMA OneWriterMoves ==
    ASSUME NEW h \in Homes, \A k \in Homes \ {h} : Posters(k)' = Posters(k)
    PROVE  /\ Posters(h)' = {} => WriterNow' = [WriterNow EXCEPT ![h] = NoOne]
           /\ \A d \in Dispatch :
                Posters(h)' = {d} => WriterNow' = [WriterNow EXCEPT ![h] = d]
<1>1. WriterNow' = [k \in Homes |-> OneOf(Posters(k)')]
  BY DEF WriterNow
<1>2. \A k \in Homes \ {h} : OneOf(Posters(k)') = OneOf(Posters(k))
  OBVIOUS
<1>3. WriterNow' = [WriterNow EXCEPT ![h] = OneOf(Posters(h)')]
  BY <1>1, <1>2 DEF WriterNow
<1> QED
  BY <1>3, OneOfFew

\* Phases that no wake enters: every wake keeps its phase or ends.
LEMMA PhasesEnd ==
    ASSUME IInv, [Next]_vars,
           \A x \in Dispatch : pc[x] = "insert" => pc'[x] = "insert" \/ status'[x] = "none"
    PROVE  phaseBar' = [x \in Dispatch |->
                          IF x \in {y \in Dispatch : PhaseOf(y)' = "ended"}
                          THEN "ended" ELSE phaseBar[x]]
<1> SUFFICES ASSUME NEW x \in Dispatch, PhaseOf(x)' # "ended"
             PROVE  PhaseOf(x)' = PhaseOf(x)
  BY DEF phaseBar
<1>1. Moves(x)
  BY MovesStep
<1>2. CASE pc'[x] \in BeforeRow
  BY <1>1, <1>2 DEF PhaseOf
<1>3. CASE pc'[x] \notin BeforeRow /\ pc[x] \in BeforeRow
  <2>1. status[x] = "none"
    BY <1>3 DEF IInv
  <2>2. pc'[x] # "insert"
    BY <1>3 DEF BeforeRow
  <2> QED
    BY <1>1, <1>3, <2>1, <2>2 DEF PhaseOf, Blocking
<1>4. CASE pc'[x] \notin BeforeRow /\ pc[x] \notin BeforeRow
  BY <1>1, <1>4 DEF PhaseOf, Blocking, BeforeRow
<1> QED
  BY <1>2, <1>3, <1>4

\* Such a step, when it leaves the runs alone, only ends wakes.
LEMMA EndStep ==
    ASSUME IInv, [Next]_vars,
           \A x \in Dispatch : pc[x] = "insert" => pc'[x] = "insert" \/ status'[x] = "none",
           \A h \in Homes : Posters(h)' = Posters(h), review' = review
    PROVE  Promise!Next
<1> DEFINE ended == {y \in Dispatch : PhaseOf(y)' = "ended"}
<1>1. phaseBar' = [x \in Dispatch |-> IF x \in ended THEN "ended" ELSE phaseBar[x]]
  BY PhasesEnd
<1>2. WriterNow' = WriterNow /\ reviewedBar' = reviewedBar
  BY SameWriters DEF reviewedBar
<1>3. Promise!End(ended)
  BY <1>1, <1>2 DEF Promise!End, phaseBar, reviewedBar
<1>4. ended \in SUBSET Dispatch
  OBVIOUS
<1> QED
  BY <1>3, <1>4 DEF Promise!Next

\* A handler that plans, inserts and supersedes lets wakes enter and end.
LEMMA InsertionRefines ==
    ASSUME IInv, NEW d \in Dispatch, Insertion(d)
    PROVE  Promise!Next
<1>1. [Next]_vars
  BY DEF Next, HandlerStep
<1>2. UNCHANGED <<home, review>>
  BY DEF Insertion, Deliver, FindPrior, Refuse, DeleteReplaced, InsertRow, ReadBack, Supersede
<1>3. \A h \in Homes : Posters(h)' = Posters(h)
  <2>1. \A x \in Dispatch : home[x] # "none" => house'[x] = house[x]
    BY <1>1, HouseStays
  <2> QED
    BY <1>2, <2>1 DEF Posters
<1>4. CASE InsertRow(d) /\ ~KeyTaken(d)
  <2>1. PhaseOf(d) = "new" /\ PhaseOf(d)' = "live"
    BY <1>4 DEF InsertRow, PhaseOf, IInv, BeforeRow, Blocking, HandlerSteps
  <2>2. \A x \in Dispatch \ {d} : PhaseOf(x)' = PhaseOf(x)
    BY <1>4 DEF InsertRow, PhaseOf, IInv
  <2>3. phaseBar' = [phaseBar EXCEPT ![d] = "live"] /\ phaseBar[d] = "new"
    BY <2>1, <2>2 DEF phaseBar
  <2>4. WriterNow' = WriterNow /\ reviewedBar' = reviewedBar
    BY <1>2, <1>3, SameWriters DEF reviewedBar
  <2>5. Promise!Enter(d)
    BY <2>3, <2>4 DEF Promise!Enter, phaseBar, reviewedBar
  <2> QED
    BY <2>5 DEF Promise!Next
<1>5. CASE ~(InsertRow(d) /\ ~KeyTaken(d))
  <2>1. \A x \in Dispatch : pc[x] = "insert" => pc'[x] = "insert" \/ status'[x] = "none"
    BY <1>5 DEF IInv, BeforeRow, Insertion, Deliver, FindPrior, Refuse, DeleteReplaced,
       InsertRow, ReadBack, Supersede, rowVars, handlerVars, Blocking
  <2> QED
    BY <1>1, <1>2, <1>3, <2>1, EndStep
<1> QED
  BY <1>4, <1>5

\* A step of the runs of one Home repo that writes nothing and lets none through
\* leaves the abstract state alone, or stops the writer.
LEMMA RunsRefine ==
    ASSUME IInv, UNCHANGED <<pc, status, review, house>>, NEW h \in Homes,
           \A x \in Dispatch : house[x] # h => home'[x] = home[x],
           \A x \in Dispatch : home'[x] = "post" => home[x] = "post"
    PROVE  [Promise!Next]_(Promise!vars)
<1>1. phaseBar' = phaseBar /\ reviewedBar' = reviewedBar
  BY DEF phaseBar, PhaseOf, reviewedBar
<1>2. \A k \in Homes \ {h} : Posters(k)' = Posters(k)
  BY DEF Posters
<1>3. CASE Posters(h)' = Posters(h)
  <2>1. WriterNow' = WriterNow
    BY <1>2, <1>3, SameWriters
  <2> QED
    BY <1>1, <2>1 DEF Promise!vars, phaseBar, reviewedBar
<1>4. CASE Posters(h)' # Posters(h)
  <2>1. Posters(h)' = {}
    <3>1. Posters(h)' \subseteq Posters(h)
      BY DEF Posters
    <3>2. \A x, y \in Posters(h) : x = y
      BY DEF IInv, Posters, Running
    <3> QED
      BY <1>4, <3>1, <3>2
  <2>2. WriterNow' = [WriterNow EXCEPT ![h] = NoOne]
    BY <1>2, <2>1, OneWriterMoves
  <2>3. Promise!GiveUp(h)
    BY <1>1, <2>2 DEF Promise!GiveUp, phaseBar, reviewedBar
  <2> QED
    BY <2>3 DEF Promise!Next
<1> QED
  BY <1>3, <1>4

\* A handler that starts its Home run ends wakes and stops writers.
LEMMA StartRefines ==
    ASSUME IInv, NEW d \in Dispatch, Start(d)
    PROVE  [Promise!Next]_(Promise!vars)
<1>1. [Next]_vars
  BY DEF Next, HandlerStep
<1>2. CASE CancelSupersededRun(d)
  <2>1. UNCHANGED <<pc, status, review, house>>
    BY <1>2 DEF CancelSupersededRun, rowVars, handlerVars
  <2>2. house[d] \in Homes
    BY <1>2 DEF IInv, CancelSupersededRun
  <2>3. \A x \in Dispatch : house[x] # house[d] => home'[x] = home[x]
    BY <1>2 DEF IInv, CancelSupersededRun
  <2>4. \A x \in Dispatch : home'[x] = "post" => home[x] = "post"
    BY <1>2 DEF IInv, CancelSupersededRun
  <2> QED
    BY <2>1, <2>2, <2>3, <2>4, RunsRefine
<1>3. CASE ~CancelSupersededRun(d)
  <2>1. \A h \in Homes : Posters(h)' = Posters(h)
    <3>1. \A x \in Dispatch : home'[x] = "post" <=> home[x] = "post"
      BY <1>3 DEF IInv, BeforeRun, Start, ListComments, UpsertProgressComment,
         MintHomeToken, HandlerCall, SupersededRunsCancelled, IsWakeQueued, StillQueued,
         FetchBranch, DispatchWorkflow, PollRunUrl, PatchStarted, CommitDispatched,
         CreateFailureComment, DeleteProgressComment, PatchProgressComment, FinishFailed
    <3>2. \A x \in Dispatch : home[x] = "post" => house'[x] = house[x]
      BY <1>1, HouseStays
    <3> QED
      BY <3>1, <3>2 DEF Posters
  <2>2. /\ review' = review
        /\ \A x \in Dispatch : pc[x] = "insert" => pc'[x] = "insert" \/ status'[x] = "none"
    BY <1>3 DEF IInv, Start, ListComments, UpsertProgressComment,
       MintHomeToken, HandlerCall, SupersededRunsCancelled, IsWakeQueued, StillQueued,
       FetchBranch, DispatchWorkflow, PollRunUrl, PatchStarted, CommitDispatched,
       CreateFailureComment, DeleteProgressComment, PatchProgressComment, FinishFailed
  <2> QED
    BY <1>1, <2>1, <2>2, EndStep
<1> QED
  BY <1>2, <1>3

\* A Home run is granted the right to write, writes or gives up, as promised.
LEMMA HomeRefines ==
    ASSUME IInv, NEW d \in Dispatch, HomeStep(d)
    PROVE  [Promise!Next]_(Promise!vars)
<1>1. [Next]_vars
  BY DEF Next
<1>2. house' = house /\ home[d] # "none" /\ \A x \in Dispatch \ {d} : home'[x] = home[x]
  BY DEF IInv, HomeStep, BootFails, PrepareFails, EnginesFail, HomeCall, EarlyRecheck,
     handlerVars, GateRecheck, LateRecheck, FailureRecheck, Recheck, ReconcileAndPost,
     PostFails, ClearAfterReview, ClearAfterFailure, ClearProgress, PostFailureOutcome,
     MarkWakeFailed
<1>3. PICK h \in Homes : h = house[d]
  BY <1>2, HouseIsKnown
<1>4. ASSUME UNCHANGED <<pc, status, review>>, home'[d] = "post" => home[d] = "post"
      PROVE  [Promise!Next]_(Promise!vars)
  <2>1. \A x \in Dispatch : house[x] # h => home'[x] = home[x]
    BY <1>2, <1>3
  <2>2. \A x \in Dispatch : home'[x] = "post" => home[x] = "post"
    BY <1>2, <1>4
  <2> QED
    BY <1>2, <1>3, <1>4, <2>1, <2>2, RunsRefine
<1>5. CASE \/ BootFails(d) \/ PrepareFails(d) \/ EnginesFail(d)
           \/ EarlyRecheck(d) \/ LateRecheck(d) \/ FailureRecheck(d)
           \/ ClearAfterReview(d) \/ PostFailureOutcome(d) \/ ClearAfterFailure(d)
  <2>1. UNCHANGED <<pc, status, review>> /\ home'[d] # "post"
    BY <1>5 DEF IInv, BootFails, PrepareFails, EnginesFail, HomeCall, EarlyRecheck,
       LateRecheck, FailureRecheck, Recheck, ClearAfterReview, ClearAfterFailure,
       ClearProgress, PostFailureOutcome, rowVars
  <2> QED
    BY <1>4, <2>1
<1>6. CASE GateRecheck(d)
  <2>1. UNCHANGED <<pc, status, review>> /\ home[d] = "gate"
    BY <1>6 DEF GateRecheck, Recheck, rowVars
  <2>2. CASE home'[d] # "post"
    BY <1>4, <2>1, <2>2
  <2>3. CASE home'[d] = "post"
    <3>1. InFlight(d)
      BY <1>6, <2>3 DEF IInv, GateRecheck, Recheck, DispatchStillActive
    <3>2. Posters(h) = {}
      BY <1>3, <2>1 DEF IInv, Running, Posters
    <3>3. Posters(h)' = {d}
      BY <1>2, <1>3, <2>3, <3>2 DEF Posters
    <3>4. \A k \in Homes \ {h} : Posters(k)' = Posters(k) /\ d \notin Posters(k)
      BY <1>2, <1>3 DEF Posters
    <3>5. WriterNow' = [WriterNow EXCEPT ![h] = d] /\ WriterNow[h] = NoOne
      <4>1. \A k \in Homes \ {h} : Posters(k)' = Posters(k)
        BY <3>4
      <4>2. WriterNow' = [WriterNow EXCEPT ![h] = d]
        BY <1>3, <3>3, <4>1, OneWriterMoves
      <4>3. WriterNow[h] = NoOne
        BY <1>3, <3>2, OneOfFew DEF WriterNow
      <4> QED
        BY <4>2, <4>3
    <3>6. \A k \in Homes : WriterNow[k] # d
      <4>1. \A k \in Homes : d \notin Posters(k) /\ Posters(k) \subseteq Dispatch
        BY <3>2, <3>4 DEF Posters
      <4>2. \A k \in Homes : OneOf(Posters(k)) # d
        BY <4>1, WakeAssumption DEF OneOf
      <4> QED
        BY <4>2 DEF WriterNow
    <3>7. PhaseOf(d) = "live" /\ d \notin reviewedBar
      BY <2>1, <3>1 DEF IInv, PhaseOf, BeforeReview, Blocking, reviewedBar
    <3>8. phaseBar' = phaseBar /\ reviewedBar' = reviewedBar
      BY <2>1 DEF phaseBar, PhaseOf, reviewedBar
    <3>9. Promise!Grant(d, h)
      BY <3>5, <3>6, <3>7, <3>8 DEF Promise!Grant, phaseBar, reviewedBar
    <3> QED
      BY <1>3, <3>9 DEF Promise!Next
  <2> QED
    BY <2>2, <2>3
<1>7. CASE ReconcileAndPost(d) \/ PostFails(d)
  <2>1. UNCHANGED <<pc, status>> /\ home[d] = "post" /\ home'[d] # "post"
    BY <1>7 DEF IInv, ReconcileAndPost, PostFails, rowVars
  <2>2. CASE review' = review
    BY <1>4, <2>1, <2>2
  <2>3. CASE review' # review
    <3>1. Posters(h) = {d} /\ WriterNow[h] = d /\ d # NoOne
      BY <1>3, <2>1, WriterIsPoster, WakeAssumption
    <3>2. Posters(h)' = {}
      BY <1>2, <2>1, <3>1 DEF Posters
    <3>3. \A k \in Homes \ {h} : Posters(k)' = Posters(k)
      BY <1>2, <1>3 DEF Posters
    <3>4. WriterNow' = [WriterNow EXCEPT ![h] = NoOne]
      BY <1>3, <3>2, <3>3, OneWriterMoves
    <3>5. reviewedBar' = reviewedBar \cup {d}
      BY <1>7, <2>3 DEF ReconcileAndPost, PostFails, reviewedBar, IInv
    <3>6. phaseBar' = phaseBar
      BY <2>1 DEF phaseBar, PhaseOf
    <3>7. Promise!Write(h)
      BY <3>1, <3>4, <3>5, <3>6 DEF Promise!Write, phaseBar, reviewedBar
    <3> QED
      BY <3>7 DEF Promise!Next
  <2> QED
    BY <2>2, <2>3
<1>8. CASE MarkWakeFailed(d)
  <2>1. review' = review /\ pc' = pc /\ home[d] # "post" /\ home'[d] # "post"
    BY <1>8 DEF IInv, MarkWakeFailed
  <2>2. \A k \in Homes : Posters(k)' = Posters(k)
    BY <1>2, <2>1 DEF Posters
  <2>3. \A x \in Dispatch : pc[x] = "insert" => pc'[x] = "insert" \/ status'[x] = "none"
    BY <2>1
  <2> QED
    BY <1>1, <2>1, <2>2, <2>3, EndStep
<1> QED
  BY <1>5, <1>6, <1>7, <1>8 DEF HomeStep

\* GitHub can only take the right to write away, from the runs of one Home repo.
LEMMA GithubRefines ==
    ASSUME IInv, NEW d \in Dispatch, GithubStep(d)
    PROVE  [Promise!Next]_(Promise!vars)
<1>1. UNCHANGED <<pc, status, review, house>> /\ home[d] # "none"
  BY DEF GithubStep, RunAppears, RunStarts, RunDies, rowVars, handlerVars, Running
<1>2. house[d] \in Homes
  BY <1>1, HouseIsKnown
<1>3. \A x \in Dispatch : house[x] # house[d] => home'[x] = home[x]
  BY DEF GithubStep, RunAppears, RunStarts, RunDies, IInv
<1>4. \A x \in Dispatch : home'[x] = "post" => home[x] = "post"
  BY DEF GithubStep, RunAppears, RunStarts, RunDies, IInv
<1> QED
  BY <1>1, <1>2, <1>3, <1>4, RunsRefine

\* The pipeline of handlers, GitHub and Home runs implements WakePromise: from
\* each Home repo at most one wake of the pull request may write at a time, it was
\* live when its last recheck let it, and it writes at most one review.
THEOREM KeepsPromiseAlways == Spec => KeepsPromise
<1>1. IInv /\ [Next]_vars => [Promise!Next]_(Promise!vars)
  <2> SUFFICES ASSUME IInv, [Next]_vars
               PROVE  [Promise!Next]_(Promise!vars)
    OBVIOUS
  <2>1. CASE UNCHANGED vars
    BY <2>1 DEF vars, rowVars, handlerVars, Promise!vars, PhaseOf, WriterNow, Posters
  <2>2. CASE \E d \in Dispatch : HandlerStep(d) \/ HomeStep(d) \/ GithubStep(d)
    BY <2>2, InsertionRefines, StartRefines, HomeRefines, GithubRefines DEF HandlerStep
  <2> QED
    BY <2>1, <2>2 DEF Next
<1> QED
  BY <1>1, BarInit, Invariance, PTL DEF Spec, KeepsPromise, Promise!Spec
=============================================================================
