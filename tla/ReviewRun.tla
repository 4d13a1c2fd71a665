------------------------------ MODULE ReviewRun ------------------------------
(***************************************************************************)
(* The Home runs of one pull request, from the checkout to the review      *)
(* (packages/action/src).  A run clones the consumer at the head the wake  *)
(* was for, walks the model queue, and for one slot reads the pull         *)
(* request, runs the engine passes, drops the findings it cannot post,     *)
(* dismisses its older reviews of the commit and creates the new one.  The *)
(* author pushes, force-pushes and dismisses at any moment, and every call *)
(* of GitHub, of the engines and of the disk may fail.                     *)
(*                                                                         *)
(* Runs of one pull request share a concurrency group, so a new one cancels *)
(* the one under way; WakeDispatch models how they get there.              *)
(***************************************************************************)
EXTENDS ModelChoice

CONSTANTS
    MaxCommit,  \* bound: commits ever pushed
    MaxRuns,    \* bound: Home runs dispatched
    Queue,      \* the model queue: entries [model, similarModel]
    Catalogs,   \* the catalogs a Runtime pack may carry
    Plans,      \* the plans wakes are for, of {"review", "mention", "fix"}
    Reports,    \* the reports engines write: sets of findings
    Faults      \* what may go wrong, of AllFaults

AllFaults == {"vault", "config", "install", "clone", "read", "prior", "engine",
              "throw", "files", "gate", "list", "dismiss", "create", "lost"}

Commits == 1..MaxCommit

\* What report-checks.ts can tell of a finding: a path inside the checkout,
\* not ignored, a patch that changes something, the heads whose diff shows its
\* lines, and the commits whose file has them.
Findings == [safe : BOOLEAN, ignored : BOOLEAN, noop : BOOLEAN,
             shown : SUBSET Commits, held : SUBSET Commits]

ASSUME MaxCommitAssumption == MaxCommit \in Nat \ {0}
ASSUME MaxRunsAssumption == MaxRuns \in Nat
ASSUME QueueAssumption ==
    /\ Len(Queue) \in Nat \ {0} /\ DOMAIN Queue = 1..Len(Queue)
    /\ \A i \in DOMAIN Queue : Queue[i].model \in ModelIds
ASSUME CatalogsAssumption == \A c \in Catalogs : c.models \in Seq(ModelIds)
ASSUME PlansAssumption == Plans \subseteq {"review", "mention", "fix"}
ASSUME FaultsAssumption == Faults \subseteq AllFaults
ASSUME ReportsAssumption == \A r \in Reports : IsFiniteSet(r) /\ r \subseteq Findings

VARIABLES
    head,       \* the head commit of the pull request
    line,       \* per commit its ancestors in the pull request, itself included
    reviews,    \* the bot's reviews in the order GitHub got them
    pc,         \* where the run under way is; "idle" when none is
    plan,       \* what it is for
    wake,       \* the head sha of its dispatch; 0 for a comment, which has none
    checkout,   \* the commit its checkout is at
    local,      \* the commits its clone has
    catalog,    \* the catalog of its Runtime pack
    slot,       \* the entry of the queue it is at
    verdict,    \* what the similar-model policy made of that entry so far
    sha,        \* the head it read, which the review is labelled with
    since,      \* the commit the diff starts after; 0 for the merge base
    passes,     \* the engine passes by axis
    homes,      \* the job homes on disk, with a credential in each
    listed,     \* the head whose files the checks saw; 0 when the listing failed
    report,     \* the report as it will be posted
    stale,      \* the reviews still to dismiss
    ended       \* how every run ended

tree == <<head, line>>
job == <<plan, wake, checkout, local, catalog>>
attempt == <<slot, verdict, sha, since, passes, homes, listed, report, stale>>
vars == <<tree, reviews, pc, job, attempt, ended>>

AllAxes == {"standards", "spec", "answer"}
Axes == IF plan = "review" THEN {"standards", "spec"} ELSE {"answer"}
NoPasses == [axis \in AllAxes |-> "unborn"]
PassResults == {"ok", "reseed", "auth", "other"}

NoReport == [kept |-> {}, dropped |-> 0]
NoVerdict == Scan(0, 0)
Notice(v) == IF v.kind = "substituted" THEN <<Queue[slot].model, v.model>> ELSE <<>>

\* Mutant.  The hash leaves out the notice.
HashWithoutNotice(r, notice) == [report |-> r, notice |-> <<>>]

HashReviewBody(r, notice) == [report |-> r, notice |-> notice]

NoCatalog == [listed |-> FALSE, models |-> <<>>]

\* What is left of a run: its result, and of a review that settled it what the
\* reader of the pull request should see.
Unsettled(outcome, cause) ==
    [outcome |-> outcome, cause |-> cause, slot |-> slot, sha |-> 0,
     report |-> NoReport, notice |-> <<>>]
Ending(outcome, cause) ==
    IF outcome = "failed" THEN Unsettled(outcome, cause)
    ELSE [Unsettled(outcome, cause) EXCEPT
              !.sha = sha, !.report = report, !.notice = Notice(verdict)]
Started == [Unsettled("running", "") EXCEPT !.slot = 1]

Init ==
    /\ head = 1 /\ line = <<{1}>>
    /\ reviews = <<>>
    /\ pc = "idle"
    /\ plan = "review" /\ wake = 0 /\ checkout = 0 /\ local = {}
    /\ catalog = NoCatalog
    /\ slot = 1 /\ verdict = NoVerdict /\ sha = 0 /\ since = 0
    /\ passes = NoPasses /\ homes = {} /\ listed = 0
    /\ report = NoReport /\ stale = {}
    /\ ended = <<>>

-----------------------------------------------------------------------------
(* The pull request *)

\* A push on top of p; a force push unless p is the head.  Zero stands for
\* the merge base.
Push(p) ==
    /\ Len(line) < MaxCommit
    /\ line' = Append(line, {Len(line) + 1} \cup IF p = 0 THEN {} ELSE line[p])
    /\ head' = Len(line) + 1
    /\ UNCHANGED <<reviews, pc, job, attempt, ended>>

\* A force push back to a commit that was there before.
Reset(c) ==
    /\ c # head /\ head' = c
    /\ UNCHANGED <<line, reviews, pc, job, attempt, ended>>

\* A writer dismisses a review by hand.
UserDismisses(i) ==
    /\ reviews[i].state = "standing"
    /\ reviews' = [reviews EXCEPT ![i].state = "withdrawn"]
    /\ UNCHANGED <<tree, pc, job, attempt, ended>>

-----------------------------------------------------------------------------
(* The run *)

Run == Len(ended)

\* The locals of an attempt and of a run die with it; a pass nobody waits for
\* does not.
Forget ==
    /\ verdict' = NoVerdict /\ sha' = 0 /\ since' = 0
    /\ listed' = 0 /\ report' = NoReport /\ stale' = {}

End(outcome, cause) ==
    /\ pc' = "idle"
    /\ ended' = [ended EXCEPT ![Run] = Ending(outcome, cause)]
    /\ plan' = "review" /\ wake' = 0
    /\ checkout' = 0 /\ local' = {} /\ catalog' = NoCatalog
    /\ slot' = 1
    /\ Forget
    /\ UNCHANGED passes

\* GitHub starts the job of a dispatch and cancels the one before it.
Dispatch(p) ==
    /\ Run < MaxRuns
    /\ ended' = Append(IF pc = "idle" THEN ended
                       ELSE [ended EXCEPT ![Run].outcome = "cancelled"],
                       Started)
    /\ pc' = "prepare"
    /\ plan' = p /\ wake' = IF p = "review" THEN head ELSE 0
    /\ checkout' = 0 /\ local' = {} /\ catalog' = NoCatalog
    /\ slot' = 1 /\ passes' = NoPasses /\ homes' = {}
    /\ Forget
    /\ UNCHANGED <<tree, reviews>>

\* provisionEngines: the Runtime pack, and every engine of the queue
\* installed; one that does not install fails the run.
Prepare(c) ==
    /\ pc = "prepare"
    /\ catalog' = c
    /\ pc' = "clone"
    /\ UNCHANGED <<tree, reviews, plan, wake, checkout, local, attempt, ended>>

PrepareFails ==
    /\ pc = "prepare" /\ "install" \in Faults
    /\ End("failed", "install")
    /\ UNCHANGED <<tree, reviews, homes>>

\* The fetch is of the pull request's head as it is now, one commit deep: the
\* head of the dispatch is there to check out only if nobody pushed since.
Clone ==
    /\ pc = "clone"
    /\ wake \in {0, head}
    /\ checkout' = head /\ local' = line[head]
    /\ pc' = "deepen"
    /\ UNCHANGED <<tree, reviews, plan, wake, catalog, attempt, ended>>

\* deepenUntilMergeBase fetches the head again, which may have moved, unless
\* the merge base is already there; then the early recheck passes.
Deepen(more) ==
    /\ pc = "deepen"
    /\ local' = local \cup more
    /\ pc' = "slot"
    /\ UNCHANGED <<tree, reviews, plan, wake, checkout, catalog, attempt, ended>>

CheckoutFails ==
    /\ \/ pc = "clone" /\ wake \notin {0, head}
       \/ pc \in {"clone", "deepen"} /\ "clone" \in Faults
       \/ pc = "deepen" /\ "gate" \in Faults
    /\ End("failed", "clone")
    /\ UNCHANGED <<tree, reviews, homes>>

-----------------------------------------------------------------------------
(* One slot of the model queue *)

Failures == {"auth", "other"}

\* Mutant.  The slot that failed is tried again.
RetrySlot ==
    /\ passes' = NoPasses
    /\ Forget
    /\ pc' = "slot"
    /\ UNCHANGED <<slot, job, ended>>

NextSlot ==
    /\ slot' = slot + 1 /\ passes' = NoPasses
    /\ Forget
    /\ pc' = "slot"
    /\ UNCHANGED <<job, ended>>

\* withModelQueueFallback: a message with the words of an authentication
\* failure moves on to the next slot, any other ends the walk.
IsAuthFailure(kind) == kind = "auth"
AttemptFails(kind) ==
    IF IsAuthFailure(kind)
    THEN NextSlot
    ELSE End("failed", kind)

\* resolveModelAttempt: the account is gone from the vault, its box does not
\* open, or what is inside does not parse.
SkipSlot ==
    /\ pc = "slot" /\ slot <= Len(Queue)
    /\ "vault" \in Faults
    /\ NextSlot
    /\ UNCHANGED <<tree, reviews, homes>>

Exhausted ==
    /\ pc = "slot" /\ slot > Len(Queue)
    /\ End("failed", "exhausted")
    /\ UNCHANGED <<tree, reviews, homes>>

Requested == Queue[slot].model

\* judgeAttemptModel.  The stored id runs when the catalog is missing or lists
\* it, and when it is of no family or no version.
JudgeAttempt ==
    /\ pc = "slot" /\ slot <= Len(Queue)
    /\ IF catalog.listed /\ ~Lists(catalog, Requested) /\ MayHaveKin(Requested)
       THEN verdict' = Scan(0, 0) /\ pc' = "pick"
       ELSE verdict' = Verdict("as-stored", Requested) /\ pc' = "context"
    /\ UNCHANGED <<tree, reviews, job, slot, sha, since, passes, homes, listed,
                   report, stale, ended>>

IsKin(id) ==
    /\ id.order # Requested.order
    /\ SameFamily(Requested.tokens, id.tokens)

\* The better of the i-th entry and the best before it; zero is none.
BetterOf(i, best) ==
    IF /\ IsKin(catalog.models[i])
       /\ best = 0 \/ Beats(catalog.models[i], catalog.models[best])
    THEN i ELSE best

\* The loop of pickSimilarModel, an entry of the catalog a step.
PickNext ==
    /\ pc = "pick" /\ verdict.seen < Len(catalog.models)
    /\ verdict' = Scan(verdict.seen + 1, BetterOf(verdict.seen + 1, verdict.best))
    /\ UNCHANGED <<tree, reviews, pc, job, slot, sha, since, passes, homes,
                   listed, report, stale, ended>>

Picked == pc = "pick" /\ verdict.seen = Len(catalog.models)

PickEnds ==
    /\ Picked
    /\ verdict.best # 0 => Queue[slot].similarModel
    /\ verdict' = IF verdict.best = 0 THEN Verdict("as-stored", Requested)
                  ELSE Verdict("substituted", catalog.models[verdict.best])
    /\ pc' = "context"
    /\ UNCHANGED <<tree, reviews, job, slot, sha, since, passes, homes, listed,
                   report, stale, ended>>

\* A model that went away and may not be replaced is a failure of the review,
\* not of the slot.
PickRefused ==
    /\ Picked /\ verdict.best # 0 /\ ~Queue[slot].similarModel
    /\ End("failed", "unresolved")
    /\ UNCHANGED <<tree, reviews, homes>>

\* attemptJob throws, for a credential of another shape than the engine's, or
\* an input that does not parse; the App token cannot be minted; the head
\* cannot be read.
StartFails(kind) ==
    /\ pc = "context" /\ {"config", "read"} \cap Faults # {}
    /\ AttemptFails(kind)
    /\ UNCHANGED <<tree, reviews, homes>>

ReadContext ==
    /\ pc = "context"
    /\ sha' = head
    /\ pc' = "prior"
    /\ UNCHANGED <<tree, reviews, job, slot, verdict, since, passes, homes,
                   listed, report, stale, ended>>

IsPrior(i) == reviews[i].state = "standing" /\ reviews[i].sha # sha

\* Mutant.  The commit before this head, reviewed or not.
CommitBefore ==
    LET older == line[sha] \ {sha}
    IN  IF older = {} THEN 0 ELSE CHOOSE c \in older : \A d \in older : d <= c

\* The commit of the latest posted review of another head; 0 when none is.
FindPriorHakaseReview ==
    LET prior == {i \in DOMAIN reviews : IsPrior(i)}
    IN  IF prior = {} THEN 0
        ELSE reviews[CHOOSE i \in prior : \A j \in prior : j <= i].sha

\* The prior commit counts when it can be fetched, is an ancestor of the
\* checkout, and the clone has this head and finds it an ancestor of it too.
Reachable(prior) ==
    /\ prior # 0
    /\ prior \in line[checkout]
    /\ sha \in local /\ prior \in line[sha]

ResolvePriorReview(known) ==
    /\ pc = "prior"
    /\ known \/ "prior" \in Faults
    /\ since' = LET prior == FindPriorHakaseReview
                IN  IF plan = "review" /\ known /\ Reachable(prior) THEN prior ELSE 0
    /\ passes' = NoPasses
    /\ pc' = "passes"
    /\ UNCHANGED <<tree, reviews, job, slot, verdict, sha, homes, listed,
                   report, stale, ended>>

-----------------------------------------------------------------------------
(* The engine passes: two at once for a review, one for a comment *)

Home(axis) == [slot |-> slot, axis |-> axis]

\* createJobHome, then setupEnginePass writes the credential into it.
PassesStart ==
    /\ pc = "passes" /\ passes = NoPasses
    /\ passes' = [axis \in AllAxes |-> IF axis \in Axes THEN "running" ELSE "unborn"]
    /\ homes' = homes \cup {Home(axis) : axis \in Axes}
    /\ UNCHANGED <<tree, reviews, pc, job, slot, verdict, sha, since, listed,
                   report, stale, ended>>

\* Mutant.  The home is destroyed after a pass that wrote its report only.
HomesAfterReport(axis, result) ==
    IF result = "ok" THEN homes \ {Home(axis)} ELSE homes

HomesAfter(axis, result) == homes \ {Home(axis)}

\* executePass settles and the finally clause deletes the home.
PassEnds(axis, result) ==
    /\ pc = "passes" /\ passes[axis] = "running"
    /\ result = "ok" \/ "engine" \in Faults
    /\ passes' = [passes EXCEPT ![axis] = result]
    /\ homes' = HomesAfter(axis, result)
    /\ UNCHANGED <<tree, reviews, pc, job, slot, verdict, sha, since, listed,
                   report, stale, ended>>

\* The disk refuses: the pass rejects, Promise.all with it, and nobody waits
\* for the other pass.
PassThrows(axis) ==
    /\ pc = "passes" /\ passes[axis] = "running"
    /\ "throw" \in Faults
    /\ homes' = homes \ {Home(axis)}
    /\ AttemptFails("other")
    /\ UNCHANGED <<tree, reviews>>

Settled == \A axis \in Axes : passes[axis] \in PassResults

\* What standards says of a failure comes before what spec says.
Failure ==
    IF plan = "review" /\ passes["standards"] = "ok" THEN passes["spec"]
    ELSE IF plan = "review" THEN passes["standards"]
    ELSE passes["answer"]

PassesFail ==
    /\ pc = "passes" /\ Settled /\ Failure # "ok"
    /\ AttemptFails(Failure)
    /\ UNCHANGED <<tree, reviews, homes>>

-----------------------------------------------------------------------------
(* The report *)

\* Mutant.  The lines of a finding are not looked up in the diff.
PassesWithoutDiff(f, seen) ==
    /\ f.safe /\ ~f.ignored
    /\ checkout \in f.held /\ ~f.noop

\* passesReportChecks: a listing that failed drops nothing.
PassesReportChecks(f, seen) ==
    /\ f.safe /\ ~f.ignored
    /\ seen = 0 \/ seen \in f.shown
    /\ checkout \in f.held /\ ~f.noop

ApplyReportChecks(found, seen) ==
    LET kept == {f \in found : PassesReportChecks(f, seen)}
    IN  [kept |-> kept, dropped |-> Cardinality(found \ kept)]

\* checkedReport: the files are those of the head as it is now.
CheckReport(found, known) ==
    /\ pc = "passes" /\ Settled /\ Failure = "ok"
    /\ known \/ "files" \in Faults
    /\ listed' = IF known THEN head ELSE 0
    /\ report' = ApplyReportChecks(found, listed')
    /\ pc' = "gate"
    /\ UNCHANGED <<tree, reviews, job, slot, verdict, sha, since, passes, homes,
                   stale, ended>>

-----------------------------------------------------------------------------
(* The post *)

Hash == HashReviewBody(report, Notice(verdict))

OwnReviews == {i \in DOMAIN reviews : reviews[i].sha = sha}

\* Mutant.  The older reviews stay.
SupersededNone == {}

Superseded ==
    {i \in OwnReviews : reviews[i].hash # Hash /\ reviews[i].state = "standing"}

\* An identical review of this head settles the run, standing or dismissed.
IsUnchanged == \E i \in OwnReviews : reviews[i].hash = Hash

\* The holds are rechecked, a token minted and the reviews listed; the model
\* takes the three reads as one, for nothing they read can change in between
\* but by a dismissal.
ListReviews ==
    /\ pc = "gate"
    /\ IF IsUnchanged
       THEN End("unchanged", "")
       ELSE /\ pc' = "dismiss" /\ stale' = Superseded
            /\ UNCHANGED <<job, slot, verdict, sha, since, passes, listed,
                           report, ended>>
    /\ UNCHANGED <<tree, reviews, homes>>

GateOrListFails(kind) ==
    /\ pc = "gate" /\ {"gate", "list"} \cap Faults # {}
    /\ AttemptFails(kind)
    /\ UNCHANGED <<tree, reviews, homes>>

\* dismissSuperseded: one at a time, in the order of the list.
Oldest(i) == i \in stale /\ \A j \in stale : i <= j

DismissNext(i) ==
    /\ pc = "dismiss" /\ Oldest(i)
    /\ stale' = stale \ {i}
    /\ reviews' = [reviews EXCEPT ![i].state = "superseded", ![i].by = Run]
    /\ UNCHANGED <<tree, pc, job, slot, verdict, sha, since, passes, homes,
                   listed, report, ended>>

DismissFails(kind) ==
    /\ pc = "dismiss" /\ stale # {} /\ "dismiss" \in Faults
    /\ AttemptFails(kind)
    /\ UNCHANGED <<tree, reviews, homes>>

NewReview ==
    [sha |-> sha, hash |-> Hash, report |-> report, notice |-> Notice(verdict),
     state |-> "standing", by |-> 0, run |-> Run, plan |-> plan, at |-> checkout,
     read |-> line[checkout] \ IF since = 0 THEN {} ELSE line[since]]

\* GitHub takes comments on lines of the diff of the commit alone.
Accepted == \A f \in report.kept : sha \in f.shown

ReadyToPost == pc = "dismiss" /\ stale = {}

\* Mutant.  A commit with a review gets no second one.
CreateFirstReview ==
    /\ ReadyToPost /\ Accepted
    /\ reviews' = IF OwnReviews = {} THEN Append(reviews, NewReview) ELSE reviews
    /\ End("posted", "")
    /\ UNCHANGED <<tree, homes>>

CreateReview ==
    /\ ReadyToPost /\ Accepted
    /\ reviews' = Append(reviews, NewReview)
    /\ End("posted", "")
    /\ UNCHANGED <<tree, homes>>

CreateRefused ==
    /\ ReadyToPost /\ ~Accepted
    /\ End("failed", "refused")
    /\ UNCHANGED <<tree, reviews, homes>>

CreateFails(kind) ==
    /\ ReadyToPost /\ "create" \in Faults
    /\ AttemptFails(kind)
    /\ UNCHANGED <<tree, reviews, homes>>

\* Mutant.  No answer counts as a failure to authenticate.
LostIsAuth == "auth"

\* What the message of a request without an answer reads like.
LostKind == "lost"

\* GitHub took the review and the answer is lost.
CreateLost ==
    /\ ReadyToPost /\ Accepted /\ "lost" \in Faults
    /\ reviews' = Append(reviews, NewReview)
    /\ AttemptFails(LostKind)
    /\ UNCHANGED <<tree, homes>>

-----------------------------------------------------------------------------

PullStep ==
    \/ \E p \in {0} \cup DOMAIN line : Push(p)
    \/ \E c \in DOMAIN line : Reset(c)
    \/ \E i \in DOMAIN reviews : UserDismisses(i)

RunStep ==
    \/ \E c \in Catalogs : Prepare(c)
    \/ PrepareFails
    \/ Clone
    \/ \E more \in {{}, line[head]} : Deepen(more)
    \/ CheckoutFails
    \/ SkipSlot \/ Exhausted
    \/ JudgeAttempt \/ PickNext \/ PickEnds \/ PickRefused
    \/ \E kind \in Failures : StartFails(kind)
    \/ ReadContext
    \/ \E known \in BOOLEAN : ResolvePriorReview(known)
    \/ PassesStart
    \/ \E axis \in AllAxes :
           \/ \E result \in PassResults : PassEnds(axis, result)
           \/ PassThrows(axis)
    \/ PassesFail
    \/ \E found \in Reports, known \in BOOLEAN : CheckReport(found, known)
    \/ ListReviews
    \/ \E kind \in Failures : GateOrListFails(kind)
    \/ \E i \in DOMAIN reviews : DismissNext(i)
    \/ \E kind \in Failures : DismissFails(kind)
    \/ CreateReview \/ CreateRefused \/ CreateLost
    \/ \E kind \in Failures : CreateFails(kind)

Next == PullStep \/ (\E p \in Plans : Dispatch(p)) \/ RunStep

Spec == Init /\ [][Next]_vars

\* The process of the job runs until it exits.
FairSpec == Spec /\ WF_vars(RunStep)

-----------------------------------------------------------------------------
(* Properties *)

PCs == {"idle", "prepare", "clone", "deepen", "slot", "pick", "context", "prior",
        "passes", "gate", "dismiss"}

\* Every variable has its type, and a run past its checkout has one.
TypeOK ==
    /\ head \in DOMAIN line /\ DOMAIN line = 1..Len(line)
    /\ \A c \in DOMAIN line : c \in line[c] /\ line[c] \subseteq DOMAIN line
    /\ \A i \in DOMAIN reviews : reviews[i].sha \in DOMAIN line
    /\ pc \in PCs
    /\ (pc # "idle") => ended # <<>>
    /\ checkout \in {0} \cup DOMAIN line /\ local \subseteq DOMAIN line
    /\ pc \notin {"idle", "prepare", "clone"} => checkout # 0
    /\ slot \in 1..(Len(Queue) + 1)
    /\ sha \in {0} \cup DOMAIN line /\ since \in {0} \cup DOMAIN line
    /\ listed \in {0} \cup DOMAIN line
    /\ passes \in [AllAxes -> PassResults \cup {"unborn", "running"}]
    /\ stale \subseteq DOMAIN reviews

\* A standing review is the newest the bot posted for its commit, whatever
\* fails and whoever dismisses: nobody reads two verdicts on one commit, and
\* no cancelled run leaves an older one beside a newer.
StandingIsNewest ==
    \A i, j \in DOMAIN reviews :
        i < j /\ reviews[i].sha = reviews[j].sha => reviews[i].state # "standing"

\* A review that answered a comment, or one labelled with a head other than
\* the commit its engines read, counts as a prior review all the same.
Misleads(i) == reviews[i].plan # "review" \/ reviews[i].sha # reviews[i].at

Covered(j) ==
    \A c \in line[reviews[j].at] : \E i \in 1..j :
        reviews[i].plan = "review" /\ c \in reviews[i].read

\* An incremental review leaves no commit of the pull request unread: each one
\* was read by it or by a review before it, over pushes, force pushes and
\* dismissals, unless a misleading review came before.
GapHasCause ==
    \A j \in DOMAIN reviews :
        reviews[j].plan = "review" =>
            Covered(j) \/ \E i \in 1..j : Misleads(i)

\* A review is dismissed as superseded for another one's sake: the run that
\* dismissed it has posted a review of the same commit, is still at it, or was
\* stopped or failed in between.  One run ends well without: its post is
\* refused in the words of an authentication failure, and the next slot finds
\* another head, or writes what a dismissed review says already.
SupersededHasCause ==
    \A i \in DOMAIN reviews :
        reviews[i].state = "superseded" =>
            \/ \E j \in DOMAIN reviews : /\ i < j
                                         /\ reviews[j].run = reviews[i].by
                                         /\ reviews[j].sha = reviews[i].sha
            \/ ended[reviews[i].by].outcome \in {"running", "cancelled", "failed"}
            \/ ended[reviews[i].by].slot > 1

\* A run that reports its review as posted or as unchanged leaves a review of
\* the commit with its report, and one that tells that another model ran than
\* the one stored (ADR-0041).
ResultIsShown ==
    \A k \in DOMAIN ended :
        ended[k].outcome \in {"posted", "unchanged"} =>
            \E i \in DOMAIN reviews : /\ reviews[i].sha = ended[k].sha
                                      /\ reviews[i].report = ended[k].report
                                      /\ reviews[i].notice = ended[k].notice

\* However many slots a run falls back to, and whichever answer is lost, it
\* posts at most one review.
OneReviewPerRun ==
    \A i, j \in DOMAIN reviews : reviews[i].run = reviews[j].run => i = j

\* GitHub refuses the review for a line outside the diff only when the head
\* moved during the run or the files could not be listed.
RefusedHasCause == ReadyToPost /\ ~Accepted => listed # sha

\* A credential lies on the disk while the engine pass it is for runs, and not
\* a step longer: none of an earlier slot, none after a failed pass.
CredentialsAreInUse ==
    \A h \in homes : /\ passes[h.axis] = "running"
                     /\ pc # "idle" => pc = "passes" /\ h.slot = slot

\* A retired model runs as its newest kin of the catalog and no other, in
\* whichever order the catalog lists them; of two ids of one version it is
\* always the same one (ADR-0011).
NewestKinRuns ==
    verdict.kind = "substituted" =>
        /\ Queue[slot].similarModel
        /\ \E i \in DOMAIN catalog.models : catalog.models[i] = verdict.model
        /\ ~Lists(catalog, Requested)
        /\ SameFamily(Requested.tokens, verdict.model.tokens)
        /\ \A i \in DOMAIN catalog.models :
               LET other == catalog.models[i]
               IN  SameFamily(Requested.tokens, other.tokens) =>
                       /\ ~Newer(other.tokens, verdict.model.tokens)
                       /\ SameVersion(other.tokens, verdict.model.tokens) =>
                              other.order <= verdict.model.order

\* Every run ends, however often the queue falls back.
RunEnds == [](pc # "idle" => <>(pc = "idle"))
=============================================================================
