--------------------------- MODULE ReviewRunProofs ---------------------------
(***************************************************************************)
(* Theorems about ReviewRun, for any number of commits and runs, any model *)
(* queue, any catalogs, any reports and any set of faults.                 *)
(*                                                                         *)
(* The steps of a run are of a few kinds: it goes on, gives up a slot,     *)
(* fails, finds its review there already, or posts it.  The lemmas on the  *)
(* kinds say once what each does to the reviews and to the record of the   *)
(* run; every invariant is then kept kind by kind.                         *)
(***************************************************************************)
EXTENDS ReviewRun, SequenceTheorems, FiniteSetTheorems, WellFoundedInduction, TLAPS

-----------------------------------------------------------------------------
(* The types *)

Causes == {"", "install", "clone", "exhausted", "unresolved", "auth", "other",
           "reseed", "refused", "lost"}

Outcomes == {"running", "cancelled", "failed", "posted", "unchanged"}

SlotModels == {Queue[i].model : i \in DOMAIN Queue}

VerdictType == [kind : {"scan"}, seen : Nat, best : Nat]
               \cup [kind : {"as-stored"}, model : SlotModels]
               \cup [kind : {"substituted"}, model : ModelIds]

ReportType == [kept : SUBSET Findings, dropped : Nat]
NoticeType == {<<>>} \cup (SlotModels \X ModelIds)
HashType == [report : ReportType, notice : NoticeType]

ReviewType ==
    [sha : Nat, hash : HashType, report : ReportType, notice : NoticeType,
     state : {"standing", "withdrawn", "superseded"}, by : Nat, run : Nat,
     plan : {"review", "mention", "fix"}, at : Nat, read : SUBSET Nat]

EndType ==
    [outcome : Outcomes, cause : Causes, slot : Nat, sha : Nat,
     report : ReportType, notice : NoticeType]

\* Where a run has a slot of the queue, and where it has read a head.
AtSlot == {"pick", "context", "prior", "passes", "gate", "dismiss"}
HasHead == {"prior", "passes", "gate", "dismiss"}

TreeInv ==
    /\ line \in Seq(SUBSET Nat)
    /\ head \in DOMAIN line
    /\ \A c \in DOMAIN line : c \in line[c] /\ line[c] \subseteq DOMAIN line

JobInv ==
    /\ pc \in PCs
    /\ plan \in {"review", "mention", "fix"}
    /\ checkout \in {0} \cup DOMAIN line /\ local \subseteq DOMAIN line
    /\ pc \notin {"idle", "prepare", "clone"} => checkout # 0
    /\ catalog \in {NoCatalog} \cup Catalogs

AttemptInv ==
    /\ slot \in 1..(Len(Queue) + 1)
    /\ pc \in AtSlot => slot <= Len(Queue)
    /\ verdict \in VerdictType
    /\ pc = "pick" => /\ verdict.kind = "scan"
                      /\ verdict.best \in {0} \cup DOMAIN catalog.models
    /\ sha \in {0} \cup DOMAIN line
    /\ pc \in HasHead => sha # 0
    /\ since \in {0} \cup DOMAIN line
    /\ listed \in {0} \cup DOMAIN line
    /\ passes \in [AllAxes -> PassResults \cup {"unborn", "running"}]
    /\ homes \subseteq [slot : Nat, axis : AllAxes]
    /\ report \in ReportType
    /\ stale \subseteq DOMAIN reviews

LogInv ==
    /\ reviews \in Seq(ReviewType)
    /\ \A i \in DOMAIN reviews : reviews[i].sha \in DOMAIN line
                                 /\ reviews[i].at \in DOMAIN line
    /\ ended \in Seq(EndType)
    /\ pc # "idle" => ended # <<>>

TypeInv == TreeInv /\ JobInv /\ AttemptInv /\ LogInv

-----------------------------------------------------------------------------
(* The kinds of steps *)

\* The run gives up its slot for the next one.
GivesUpSlot ==
    /\ pc \in {"slot", "context", "passes", "gate", "dismiss"}
    /\ slot <= Len(Queue)
    /\ pc = "passes" => Settled
    /\ NextSlot
    /\ UNCHANGED <<tree, reviews, homes>>

Fails ==
    /\ pc # "idle"
    /\ \E cause \in Causes : End("failed", cause)
    /\ homes' \subseteq homes
    /\ UNCHANGED <<tree, reviews>>

FindsItThere ==
    /\ pc = "gate" /\ IsUnchanged
    /\ End("unchanged", "")
    /\ UNCHANGED <<tree, reviews, homes>>

Posts ==
    /\ ReadyToPost /\ Accepted
    /\ reviews' = Append(reviews, NewReview)
    /\ End("posted", "") \/ End("failed", "lost")
    /\ UNCHANGED <<tree, homes>>

FindsNone ==
    /\ pc = "gate" /\ ~IsUnchanged
    /\ pc' = "dismiss" /\ stale' = Superseded
    /\ UNCHANGED <<job, slot, verdict, sha, since, passes, listed, report, ended>>
    /\ UNCHANGED <<tree, reviews, homes>>

GoesOn ==
    \/ \E c \in Catalogs : Prepare(c)
    \/ Clone
    \/ \E more \in {{}, line[head]} : Deepen(more)
    \/ JudgeAttempt \/ PickNext \/ PickEnds
    \/ ReadContext
    \/ \E known \in BOOLEAN : ResolvePriorReview(known)
    \/ PassesStart
    \/ \E axis \in AllAxes, result \in PassResults : PassEnds(axis, result)
    \/ \E found \in Reports, known \in BOOLEAN : CheckReport(found, known)
    \/ FindsNone
    \/ \E i \in DOMAIN reviews : DismissNext(i)

\* The steps of a run are of these kinds, and no other.
LEMMA KindsOfSteps ==
    ASSUME TypeInv, RunStep
    PROVE  GoesOn \/ GivesUpSlot \/ Fails \/ FindsItThere \/ Posts
<1> USE DEF TypeInv, JobInv, AttemptInv
<1>1. CASE \E c \in Catalogs : Prepare(c)
  BY <1>1 DEF GoesOn
<1>2. CASE PrepareFails
  BY <1>2 DEF PrepareFails, Fails, Causes
<1>3. CASE Clone \/ \E more \in {{}, line[head]} : Deepen(more)
  BY <1>3 DEF GoesOn
<1>4. CASE CheckoutFails
  BY <1>4 DEF CheckoutFails, Fails, Causes
<1>5. CASE SkipSlot
  BY <1>5 DEF SkipSlot, GivesUpSlot
<1>6. CASE Exhausted
  BY <1>6 DEF Exhausted, Fails, Causes
<1>7. CASE JudgeAttempt \/ PickNext \/ PickEnds \/ PickRefused
  BY <1>7 DEF PickRefused, Picked, GoesOn, Fails, Causes
<1>8. ASSUME NEW kind \in Failures,
             \/ StartFails(kind) \/ GateOrListFails(kind)
             \/ DismissFails(kind) \/ CreateFails(kind)
      PROVE  GivesUpSlot \/ Fails
  <2>1. /\ pc \in {"context", "gate", "dismiss"} /\ AttemptFails(kind)
        /\ UNCHANGED <<tree, reviews, homes>>
    BY <1>8 DEF StartFails, GateOrListFails, DismissFails, CreateFails, ReadyToPost
  <2>2. slot <= Len(Queue) /\ pc # "idle" /\ pc # "passes"
    BY <2>1 DEF AtSlot
  <2>3. CASE kind = "auth"
    BY <2>1, <2>2, <2>3 DEF AttemptFails, IsAuthFailure, GivesUpSlot
  <2>4. CASE kind = "other"
    BY <2>1, <2>2, <2>4 DEF AttemptFails, IsAuthFailure, Fails, Causes
  <2> QED BY <2>3, <2>4 DEF Failures
<1>9. CASE ReadContext \/ \E known \in BOOLEAN : ResolvePriorReview(known)
  BY <1>9 DEF GoesOn
<1>10. CASE PassesStart
  BY <1>10 DEF GoesOn
<1>11. ASSUME NEW axis \in AllAxes, NEW result \in PassResults,
              PassEnds(axis, result)
       PROVE  GoesOn
  BY <1>11 DEF GoesOn
<1>12. ASSUME NEW axis \in AllAxes, PassThrows(axis)
       PROVE  Fails
  BY <1>12 DEF PassThrows, AttemptFails, IsAuthFailure, Fails, Causes
<1>13. CASE PassesFail
  <2>1. Failure \in {"reseed", "auth", "other"}
    BY <1>13 DEF PassesFail, Settled, Failure, Axes, PassResults
  <2>2. CASE Failure = "auth"
    BY <1>13, <2>2 DEF PassesFail, AttemptFails, IsAuthFailure, GivesUpSlot, AtSlot
  <2>3. CASE Failure # "auth"
    <3>1. End("failed", Failure) /\ Failure \in Causes
      BY <1>13, <2>1, <2>3 DEF PassesFail, AttemptFails, IsAuthFailure, Causes
    <3> QED BY <3>1, <1>13 DEF PassesFail, Fails
  <2> QED BY <2>2, <2>3
<1>14. CASE \E found \in Reports, known \in BOOLEAN : CheckReport(found, known)
  BY <1>14 DEF GoesOn
<1>15. CASE ListReviews
  <2>1. CASE IsUnchanged
    BY <1>15, <2>1 DEF ListReviews, FindsItThere
  <2>2. CASE ~IsUnchanged
    BY <1>15, <2>2 DEF ListReviews, FindsNone, GoesOn
  <2> QED BY <2>1, <2>2
<1>16. CASE \E i \in DOMAIN reviews : DismissNext(i)
  BY <1>16 DEF GoesOn
<1>17. CASE CreateReview
  BY <1>17 DEF CreateReview, Posts
<1>18. CASE CreateRefused
  BY <1>18 DEF CreateRefused, ReadyToPost, Fails, Causes
<1>19. CASE CreateLost
  BY <1>19 DEF CreateLost, AttemptFails, IsAuthFailure, LostKind, Posts
<1> QED
  BY <1>1, <1>2, <1>3, <1>4, <1>5, <1>6, <1>7, <1>8, <1>9, <1>10, <1>11,
     <1>12, <1>13, <1>14, <1>15, <1>16, <1>17, <1>18, <1>19 DEF RunStep

-----------------------------------------------------------------------------
(* Every step keeps the types *)

LEMMA CatalogType == ASSUME TypeInv PROVE catalog.models \in Seq(ModelIds)
<1>1. CASE catalog = NoCatalog
  BY <1>1, EmptySeq DEF NoCatalog
<1>2. CASE catalog \in Catalogs
  BY <1>2, CatalogsAssumption
<1> QED BY <1>1, <1>2 DEF TypeInv, JobInv

LEMMA SlotModelType ==
    ASSUME TypeInv, slot <= Len(Queue)
    PROVE  Requested \in SlotModels /\ Requested \in ModelIds
  BY QueueAssumption DEF TypeInv, AttemptInv, SlotModels, Requested

LEMMA JudgedType ==
    ASSUME TypeInv, JudgeAttempt \/ PickNext \/ PickEnds
    PROVE  /\ verdict' \in VerdictType
           /\ pc' = "pick" => /\ verdict'.kind = "scan"
                              /\ verdict'.best \in {0} \cup DOMAIN catalog.models
<1>1. slot <= Len(Queue)
  BY DEF JudgeAttempt, PickNext, PickEnds, Picked, TypeInv, AttemptInv, AtSlot
<1>2. Requested \in SlotModels
  BY <1>1, SlotModelType
<1>3. CASE JudgeAttempt
  BY <1>2, <1>3 DEF JudgeAttempt, Scan, Verdict, VerdictType
<1>4. catalog.models \in Seq(ModelIds)
  BY CatalogType
<1>5. Len(catalog.models) \in Nat /\ DOMAIN catalog.models = 1..Len(catalog.models)
  BY <1>4, LenProperties
<1>6. CASE PickNext
  <2>1. verdict.seen \in Nat /\ verdict.best \in {0} \cup DOMAIN catalog.models
    BY <1>6 DEF PickNext, TypeInv, AttemptInv, VerdictType
  <2>2. verdict.seen + 1 \in DOMAIN catalog.models
    BY <1>5, <1>6, <2>1 DEF PickNext
  <2> DEFINE best == BetterOf(verdict.seen + 1, verdict.best)
  <2>3. best \in {0} \cup DOMAIN catalog.models /\ best \in Nat
    BY <1>5, <2>1, <2>2 DEF BetterOf
  <2>4. verdict' = [kind |-> "scan", seen |-> verdict.seen + 1, best |-> best]
    BY <1>6 DEF PickNext, Scan
  <2> HIDE DEF best
  <2> QED BY <2>1, <2>3, <2>4 DEF VerdictType
<1>7. CASE PickEnds
  <2>1. pc' = "context"
    BY <1>7 DEF PickEnds
  <2>2. verdict.best # 0 => catalog.models[verdict.best] \in ModelIds
    BY <1>4, <1>5, <1>7, ElementOfSeq DEF PickEnds, Picked, TypeInv, AttemptInv
  <2>3. \/ verdict' = [kind |-> "as-stored", model |-> Requested]
        \/ /\ verdict.best # 0
           /\ verdict' = [kind |-> "substituted", model |-> catalog.models[verdict.best]]
    BY <1>7 DEF PickEnds, Verdict
  <2> QED BY <1>2, <2>1, <2>2, <2>3 DEF VerdictType
<1> QED BY <1>3, <1>6, <1>7

LEMMA NoticeInType ==
    ASSUME TypeInv, slot <= Len(Queue)
    PROVE  Notice(verdict) \in NoticeType
<1>1. Queue[slot].model \in SlotModels
  BY SlotModelType DEF Requested
<1>2. verdict.kind = "substituted" => verdict.model \in ModelIds
  BY DEF TypeInv, AttemptInv, VerdictType
<1> QED BY <1>1, <1>2 DEF Notice, NoticeType

LEMMA StartedType == ASSUME TypeInv PROVE Started \in EndType
  BY DEF Started, Unsettled, EndType, Outcomes, Causes, NoReport, ReportType,
         NoticeType, TypeInv, AttemptInv

LEMMA EndingType ==
    ASSUME TypeInv, NEW cause \in Causes, NEW outcome \in Outcomes,
           outcome # "failed" => slot <= Len(Queue)
    PROVE  /\ Ending(outcome, cause) \in EndType
           /\ Ending(outcome, cause).outcome = outcome
           /\ Ending(outcome, cause).slot = slot
           /\ outcome # "failed" =>
                  /\ Ending(outcome, cause).sha = sha
                  /\ Ending(outcome, cause).report = report
                  /\ Ending(outcome, cause).notice = Notice(verdict)
<1>1. Unsettled(outcome, cause) \in EndType
  BY DEF Unsettled, EndType, NoReport, ReportType, NoticeType, TypeInv, AttemptInv
<1>2. sha \in Nat /\ report \in ReportType
  BY LenProperties DEF TypeInv, TreeInv, AttemptInv
<1>3. outcome # "failed" => Notice(verdict) \in NoticeType
  BY NoticeInType
<1> QED BY <1>1, <1>2, <1>3 DEF Ending, Unsettled, EndType

\* How the record of the run changes when it ends.
LEMMA EndedRecord ==
    ASSUME TypeInv, NEW cause \in Causes, NEW outcome \in Outcomes,
           pc # "idle", End(outcome, cause),
           outcome # "failed" => slot <= Len(Queue)
    PROVE  /\ ended' \in Seq(EndType)
           /\ Len(ended') = Len(ended) /\ Len(ended) \in Nat \ {0}
           /\ \A k \in 1..Len(ended) : k # Len(ended) => ended'[k] = ended[k]
           /\ ended'[Len(ended)] = Ending(outcome, cause)
<1>1. ended \in Seq(EndType) /\ ended # <<>>
  BY DEF TypeInv, LogInv
<1>2. Len(ended) \in Nat \ {0}
  BY <1>1, EmptySeq
<1>3. ended' = [ended EXCEPT ![Len(ended)] = Ending(outcome, cause)]
  BY DEF End, Run
<1>4. Ending(outcome, cause) \in EndType
  BY EndingType
<1> HIDE DEF TypeInv
<1> QED BY <1>1, <1>2, <1>3, <1>4, ExceptSeq

LEMMA DispatchedRecord ==
    ASSUME TypeInv, NEW p \in Plans, Dispatch(p)
    PROVE  /\ ended' \in Seq(EndType)
           /\ Len(ended) \in Nat /\ Len(ended') = Len(ended) + 1
           /\ \A k \in 1..Len(ended) :
                  IF k = Len(ended) /\ pc # "idle"
                  THEN ended'[k] = [ended[k] EXCEPT !.outcome = "cancelled"]
                  ELSE ended'[k] = ended[k]
           /\ ended'[Len(ended) + 1] = Started
<1> DEFINE before == IF pc = "idle" THEN ended
                     ELSE [ended EXCEPT ![Len(ended)].outcome = "cancelled"]
           last == [ended[Len(ended)] EXCEPT !.outcome = "cancelled"]
<1>1. ended \in Seq(EndType) /\ (pc # "idle" => ended # <<>>)
  BY DEF TypeInv, LogInv
<1>2. Len(ended) \in Nat /\ (pc # "idle" => Len(ended) # 0)
  BY <1>1, EmptySeq, LenProperties
<1>3. ended' = Append(before, Started)
  BY DEF Dispatch, Run
<1>4. pc # "idle" => last \in EndType
  <2>1. pc # "idle" => ended[Len(ended)] \in EndType
    BY <1>1, <1>2, ElementOfSeq
  <2> QED BY <2>1 DEF EndType, Outcomes
<1>5. /\ before \in Seq(EndType) /\ Len(before) = Len(ended)
      /\ \A k \in 1..Len(ended) : before[k] = IF k = Len(ended) /\ pc # "idle"
                                              THEN last ELSE ended[k]
  <2>1. CASE pc = "idle"
    BY <1>1, <2>1
  <2>2. CASE pc # "idle"
    <3>1. before = [ended EXCEPT ![Len(ended)] = last]
      BY <2>2
    <3> HIDE DEF before, last
    <3> QED BY <1>1, <1>2, <1>4, <2>2, <3>1, ExceptSeq
  <2> QED BY <2>1, <2>2
<1>6. Started \in EndType
  BY StartedType
<1> HIDE DEF before
<1>7. /\ Append(before, Started) \in Seq(EndType)
      /\ Len(Append(before, Started)) = Len(before) + 1
      /\ \A k \in 1..Len(before) : Append(before, Started)[k] = before[k]
      /\ Append(before, Started)[Len(before) + 1] = Started
  BY <1>5, <1>6, AppendProperties
<1> QED BY <1>2, <1>3, <1>5, <1>7

\* What the review is that the run creates, and how the list of reviews grows.
LEMMA PostedReview ==
    ASSUME TypeInv, Posts
    PROVE  /\ reviews' \in Seq(ReviewType)
           /\ Len(reviews) \in Nat /\ Len(reviews') = Len(reviews) + 1
           /\ \A i \in 1..Len(reviews) : reviews'[i] = reviews[i]
           /\ reviews'[Len(reviews) + 1] = NewReview
<1>1. slot <= Len(Queue) /\ pc = "dismiss"
  BY DEF TypeInv, AttemptInv, AtSlot, Posts, ReadyToPost
<1>2. Notice(verdict) \in NoticeType /\ report \in ReportType
  BY <1>1, NoticeInType DEF TypeInv, AttemptInv
<1>3. sha \in Nat /\ checkout \in Nat /\ checkout \in DOMAIN line
  BY <1>1, LenProperties DEF TypeInv, TreeInv, JobInv, AttemptInv
<1>4. line[checkout] \ (IF since = 0 THEN {} ELSE line[since]) \in SUBSET Nat
  BY <1>3, ElementOfSeq, LenProperties DEF TypeInv, TreeInv
<1>5. Run \in Nat /\ plan \in {"review", "mention", "fix"}
  BY LenProperties DEF TypeInv, LogInv, JobInv, Run
<1>6. NewReview \in ReviewType
  BY <1>2, <1>3, <1>4, <1>5 DEF NewReview, Hash, HashReviewBody, ReviewType, HashType
<1>7. reviews \in Seq(ReviewType)
  BY DEF TypeInv, LogInv
<1>8. reviews' = Append(reviews, NewReview) /\ Len(reviews) \in Nat
  BY <1>7, LenProperties DEF Posts
<1> QED BY <1>6, <1>7, <1>8, AppendProperties

\* A dismissal marks one review and leaves the others as they are.
LEMMA DismissedReview ==
    ASSUME TypeInv, NEW i \in DOMAIN reviews, DismissNext(i)
    PROVE  /\ reviews' \in Seq(ReviewType)
           /\ Len(reviews') = Len(reviews)
           /\ \A j \in DOMAIN reviews :
                  reviews'[j] = IF j = i THEN [reviews[i] EXCEPT !.state = "superseded",
                                                                 !.by = Len(ended)]
                                ELSE reviews[j]
<1> DEFINE marked == [reviews[i] EXCEPT !.state = "superseded", !.by = Len(ended)]
<1>1. reviews \in Seq(ReviewType) /\ i \in 1..Len(reviews)
  BY LenProperties DEF TypeInv, LogInv
<1>2. reviews[i] \in ReviewType /\ Len(ended) \in Nat
  BY <1>1, ElementOfSeq, LenProperties DEF TypeInv, LogInv
<1>3. marked \in ReviewType
  BY <1>2 DEF ReviewType
<1>4. reviews' = [reviews EXCEPT ![i] = marked]
  BY DEF DismissNext, Run
<1> HIDE DEF marked
<1>5. DOMAIN reviews = 1..Len(reviews)
  BY <1>1, LenProperties
<1>6. /\ [reviews EXCEPT ![i] = marked] \in Seq(ReviewType)
      /\ Len([reviews EXCEPT ![i] = marked]) = Len(reviews)
      /\ \A j \in 1..Len(reviews) :
             [reviews EXCEPT ![i] = marked][j] = IF j = i THEN marked ELSE reviews[j]
  BY <1>1, <1>3, ExceptSeq
<1>7. \A j \in DOMAIN reviews : reviews'[j] = IF j = i THEN marked ELSE reviews[j]
  BY <1>4, <1>5, <1>6
<1> QED BY <1>4, <1>6, <1>7 DEF marked

LEMMA WithdrawnReview ==
    ASSUME TypeInv, NEW i \in DOMAIN reviews, UserDismisses(i)
    PROVE  /\ reviews' \in Seq(ReviewType)
           /\ Len(reviews') = Len(reviews)
           /\ \A j \in DOMAIN reviews :
                  reviews'[j] = IF j = i THEN [reviews[i] EXCEPT !.state = "withdrawn"]
                                ELSE reviews[j]
<1> DEFINE marked == [reviews[i] EXCEPT !.state = "withdrawn"]
<1>1. reviews \in Seq(ReviewType) /\ i \in 1..Len(reviews)
  BY LenProperties DEF TypeInv, LogInv
<1>2. reviews[i] \in ReviewType
  BY <1>1, ElementOfSeq
<1>3. marked \in ReviewType
  BY <1>2 DEF ReviewType
<1>4. reviews' = [reviews EXCEPT ![i] = marked]
  BY DEF UserDismisses
<1> HIDE DEF marked
<1>5. DOMAIN reviews = 1..Len(reviews)
  BY <1>1, LenProperties
<1>6. /\ [reviews EXCEPT ![i] = marked] \in Seq(ReviewType)
      /\ Len([reviews EXCEPT ![i] = marked]) = Len(reviews)
      /\ \A j \in 1..Len(reviews) :
             [reviews EXCEPT ![i] = marked][j] = IF j = i THEN marked ELSE reviews[j]
  BY <1>1, <1>3, ExceptSeq
<1>7. \A j \in DOMAIN reviews : reviews'[j] = IF j = i THEN marked ELSE reviews[j]
  BY <1>4, <1>5, <1>6
<1> QED BY <1>4, <1>6, <1>7 DEF marked

\* No step takes a commit or a review away, or changes what a review says.
SameBody(a, b) ==
    /\ a.sha = b.sha /\ a.hash = b.hash /\ a.report = b.report /\ a.notice = b.notice
    /\ a.run = b.run /\ a.plan = b.plan /\ a.at = b.at /\ a.read = b.read

TreeStays == \A c \in DOMAIN line : c \in DOMAIN line' /\ line'[c] = line[c]
ReviewsStay ==
    \A i \in DOMAIN reviews : i \in DOMAIN reviews' /\ SameBody(reviews'[i], reviews[i])

LEMMA PushedLine ==
    ASSUME TypeInv, NEW p \in {0} \cup DOMAIN line, Push(p)
    PROVE  TreeInv' /\ TreeStays
<1> DEFINE commit == Len(line) + 1
           ancestors == {commit} \cup IF p = 0 THEN {} ELSE line[p]
<1>1. line \in Seq(SUBSET Nat) /\ Len(line) \in Nat /\ DOMAIN line = 1..Len(line)
  BY LenProperties DEF TypeInv, TreeInv
<1>2. p # 0 => line[p] \subseteq DOMAIN line
  BY DEF TypeInv, TreeInv
<1>3. ancestors \in SUBSET Nat
  BY <1>1, <1>2
<1>4. line' = Append(line, ancestors) /\ head' = commit
  BY DEF Push
<1>5. ancestors \subseteq 1..commit /\ commit \in ancestors
  BY <1>1, <1>2
<1> HIDE DEF ancestors
<1>6. /\ line' \in Seq(SUBSET Nat) /\ Len(line') = commit
      /\ \A c \in 1..Len(line) : line'[c] = line[c]
      /\ line'[commit] = ancestors
  BY <1>1, <1>3, <1>4, AppendProperties
<1>7. DOMAIN line' = 1..commit
  BY <1>6, LenProperties
<1>8. \A c \in DOMAIN line : c \in line[c] /\ line[c] \subseteq DOMAIN line
  BY DEF TypeInv, TreeInv
<1>9. ASSUME NEW c \in DOMAIN line'
      PROVE  c \in line'[c] /\ line'[c] \subseteq DOMAIN line'
  <2>1. CASE c = commit
    BY <1>5, <1>6, <1>7, <2>1
  <2>2. CASE c # commit
    <3>1. c \in DOMAIN line /\ line'[c] = line[c]
      BY <1>1, <1>6, <1>7, <1>9, <2>2
    <3> QED BY <3>1, <1>1, <1>7, <1>8
  <2> QED BY <2>1, <2>2
<1>10. head' \in DOMAIN line'
  BY <1>1, <1>4, <1>7
<1>11. TreeStays
  BY <1>1, <1>6, <1>7 DEF TreeStays
<1> QED BY <1>6, <1>9, <1>10, <1>11 DEF TreeInv

LEMMA TreeKept == ASSUME TypeInv, UNCHANGED tree PROVE TreeInv' /\ TreeStays
  BY DEF tree, TypeInv, TreeInv, TreeStays

LEMMA LogKept ==
    ASSUME TypeInv, TreeStays, UNCHANGED <<reviews, ended>>, pc' # "idle" => pc # "idle"
    PROVE  LogInv' /\ ReviewsStay
  BY DEF TypeInv, LogInv, TreeStays, ReviewsStay, SameBody

\* What is forgotten with an attempt is of its type afterwards.
LEMMA ForgetTypes ==
    ASSUME Forget
    PROVE  /\ verdict' \in VerdictType /\ sha' = 0 /\ since' = 0 /\ listed' = 0
           /\ report' \in ReportType /\ stale' = {}
  BY DEF Forget, NoVerdict, Scan, VerdictType, ReportType, NoReport

LEMMA EndTypes ==
    ASSUME TypeInv, NEW cause \in Causes, NEW outcome \in Outcomes, pc # "idle",
           End(outcome, cause), outcome # "failed" => slot <= Len(Queue),
           UNCHANGED tree, homes' \subseteq homes
    PROVE  /\ TreeInv' /\ TreeStays /\ JobInv' /\ AttemptInv'
           /\ ended' \in Seq(EndType)
<1>1. TreeInv' /\ TreeStays
  BY TreeKept
<1>2. pc' = "idle" /\ plan' = "review" /\ checkout' = 0 /\ local' = {}
      /\ catalog' = NoCatalog /\ slot' = 1 /\ passes' = passes
  BY DEF End
<1>3. JobInv'
  BY <1>2 DEF JobInv, PCs
<1>4. AttemptInv'
  <2>1. Forget
    BY DEF End
  <2>2. homes' \subseteq [slot : Nat, axis : AllAxes]
        /\ passes' \in [AllAxes -> PassResults \cup {"unborn", "running"}]
    BY <1>2 DEF TypeInv, AttemptInv
  <2>3. slot' \in 1..(Len(Queue) + 1)
    BY <1>2, QueueAssumption
  <2> QED BY <1>2, <2>1, <2>2, <2>3, ForgetTypes DEF AttemptInv, AtSlot, HasHead
<1>5. ended' \in Seq(EndType)
  BY EndedRecord
<1> QED BY <1>1, <1>3, <1>4, <1>5

LEMMA ReviewsKept ==
    ASSUME TypeInv, TreeStays, UNCHANGED reviews, ended' \in Seq(EndType),
           pc' # "idle" => ended' # <<>>
    PROVE  LogInv' /\ ReviewsStay
  BY DEF TypeInv, LogInv, TreeStays, ReviewsStay, SameBody

\* Going on keeps the types.
LEMMA GoesOnTypes ==
    ASSUME TypeInv, GoesOn
    PROVE  TypeInv' /\ TreeStays /\ ReviewsStay
<1> USE DEF AtSlot, HasHead, PCs
<1>1. TreeInv' /\ TreeStays
  <2>1. UNCHANGED tree
    BY DEF GoesOn, Prepare, Clone, Deepen, JudgeAttempt, PickNext, PickEnds, Picked, ReadContext, ResolvePriorReview,
           PassesStart, PassEnds, CheckReport, FindsNone, DismissNext
  <2> QED BY <2>1, TreeKept
<1>2. pc # "idle" /\ ended' = ended
  BY DEF GoesOn, Prepare, Clone, Deepen, JudgeAttempt, PickNext, PickEnds, Picked, ReadContext, ResolvePriorReview,
         PassesStart, PassEnds, CheckReport, FindsNone, DismissNext
<1>3. head \in DOMAIN line /\ line' = line /\ head' = head
      /\ \A c \in DOMAIN line : c \in line[c] /\ line[c] \subseteq DOMAIN line
  <2>1. UNCHANGED tree
    BY DEF GoesOn, Prepare, Clone, Deepen, JudgeAttempt, PickNext, PickEnds, Picked, ReadContext, ResolvePriorReview,
           PassesStart, PassEnds, CheckReport, FindsNone, DismissNext
  <2> QED BY <2>1 DEF tree, TypeInv, TreeInv
<1>4. DOMAIN line = 1..Len(line) /\ Len(line) \in Nat
  BY LenProperties DEF TypeInv, TreeInv
<1>5. ASSUME NEW c \in Catalogs, Prepare(c)
      PROVE  JobInv' /\ AttemptInv' /\ UNCHANGED reviews
  BY <1>3, <1>5 DEF Prepare, TypeInv, JobInv, AttemptInv, attempt
<1>6. CASE Clone
  <2>1. JobInv'
    BY <1>3, <1>4, <1>6 DEF Clone, TypeInv, JobInv
  <2>2. AttemptInv' /\ UNCHANGED reviews
    BY <1>3, <1>6 DEF Clone, TypeInv, AttemptInv, attempt
  <2> QED BY <1>1, <1>2, <2>1, <2>2, LogKept DEF TypeInv
<1>7. ASSUME NEW more \in {{}, line[head]}, Deepen(more)
      PROVE  JobInv' /\ AttemptInv' /\ UNCHANGED reviews
  BY <1>3, <1>7 DEF Deepen, TypeInv, JobInv, AttemptInv, attempt
<1>8. CASE JudgeAttempt \/ PickNext \/ PickEnds
  <2>1. /\ verdict' \in VerdictType
        /\ pc' = "pick" => /\ verdict'.kind = "scan"
                           /\ verdict'.best \in {0} \cup DOMAIN catalog.models
    BY <1>8, JudgedType
  <2>2. /\ UNCHANGED <<job, reviews, slot, sha, since, passes, homes, listed, report, stale>>
        /\ pc \in {"slot", "pick"} /\ pc' \in {"pick", "context"}
        /\ slot <= Len(Queue)
    BY <1>8 DEF JudgeAttempt, PickNext, PickEnds, Picked, TypeInv, AttemptInv
  <2>3. JobInv'
    BY <1>3, <2>2 DEF TypeInv, JobInv, job
  <2>4. AttemptInv' /\ UNCHANGED reviews
    BY <1>3, <2>1, <2>2 DEF TypeInv, AttemptInv, job
  <2> QED BY <1>1, <1>2, <2>3, <2>4, LogKept DEF TypeInv
<1>9. CASE ReadContext
  <2>1. JobInv'
    BY <1>3, <1>9 DEF ReadContext, TypeInv, JobInv, job
  <2>2. AttemptInv' /\ UNCHANGED reviews
    BY <1>3, <1>4, <1>9 DEF ReadContext, TypeInv, AttemptInv
  <2> QED BY <1>1, <1>2, <2>1, <2>2, LogKept DEF TypeInv
<1>10. ASSUME NEW known \in BOOLEAN, ResolvePriorReview(known)
       PROVE  JobInv' /\ AttemptInv' /\ UNCHANGED reviews
  <2>1. JobInv'
    BY <1>3, <1>10 DEF ResolvePriorReview, TypeInv, JobInv, job
  <2>2. since' \in {0} \cup DOMAIN line
    <3>1. checkout \in DOMAIN line
      BY <1>10 DEF ResolvePriorReview, TypeInv, JobInv
    <3>2. \A prior : Reachable(prior) => prior \in DOMAIN line
      BY <1>3, <3>1 DEF Reachable
    <3> DEFINE prior == FindPriorHakaseReview
    <3>3. since' = IF plan = "review" /\ known /\ Reachable(prior) THEN prior ELSE 0
      BY <1>10 DEF ResolvePriorReview
    <3> HIDE DEF prior
    <3> QED BY <3>2, <3>3
  <2>3. passes' \in [AllAxes -> PassResults \cup {"unborn", "running"}]
    BY <1>10 DEF ResolvePriorReview, NoPasses
  <2>4. AttemptInv' /\ UNCHANGED reviews
    BY <1>3, <1>10, <2>2, <2>3 DEF ResolvePriorReview, TypeInv, AttemptInv
  <2> QED BY <2>1, <2>4
<1>11. CASE PassesStart
  <2>1. JobInv'
    BY <1>3, <1>11 DEF PassesStart, TypeInv, JobInv, job
  <2>2. passes' \in [AllAxes -> PassResults \cup {"unborn", "running"}]
    BY <1>11 DEF PassesStart
  <2>3. homes' \subseteq [slot : Nat, axis : AllAxes]
    <3>1. Axes \subseteq AllAxes /\ slot \in Nat
      BY QueueAssumption DEF Axes, AllAxes, TypeInv, AttemptInv
    <3>2. {Home(axis) : axis \in Axes} \subseteq [slot : Nat, axis : AllAxes]
      BY <3>1 DEF Home
    <3> QED BY <1>11, <3>2 DEF PassesStart, TypeInv, AttemptInv
  <2>4. AttemptInv' /\ UNCHANGED reviews
    BY <1>3, <1>11, <2>2, <2>3 DEF PassesStart, TypeInv, AttemptInv
  <2> QED BY <1>1, <1>2, <2>1, <2>4, LogKept DEF TypeInv
<1>12. ASSUME NEW axis \in AllAxes, NEW result \in PassResults, PassEnds(axis, result)
       PROVE  JobInv' /\ AttemptInv' /\ UNCHANGED reviews
  <2>1. JobInv'
    BY <1>3, <1>12 DEF PassEnds, TypeInv, JobInv, job
  <2>2. passes' \in [AllAxes -> PassResults \cup {"unborn", "running"}]
    BY <1>12 DEF PassEnds, TypeInv, AttemptInv
  <2>3. AttemptInv' /\ UNCHANGED reviews
    BY <1>3, <1>12, <2>2 DEF PassEnds, HomesAfter, TypeInv, AttemptInv
  <2> QED BY <2>1, <2>3
<1>13. ASSUME NEW found \in Reports, NEW known \in BOOLEAN, CheckReport(found, known)
       PROVE  JobInv' /\ AttemptInv' /\ UNCHANGED reviews
  <2>1. JobInv'
    BY <1>3, <1>13 DEF CheckReport, TypeInv, JobInv, job
  <2>2. ASSUME NEW seen PROVE ApplyReportChecks(found, seen) \in ReportType
    <3> DEFINE kept == {f \in found : PassesReportChecks(f, seen)}
    <3>1. IsFiniteSet(found) /\ found \subseteq Findings
      BY ReportsAssumption
    <3>2. kept \in SUBSET Findings /\ found \ kept \in SUBSET found
      BY <3>1
    <3>3. Cardinality(found \ kept) \in Nat
      BY <3>1, <3>2, FS_Subset, FS_CardinalityType
    <3>4. ApplyReportChecks(found, seen) = [kept |-> kept, dropped |-> Cardinality(found \ kept)]
      BY DEF ApplyReportChecks
    <3> HIDE DEF kept
    <3> QED BY <3>2, <3>3, <3>4 DEF ReportType
  <2>3. report' \in ReportType
    BY <1>13, <2>2 DEF CheckReport
  <2>4. AttemptInv' /\ UNCHANGED reviews
    BY <1>3, <1>4, <1>13, <2>3 DEF CheckReport, TypeInv, AttemptInv
  <2> QED BY <2>1, <2>4
<1>14. CASE FindsNone
  <2>1. JobInv'
    BY <1>3, <1>14 DEF FindsNone, TypeInv, JobInv, job
  <2>2. AttemptInv' /\ UNCHANGED reviews
    BY <1>3, <1>14 DEF FindsNone, Superseded, OwnReviews, TypeInv, AttemptInv
  <2> QED BY <1>1, <1>2, <2>1, <2>2, LogKept DEF TypeInv
<1>15. ASSUME NEW i \in DOMAIN reviews, DismissNext(i)
       PROVE  TypeInv' /\ ReviewsStay
  <2>1. JobInv'
    BY <1>3, <1>15 DEF DismissNext, TypeInv, JobInv, job
  <2>2. reviews' \in Seq(ReviewType) /\ DOMAIN reviews' = DOMAIN reviews
        /\ \A j \in DOMAIN reviews : SameBody(reviews'[j], reviews[j])
    <3>1. /\ reviews' \in Seq(ReviewType)
          /\ Len(reviews') = Len(reviews)
          /\ \A j \in DOMAIN reviews :
                  reviews'[j] = IF j = i THEN [reviews[i] EXCEPT !.state = "superseded",
                                                                 !.by = Len(ended)]
                                ELSE reviews[j]
      BY <1>15, DismissedReview
    <3>2. reviews \in Seq(ReviewType)
      BY DEF TypeInv, LogInv
    <3>3. DOMAIN reviews' = DOMAIN reviews
      BY <3>1, <3>2, LenProperties
    <3>4. reviews[i] \in ReviewType
      BY <3>2, ElementOfSeq, LenProperties
    <3>5. SameBody([reviews[i] EXCEPT !.state = "superseded", !.by = Len(ended)], reviews[i])
      BY <3>4 DEF ReviewType, SameBody
    <3>6. \A j \in DOMAIN reviews : SameBody(reviews[j], reviews[j])
      BY DEF SameBody
    <3> QED BY <3>1, <3>3, <3>5, <3>6
  <2>3. AttemptInv'
    BY <1>3, <1>15, <2>2 DEF DismissNext, TypeInv, AttemptInv
  <2>4. LogInv' /\ ReviewsStay
    BY <1>2, <1>3, <2>2 DEF TypeInv, LogInv, ReviewsStay, SameBody
  <2> QED BY <1>1, <2>1, <2>3, <2>4 DEF TypeInv
<1>16. ASSUME JobInv', AttemptInv', UNCHANGED reviews
       PROVE  TypeInv' /\ ReviewsStay
  BY <1>1, <1>2, <1>16, LogKept DEF TypeInv
<1> QED BY <1>1, <1>5, <1>6, <1>7, <1>8, <1>9, <1>10, <1>11, <1>12, <1>13, <1>14,
           <1>15, <1>16 DEF GoesOn

LEMMA TypeInit == Init => TypeInv
<1> SUFFICES ASSUME Init PROVE TypeInv
  OBVIOUS
<1>1. line \in Seq(SUBSET Nat) /\ DOMAIN line = {1} /\ line[1] = {1}
  BY DEF Init
<1>2. TreeInv
  BY <1>1 DEF Init, TreeInv
<1>3. JobInv
  BY <1>1 DEF Init, JobInv, PCs
<1>4. AttemptInv
  BY QueueAssumption DEF Init, AttemptInv, AtSlot, HasHead, NoVerdict, Scan, VerdictType, ReportType,
     NoReport, NoPasses
<1>5. LogInv
  BY EmptySeq DEF Init, LogInv
<1> QED BY <1>2, <1>3, <1>4, <1>5 DEF TypeInv

\* Every step keeps the types, the commits and what the reviews say.
LEMMA TypeStep ==
    ASSUME TypeInv, [Next]_vars
    PROVE  TypeInv' /\ TreeStays /\ ReviewsStay
<1>1. ASSUME NEW p \in {0} \cup DOMAIN line, Push(p)
      PROVE  TypeInv' /\ TreeStays /\ ReviewsStay
  <2>1. TreeInv' /\ TreeStays
    BY <1>1, PushedLine
  <2>2. DOMAIN line \subseteq DOMAIN line'
    BY <2>1 DEF TreeStays
  <2>3. JobInv' /\ AttemptInv'
    BY <1>1, <2>2 DEF Push, TypeInv, JobInv, AttemptInv, job, attempt
  <2>4. LogInv' /\ ReviewsStay
    BY <1>1, <2>1, LogKept DEF Push
  <2> QED BY <2>1, <2>3, <2>4 DEF TypeInv
<1>2. ASSUME NEW c \in DOMAIN line, Reset(c)
      PROVE  TypeInv' /\ TreeStays /\ ReviewsStay
  <2>1. TreeInv' /\ TreeStays
    BY <1>2 DEF Reset, TypeInv, TreeInv, TreeStays
  <2>2. JobInv' /\ AttemptInv'
    BY <1>2 DEF Reset, TypeInv, JobInv, AttemptInv, job, attempt
  <2>3. LogInv' /\ ReviewsStay
    BY <1>2, <2>1, LogKept DEF Reset
  <2> QED BY <2>1, <2>2, <2>3 DEF TypeInv
<1>3. ASSUME NEW i \in DOMAIN reviews, UserDismisses(i)
      PROVE  TypeInv' /\ TreeStays /\ ReviewsStay
  <2>1. TreeInv' /\ TreeStays
    BY <1>3, TreeKept DEF UserDismisses
  <2>2. reviews' \in Seq(ReviewType) /\ DOMAIN reviews' = DOMAIN reviews
        /\ \A j \in DOMAIN reviews : SameBody(reviews'[j], reviews[j])
    <3>1. /\ reviews' \in Seq(ReviewType)
          /\ Len(reviews') = Len(reviews)
          /\ \A j \in DOMAIN reviews :
                  reviews'[j] = IF j = i THEN [reviews[i] EXCEPT !.state = "withdrawn"]
                                ELSE reviews[j]
      BY <1>3, WithdrawnReview
    <3>2. reviews \in Seq(ReviewType)
      BY DEF TypeInv, LogInv
    <3>3. DOMAIN reviews' = DOMAIN reviews
      BY <3>1, <3>2, LenProperties
    <3>4. reviews[i] \in ReviewType
      BY <3>2, ElementOfSeq, LenProperties
    <3>5. SameBody([reviews[i] EXCEPT !.state = "withdrawn"], reviews[i])
      BY <3>4 DEF ReviewType, SameBody
    <3>6. \A j \in DOMAIN reviews : SameBody(reviews[j], reviews[j])
      BY DEF SameBody
    <3> QED BY <3>1, <3>3, <3>5, <3>6
  <2>3. JobInv' /\ AttemptInv'
    BY <1>3, <2>2 DEF UserDismisses, TypeInv, JobInv, AttemptInv, job, attempt, tree
  <2>4. LogInv' /\ ReviewsStay
    BY <1>3, <2>2 DEF UserDismisses, TypeInv, LogInv, ReviewsStay, SameBody, tree
  <2> QED BY <2>1, <2>3, <2>4 DEF TypeInv
<1>4. ASSUME NEW p \in Plans, Dispatch(p)
      PROVE  TypeInv' /\ TreeStays /\ ReviewsStay
  <2>1. TreeInv' /\ TreeStays
    BY <1>4, TreeKept DEF Dispatch
  <2>2. JobInv'
    BY <1>4, PlansAssumption DEF Dispatch, JobInv, PCs
  <2>3. AttemptInv'
    <3>1. passes' \in [AllAxes -> PassResults \cup {"unborn", "running"}]
      BY <1>4 DEF Dispatch, NoPasses
    <3>2. Forget
      BY <1>4 DEF Dispatch
    <3> QED BY <1>4, <3>1, <3>2, ForgetTypes, QueueAssumption
            DEF Dispatch, AttemptInv, AtSlot, HasHead
  <2>4. ended' \in Seq(EndType) /\ ended' # <<>>
    <3>1. /\ ended' \in Seq(EndType)
          /\ Len(ended) \in Nat /\ Len(ended') = Len(ended) + 1
      BY <1>4, DispatchedRecord
    <3> QED BY <3>1, EmptySeq
  <2>5. LogInv' /\ ReviewsStay
    BY <1>4, <2>1, <2>4, ReviewsKept DEF Dispatch
  <2> QED BY <2>1, <2>2, <2>3, <2>5 DEF TypeInv
<1>5. CASE GivesUpSlot
  <2>1. TreeInv' /\ TreeStays
    BY <1>5, TreeKept DEF GivesUpSlot
  <2>2. JobInv' /\ Forget
    BY <1>5, <2>1 DEF GivesUpSlot, NextSlot, TypeInv, JobInv, job, PCs, tree
  <2>3. passes' \in [AllAxes -> PassResults \cup {"unborn", "running"}]
    BY <1>5 DEF GivesUpSlot, NextSlot, NoPasses
  <2>4. slot' \in 1..(Len(Queue) + 1) /\ pc' = "slot" /\ homes' = homes
    BY <1>5, QueueAssumption DEF GivesUpSlot, NextSlot, TypeInv, AttemptInv
  <2>5. AttemptInv'
    BY <2>2, <2>3, <2>4, ForgetTypes DEF TypeInv, AttemptInv, AtSlot, HasHead
  <2>6. LogInv' /\ ReviewsStay
    BY <1>5, <2>1, LogKept DEF GivesUpSlot, NextSlot
  <2> QED BY <2>1, <2>2, <2>5, <2>6 DEF TypeInv
<1>6. CASE Fails
  <2>1. PICK cause \in Causes : End("failed", cause)
    BY <1>6 DEF Fails
  <2>2. /\ TreeInv' /\ TreeStays /\ JobInv' /\ AttemptInv'
        /\ ended' \in Seq(EndType)
    BY <1>6, <2>1, EndTypes DEF Fails, Outcomes
  <2>3. LogInv' /\ ReviewsStay
    BY <1>6, <2>1, <2>2, ReviewsKept DEF Fails, End
  <2> QED BY <2>2, <2>3 DEF TypeInv
<1>7. CASE FindsItThere
  <2>1. slot <= Len(Queue)
    BY <1>7 DEF FindsItThere, TypeInv, AttemptInv, AtSlot
  <2>2. /\ TreeInv' /\ TreeStays /\ JobInv' /\ AttemptInv'
        /\ ended' \in Seq(EndType)
    BY <1>7, <2>1, EndTypes DEF FindsItThere, Outcomes, Causes
  <2>3. LogInv' /\ ReviewsStay
    BY <1>7, <2>2, ReviewsKept DEF FindsItThere, End
  <2> QED BY <2>2, <2>3 DEF TypeInv
<1>8. CASE Posts
  <2>1. slot <= Len(Queue) /\ pc = "dismiss" /\ pc' = "idle"
    BY <1>8 DEF Posts, ReadyToPost, End, TypeInv, AttemptInv, AtSlot
  <2>2. /\ TreeInv' /\ TreeStays /\ JobInv' /\ AttemptInv'
        /\ ended' \in Seq(EndType)
    BY <1>8, <2>1, EndTypes DEF Posts, Outcomes, Causes
  <2>3. /\ reviews' \in Seq(ReviewType) /\ reviews \in Seq(ReviewType)
        /\ Len(reviews) \in Nat /\ Len(reviews') = Len(reviews) + 1
        /\ \A i \in 1..Len(reviews) : reviews'[i] = reviews[i]
        /\ reviews'[Len(reviews) + 1] = NewReview
    BY <1>8, PostedReview DEF TypeInv, LogInv
  <2>4. DOMAIN reviews = 1..Len(reviews) /\ DOMAIN reviews' = 1..(Len(reviews) + 1)
    BY <2>3, LenProperties
  <2>5. NewReview.sha \in DOMAIN line' /\ NewReview.at \in DOMAIN line'
    BY <2>1, <2>2 DEF NewReview, TypeInv, JobInv, AttemptInv, HasHead, TreeStays
  <2>6. \A i \in DOMAIN reviews : reviews[i].sha \in DOMAIN line
                                  /\ reviews[i].at \in DOMAIN line
    BY DEF TypeInv, LogInv
  <2>7. ASSUME NEW i \in DOMAIN reviews'
        PROVE  reviews'[i].sha \in DOMAIN line' /\ reviews'[i].at \in DOMAIN line'
    <3>1. CASE i = Len(reviews) + 1
      BY <2>3, <2>5, <3>1
    <3>2. CASE i # Len(reviews) + 1
      <4>1. i \in DOMAIN reviews /\ reviews'[i] = reviews[i]
        BY <2>3, <2>4, <2>7, <3>2
      <4> QED BY <2>2, <2>6, <4>1 DEF TreeStays
    <3> QED BY <3>1, <3>2
  <2>8. LogInv'
    BY <2>1, <2>2, <2>3, <2>7 DEF LogInv
  <2>9. ReviewsStay
    BY <2>3, <2>4 DEF ReviewsStay, SameBody
  <2> QED BY <2>2, <2>8, <2>9 DEF TypeInv
<1>9. CASE UNCHANGED vars
  BY <1>9 DEF vars, tree, job, attempt, TypeInv, TreeInv, JobInv, AttemptInv, LogInv,
              TreeStays, ReviewsStay, SameBody
<1> QED
  BY <1>1, <1>2, <1>3, <1>4, <1>5, <1>6, <1>7, <1>8, <1>9, KindsOfSteps, GoesOnTypes
     DEF Next, PullStep

\* The types hold at every moment.
THEOREM TypeInvariant == Spec => []TypeInv
<1>1. TypeInv /\ [Next]_vars => TypeInv'
  BY TypeStep
<1> QED BY <1>1, TypeInit, PTL DEF Spec

\* Every variable has its type, and a run past its checkout has one.
THEOREM TypeCorrect == Spec => []TypeOK
<1>1. TypeInv => TypeOK
  <2> SUFFICES ASSUME TypeInv PROVE TypeOK
    OBVIOUS
  <2>1. DOMAIN line = 1..Len(line)
    BY LenProperties DEF TypeInv, TreeInv
  <2> QED BY <2>1 DEF TypeInv, TreeInv, JobInv, AttemptInv, LogInv, TypeOK
<1> QED BY <1>1, TypeInvariant, PTL

-----------------------------------------------------------------------------
(* What the steps do to the reviews and to the record of the runs *)

LEMMA LogSteps ==
    ASSUME TypeInv, [Next]_vars
    PROVE  \/ UNCHANGED <<reviews, ended>> /\ (pc' # "idle" => pc # "idle")
           \/ \E i \in DOMAIN reviews : UserDismisses(i)
           \/ \E i \in DOMAIN reviews : DismissNext(i)
           \/ \E p \in Plans : Dispatch(p)
           \/ Fails \/ FindsItThere \/ Posts
<1>1. CASE PullStep
  BY <1>1 DEF PullStep, Push, Reset
<1>2. CASE \E p \in Plans : Dispatch(p)
  BY <1>2
<1>3. CASE GoesOn
  BY <1>3 DEF GoesOn, Prepare, Clone, Deepen, JudgeAttempt, PickNext, PickEnds, Picked, ReadContext,
              ResolvePriorReview, PassesStart, PassEnds, CheckReport, FindsNone, attempt
<1>4. CASE GivesUpSlot
  BY <1>4 DEF GivesUpSlot, NextSlot
<1>5. CASE UNCHANGED vars
  BY <1>5 DEF vars
<1> QED BY <1>1, <1>2, <1>3, <1>4, <1>5, KindsOfSteps DEF Next

\* The domains of the two logs.
LEMMA LogDomains ==
    ASSUME TypeInv
    PROVE  /\ DOMAIN reviews = 1..Len(reviews) /\ Len(reviews) \in Nat
           /\ DOMAIN ended = 1..Len(ended) /\ Len(ended) \in Nat
           /\ pc # "idle" => Len(ended) # 0
           /\ \A i \in DOMAIN reviews : reviews[i] \in ReviewType
           /\ \A k \in DOMAIN ended : ended[k] \in EndType
<1>1. reviews \in Seq(ReviewType) /\ ended \in Seq(EndType) /\ (pc # "idle" => ended # <<>>)
  BY DEF TypeInv, LogInv
<1> QED BY <1>1, LenProperties, ElementOfSeq, EmptySeq

\* A dismissal as seen from any review.
LEMMA Dismissal ==
    ASSUME TypeInv, NEW i \in DOMAIN reviews, UserDismisses(i) \/ DismissNext(i)
    PROVE  /\ DOMAIN reviews' = DOMAIN reviews
           /\ \A j \in DOMAIN reviews \ {i} : reviews'[j] = reviews[j]
           /\ SameBody(reviews'[i], reviews[i])
           /\ UserDismisses(i) => /\ reviews'[i].state = "withdrawn"
                                  /\ reviews'[i].by = reviews[i].by
           /\ DismissNext(i) => /\ reviews'[i].state = "superseded"
                                /\ reviews'[i].by = Len(ended)
<1>1. reviews \in Seq(ReviewType) /\ reviews[i] \in ReviewType
  BY LogDomains DEF TypeInv, LogInv
<1>2. CASE UserDismisses(i)
  <2>1. reviews' = [reviews EXCEPT ![i].state = "withdrawn"]
    BY <1>2 DEF UserDismisses
  <2>2. reviews'[i] = [reviews[i] EXCEPT !.state = "withdrawn"]
    BY <2>1
  <2>3. ~DismissNext(i)
    <3>1. CASE DismissNext(i)
      <4>1. reviews' = [reviews EXCEPT ![i].state = "superseded", ![i].by = Run]
        BY <3>1 DEF DismissNext
      <4>2. reviews'[i].state = "superseded"
        BY <1>1, <4>1 DEF ReviewType
      <4>3. reviews'[i].state = "withdrawn"
        BY <1>1, <2>2 DEF ReviewType
      <4> QED BY <4>2, <4>3
    <3> QED BY <3>1
  <2>4. reviews'[i].state = "withdrawn" /\ reviews'[i].by = reviews[i].by
        /\ SameBody(reviews'[i], reviews[i])
    BY <1>1, <2>2 DEF ReviewType, SameBody
  <2> QED BY <2>1, <2>3, <2>4
<1>3. CASE DismissNext(i)
  <2>1. reviews' = [reviews EXCEPT ![i].state = "superseded", ![i].by = Len(ended)]
    BY <1>3 DEF DismissNext, Run
  <2>2. reviews'[i] = [reviews[i] EXCEPT !.state = "superseded", !.by = Len(ended)]
    BY <2>1
  <2>3. reviews'[i].state = "superseded" /\ reviews'[i].by = Len(ended)
        /\ SameBody(reviews'[i], reviews[i])
    BY <1>1, <2>2 DEF ReviewType, SameBody
  <2>4. ~UserDismisses(i)
    <3>1. CASE UserDismisses(i)
      <4>1. reviews' = [reviews EXCEPT ![i].state = "withdrawn"]
        BY <3>1 DEF UserDismisses
      <4>2. reviews'[i].state = "withdrawn"
        BY <1>1, <4>1 DEF ReviewType
      <4> QED BY <2>3, <4>2
    <3> QED BY <3>1
  <2> QED BY <2>1, <2>3, <2>4
<1> QED BY <1>2, <1>3

-----------------------------------------------------------------------------
(* One review per run *)

\* A review is of a run there was, and the run under way has none yet.
RunsInv ==
    /\ \A i \in DOMAIN reviews :
           /\ reviews[i].run \in 1..Len(ended) /\ reviews[i].by \in 0..Len(ended)
           /\ reviews[i].state = "superseded" => reviews[i].by # 0
           /\ pc # "idle" => reviews[i].run # Len(ended)
    /\ OneReviewPerRun

LEMMA RunsStep ==
    ASSUME TypeInv, TypeInv', RunsInv, [Next]_vars
    PROVE  RunsInv'
<1> USE LogDomains
<1>1. CASE UNCHANGED <<reviews, ended>> /\ (pc' # "idle" => pc # "idle")
  BY <1>1 DEF RunsInv, OneReviewPerRun
<1>2. ASSUME NEW i \in DOMAIN reviews, UserDismisses(i) \/ DismissNext(i)
      PROVE  RunsInv'
  <2>1. ended' = ended /\ pc' = pc /\ (DismissNext(i) => Len(ended) # 0)
    BY <1>2 DEF UserDismisses, DismissNext
  <2>2. /\ DOMAIN reviews' = DOMAIN reviews
        /\ \A j \in DOMAIN reviews :
               /\ reviews'[j].run = reviews[j].run
               /\ reviews'[j].by \in 0..Len(ended)
               /\ reviews'[j].state = "superseded" => reviews'[j].by # 0
    <3>1. reviews'[i].run = reviews[i].run /\ DOMAIN reviews' = DOMAIN reviews
          /\ \A j \in DOMAIN reviews \ {i} : reviews'[j] = reviews[j]
      BY <1>2, Dismissal DEF SameBody
    <3>2. \/ reviews'[i].state = "withdrawn" /\ reviews'[i].by = reviews[i].by
          \/ reviews'[i].by = Len(ended) /\ Len(ended) # 0
      BY <1>2, <2>1, Dismissal
    <3> QED BY <3>1, <3>2 DEF RunsInv
  <2> QED BY <2>1, <2>2 DEF RunsInv, OneReviewPerRun
<1>3. ASSUME NEW p \in Plans, Dispatch(p)
      PROVE  RunsInv'
  <2>1. Len(ended') = Len(ended) + 1 /\ reviews' = reviews
    BY <1>3, DispatchedRecord DEF Dispatch
  <2> QED BY <2>1 DEF RunsInv, OneReviewPerRun
<1>4. CASE Fails
  <2>1. Len(ended') = Len(ended) /\ reviews' = reviews /\ pc' = "idle"
    BY <1>4, EndedRecord DEF Fails, End, Outcomes
  <2> QED BY <2>1 DEF RunsInv, OneReviewPerRun
<1>5. CASE FindsItThere
  <2>1. slot <= Len(Queue)
    BY <1>5 DEF FindsItThere, TypeInv, AttemptInv, AtSlot
  <2>2. Len(ended') = Len(ended) /\ reviews' = reviews /\ pc' = "idle"
    BY <1>5, <2>1, EndedRecord DEF FindsItThere, End, Outcomes, Causes
  <2> QED BY <2>2 DEF RunsInv, OneReviewPerRun
<1>6. CASE Posts
  <2>1. slot <= Len(Queue) /\ pc = "dismiss" /\ pc' = "idle"
    BY <1>6 DEF Posts, ReadyToPost, End, TypeInv, AttemptInv, AtSlot
  <2>2. Len(ended') = Len(ended)
    BY <1>6, <2>1, EndedRecord DEF Posts, Outcomes, Causes
  <2>3. /\ DOMAIN reviews' = 1..(Len(reviews) + 1)
        /\ \A i \in DOMAIN reviews : reviews'[i] = reviews[i]
        /\ reviews'[Len(reviews) + 1] = NewReview
    BY <1>6, PostedReview
  <2>4. NewReview.run = Len(ended) /\ NewReview.by = 0 /\ NewReview.state = "standing"
    BY DEF NewReview, Run
  <2>5. \A i \in DOMAIN reviews : reviews[i].run # Len(ended)
    BY <2>1 DEF RunsInv
  <2>6. ASSUME NEW i \in DOMAIN reviews'
        PROVE  /\ reviews'[i].run \in 1..Len(ended) /\ reviews'[i].by \in 0..Len(ended)
               /\ reviews'[i].state = "superseded" => reviews'[i].by # 0
    BY <2>1, <2>3, <2>4 DEF RunsInv
  <2>7. OneReviewPerRun'
    BY <2>3, <2>4, <2>5 DEF RunsInv, OneReviewPerRun
  <2> QED BY <2>1, <2>2, <2>6, <2>7 DEF RunsInv
<1> QED BY <1>1, <1>2, <1>3, <1>4, <1>5, <1>6, LogSteps

LEMMA RunsInvariant == Spec => []RunsInv
<1>1. Init => RunsInv
  BY DEF Init, RunsInv, OneReviewPerRun
<1>2. TypeInv /\ TypeInv' /\ RunsInv /\ [Next]_vars => RunsInv'
  BY RunsStep
<1> QED BY <1>1, <1>2, TypeInvariant, PTL DEF Spec

\* However many slots a run falls back to, and whichever answer is lost, it
\* posts at most one review.
THEOREM PostsOnce == Spec => []OneReviewPerRun
<1>1. RunsInv => OneReviewPerRun
  BY DEF RunsInv
<1> QED BY <1>1, RunsInvariant, PTL

-----------------------------------------------------------------------------
(* One verdict per commit *)

\* Between its list of the reviews and its post, a run has every standing
\* review of its head still to dismiss.
StandingInv ==
    /\ StandingIsNewest
    /\ pc = "dismiss" =>
           \A i \in DOMAIN reviews :
               reviews[i].sha = sha /\ reviews[i].state = "standing" => i \in stale

LEMMA StandingStep ==
    ASSUME TypeInv, TypeInv', StandingInv, [Next]_vars
    PROVE  StandingInv'
<1> USE LogDomains
<1>1. CASE FindsNone
  <2>1. reviews' = reviews /\ sha' = sha /\ pc' = "dismiss" /\ stale' = Superseded
    BY <1>1 DEF FindsNone
  <2>2. \A i \in OwnReviews : reviews[i].state = "standing" => i \in Superseded
    BY <1>1 DEF FindsNone, IsUnchanged, Superseded
  <2>3. \A i \in DOMAIN reviews :
            reviews[i].sha = sha /\ reviews[i].state = "standing" => i \in stale'
    BY <2>1, <2>2 DEF OwnReviews
  <2> QED BY <2>1, <2>3 DEF StandingInv, StandingIsNewest
<1>2. ASSUME NEW i \in DOMAIN reviews, UserDismisses(i) \/ DismissNext(i)
      PROVE  StandingInv'
  <2>1. /\ DOMAIN reviews' = DOMAIN reviews
        /\ \A j \in DOMAIN reviews \ {i} : reviews'[j] = reviews[j]
        /\ reviews'[i].sha = reviews[i].sha /\ reviews'[i].state # "standing"
    BY <1>2, Dismissal DEF SameBody
  <2>2. StandingIsNewest'
    BY <2>1 DEF StandingInv, StandingIsNewest
  <2>3. pc' = pc /\ sha' = sha /\ stale \ {i} \subseteq stale'
    BY <1>2 DEF UserDismisses, DismissNext, attempt
  <2> QED BY <2>1, <2>2, <2>3 DEF StandingInv
<1>3. CASE Posts
  <2>1. /\ DOMAIN reviews' = 1..(Len(reviews) + 1)
        /\ \A i \in DOMAIN reviews : reviews'[i] = reviews[i]
        /\ reviews'[Len(reviews) + 1] = NewReview
    BY <1>3, PostedReview
  <2>2. pc = "dismiss" /\ stale = {} /\ pc' = "idle"
    BY <1>3 DEF Posts, ReadyToPost, End
  <2>3. \A i \in DOMAIN reviews : reviews[i].sha = sha => reviews[i].state # "standing"
    BY <2>2 DEF StandingInv
  <2>4. NewReview.sha = sha
    BY DEF NewReview
  <2>5. StandingIsNewest'
    BY <2>1, <2>3, <2>4 DEF StandingInv, StandingIsNewest
  <2> QED BY <2>2, <2>5 DEF StandingInv
<1>4. ASSUME reviews' = reviews,
             pc' = "dismiss" => pc = "dismiss" /\ sha' = sha /\ stale' = stale
      PROVE  StandingInv'
  BY <1>4 DEF StandingInv, StandingIsNewest
<1>5. CASE PullStep
  BY <1>2, <1>4, <1>5 DEF PullStep, Push, Reset, attempt
<1>6. CASE \E p \in Plans : Dispatch(p)
  BY <1>4, <1>6 DEF Dispatch
<1>7. CASE GoesOn
  BY <1>1, <1>2, <1>4, <1>7 DEF GoesOn, Prepare, Clone, Deepen, JudgeAttempt, PickNext, PickEnds, Picked, ReadContext,
     ResolvePriorReview, PassesStart, PassEnds, CheckReport
<1>8. CASE GivesUpSlot
  BY <1>4, <1>8 DEF GivesUpSlot, NextSlot
<1>9. CASE Fails \/ FindsItThere
  BY <1>4, <1>9 DEF Fails, FindsItThere, End
<1>10. CASE UNCHANGED vars
  BY <1>4, <1>10 DEF vars, attempt
<1> QED BY <1>3, <1>5, <1>6, <1>7, <1>8, <1>9, <1>10, KindsOfSteps DEF Next

LEMMA StandingInvariant == Spec => []StandingInv
<1>1. Init => StandingInv
  BY DEF Init, StandingInv, StandingIsNewest
<1>2. TypeInv /\ TypeInv' /\ StandingInv /\ [Next]_vars => StandingInv'
  BY StandingStep
<1> QED BY <1>1, <1>2, TypeInvariant, PTL DEF Spec

\* A standing review is the newest the bot posted for its commit, whatever
\* fails and whoever dismisses.
THEOREM OneVerdictPerCommit == Spec => []StandingIsNewest
<1>1. StandingInv => StandingIsNewest
  BY DEF StandingInv
<1> QED BY <1>1, StandingInvariant, PTL

-----------------------------------------------------------------------------
(* What a run reports is what the pull request shows *)

\* The hash of a review stands for its report and its notice.
ShownInv ==
    /\ ResultIsShown
    /\ \A i \in DOMAIN reviews :
           reviews[i].hash = HashReviewBody(reviews[i].report, reviews[i].notice)

Shows(i, e) ==
    reviews[i].sha = e.sha /\ reviews[i].report = e.report /\ reviews[i].notice = e.notice

LEMMA ShownStep ==
    ASSUME TypeInv, TypeInv', ReviewsStay, ShownInv, [Next]_vars
    PROVE  ShownInv'
<1> USE LogDomains
<1>0. DOMAIN ended' = 1..Len(ended')
  BY LenProperties DEF TypeInv, LogInv
<1>1. ASSUME NEW e, NEW i \in DOMAIN reviews, Shows(i, e)
      PROVE  \E j \in DOMAIN reviews' : /\ reviews'[j].sha = e.sha
                                        /\ reviews'[j].report = e.report
                                        /\ reviews'[j].notice = e.notice
  BY <1>1 DEF ReviewsStay, SameBody, Shows
<1>2. ASSUME NEW k \in DOMAIN ended, ended[k].outcome \in {"posted", "unchanged"}
      PROVE  \E i \in DOMAIN reviews : Shows(i, ended[k])
  BY <1>2 DEF ShownInv, ResultIsShown, Shows
<1>3. ASSUME \A k \in DOMAIN ended' :
                 ended'[k].outcome \in {"posted", "unchanged"} =>
                     \/ k \in DOMAIN ended /\ ended'[k] = ended[k]
                     \/ \E i \in DOMAIN reviews : Shows(i, ended'[k])
      PROVE  ResultIsShown'
  BY <1>1, <1>2, <1>3 DEF ResultIsShown
<1>4. ASSUME DOMAIN reviews' = DOMAIN reviews
      PROVE  \A i \in DOMAIN reviews' :
                 reviews'[i].hash = HashReviewBody(reviews'[i].report, reviews'[i].notice)
  BY <1>4 DEF ShownInv, ReviewsStay, SameBody
<1>5. CASE UNCHANGED <<reviews, ended>>
  BY <1>3, <1>4, <1>5 DEF ShownInv
<1>6. ASSUME NEW i \in DOMAIN reviews, UserDismisses(i) \/ DismissNext(i)
      PROVE  ShownInv'
  <2>1. ended' = ended /\ DOMAIN reviews' = DOMAIN reviews
    BY <1>6, Dismissal DEF UserDismisses, DismissNext
  <2> QED BY <1>3, <1>4, <2>1 DEF ShownInv
<1>7. ASSUME NEW p \in Plans, Dispatch(p)
      PROVE  ShownInv'
  <2>1. /\ Len(ended') = Len(ended) + 1 /\ reviews' = reviews
        /\ \A k \in 1..Len(ended) :
               IF k = Len(ended) /\ pc # "idle"
               THEN ended'[k] = [ended[k] EXCEPT !.outcome = "cancelled"]
               ELSE ended'[k] = ended[k]
        /\ ended'[Len(ended) + 1] = Started
    BY <1>7, DispatchedRecord DEF Dispatch
  <2>2. Started.outcome = "running"
    BY DEF Started, Unsettled
  <2>3. \A k \in 1..Len(ended) : ended'[k].outcome = "cancelled" \/ ended'[k] = ended[k]
    BY <2>1 DEF EndType
  <2> QED BY <1>0, <1>3, <1>4, <2>1, <2>2, <2>3 DEF ShownInv
<1>8. CASE Fails
  <2>1. PICK cause \in Causes : End("failed", cause)
    BY <1>8 DEF Fails
  <2>2. /\ Len(ended') = Len(ended)
        /\ \A k \in 1..Len(ended) : k # Len(ended) => ended'[k] = ended[k]
        /\ ended'[Len(ended)] = Ending("failed", cause) /\ reviews' = reviews
    BY <1>8, <2>1, EndedRecord DEF Fails, Outcomes
  <2>3. Ending("failed", cause).outcome = "failed"
    BY EndingType DEF Outcomes
  <2> QED BY <1>0, <1>3, <1>4, <2>2, <2>3 DEF ShownInv
<1>9. CASE FindsItThere
  <2>1. slot <= Len(Queue) /\ pc = "gate"
    BY <1>9 DEF FindsItThere, TypeInv, AttemptInv, AtSlot
  <2> DEFINE e == Ending("unchanged", "")
  <2>2. /\ Len(ended') = Len(ended)
        /\ \A k \in 1..Len(ended) : k # Len(ended) => ended'[k] = ended[k]
        /\ ended'[Len(ended)] = e /\ reviews' = reviews
    BY <1>9, <2>1, EndedRecord DEF FindsItThere, Outcomes, Causes
  <2>3. e.sha = sha /\ e.report = report /\ e.notice = Notice(verdict)
    BY <2>1, EndingType DEF Outcomes, Causes
  <2>4. PICK i \in OwnReviews : reviews[i].hash = Hash
    BY <1>9 DEF FindsItThere, IsUnchanged
  <2>5. i \in DOMAIN reviews /\ reviews[i].sha = sha
    BY <2>4 DEF OwnReviews
  <2>6. reviews[i].report = report /\ reviews[i].notice = Notice(verdict)
    <3>1. reviews[i].hash = [report |-> reviews[i].report, notice |-> reviews[i].notice]
      BY <2>5 DEF ShownInv, HashReviewBody
    <3>2. reviews[i].hash = [report |-> report, notice |-> Notice(verdict)]
      BY <2>4 DEF Hash, HashReviewBody
    <3> QED BY <3>1, <3>2
  <2>7. Shows(i, e)
    BY <2>3, <2>5, <2>6 DEF Shows
  <2> HIDE DEF e
  <2> QED BY <1>3, <1>4, <1>0, <2>2, <2>5, <2>7 DEF ShownInv
<1>10. CASE Posts
  <2>1. slot <= Len(Queue) /\ pc = "dismiss"
    BY <1>10 DEF Posts, ReadyToPost, TypeInv, AttemptInv, AtSlot
  <2>2. PICK o \in {"posted", "failed"}, cause \in Causes : End(o, cause)
    BY <1>10 DEF Posts, Causes
  <2>3. /\ Len(ended') = Len(ended)
        /\ \A k \in 1..Len(ended) : k # Len(ended) => ended'[k] = ended[k]
        /\ ended'[Len(ended)] = Ending(o, cause)
    BY <2>1, <2>2, EndedRecord DEF Outcomes
  <2>4. /\ Ending(o, cause).outcome = o
        /\ o = "posted" => /\ Ending(o, cause).sha = sha
                           /\ Ending(o, cause).report = report
                           /\ Ending(o, cause).notice = Notice(verdict)
    BY <2>1, EndingType DEF Outcomes
  <2>5. /\ DOMAIN reviews' = 1..(Len(reviews) + 1)
        /\ \A i \in DOMAIN reviews : reviews'[i] = reviews[i]
        /\ reviews'[Len(reviews) + 1] = NewReview
    BY <1>10, PostedReview
  <2>6. /\ NewReview.sha = sha /\ NewReview.report = report
        /\ NewReview.notice = Notice(verdict)
        /\ NewReview.hash = HashReviewBody(NewReview.report, NewReview.notice)
    BY DEF NewReview, Hash
  <2>7. \A i \in DOMAIN reviews' :
            reviews'[i].hash = HashReviewBody(reviews'[i].report, reviews'[i].notice)
    BY <2>5, <2>6 DEF ShownInv
  <2>8. ASSUME NEW k \in DOMAIN ended', ended'[k].outcome \in {"posted", "unchanged"}
        PROVE  \E i \in DOMAIN reviews' : /\ reviews'[i].sha = ended'[k].sha
                                          /\ reviews'[i].report = ended'[k].report
                                          /\ reviews'[i].notice = ended'[k].notice
    <3>1. CASE k = Len(ended)
      <4>1. o = "posted"
        BY <2>3, <2>4, <2>8, <3>1
      <4>2. Len(reviews) + 1 \in DOMAIN reviews'
        BY <2>5
      <4> WITNESS Len(reviews) + 1 \in DOMAIN reviews'
      <4> QED BY <2>3, <2>4, <2>5, <2>6, <3>1, <4>1
    <3>2. CASE k # Len(ended)
      <4>1. k \in DOMAIN ended /\ ended'[k] = ended[k]
        BY <1>0, <2>3, <2>8, <3>2
      <4> QED BY <1>1, <1>2, <2>8, <4>1
    <3> QED BY <3>1, <3>2
  <2> QED BY <2>7, <2>8 DEF ShownInv, ResultIsShown
<1> QED BY <1>5, <1>6, <1>7, <1>8, <1>9, <1>10, LogSteps

LEMMA ShownInvariant == Spec => []ShownInv
<1>1. Init => ShownInv
  BY DEF Init, ShownInv, ResultIsShown
<1>2. TypeInv /\ TypeInv' /\ ShownInv /\ [Next]_vars => ShownInv'
  BY ShownStep, TypeStep
<1> QED BY <1>1, <1>2, TypeInvariant, PTL DEF Spec

\* A run that reports its review as posted or as unchanged leaves a review of
\* the commit with its report and its notice of another model.
THEOREM ReportedIsShown == Spec => []ResultIsShown
<1>1. ShownInv => ResultIsShown
  BY DEF ShownInv
<1> QED BY <1>1, ShownInvariant, PTL

-----------------------------------------------------------------------------
(* Refused reviews *)

\* What is left of the report was looked up in the diff of the listed head.
CheckedInv ==
    pc \in {"gate", "dismiss"} =>
        listed = 0 \/ \A f \in report.kept : listed \in f.shown

LEMMA CheckedStep ==
    ASSUME TypeInv, CheckedInv, [Next]_vars
    PROVE  CheckedInv'
<1>1. ASSUME NEW found \in Reports, NEW known \in BOOLEAN, CheckReport(found, known)
      PROVE  CheckedInv'
  <2>1. report' = [kept |-> {f \in found : PassesReportChecks(f, listed')},
                   dropped |-> Cardinality(found \
                                   {f \in found : PassesReportChecks(f, listed')})]
    BY <1>1 DEF CheckReport, ApplyReportChecks
  <2>2. report'.kept = {f \in found : PassesReportChecks(f, listed')}
    BY <2>1
  <2>3. \A f \in report'.kept : listed' = 0 \/ listed' \in f.shown
    BY <2>2 DEF PassesReportChecks
  <2> QED BY <2>3 DEF CheckedInv
<1>2. ASSUME pc' \in {"gate", "dismiss"} =>
                 /\ pc \in {"gate", "dismiss"}
                 /\ UNCHANGED <<listed, report>>
      PROVE  CheckedInv'
  BY <1>2 DEF CheckedInv
<1>3. CASE PullStep
  BY <1>2, <1>3 DEF PullStep, Push, Reset, UserDismisses, attempt
<1>4. CASE \E p \in Plans : Dispatch(p)
  BY <1>2, <1>4 DEF Dispatch
<1>5. CASE GoesOn
  BY <1>1, <1>2, <1>5 DEF GoesOn, Prepare, Clone, Deepen, JudgeAttempt, PickNext, PickEnds, Picked, ReadContext,
     ResolvePriorReview, PassesStart, PassEnds, FindsNone, DismissNext
<1>6. CASE GivesUpSlot
  BY <1>2, <1>6 DEF GivesUpSlot, NextSlot
<1>7. CASE Fails \/ FindsItThere \/ Posts
  BY <1>2, <1>7 DEF Fails, FindsItThere, Posts, End
<1>8. CASE UNCHANGED vars
  BY <1>2, <1>8 DEF vars, attempt
<1> QED BY <1>3, <1>4, <1>5, <1>6, <1>7, <1>8, KindsOfSteps DEF Next

LEMMA CheckedInvariant == Spec => []CheckedInv
<1>1. Init => CheckedInv
  BY DEF Init, CheckedInv
<1>2. TypeInv /\ CheckedInv /\ [Next]_vars => CheckedInv'
  BY CheckedStep
<1> QED BY <1>1, <1>2, TypeInvariant, PTL DEF Spec

\* GitHub refuses the review for a line outside the diff only when the head
\* moved during the run or the files could not be listed.
THEOREM RefusalIsExplained == Spec => []RefusedHasCause
<1>1. TypeInv /\ CheckedInv => RefusedHasCause
  BY DEF TypeInv, AttemptInv, HasHead, CheckedInv, RefusedHasCause, ReadyToPost, Accepted
<1> QED BY <1>1, TypeInvariant, CheckedInvariant, PTL

-----------------------------------------------------------------------------
(* Credentials on the disk *)

\* Only the passes of the plan's axes ever run.
HomesInv ==
    /\ CredentialsAreInUse
    /\ pc = "passes" => \A axis \in AllAxes \ Axes : passes[axis] # "running"

\* No pass waits and no credential lies about while no pass may run.
LEMMA NoHomes ==
    ASSUME TypeInv, HomesInv, pc # "idle", pc = "passes" => Settled
    PROVE  homes = {}
<1>1. ASSUME NEW h \in homes PROVE FALSE
  <2>1. h.axis \in AllAxes /\ passes[h.axis] = "running" /\ pc = "passes"
    BY <1>1 DEF TypeInv, AttemptInv, HomesInv, CredentialsAreInUse
  <2>2. h.axis \in Axes
    BY <2>1 DEF HomesInv
  <2>3. passes[h.axis] \in PassResults
    BY <2>1, <2>2 DEF Settled
  <2> QED BY <2>1, <2>3 DEF PassResults
<1> QED BY <1>1

LEMMA HomesStep ==
    ASSUME TypeInv, HomesInv, [Next]_vars
    PROVE  HomesInv'
<1>1. CASE PassesStart
  <2>1. homes = {}
    <3>1. \A axis \in AllAxes : passes[axis] = "unborn"
      BY <1>1 DEF PassesStart, NoPasses
    <3> QED BY <3>1 DEF TypeInv, AttemptInv, HomesInv, CredentialsAreInUse
  <2>2. homes' = {Home(axis) : axis \in Axes} /\ slot' = slot /\ pc' = "passes" /\ plan' = plan
        /\ passes' = [axis \in AllAxes |-> IF axis \in Axes THEN "running" ELSE "unborn"]
    BY <1>1, <2>1 DEF PassesStart, job
  <2>3. Axes \subseteq AllAxes /\ Axes' = Axes
    BY <2>2 DEF Axes, AllAxes
  <2>4. \A h \in homes' : passes'[h.axis] = "running" /\ h.slot = slot'
    BY <2>2, <2>3 DEF Home
  <2>5. \A axis \in AllAxes \ Axes' : passes'[axis] # "running"
    BY <2>2, <2>3
  <2> QED BY <2>2, <2>4, <2>5 DEF HomesInv, CredentialsAreInUse
<1>2. ASSUME NEW axis \in AllAxes, NEW result \in PassResults, PassEnds(axis, result)
      PROVE  HomesInv'
  <2>1. /\ homes' = homes \ {Home(axis)} /\ passes' = [passes EXCEPT ![axis] = result]
        /\ pc = "passes" /\ pc' = "passes" /\ slot' = slot /\ plan' = plan
    BY <1>2 DEF PassEnds, HomesAfter, job
  <2>2. result # "running" /\ Axes' = Axes
    BY <2>1 DEF PassResults, Axes
  <2>3. passes \in [AllAxes -> PassResults \cup {"unborn", "running"}]
    BY DEF TypeInv, AttemptInv
  <2>4. ASSUME NEW h \in homes' PROVE passes'[h.axis] = "running" /\ h.slot = slot'
    <3>1. h \in homes /\ h # Home(axis) /\ h \in [slot : Nat, axis : AllAxes]
      BY <2>1, <2>4 DEF TypeInv, AttemptInv
    <3>2. passes[h.axis] = "running" /\ h.slot = slot
      BY <2>1, <3>1 DEF HomesInv, CredentialsAreInUse
    <3>3. h.axis # axis
      BY <3>1, <3>2 DEF Home
    <3> QED BY <2>1, <2>3, <3>1, <3>2, <3>3
  <2>5. \A x \in AllAxes \ Axes' : passes'[x] # "running"
    BY <2>1, <2>2, <2>3 DEF HomesInv
  <2> QED BY <2>1, <2>4, <2>5 DEF HomesInv, CredentialsAreInUse
<1>3. ASSUME pc # "idle", pc = "passes" => Settled, homes' = homes,
             \/ pc' # "passes"
             \/ \A axis \in AllAxes : passes'[axis] = "unborn"
      PROVE  HomesInv'
  <2>1. homes' = {}
    BY <1>3, NoHomes
  <2> QED BY <1>3, <2>1 DEF HomesInv, CredentialsAreInUse
<1>4. CASE Fails
  <2>1. passes' = passes /\ pc' = "idle" /\ homes' \subseteq homes
    BY <1>4 DEF Fails, End
  <2> QED BY <2>1 DEF HomesInv, CredentialsAreInUse
<1>5. CASE FindsItThere \/ Posts
  BY <1>3, <1>5 DEF FindsItThere, Posts, ReadyToPost, End
<1>6. CASE GivesUpSlot
  BY <1>3, <1>6 DEF GivesUpSlot, NextSlot
<1>7. ASSUME NEW known \in BOOLEAN, ResolvePriorReview(known)
      PROVE  HomesInv'
  BY <1>3, <1>7 DEF ResolvePriorReview, NoPasses
<1>8. CASE GoesOn
  <2>1. CASE \/ \E c \in Catalogs : Prepare(c)
             \/ Clone
             \/ \E more \in {{}, line[head]} : Deepen(more)
             \/ JudgeAttempt \/ PickNext \/ PickEnds \/ ReadContext \/ FindsNone
             \/ \E i \in DOMAIN reviews : DismissNext(i)
    BY <1>3, <2>1 DEF Prepare, Clone, Deepen, JudgeAttempt, PickNext, PickEnds, Picked, ReadContext, FindsNone,
       DismissNext, attempt
  <2>2. CASE \E found \in Reports, known \in BOOLEAN : CheckReport(found, known)
    BY <1>3, <2>2 DEF CheckReport
  <2> QED BY <1>1, <1>2, <1>7, <1>8, <2>1, <2>2 DEF GoesOn
<1>9. ASSUME NEW p \in Plans, Dispatch(p)
      PROVE  HomesInv'
  BY <1>9 DEF Dispatch, HomesInv, CredentialsAreInUse
<1>10. CASE PullStep \/ UNCHANGED vars
  <2>1. UNCHANGED <<pc, plan, homes, passes, slot>>
    BY <1>10 DEF PullStep, Push, Reset, UserDismisses, vars, job, attempt
  <2> QED BY <2>1 DEF HomesInv, CredentialsAreInUse, Axes
<1> QED BY <1>4, <1>5, <1>6, <1>8, <1>9, <1>10, KindsOfSteps DEF Next

LEMMA HomesInvariant == Spec => []HomesInv
<1>1. Init => HomesInv
  BY DEF Init, HomesInv, CredentialsAreInUse
<1>2. TypeInv /\ HomesInv /\ [Next]_vars => HomesInv'
  BY HomesStep
<1> QED BY <1>1, <1>2, TypeInvariant, PTL DEF Spec

\* A credential lies on the disk while the engine pass it is for runs, and not
\* a step longer.
THEOREM CredentialsGo == Spec => []CredentialsAreInUse
<1>1. HomesInv => CredentialsAreInUse
  BY DEF HomesInv
<1> QED BY <1>1, HomesInvariant, PTL

-----------------------------------------------------------------------------
(* Superseded reviews *)

Excused(e) == e.outcome \in {"running", "cancelled", "failed"} \/ e.slot > 1

Replaced(i) ==
    \E j \in DOMAIN reviews : /\ i < j
                              /\ reviews[j].run = reviews[i].by
                              /\ reviews[j].sha = reviews[i].sha

\* What the run under way has dismissed at its first slot is of its head, and
\* it is still at it.
SupersededInv ==
    /\ \A i \in DOMAIN reviews :
           reviews[i].state = "superseded" => Replaced(i) \/ Excused(ended[reviews[i].by])
    /\ pc # "idle" => ended[Len(ended)].outcome = "running"
    /\ pc = "dismiss" => \A i \in stale : reviews[i].sha = sha
    /\ pc # "idle" /\ slot = 1 =>
           \A i \in DOMAIN reviews :
               reviews[i].state = "superseded" /\ reviews[i].by = Len(ended) =>
                   pc = "dismiss" /\ reviews[i].sha = sha

\* A step that leaves the reviews and the runs keeps the invariant if it does
\* not change what a dismissing run is at.
LEMMA SupersededKept ==
    ASSUME TypeInv, SupersededInv, UNCHANGED <<reviews, ended>>,
           pc' # "idle" => pc # "idle",
           pc' # "idle" /\ slot' = 1 =>
               slot = 1 /\ (pc = "dismiss" => pc' = "dismiss" /\ sha' = sha),
           pc' = "dismiss" =>
               \/ pc = "dismiss" /\ stale' = stale /\ sha' = sha
               \/ \A i \in stale' : reviews[i].sha = sha'
    PROVE  SupersededInv'
<1>1. \A i \in DOMAIN reviews' : Replaced(i) => Replaced(i)'
  BY DEF Replaced
<1>2. \A i \in DOMAIN reviews' :
          reviews'[i].state = "superseded" => Replaced(i)' \/ Excused(ended'[reviews'[i].by])
  BY <1>1 DEF SupersededInv
<1> QED BY <1>2 DEF SupersededInv, Excused

LEMMA SupersededStep ==
    ASSUME TypeInv, TypeInv', ReviewsStay, RunsInv, SupersededInv, [Next]_vars
    PROVE  SupersededInv'
<1> USE LogDomains
<1>0. /\ DOMAIN reviews' = 1..Len(reviews') /\ DOMAIN ended' = 1..Len(ended')
      /\ DOMAIN reviews \subseteq DOMAIN reviews'
  BY LenProperties DEF TypeInv, LogInv, ReviewsStay
<1>1. ASSUME NEW i \in DOMAIN reviews, Replaced(i), reviews'[i].by = reviews[i].by
      PROVE  Replaced(i)'
  BY <1>0, <1>1 DEF Replaced, ReviewsStay, SameBody
<1>2. \A i \in DOMAIN reviews : reviews[i].state = "superseded" => reviews[i].by \in 1..Len(ended)
  BY DEF RunsInv
<1>3. ASSUME NEW i \in DOMAIN reviews, UserDismisses(i)
      PROVE  SupersededInv'
  <2>1. /\ DOMAIN reviews' = DOMAIN reviews
        /\ \A j \in DOMAIN reviews :
               /\ reviews'[j].by = reviews[j].by /\ reviews'[j].sha = reviews[j].sha
               /\ reviews'[j].state = "superseded" => reviews[j].state = "superseded"
    BY <1>3, Dismissal DEF SameBody
  <2>2. UNCHANGED <<ended, pc, slot, sha, stale>>
    BY <1>3 DEF UserDismisses, attempt
  <2>3. \A j \in DOMAIN reviews' :
            reviews'[j].state = "superseded" => Replaced(j)' \/ Excused(ended'[reviews'[j].by])
    BY <1>1, <2>1, <2>2 DEF SupersededInv
  <2>4. \A j \in stale : j \in DOMAIN reviews
    BY DEF TypeInv, AttemptInv
  <2> QED BY <2>1, <2>2, <2>3, <2>4 DEF SupersededInv
<1>4. ASSUME NEW i \in DOMAIN reviews, DismissNext(i)
      PROVE  SupersededInv'
  <2>1. /\ DOMAIN reviews' = DOMAIN reviews
        /\ \A j \in DOMAIN reviews \ {i} : reviews'[j] = reviews[j]
        /\ reviews'[i].sha = reviews[i].sha /\ reviews'[i].by = Len(ended)
    BY <1>4, Dismissal DEF SameBody
  <2>2. /\ UNCHANGED <<ended, pc, slot, sha>> /\ stale' = stale \ {i} /\ i \in stale
        /\ pc = "dismiss"
    BY <1>4 DEF DismissNext, Oldest
  <2>3. \A j \in DOMAIN reviews' :
            reviews'[j].state = "superseded" => Replaced(j)' \/ Excused(ended'[reviews'[j].by])
    <3>1. Excused(ended'[reviews'[i].by])
      BY <2>1, <2>2 DEF SupersededInv, Excused
    <3> QED BY <1>1, <2>1, <2>2, <3>1 DEF SupersededInv
  <2>4. reviews[i].sha = sha
    BY <2>2 DEF SupersededInv
  <2>5. \A j \in stale : j \in DOMAIN reviews
    BY DEF TypeInv, AttemptInv
  <2> QED BY <2>1, <2>2, <2>3, <2>4, <2>5 DEF SupersededInv
<1>5. ASSUME NEW p \in Plans, Dispatch(p)
      PROVE  SupersededInv'
  <2>1. /\ Len(ended') = Len(ended) + 1 /\ reviews' = reviews /\ pc' = "prepare"
        /\ \A k \in 1..Len(ended) :
               IF k = Len(ended) /\ pc # "idle"
               THEN ended'[k] = [ended[k] EXCEPT !.outcome = "cancelled"]
               ELSE ended'[k] = ended[k]
        /\ ended'[Len(ended) + 1] = Started
    BY <1>5, DispatchedRecord DEF Dispatch
  <2>2. Started.outcome = "running"
    BY DEF Started, Unsettled
  <2>3. \A k \in 1..Len(ended) : ended'[k].outcome = "cancelled" \/ ended'[k] = ended[k]
    BY <2>1 DEF EndType
  <2>4. \A k \in 1..Len(ended) : Excused(ended[k]) => Excused(ended'[k])
    BY <2>3 DEF Excused
  <2>5. \A i \in DOMAIN reviews' :
            reviews'[i].state = "superseded" => Replaced(i)' \/ Excused(ended'[reviews'[i].by])
    BY <1>1, <1>2, <2>1, <2>4 DEF SupersededInv
  <2>6. \A i \in DOMAIN reviews' :
            ~(reviews'[i].state = "superseded" /\ reviews'[i].by = Len(ended'))
    BY <1>2, <2>1
  <2> QED BY <2>1, <2>2, <2>5, <2>6 DEF SupersededInv
<1>6. ASSUME NEW o \in Outcomes, NEW cause \in Causes, pc # "idle", End(o, cause),
             o # "failed" => slot <= Len(Queue),
             DOMAIN reviews \subseteq DOMAIN reviews',
             \A i \in DOMAIN reviews : reviews'[i] = reviews[i],
             \A i \in DOMAIN reviews' \ DOMAIN reviews : reviews'[i].state = "standing",
             o # "failed" => \A i \in DOMAIN reviews :
                 reviews[i].state = "superseded" /\ reviews[i].by = Len(ended) /\ slot = 1 =>
                     Replaced(i)'
      PROVE  SupersededInv'
  <2>1. /\ Len(ended') = Len(ended)
        /\ \A k \in 1..Len(ended) : k # Len(ended) => ended'[k] = ended[k]
        /\ ended'[Len(ended)] = Ending(o, cause) /\ pc' = "idle"
    BY <1>6, EndedRecord DEF End
  <2>2. Ending(o, cause).outcome = o /\ Ending(o, cause).slot = slot
    BY <1>6, EndingType
  <2>3. slot \in Nat \ {0}
    BY QueueAssumption DEF TypeInv, AttemptInv
  <2>4. ASSUME NEW i \in DOMAIN reviews', reviews'[i].state = "superseded"
        PROVE  Replaced(i)' \/ Excused(ended'[reviews'[i].by])
    <3>1. i \in DOMAIN reviews /\ reviews'[i] = reviews[i]
      BY <1>6, <2>4
    <3>2. CASE reviews[i].by # Len(ended)
      <4>1. ended'[reviews'[i].by] = ended[reviews[i].by]
        BY <1>2, <2>1, <2>4, <3>1, <3>2
      <4> QED BY <1>1, <2>4, <3>1, <4>1 DEF SupersededInv
    <3>3. CASE reviews[i].by = Len(ended)
      <4>1. o = "failed" \/ slot > 1 => Excused(ended'[reviews'[i].by])
        BY <2>1, <2>2, <3>1, <3>3 DEF Excused
      <4>2. o # "failed" /\ slot = 1 => Replaced(i)'
        BY <1>6, <2>4, <3>1, <3>3
      <4> QED BY <2>3, <4>1, <4>2
    <3> QED BY <3>2, <3>3
  <2> QED BY <2>1, <2>4 DEF SupersededInv
<1>7. CASE Fails
  BY <1>6, <1>7 DEF Fails, Outcomes
<1>8. CASE FindsItThere
  <2>1. slot <= Len(Queue) /\ pc = "gate"
    BY <1>8 DEF FindsItThere, TypeInv, AttemptInv, AtSlot
  <2>2. \A i \in DOMAIN reviews :
            ~(reviews[i].state = "superseded" /\ reviews[i].by = Len(ended) /\ slot = 1)
    BY <2>1 DEF SupersededInv
  <2> QED BY <1>6, <1>8, <2>1, <2>2 DEF FindsItThere, Outcomes, Causes
<1>9. CASE Posts
  <2>1. slot <= Len(Queue) /\ pc = "dismiss"
    BY <1>9 DEF Posts, ReadyToPost, TypeInv, AttemptInv, AtSlot
  <2>2. PICK o \in {"posted", "failed"}, cause \in Causes : End(o, cause)
    BY <1>9 DEF Posts, Causes
  <2>3. /\ DOMAIN reviews' = 1..(Len(reviews) + 1)
        /\ \A i \in DOMAIN reviews : reviews'[i] = reviews[i]
        /\ reviews'[Len(reviews) + 1] = NewReview
    BY <1>9, PostedReview
  <2>4. NewReview.state = "standing" /\ NewReview.sha = sha /\ NewReview.run = Len(ended)
    BY DEF NewReview, Run
  <2>5. ASSUME NEW i \in DOMAIN reviews, reviews[i].state = "superseded",
               reviews[i].by = Len(ended), slot = 1
        PROVE  Replaced(i)'
    <3>1. reviews[i].sha = sha
      BY <2>1, <2>5 DEF SupersededInv
    <3>2. Len(reviews) + 1 \in DOMAIN reviews' /\ i < Len(reviews) + 1
      BY <2>3
    <3>3. /\ reviews'[Len(reviews) + 1].run = reviews'[i].by
          /\ reviews'[Len(reviews) + 1].sha = reviews'[i].sha
      BY <2>3, <2>4, <2>5, <3>1
    <3> QED BY <3>2, <3>3 DEF Replaced
  <2>6. \A i \in DOMAIN reviews' \ DOMAIN reviews : reviews'[i].state = "standing"
    BY <2>3, <2>4
  <2> QED BY <1>6, <2>1, <2>2, <2>3, <2>5, <2>6 DEF Outcomes
<1>10. CASE GivesUpSlot
  <2>1. UNCHANGED <<reviews, ended>> /\ pc' = "slot" /\ slot' # 1 /\ pc # "idle"
    BY <1>10, QueueAssumption DEF GivesUpSlot, NextSlot, TypeInv, AttemptInv
  <2> QED BY <2>1, SupersededKept
<1>11. CASE FindsNone
  BY <1>11, SupersededKept DEF FindsNone, Superseded, OwnReviews
<1>12. CASE GoesOn
  <2>1. CASE \/ \E c \in Catalogs : Prepare(c)
             \/ Clone
             \/ \E more \in {{}, line[head]} : Deepen(more)
             \/ JudgeAttempt \/ PickNext \/ PickEnds \/ ReadContext \/ PassesStart
             \/ \E known \in BOOLEAN : ResolvePriorReview(known)
             \/ \E axis \in AllAxes, result \in PassResults : PassEnds(axis, result)
             \/ \E found \in Reports, known \in BOOLEAN : CheckReport(found, known)
    <3>1. /\ UNCHANGED <<reviews, ended, slot>>
          /\ pc \notin {"idle", "dismiss"} /\ pc' \notin {"idle", "dismiss"}
      BY <2>1 DEF Prepare, Clone, Deepen, JudgeAttempt, PickNext, PickEnds, Picked, ReadContext, PassesStart,
         ResolvePriorReview, PassEnds, CheckReport, attempt
    <3> QED BY <3>1, SupersededKept
  <2> QED BY <1>4, <1>11, <1>12, <2>1 DEF GoesOn
<1>13. CASE PullStep
  <2>1. CASE \E i \in DOMAIN reviews : UserDismisses(i)
    BY <1>3, <2>1
  <2>2. CASE UNCHANGED <<reviews, ended, pc, slot, sha, stale>>
    BY <2>2, SupersededKept
  <2> QED BY <1>13, <2>1, <2>2 DEF PullStep, Push, Reset, attempt
<1>14. CASE UNCHANGED vars
  <2>1. UNCHANGED <<reviews, ended, pc, slot, sha, stale>>
    BY <1>14 DEF vars, attempt
  <2> QED BY <2>1, SupersededKept
<1> QED BY <1>5, <1>7, <1>8, <1>9, <1>10, <1>12, <1>13, <1>14, KindsOfSteps DEF Next

LEMMA SupersededInvariant == Spec => []SupersededInv
<1>1. Init => SupersededInv
  BY DEF Init, SupersededInv
<1>2. TypeInv /\ TypeInv' /\ RunsInv /\ SupersededInv /\ [Next]_vars => SupersededInv'
  BY SupersededStep, TypeStep
<1> QED BY <1>1, <1>2, TypeInvariant, RunsInvariant, PTL DEF Spec

\* A review is dismissed as superseded for another one's sake, or by a run that
\* was stopped, failed, or had fallen back to another slot.
THEOREM SupersedingIsExplained == Spec => []SupersededHasCause
<1>1. SupersededInv => SupersededHasCause
  BY DEF SupersededInv, SupersededHasCause, Replaced, Excused
<1> QED BY <1>1, SupersededInvariant, PTL

-----------------------------------------------------------------------------
(* Least and largest numbers *)

LEMMA SmallestNat ==
    ASSUME NEW T, T \subseteq Nat, T # {}
    PROVE  \E m \in T : \A k \in T : m <= k
<1>1. IsWellFoundedOn(OpToRel(<, Nat), Nat)
  BY NatLessThanWellFounded
<1>2. PICK x \in T : \A y \in T : ~ (<<y, x>> \in OpToRel(<, Nat))
  BY <1>1, WFMin
<1>3. ASSUME NEW y \in T PROVE x <= y
  <2>1. x \in Nat /\ y \in Nat
    OBVIOUS
  <2>2. y < x => <<y, x>> \in OpToRel(<, Nat)
    BY <2>1 DEF OpToRel
  <2>3. ~ (<<y, x>> \in OpToRel(<, Nat))
    BY <1>2
  <2>4. ~ (y < x)
    BY <2>2, <2>3
  <2> QED BY <2>1, <2>4
<1> QED BY <1>3

LEMMA LargestNat ==
    ASSUME NEW n \in Nat, NEW S, S \subseteq 1..n, S # {}
    PROVE  \E m \in S : \A k \in S : k <= m
<1> DEFINE T == {b \in Nat : \A k \in S : k <= b}
<1>1. PICK t \in T : \A k \in T : t <= k
  <2>1. n \in T
    OBVIOUS
  <2>2. T \subseteq Nat /\ T # {}
    BY <2>1
  <2> HIDE DEF T
  <2> QED BY <2>2, SmallestNat
<1>2. t \in S
  <2>1. CASE t \notin S
    <3>1. \A k \in S : k \in Nat /\ 1 <= k /\ k <= t /\ k # t
      BY <2>1
    <3>2. PICK k \in S : TRUE
      OBVIOUS
    <3>3. t - 1 \in Nat
      BY <3>1, <3>2
    <3>4. \A j \in S : j <= t - 1
      BY <3>1
    <3>5. t - 1 \in T
      BY <3>3, <3>4
    <3>6. t <= t - 1
      BY <3>5, <1>1
    <3> QED BY <3>1, <3>6
  <2> QED BY <2>1
<1> QED BY <1>1, <1>2

-----------------------------------------------------------------------------
(* Incremental reviews *)

\* A review that starts after a commit has a review of that commit before it.
GapInv ==
    /\ GapHasCause
    /\ since # 0 => \E i \in DOMAIN reviews : reviews[i].sha = since

LEMMA PriorReview ==
    ASSUME TypeInv, FindPriorHakaseReview # 0
    PROVE  \E i \in DOMAIN reviews : reviews[i].sha = FindPriorHakaseReview
<1> DEFINE prior == {i \in DOMAIN reviews : IsPrior(i)}
<1>1. prior # {} /\ FindPriorHakaseReview
                      = reviews[CHOOSE i \in prior : \A j \in prior : j <= i].sha
  BY DEF FindPriorHakaseReview
<1>2. prior \subseteq 1..Len(reviews) /\ Len(reviews) \in Nat
  BY LogDomains
<1> HIDE DEF prior
<1>3. \E m \in prior : \A k \in prior : k <= m
  BY <1>1, <1>2, LargestNat
<1>4. (CHOOSE i \in prior : \A j \in prior : j <= i) \in prior
  BY <1>3
<1> QED BY <1>1, <1>2, <1>4, LogDomains

LEMMA CoveredStays ==
    ASSUME TypeInv, TreeStays, ReviewsStay, NEW j \in DOMAIN reviews
    PROVE  /\ Covered(j) => Covered(j)'
           /\ \A i \in DOMAIN reviews : Misleads(i) => Misleads(i)'
<1>1. \A i \in 1..j : i \in DOMAIN reviews
  BY LogDomains
<1>2. \A i \in DOMAIN reviews :
          /\ reviews'[i].plan = reviews[i].plan /\ reviews'[i].sha = reviews[i].sha
          /\ reviews'[i].at = reviews[i].at /\ reviews'[i].read = reviews[i].read
  BY DEF ReviewsStay, SameBody
<1>3. line'[reviews'[j].at] = line[reviews[j].at]
  BY <1>2 DEF TreeStays, TypeInv, LogInv
<1> QED BY <1>1, <1>2, <1>3 DEF Covered, Misleads

LEMMA GapStep ==
    ASSUME TypeInv, TypeInv', TreeStays, ReviewsStay, GapInv, [Next]_vars
    PROVE  GapInv'
<1> USE LogDomains
<1>1. ASSUME NEW j \in DOMAIN reviews, reviews'[j].plan = "review"
      PROVE  Covered(j)' \/ \E i \in 1..j : Misleads(i)'
  <2>1. reviews[j].plan = "review"
    BY <1>1 DEF ReviewsStay, SameBody
  <2>2. Covered(j) \/ \E i \in 1..j : Misleads(i)
    BY <2>1 DEF GapInv, GapHasCause
  <2>3. \A i \in 1..j : i \in DOMAIN reviews
    OBVIOUS
  <2> QED BY <2>2, <2>3, CoveredStays
<1>2. ASSUME DOMAIN reviews' = DOMAIN reviews
      PROVE  GapHasCause'
  BY <1>1, <1>2 DEF GapHasCause
<1>3. ASSUME since' # 0 => since' = since
      PROVE  since' # 0 => \E i \in DOMAIN reviews' : reviews'[i].sha = since'
  BY <1>3 DEF GapInv, ReviewsStay, SameBody
<1>4. CASE Posts
  <2>1. since' = 0 /\ pc = "dismiss"
    BY <1>4 DEF Posts, ReadyToPost, End, Forget
  <2>2. /\ DOMAIN reviews' = 1..(Len(reviews) + 1)
        /\ \A i \in DOMAIN reviews : reviews'[i] = reviews[i]
        /\ reviews'[Len(reviews) + 1] = NewReview
    BY <1>4, PostedReview
  <2>0. line' = line
    BY <1>4 DEF Posts, tree
  <2> PICK n \in Nat : n = Len(reviews) + 1
    OBVIOUS
  <2>3. NewReview.at = checkout /\ NewReview.plan = plan
        /\ NewReview.read = line[checkout] \ IF since = 0 THEN {} ELSE line[since]
    BY DEF NewReview
  <2>4. ASSUME plan = "review", \A i \in 1..n : ~Misleads(i)'
        PROVE  Covered(n)'
    <3>1. ASSUME NEW c \in line[checkout]
          PROVE  \E i \in 1..n : reviews'[i].plan = "review" /\ c \in reviews'[i].read
      <4>1. CASE c \in NewReview.read
        BY <2>2, <2>3, <2>4, <4>1
      <4>2. CASE c \notin NewReview.read
        <5>1. since # 0 /\ c \in line[since]
          BY <2>3, <4>2
        <5>2. PICK p \in DOMAIN reviews : reviews[p].sha = since
          BY <5>1 DEF GapInv
        <5>3. \A i \in 1..p : i \in DOMAIN reviews /\ i \in 1..n /\ reviews'[i] = reviews[i]
          BY <2>2
        <5>4. \A i \in 1..p : ~Misleads(i)
          BY <2>4, <5>3 DEF Misleads
        <5>5. reviews[p].plan = "review" /\ reviews[p].at = since
          BY <5>2, <5>4 DEF Misleads
        <5>6. Covered(p)
          BY <5>4, <5>5 DEF GapInv, GapHasCause
        <5>7. \E i \in 1..p : reviews[i].plan = "review" /\ c \in reviews[i].read
          BY <5>1, <5>5, <5>6 DEF Covered
        <5> QED BY <5>3, <5>7
      <4> QED BY <4>1, <4>2
    <3>2. reviews'[n].at = checkout
      BY <2>2, <2>3
    <3> QED BY <2>0, <3>1, <3>2 DEF Covered
  <2>5. ASSUME NEW j \in DOMAIN reviews', reviews'[j].plan = "review"
        PROVE  Covered(j)' \/ \E i \in 1..j : Misleads(i)'
    <3>1. CASE j = n
      BY <2>2, <2>3, <2>4, <2>5, <3>1
    <3>2. CASE j # n
      BY <1>1, <2>2, <2>5, <3>2
    <3> QED BY <3>1, <3>2
  <2> QED BY <2>1, <2>5 DEF GapInv, GapHasCause
<1>5. ASSUME NEW known \in BOOLEAN, ResolvePriorReview(known)
      PROVE  GapInv'
  <2>1. reviews' = reviews
    BY <1>5 DEF ResolvePriorReview
  <2> DEFINE prior == FindPriorHakaseReview
  <2>2. since' = IF plan = "review" /\ known /\ Reachable(prior) THEN prior ELSE 0
    BY <1>5 DEF ResolvePriorReview
  <2>3. prior # 0 => \E i \in DOMAIN reviews : reviews[i].sha = prior
    BY PriorReview
  <2> HIDE DEF prior
  <2>4. since' # 0 => since' = prior
    BY <2>2
  <2> QED BY <1>2, <2>1, <2>3, <2>4 DEF GapInv
<1>6. ASSUME DOMAIN reviews' = DOMAIN reviews, since' # 0 => since' = since
      PROVE  GapInv'
  BY <1>2, <1>3, <1>6 DEF GapInv
<1>7. ASSUME NEW i \in DOMAIN reviews, UserDismisses(i) \/ DismissNext(i)
      PROVE  GapInv'
  <2>1. DOMAIN reviews' = DOMAIN reviews
    BY <1>7, Dismissal
  <2>2. since' = since
    BY <1>7 DEF UserDismisses, DismissNext, attempt
  <2> QED BY <1>6, <2>1, <2>2
<1>8. CASE PullStep
  BY <1>6, <1>7, <1>8 DEF PullStep, Push, Reset, attempt
<1>9. CASE \E p \in Plans : Dispatch(p)
  BY <1>6, <1>9 DEF Dispatch, Forget
<1>10. CASE GoesOn
  BY <1>5, <1>6, <1>7, <1>10 DEF GoesOn, Prepare, Clone, Deepen, JudgeAttempt, PickNext, PickEnds, Picked,
     ReadContext, PassesStart, PassEnds, CheckReport, FindsNone, attempt
<1>11. CASE GivesUpSlot
  BY <1>6, <1>11 DEF GivesUpSlot, NextSlot, Forget
<1>12. CASE Fails \/ FindsItThere
  BY <1>6, <1>12 DEF Fails, FindsItThere, End, Forget
<1>13. CASE UNCHANGED vars
  BY <1>6, <1>13 DEF vars, attempt
<1> QED BY <1>4, <1>8, <1>9, <1>10, <1>11, <1>12, <1>13, KindsOfSteps DEF Next

LEMMA GapInvariant == Spec => []GapInv
<1>1. Init => GapInv
  BY DEF Init, GapInv, GapHasCause
<1>2. TypeInv /\ TypeInv' /\ GapInv /\ [Next]_vars => GapInv'
  BY GapStep, TypeStep
<1> QED BY <1>1, <1>2, TypeInvariant, PTL DEF Spec

\* An incremental review leaves no commit of the pull request unread, unless a
\* misleading review came before.
THEOREM NoUnexplainedGap == Spec => []GapHasCause
<1>1. GapInv => GapHasCause
  BY DEF GapInv
<1> QED BY <1>1, GapInvariant, PTL

-----------------------------------------------------------------------------
(* The newest kin of a model *)

Shapes == Seq(Tokens)

LEMMA PartType == ASSUME NEW id \in Shapes, NEW k PROVE Part(id, k) \in Nat
<1> DEFINE nth == {i \in VersionParts(id) :
                      Cardinality({j \in VersionParts(id) : j < i}) = k - 1}
<1>1. ASSUME NEW i \in nth PROVE id[i].value \in Nat
  <2>1. i \in 1..Len(id) /\ id[i].kind = "number"
    BY DEF VersionParts, IsVersionPart
  <2>2. id[i] \in Tokens
    BY <2>1, ElementOfSeq DEF Shapes
  <2> QED BY <2>1, <2>2 DEF Tokens
<1>2. Part(id, k) = IF nth = {} THEN 0 ELSE id[CHOOSE i \in nth : TRUE].value
  BY DEF Part
<1> HIDE DEF nth
<1>3. nth # {} => (CHOOSE i \in nth : TRUE) \in nth
  OBVIOUS
<1> QED BY <1>1, <1>2, <1>3

\* To be of a newer version is a strict order of the ids.
LEMMA NewerIsStrict == ASSUME NEW a \in Shapes PROVE ~Newer(a, a)
<1>1. \A k : Part(a, k) \in Nat
  BY PartType
<1> QED BY <1>1 DEF Newer

LEMMA NewerIsTransitive ==
    ASSUME NEW a \in Shapes, NEW b \in Shapes, NEW c \in Shapes, Newer(a, b), Newer(b, c)
    PROVE  Newer(a, c)
<1>1. \A k : Part(a, k) \in Nat /\ Part(b, k) \in Nat /\ Part(c, k) \in Nat
  BY PartType
<1>2. PICK k \in 1..Len(a) : /\ Part(a, k) > Part(b, k)
                             /\ \A j \in 1..(k - 1) : Part(a, j) = Part(b, j)
  BY DEF Newer
<1>3. PICK l \in 1..Len(b) : /\ Part(b, l) > Part(c, l)
                             /\ \A j \in 1..(l - 1) : Part(b, j) = Part(c, j)
  BY DEF Newer
<1>4. Len(a) \in Nat /\ Len(b) \in Nat
  BY LenProperties DEF Shapes
<1>5. CASE k <= l
  <2>1. Part(a, k) > Part(c, k)
    <3>1. CASE k = l
      BY <1>1, <1>2, <1>3, <3>1
    <3>2. CASE k < l
      <4>1. k \in 1..(l - 1)
        BY <1>4, <3>2
      <4> QED BY <1>2, <1>3, <4>1
    <3> QED BY <1>4, <1>5, <3>1, <3>2
  <2>2. \A j \in 1..(k - 1) : j \in 1..(l - 1)
    BY <1>4, <1>5
  <2>3. \A j \in 1..(k - 1) : Part(a, j) = Part(c, j)
    BY <1>2, <1>3, <2>2
  <2> QED BY <2>1, <2>3 DEF Newer
<1>6. CASE l < k
  <2>1. l \in 1..(k - 1) /\ l \in 1..Len(a)
    BY <1>4, <1>6
  <2>2. Part(a, l) > Part(c, l)
    BY <1>2, <1>3, <2>1
  <2>3. \A j \in 1..(l - 1) : j \in 1..(k - 1)
    BY <1>4, <1>6
  <2>4. \A j \in 1..(l - 1) : Part(a, j) = Part(c, j)
    BY <1>2, <1>3, <2>3
  <2> QED BY <2>1, <2>2, <2>4 DEF Newer
<1> QED BY <1>4, <1>5, <1>6

LEMMA CountTo ==
    ASSUME NEW m \in Int, m >= 0
    PROVE  IsFiniteSet(1..m) /\ Cardinality(1..m) = m
<1>1. IsFiniteSet(1..m)
  BY FS_Interval
<1>2. Cardinality(1..m) = IF 1 > m THEN 0 ELSE m - 1 + 1
  BY FS_Interval
<1> QED BY <1>1, <1>2

\* A version has no part beyond the tokens of its id.
LEMMA PartBeyond ==
    ASSUME NEW id \in Shapes, NEW k \in Nat \ {0}, k \notin 1..Len(id)
    PROVE  Part(id, k) = 0
<1> DEFINE Before(i) == {j \in VersionParts(id) : j < i}
           nth == {i \in VersionParts(id) : Cardinality(Before(i)) = k - 1}
<1>1. Len(id) \in Nat
  BY LenProperties DEF Shapes
<1>2. ASSUME NEW i \in VersionParts(id)
      PROVE  Cardinality(Before(i)) \in Nat /\ Cardinality(Before(i)) <= i - 1
  <2>1. i \in Nat /\ i >= 1 /\ \A j \in VersionParts(id) : j \in Nat /\ j >= 1
    BY <1>1 DEF VersionParts
  <2>2. PICK m \in Int : m = i - 1 /\ m >= 0
    BY <2>1
  <2>3. \A j \in VersionParts(id) : j < i => j \in 1..m
    BY <2>1, <2>2
  <2> DEFINE below == 1..m
             parts == Before(i)
  <2>4. IsFiniteSet(below) /\ Cardinality(below) = m
    BY <2>2, CountTo
  <2>5. parts \in SUBSET below
    BY <2>3
  <2>6. IsFiniteSet(parts) /\ Cardinality(parts) <= Cardinality(below)
    <3> HIDE DEF below, parts
    <3> QED BY <2>4, <2>5, FS_Subset
  <2>7. Cardinality(parts) \in Nat
    <3> HIDE DEF below, parts
    <3> QED BY <2>6, FS_CardinalityType
  <2> HIDE DEF Before, below
  <2> QED BY <2>2, <2>4, <2>6, <2>7
<1>3. ASSUME NEW i \in nth PROVE FALSE
  <2>1. i \in 1..Len(id) /\ i \in VersionParts(id)
    BY DEF VersionParts
  <2>2. k > Len(id)
    BY <1>1
  <2>3. Cardinality(Before(i)) = k - 1
    OBVIOUS
  <2> HIDE DEF Before
  <2> QED BY <1>1, <1>2, <2>1, <2>2, <2>3
<1>4. nth = {}
  BY <1>3
<1>5. Part(id, k) = IF nth = {} THEN 0 ELSE id[CHOOSE i \in nth : TRUE].value
  BY DEF Part
<1> HIDE DEF nth
<1> QED BY <1>4, <1>5

LEMMA SameEverywhere ==
    ASSUME NEW a \in Shapes, NEW b \in Shapes, SameVersion(a, b),
           NEW k \in Nat \ {0}
    PROVE  Part(a, k) = Part(b, k)
<1>1. CASE k \in 1..Len(a) \cup 1..Len(b)
  BY <1>1 DEF SameVersion
<1>2. CASE k \notin 1..Len(a) \cup 1..Len(b)
  BY <1>2, PartBeyond
<1> QED BY <1>1, <1>2

LEMMA SameIsTransitive ==
    ASSUME NEW a \in Shapes, NEW b \in Shapes, NEW c \in Shapes,
           SameVersion(a, b), SameVersion(b, c)
    PROVE  SameVersion(a, c)
<1>1. \A k \in Nat \ {0} : Part(a, k) = Part(b, k)
  BY SameEverywhere
<1>2. \A k \in Nat \ {0} : Part(b, k) = Part(c, k)
  BY SameEverywhere
<1>3. \A k \in 1..Len(a) \cup 1..Len(c) : k \in Nat \ {0}
  BY LenProperties DEF Shapes
<1> QED BY <1>1, <1>2, <1>3 DEF SameVersion

LEMMA NewerThanSame ==
    ASSUME NEW a \in Shapes, NEW b \in Shapes, NEW c \in Shapes,
           Newer(a, b), SameVersion(b, c)
    PROVE  Newer(a, c)
<1>1. PICK k \in 1..Len(a) : /\ Part(a, k) > Part(b, k)
                             /\ \A j \in 1..(k - 1) : Part(a, j) = Part(b, j)
  BY DEF Newer
<1>2. \A j \in Nat \ {0} : Part(b, j) = Part(c, j)
  BY SameEverywhere
<1>3. k \in Nat \ {0} /\ \A j \in 1..(k - 1) : j \in Nat \ {0}
  BY LenProperties DEF Shapes
<1>4. Part(a, k) > Part(c, k)
  BY <1>1, <1>2, <1>3
<1>5. \A j \in 1..(k - 1) : Part(a, j) = Part(c, j)
  BY <1>1, <1>2, <1>3
<1> QED BY <1>4, <1>5 DEF Newer

LEMMA SameAsNewer ==
    ASSUME NEW a \in Shapes, NEW b \in Shapes, NEW c \in Shapes,
           SameVersion(a, b), Newer(b, c)
    PROVE  Newer(a, c)
<1>1. PICK k \in 1..Len(b) : /\ Part(b, k) > Part(c, k)
                             /\ \A j \in 1..(k - 1) : Part(b, j) = Part(c, j)
  BY DEF Newer
<1>2. \A j \in Nat \ {0} : Part(a, j) = Part(b, j)
  BY SameEverywhere
<1>3. k \in Nat \ {0} /\ \A j \in 1..(k - 1) : j \in Nat \ {0}
  BY LenProperties DEF Shapes
<1>4. Part(a, k) > Part(c, k)
  BY <1>1, <1>2, <1>3
<1>5. k \in 1..Len(a)
  <2>1. Part(a, k) \in Nat /\ Part(c, k) \in Nat
    BY PartType
  <2>2. Part(a, k) # 0
    BY <1>4, <2>1
  <2> QED BY <1>3, <2>2, PartBeyond
<1>6. \A j \in 1..(k - 1) : Part(a, j) = Part(c, j)
  BY <1>1, <1>2, <1>3
<1> QED BY <1>4, <1>5, <1>6 DEF Newer

\* To beat another id is a strict order.
LEMMA BeatsIsStrict == ASSUME NEW a \in ModelIds PROVE ~Beats(a, a)
<1>1. a.tokens \in Shapes /\ a.order \in Nat
  BY DEF ModelIds, Shapes
<1>2. ~Newer(a.tokens, a.tokens)
  BY <1>1, NewerIsStrict
<1> QED BY <1>1, <1>2 DEF Beats

LEMMA BeatsIsTransitive ==
    ASSUME NEW a \in ModelIds, NEW b \in ModelIds, NEW c \in ModelIds,
           Beats(a, b), Beats(b, c)
    PROVE  Beats(a, c)
<1>1. /\ a.tokens \in Shapes /\ b.tokens \in Shapes /\ c.tokens \in Shapes
      /\ a.order \in Nat /\ b.order \in Nat /\ c.order \in Nat
  BY DEF ModelIds, Shapes
<1>2. CASE Newer(a.tokens, b.tokens) /\ Newer(b.tokens, c.tokens)
  BY <1>1, <1>2, NewerIsTransitive DEF Beats
<1>3. CASE Newer(a.tokens, b.tokens) /\ SameVersion(b.tokens, c.tokens)
  BY <1>1, <1>3, NewerThanSame DEF Beats
<1>4. CASE SameVersion(a.tokens, b.tokens) /\ Newer(b.tokens, c.tokens)
  BY <1>1, <1>4, SameAsNewer DEF Beats
<1>5. CASE /\ SameVersion(a.tokens, b.tokens) /\ a.order > b.order
           /\ SameVersion(b.tokens, c.tokens) /\ b.order > c.order
  <2>1. SameVersion(a.tokens, c.tokens)
    BY <1>1, <1>5, SameIsTransitive
  <2> QED BY <1>1, <1>5, <2>1 DEF Beats
<1> QED BY <1>2, <1>3, <1>4, <1>5 DEF Beats

\* What the loop knows after n entries of the catalog.
BestOf(n, best) ==
    /\ best = 0 => \A i \in 1..n : ~IsKin(catalog.models[i])
    /\ best # 0 => /\ best \in DOMAIN catalog.models /\ IsKin(catalog.models[best])
                   /\ \A i \in 1..n : IsKin(catalog.models[i]) =>
                          ~Beats(catalog.models[i], catalog.models[best])

IsBest(id) ==
    /\ Queue[slot].similarModel /\ ~Lists(catalog, Requested)
    /\ \E best \in DOMAIN catalog.models :
           /\ id = catalog.models[best] /\ best # 0
           /\ BestOf(Len(catalog.models), best)

ScanInv ==
    /\ pc \notin AtSlot => verdict.kind = "scan"
    /\ pc = "pick" => ~Lists(catalog, Requested) /\ BestOf(verdict.seen, verdict.best)
    /\ verdict.kind = "substituted" => IsBest(verdict.model)

LEMMA BestStep ==
    ASSUME TypeInv, NEW n \in Nat, NEW best \in {0} \cup DOMAIN catalog.models,
           n + 1 \in DOMAIN catalog.models, BestOf(n, best)
    PROVE  BestOf(n + 1, BetterOf(n + 1, best))
<1> DEFINE models == catalog.models
           next == n + 1
<1>1. \A i \in DOMAIN models : models[i] \in ModelIds
  BY CatalogType, ElementOfSeq, LenProperties
<1>2. DOMAIN models = 1..Len(models) /\ Len(models) \in Nat
  BY CatalogType, LenProperties
<1>3. next # 0 /\ next \in DOMAIN models /\ \A i \in 1..next : i \in 1..n \/ i = next
  OBVIOUS
<1>4. \A i \in 1..next : i \in DOMAIN models
  BY <1>2
<1>5. CASE ~IsKin(models[next])
  <2>1. BetterOf(next, best) = best
    BY <1>5 DEF BetterOf
  <2> QED BY <1>3, <1>5, <2>1 DEF BestOf
<1>6. CASE IsKin(models[next]) /\ best = 0
  <2>1. BetterOf(next, best) = next
    BY <1>6 DEF BetterOf
  <2>2. \A i \in 1..n : ~IsKin(models[i])
    BY <1>6 DEF BestOf
  <2>3. ~Beats(models[next], models[next])
    BY <1>1, <1>3, BeatsIsStrict
  <2>4. BestOf(next, next)
    <3> HIDE DEF next
    <3> QED BY <1>3, <1>6, <2>2, <2>3 DEF BestOf
  <2> QED BY <2>1, <2>4
<1>7. CASE IsKin(models[next]) /\ best # 0 /\ Beats(models[next], models[best])
  <2>1. BetterOf(next, best) = next
    BY <1>7 DEF BetterOf
  <2>2. ~Beats(models[next], models[next])
    BY <1>1, <1>3, BeatsIsStrict
  <2>3. ASSUME NEW i \in 1..n, IsKin(models[i])
        PROVE  ~Beats(models[i], models[next])
    <3>1. ~Beats(models[i], models[best]) /\ best \in DOMAIN models
      BY <1>7, <2>3 DEF BestOf
    <3>2. /\ models[i] \in ModelIds /\ models[next] \in ModelIds
          /\ models[best] \in ModelIds
      BY <1>1, <1>3, <1>4, <3>1
    <3> HIDE DEF next, models
    <3> QED BY <1>7, <3>1, <3>2, BeatsIsTransitive
  <2>4. BestOf(next, next)
    <3> HIDE DEF next
    <3> QED BY <1>3, <1>7, <2>2, <2>3 DEF BestOf
  <2> QED BY <2>1, <2>4
<1>8. CASE IsKin(models[next]) /\ best # 0 /\ ~Beats(models[next], models[best])
  <2>1. BetterOf(next, best) = best
    BY <1>8 DEF BetterOf
  <2> QED BY <1>3, <1>8, <2>1 DEF BestOf
<1> QED BY <1>5, <1>6, <1>7, <1>8

LEMMA ScanStep ==
    ASSUME TypeInv, ScanInv, [Next]_vars
    PROVE  ScanInv'
<1> USE DEF AtSlot
<1>1. ASSUME UNCHANGED <<verdict, catalog, slot>>, pc' = pc \/ pc' # "pick",
             pc' \notin AtSlot => pc \notin AtSlot
      PROVE  ScanInv'
  BY <1>1 DEF ScanInv, IsBest, BestOf, IsKin, Requested
<1>2. ASSUME verdict' = NoVerdict, pc' # "pick"
      PROVE  ScanInv'
  BY <1>2 DEF ScanInv, NoVerdict, Scan
<1>3. ASSUME NEW c \in Catalogs, Prepare(c)
      PROVE  ScanInv'
  BY <1>3 DEF Prepare, ScanInv, attempt
<1>4. CASE JudgeAttempt
  <2>1. ~Lists(catalog, Requested)' <=> ~Lists(catalog, Requested)
    BY <1>4 DEF JudgeAttempt, job, Requested
  <2>2. BestOf(0, 0)'
    BY DEF BestOf
  <2>3. \/ pc' = "pick" /\ verdict' = Scan(0, 0) /\ ~Lists(catalog, Requested)
        \/ pc' = "context" /\ verdict'.kind = "as-stored"
    BY <1>4 DEF JudgeAttempt, Verdict
  <2> QED BY <2>1, <2>2, <2>3 DEF ScanInv, Scan
<1>5. CASE PickNext
  <2> DEFINE n == verdict.seen
             best == verdict.best
  <2>1. n \in Nat /\ best \in {0} \cup DOMAIN catalog.models
    BY <1>5 DEF PickNext, TypeInv, AttemptInv, VerdictType
  <2>2. n + 1 \in DOMAIN catalog.models
    BY <1>5, <2>1, CatalogType, LenProperties DEF PickNext
  <2>3. ~Lists(catalog, Requested) /\ BestOf(n, best)
    BY <1>5 DEF PickNext, ScanInv
  <2>4. BestOf(n + 1, BetterOf(n + 1, best))
    BY <2>1, <2>2, <2>3, BestStep
  <2>5. /\ UNCHANGED <<catalog, slot, pc>> /\ pc = "pick"
        /\ verdict' = Scan(n + 1, BetterOf(n + 1, best))
    BY <1>5 DEF PickNext, job
  <2>6. verdict'.seen = n + 1 /\ verdict'.best = BetterOf(n + 1, best)
        /\ verdict'.kind = "scan"
    BY <2>5 DEF Scan
  <2>7. BestOf(verdict.seen, verdict.best)'
    BY <2>4, <2>5, <2>6 DEF BestOf, IsKin, Requested
  <2> QED BY <2>3, <2>5, <2>6, <2>7 DEF ScanInv, Requested
<1>6. CASE PickEnds
  <2>1. /\ UNCHANGED <<catalog, slot>> /\ pc = "pick" /\ pc' = "context"
        /\ verdict.seen = Len(catalog.models)
    BY <1>6 DEF PickEnds, Picked, job
  <2>2. CASE verdict.best = 0
    BY <1>6, <2>1, <2>2 DEF PickEnds, Verdict, ScanInv
  <2>3. CASE verdict.best # 0
    <3>1. /\ verdict' = Verdict("substituted", catalog.models[verdict.best])
          /\ Queue[slot].similarModel
      BY <1>6, <2>3 DEF PickEnds
    <3>2. ~Lists(catalog, Requested) /\ BestOf(Len(catalog.models), verdict.best)
      BY <2>1 DEF ScanInv
    <3>3. verdict.best \in DOMAIN catalog.models
      BY <2>3, <3>2 DEF BestOf
    <3>4. IsBest(catalog.models[verdict.best])
      BY <2>3, <3>1, <3>2, <3>3 DEF IsBest
    <3>5. IsBest(verdict.model)'
      BY <2>1, <3>1, <3>4 DEF IsBest, BestOf, IsKin, Requested, Verdict
    <3> QED BY <2>1, <3>1, <3>5 DEF ScanInv, Verdict
  <2> QED BY <2>2, <2>3
<1>7. CASE GoesOn
  BY <1>1, <1>3, <1>4, <1>5, <1>6, <1>7 DEF GoesOn, Clone, Deepen, ReadContext,
     ResolvePriorReview, PassesStart, PassEnds, CheckReport, FindsNone, DismissNext,
     job, attempt
<1>8. CASE GivesUpSlot \/ Fails \/ FindsItThere \/ Posts
  BY <1>2, <1>8 DEF GivesUpSlot, Fails, FindsItThere, Posts, NextSlot, End, Forget
<1>9. CASE \E p \in Plans : Dispatch(p)
  BY <1>2, <1>9 DEF Dispatch, Forget
<1>10. CASE PullStep \/ UNCHANGED vars
  BY <1>1, <1>10 DEF PullStep, Push, Reset, UserDismisses, vars, job, attempt
<1> QED BY <1>7, <1>8, <1>9, <1>10, KindsOfSteps DEF Next

LEMMA ScanInvariant == Spec => []ScanInv
<1>1. Init => ScanInv
  BY DEF Init, ScanInv, NoVerdict, Scan
<1>2. TypeInv /\ ScanInv /\ [Next]_vars => ScanInv'
  BY ScanStep
<1> QED BY <1>1, <1>2, TypeInvariant, PTL DEF Spec

LEMMA SubstituteIsNewest == TypeInv /\ ScanInv => NewestKinRuns
<1> SUFFICES ASSUME TypeInv, ScanInv, verdict.kind = "substituted"
             PROVE  NewestKinRuns
  BY DEF NewestKinRuns
<1>1. Queue[slot].similarModel /\ ~Lists(catalog, Requested)
  BY DEF ScanInv, IsBest
<1>2. PICK best \in DOMAIN catalog.models :
          /\ verdict.model = catalog.models[best] /\ best # 0
          /\ BestOf(Len(catalog.models), best)
  BY DEF ScanInv, IsBest
<1>3. DOMAIN catalog.models = 1..Len(catalog.models)
      /\ \A i \in DOMAIN catalog.models : catalog.models[i] \in ModelIds
  BY CatalogType, ElementOfSeq, LenProperties
<1>4. SameFamily(Requested.tokens, verdict.model.tokens)
  BY <1>2 DEF BestOf, IsKin
<1>5. ASSUME NEW i \in DOMAIN catalog.models,
             SameFamily(Requested.tokens, catalog.models[i].tokens)
      PROVE  ~Beats(catalog.models[i], verdict.model)
  <2>1. IsKin(catalog.models[i])
    BY <1>1, <1>5 DEF IsKin, Lists
  <2> QED BY <1>2, <1>3, <2>1 DEF BestOf
<1>6. ASSUME NEW i \in DOMAIN catalog.models,
             ~Beats(catalog.models[i], verdict.model)
      PROVE  /\ ~Newer(catalog.models[i].tokens, verdict.model.tokens)
             /\ SameVersion(catalog.models[i].tokens, verdict.model.tokens) =>
                    catalog.models[i].order <= verdict.model.order
  <2>1. catalog.models[i].order \in Nat /\ verdict.model.order \in Nat
    BY <1>2, <1>3 DEF ModelIds
  <2> QED BY <1>6, <2>1 DEF Beats
<1> QED BY <1>1, <1>2, <1>4, <1>5, <1>6 DEF NewestKinRuns

\* A retired model runs as its newest kin of the catalog and no other, in
\* whichever order the catalog lists them.
THEOREM OnlyTheNewestKinRuns == Spec => []NewestKinRuns
  BY SubstituteIsNewest, TypeInvariant, ScanInvariant, PTL

=============================================================================
