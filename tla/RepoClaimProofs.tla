--------------------------- MODULE RepoClaimProofs ---------------------------
(***************************************************************************)
(* Theorems about RepoClaim, for every number of users, requests and       *)
(* installations, overlapping or not, failing or not.                      *)
(***************************************************************************)
EXTENDS RepoClaim, TLAPS

USE DEF Goto, Starts, routeVars, rowVars, githubVars, requestVars, history,
        Steps, EnableSteps, OtherSteps, Someone, Installation, Reading, Kinds

-----------------------------------------------------------------------------
(* Type correctness *)

\* An enable knows its user, and the user a reclaim disables had no access.
EnablerKnown ==
    \A p \in Requests : pc[p] \in EnableSteps => who[p] \in Users

StaleTargets ==
    \A p \in Requests :
        pc[p] \in {"releaseRead", "releaseDelete", "disableHolder"}
            => target[p] \notin writers

IInv == TypeOK /\ EnablerKnown /\ StaleTargets

USE ClaimAssumption DEF IInv, TypeOK, EnablerKnown, StaleTargets

\* The invariant is kept by every step of enableRepo.
LEMMA InvEnable ==
    ASSUME IInv, NEW p \in Requests, Enable(p)
    PROVE  IInv'
<1>1. CASE EnableRepo(p)
  <2>1. PICK user \in Users, t \in Times :
          /\ who' = [who EXCEPT ![p] = user]
          /\ now' = [now EXCEPT ![p] = t]
          /\ readings' = readings \cup {<<user, t>>}
    BY <1>1 DEF EnableRepo
  <2>2. readings' \in SUBSET (Users \X Times)
    BY <2>1
  <2> QED
    BY <1>1, <2>1, <2>2 DEF EnableRepo
<1>2. CASE ClaimRoute(p) \/ RetryClaim(p)
  <2>1. who[p] \in Someone
    OBVIOUS
  <2> QED
    BY <1>2, <2>1 DEF ClaimRoute, RetryClaim, ClaimInsert, InsertRoute, ClaimReadBack
<1>3. CASE RouteHolder(p)
  BY <1>3 DEF RouteHolder
<1>4. CASE CheckHolderAccess(p)
  BY <1>4 DEF CheckHolderAccess
<1>5. CASE ReleaseHolder(p)
  BY <1>5 DEF ReleaseHolder, ReleaseRead, ReleaseDelete, DeleteRouteIf
<1>6. CASE DisableHolder(p)
  BY <1>6 DEF DisableHolder, DeleteEnabledRow
<1>7. CASE EnableRow(p)
  BY <1>7 DEF EnableRow
<1> QED
  BY <1>1, <1>2, <1>3, <1>4, <1>5, <1>6, <1>7 DEF Enable

\* The invariant is kept by the other requests of the Lab.
LEMMA InvLab ==
    ASSUME IInv, NEW p \in Requests,
           DisableRepo(p) \/ CompleteRepoBot(p) \/ DeleteAccount(p)
    PROVE  IInv'
<1>1. CASE DisableRepo(p)
  BY <1>1 DEF DisableRepo, FromEnabled, ReleaseRead, ReleaseDelete, DeleteRouteIf,
              DropRow, DeleteEnabledRow
<1>2. CASE CompleteRepoBot(p)
  <2>1. CASE FromEnabled(p, "bot", "botFetch") \/ FetchInstallation(p)
    BY <2>1 DEF FromEnabled, FetchInstallation
  <2>2. CASE RecordInstallation(p, "botSet", "botRead")
    BY <2>2 DEF RecordInstallation, SetBotInstallation
  <2>3. CASE InstallationReadBack(p, "botRead", "botMark")
    BY <2>3 DEF InstallationReadBack
  <2>4. CASE MarkRepoBotAt(p)
    BY <2>4 DEF MarkRepoBotAt
  <2> QED
    BY <1>2, <2>1, <2>2, <2>3, <2>4 DEF CompleteRepoBot
<1>3. CASE DeleteAccount(p)
  BY <1>3 DEF DeleteAccount, DeleteRouteIf
<1> QED
  BY <1>1, <1>2, <1>3

\* The invariant is kept by lifecycle webhooks, Wakes and their Home runs.
LEMMA InvWebhook ==
    ASSUME IInv, NEW p \in Requests, HandleAppLifecycle(p) \/ Wake(p) \/ Fail(p)
    PROVE  IInv'
<1>1. CASE HandleAppLifecycle(p)
  <2>1. CASE Lifecycle(p)
    BY <2>1 DEF Lifecycle
  <2>2. CASE ReleaseAllForInstallation(p) \/ ReleaseListedRepo(p)
    BY <2>2 DEF ReleaseAllForInstallation, ReleaseListedRepo, DeleteRouteIf
  <2>3. CASE \/ DisableSelected(p, "disableAll", "clearHome")
             \/ DisableSelected(p, "disableListed", "done")
    BY <2>3 DEF DisableSelected, DeleteEnabledRow
  <2>4. CASE ClearInstallation(p)
    BY <2>4 DEF ClearInstallation
  <2> QED
    BY <1>1, <2>1, <2>2, <2>3, <2>4 DEF HandleAppLifecycle
<1>2. CASE Wake(p)
  <2>1. CASE DeliverWake(p)
    BY <2>1 DEF DeliverWake
  <2>2. CASE FindRoute(p)
    BY <2>2 DEF FindRoute
  <2>3. CASE \/ RecordInstallation(p, "backfillOnly", "done")
             \/ RecordInstallation(p, "backfill", "backfillRead")
    BY <2>3 DEF RecordInstallation, SetBotInstallation
  <2>4. CASE InstallationReadBack(p, "backfillRead", "recheck")
    BY <2>4 DEF InstallationReadBack
  <2>5. CASE ClaimRecheck(p) \/ Post(p)
    BY <2>5 DEF ClaimRecheck, Post
  <2> QED
    BY <1>2, <2>1, <2>2, <2>3, <2>4, <2>5 DEF Wake
<1>3. CASE Fail(p)
  BY <1>3 DEF Fail
<1> QED
  BY <1>1, <1>2, <1>3

\* The invariant is kept by GitHub.
LEMMA InvGithub ==
    ASSUME IInv, (\E user \in Users : LoseWrite(user)) \/ Uninstall \/ Install
    PROVE  IInv'
<1>1. CASE \E user \in Users : LoseWrite(user)
  BY <1>1 DEF LoseWrite
<1>2. CASE Uninstall
  <2>1. installed \in Installs
    BY <1>2 DEF Uninstall
  <2>2. PICK kind \in Kinds : events' = events \cup {<<kind, installed>>}
    BY <1>2 DEF Uninstall
  <2>3. <<kind, installed>> \in Kinds \X Installs
    BY <2>1, <2>2
  <2>4. events' \in SUBSET (Kinds \X Installs)
    BY <2>2, <2>3
  <2> QED
    BY <1>2, <2>4 DEF Uninstall
<1>3. CASE Install
  BY <1>3 DEF Install
<1> QED
  BY <1>1, <1>2, <1>3

\* The invariant is kept by every step.
LEMMA InvStep == IInv /\ [Next]_vars => IInv'
<1> SUFFICES ASSUME IInv, [Next]_vars
             PROVE  IInv'
  OBVIOUS
<1>1. CASE UNCHANGED vars
  BY <1>1 DEF vars
<1>2. CASE \E p \in Requests : RequestStep(p)
  <2> HIDE DEF IInv
  <2> QED
    BY <1>2, InvEnable, InvLab, InvWebhook DEF RequestStep
<1>3. CASE (\E user \in Users : LoseWrite(user)) \/ Uninstall \/ Install
  BY <1>3, InvGithub
<1> QED
  BY <1>1, <1>2, <1>3 DEF Next

\* The invariant holds in every reachable state.
LEMMA Invariance == Spec => []IInv
<1>1. Init => IInv
  BY DEF Init
<1> QED
  BY <1>1, InvStep, PTL DEF Spec

\* Every variable keeps its type, however requests interleave and fail; the
\* statements of route-store.ts and enabled-repos.ts never leave a bot
\* timestamp without a row.
THEOREM TypeCorrect == Spec => []TypeOK
<1>1. IInv => TypeOK
  OBVIOUS
<1> QED
  BY <1>1, Invariance, PTL

-----------------------------------------------------------------------------
(* A user with write access is not dispossessed by somebody's enable *)

\* A step of an enable leaves the claim and the row of such a user alone.
LEMMA EnableKeeps ==
    ASSUME IInv, NEW p \in Requests, Enable(p), NEW user \in writers
    PROVE  /\ holder = user => holder' = user
           /\ user \in enabled => user \in enabled'
<1> user # NoOne
  OBVIOUS
<1>1. CASE EnableRepo(p) \/ RouteHolder(p) \/ CheckHolderAccess(p)
  BY <1>1 DEF EnableRepo, RouteHolder, CheckHolderAccess
<1>2. CASE ClaimRoute(p) \/ RetryClaim(p)
  BY <1>2 DEF ClaimRoute, RetryClaim, ClaimInsert, InsertRoute, ClaimReadBack
<1>3. CASE ReleaseHolder(p)
  BY <1>3 DEF ReleaseHolder, ReleaseRead, ReleaseDelete, DeleteRouteIf
<1>4. CASE DisableHolder(p)
  BY <1>4 DEF DisableHolder, DeleteEnabledRow
<1>5. CASE EnableRow(p)
  BY <1>5 DEF EnableRow
<1> QED
  BY <1>1, <1>2, <1>3, <1>4, <1>5 DEF Enable

\* The other requests do not move an enable, unless it fails.
LEMMA OthersDoNotEnable ==
    ASSUME IInv, NEW p \in Requests, NEW q \in Requests,
           pc[q] \in EnableSteps, pc'[q] # pc[q],
           \/ DisableRepo(p) \/ CompleteRepoBot(p) \/ DeleteAccount(p)
           \/ HandleAppLifecycle(p) \/ Wake(p) \/ Fail(p)
    PROVE  Fail(q)
<1>1. CASE DisableRepo(p)
  BY <1>1 DEF DisableRepo, FromEnabled, ReleaseRead, ReleaseDelete, DropRow
<1>2. CASE CompleteRepoBot(p)
  BY <1>2 DEF CompleteRepoBot, FromEnabled, FetchInstallation, RecordInstallation,
              InstallationReadBack, MarkRepoBotAt
<1>3. CASE DeleteAccount(p)
  BY <1>3 DEF DeleteAccount
<1>4. CASE HandleAppLifecycle(p)
  BY <1>4 DEF HandleAppLifecycle, Lifecycle, ReleaseAllForInstallation,
              ReleaseListedRepo, DisableSelected, ClearInstallation
<1>5. CASE Wake(p)
  BY <1>5 DEF Wake, DeliverWake, FindRoute, RecordInstallation,
              InstallationReadBack, ClaimRecheck, Post
<1>6. CASE Fail(p)
  BY <1>6 DEF Fail
<1> QED
  BY <1>1, <1>2, <1>3, <1>4, <1>5, <1>6

\* takeRepoClaim takes neither the claim nor the Dashboard row from a user who
\* has had write access all along, whatever it read before.
THEOREM WriterKeepsClaimAlways == Spec => WriterKeepsClaim
<1> DEFINE Keeps == \A user \in writers :
          EnableMoves => /\ holder = user => holder' = user
                         /\ user \in enabled => user \in enabled'
<1>1. ASSUME IInv, [Next]_vars
      PROVE  Keeps
  <2> USE <1>1
  <2> HIDE DEF IInv
  <2> SUFFICES ASSUME NEW user \in writers, EnableMoves
               PROVE  /\ holder = user => holder' = user
                      /\ user \in enabled => user \in enabled'
    OBVIOUS
  <2>1. PICK q \in Requests : pc[q] \in EnableSteps /\ pc'[q] # pc[q]
    BY DEF EnableMoves
  <2>2. CASE \E p \in Requests : Enable(p)
    BY <2>2, EnableKeeps
  <2>3. CASE \E p \in Requests :
                \/ DisableRepo(p) \/ CompleteRepoBot(p) \/ DeleteAccount(p)
                \/ HandleAppLifecycle(p) \/ Wake(p) \/ Fail(p)
    <3>1. Fail(q)
      BY <2>1, <2>3, OthersDoNotEnable
    <3> QED
      BY <3>1 DEF Fail
  <2>4. CASE (\E u \in Users : LoseWrite(u)) \/ Uninstall \/ Install
    BY <2>4 DEF LoseWrite, Uninstall, Install
  <2>5. CASE UNCHANGED vars
    BY <2>5 DEF vars
  <2> QED
    BY <1>1, <2>2, <2>3, <2>4, <2>5 DEF Next, RequestStep
<1> QED
  BY <1>1, Invariance, PTL DEF Spec, WriterKeepsClaim

-----------------------------------------------------------------------------
(* A claim that moved is seen, unless two enables read the same Date.now() *)

\* The requests that carry a generation: the one an enable will write, or the
\* one a dispatch was given.
Carrying == EnableSteps \cup {"backfill", "backfillRead", "recheck"}

\* The generation of a claim, and the one a request carries for its user, were
\* read by an enable of that user.
HeldToken == holder # NoOne => <<holder, generation>> \in readings

CarriedTokens ==
    \A p \in Requests : pc[p] \in Carrying => <<who[p], now[p]>> \in readings

Tokens == HeldToken /\ CarriedTokens

USE DEF Tokens, HeldToken, CarriedTokens, Carrying

\* The tokens are known in every step of enableRepo.
LEMMA TokensEnable ==
    ASSUME IInv, Tokens, NEW p \in Requests, Enable(p)
    PROVE  Tokens'
<1>1. CASE EnableRepo(p)
  <2>1. PICK user \in Users, t \in Times :
          /\ who' = [who EXCEPT ![p] = user]
          /\ now' = [now EXCEPT ![p] = t]
          /\ readings' = readings \cup {<<user, t>>}
    BY <1>1 DEF EnableRepo
  <2> QED
    BY <1>1, <2>1 DEF EnableRepo
<1>2. CASE \/ ClaimInsert(p, "claim", "claimRead")
           \/ ClaimInsert(p, "retry", "retryRead")
  BY <1>2 DEF ClaimInsert, InsertRoute
<1>3. CASE \/ ClaimReadBack(p, "claimRead", "holder")
           \/ ClaimReadBack(p, "retryRead", "done")
  BY <1>3 DEF ClaimReadBack
<1>4. CASE RouteHolder(p) \/ CheckHolderAccess(p)
  BY <1>4 DEF RouteHolder, CheckHolderAccess
<1>5. CASE ReleaseHolder(p)
  BY <1>5 DEF ReleaseHolder, ReleaseRead, ReleaseDelete, DeleteRouteIf
<1>6. CASE DisableHolder(p) \/ EnableRow(p)
  BY <1>6 DEF DisableHolder, EnableRow
<1> QED
  BY <1>1, <1>2, <1>3, <1>4, <1>5, <1>6 DEF Enable, ClaimRoute, RetryClaim

\* The tokens are known in the other requests of the Lab.
LEMMA TokensLab ==
    ASSUME IInv, Tokens, NEW p \in Requests,
           DisableRepo(p) \/ CompleteRepoBot(p) \/ DeleteAccount(p)
    PROVE  Tokens'
<1>1. CASE DisableRepo(p)
  BY <1>1 DEF DisableRepo, FromEnabled, ReleaseRead, ReleaseDelete, DeleteRouteIf,
              DropRow
<1>2. CASE CompleteRepoBot(p)
  BY <1>2 DEF CompleteRepoBot, FromEnabled, FetchInstallation, RecordInstallation,
              SetBotInstallation, InstallationReadBack, MarkRepoBotAt
<1>3. CASE DeleteAccount(p)
  BY <1>3 DEF DeleteAccount, DeleteRouteIf
<1> QED
  BY <1>1, <1>2, <1>3

\* The tokens are known in lifecycle webhooks, Wakes and Home runs.
LEMMA TokensWebhook ==
    ASSUME IInv, Tokens, NEW p \in Requests,
           HandleAppLifecycle(p) \/ Wake(p) \/ Fail(p)
    PROVE  Tokens'
<1>1. CASE HandleAppLifecycle(p)
  BY <1>1 DEF HandleAppLifecycle, Lifecycle, ReleaseAllForInstallation,
              ReleaseListedRepo, DeleteRouteIf, DisableSelected, ClearInstallation
<1>2. CASE Wake(p)
  <2>1. CASE FindRoute(p)
    BY <2>1 DEF FindRoute, RouteDispatches
  <2>2. CASE DeliverWake(p) \/ ClaimRecheck(p) \/ Post(p)
    BY <2>2 DEF DeliverWake, ClaimRecheck, Post
  <2>3. CASE \/ RecordInstallation(p, "backfillOnly", "done")
             \/ RecordInstallation(p, "backfill", "backfillRead")
             \/ InstallationReadBack(p, "backfillRead", "recheck")
    BY <2>3 DEF RecordInstallation, SetBotInstallation, InstallationReadBack
  <2> QED
    BY <1>2, <2>1, <2>2, <2>3 DEF Wake
<1>3. CASE Fail(p)
  BY <1>3 DEF Fail
<1> QED
  BY <1>1, <1>2, <1>3

\* The tokens are known in every step.
LEMMA TokensStep == IInv /\ Tokens /\ [Next]_vars => Tokens'
<1> SUFFICES ASSUME IInv, Tokens, [Next]_vars
             PROVE  Tokens'
  OBVIOUS
<1>1. CASE UNCHANGED vars
  BY <1>1 DEF vars
<1>2. CASE \E p \in Requests : RequestStep(p)
  <2> HIDE DEF IInv, Tokens
  <2> QED
    BY <1>2, TokensEnable, TokensLab, TokensWebhook DEF RequestStep
<1>3. CASE (\E user \in Users : LoseWrite(user)) \/ Uninstall \/ Install
  BY <1>3 DEF LoseWrite, Uninstall, Install
<1> QED
  BY <1>1, <1>2, <1>3 DEF Next

\* A request that passes the recheck compared its generation with the claim's.
LEMMA PostsHeld ==
    ASSUME IInv, Tokens, [Next]_vars, NEW p \in Requests,
           pc[p] = "recheck", pc'[p] = "post"
    PROVE  {<<holder, generation>>, <<who[p], generation>>} \subseteq readings
<1>1. ClaimRecheck(p) =>
          {<<holder, generation>>, <<who[p], generation>>} \subseteq readings
  BY DEF ClaimRecheck, ClaimStillHolds, RouteDispatches
<1>2. ASSUME NEW q \in Requests, RequestStep(q)
      PROVE  ClaimRecheck(p)
  <2>1. CASE Enable(q)
    BY <2>1 DEF Enable, EnableRepo, ClaimRoute, ClaimInsert, ClaimReadBack,
                RouteHolder, CheckHolderAccess, ReleaseHolder, ReleaseRead,
                ReleaseDelete, DisableHolder, RetryClaim, EnableRow
  <2>2. CASE DisableRepo(q) \/ CompleteRepoBot(q) \/ DeleteAccount(q)
    BY <2>2 DEF DisableRepo, FromEnabled, ReleaseRead, ReleaseDelete, DropRow,
                CompleteRepoBot, FetchInstallation, RecordInstallation,
                InstallationReadBack, MarkRepoBotAt, DeleteAccount
  <2>3. CASE HandleAppLifecycle(q)
    BY <2>3 DEF HandleAppLifecycle, Lifecycle, ReleaseAllForInstallation,
                ReleaseListedRepo, DisableSelected, ClearInstallation
  <2>4. CASE Wake(q) \/ Fail(q)
    BY <2>4 DEF Wake, DeliverWake, FindRoute, RecordInstallation,
                InstallationReadBack, ClaimRecheck, Post, Fail
  <2> QED
    BY <1>2, <2>1, <2>2, <2>3, <2>4 DEF RequestStep
<1>3. ~UNCHANGED vars
  BY DEF vars
<1>4. ~((\E user \in Users : LoseWrite(user)) \/ Uninstall \/ Install)
  BY DEF LoseWrite, Uninstall, Install
<1> QED
  BY <1>1, <1>2, <1>3, <1>4 DEF Next

\* A Home run whose recheck holds was dispatched for the user who holds the
\* claim now, unless an enable of each of the two read the very same Date.now(),
\* the generation of the claim; the readings need not grow or differ.
THEOREM ForeignRunNeverPostsAlways == Spec => ForeignRunNeverPosts
<1> DEFINE Held == \A p \in Requests :
                     (pc[p] = "recheck" /\ pc'[p] = "post") =>
                         \/ holder = who[p]
                         \/ {<<holder, generation>>, <<who[p], generation>>}
                                \subseteq readings
<1>1. Init => Tokens
  BY DEF Init
<1>2. IInv /\ Tokens /\ [Next]_vars => Tokens'
  BY TokensStep
<1>3. IInv /\ Tokens /\ [Next]_vars => Held
  <2> HIDE DEF IInv, Tokens
  <2> QED
    BY PostsHeld
<1> QED
  BY <1>1, <1>2, <1>3, Invariance, PTL DEF Spec, ForeignRunNeverPosts

-----------------------------------------------------------------------------
(* One request after the other: Dashboard and claim agree *)

HIDE DEF Tokens, HeldToken, CarriedTokens, Carrying

\* The Dashboard shows the repo to the holder and to nobody else.
Matched ==
    /\ enabled = {holder} \ {NoOne}
    /\ botAt # {} => botInstallation # NoOne

Ended == {"idle", "done"}
Alone(p) == \A q \in Requests : q # p => pc[q] \in Ended

\* The claim was taken and its row is not there yet, or the other way round.
JustClaimed(user) == holder = user /\ user # NoOne /\ enabled = {} /\ botAt = {}
JustReleased(user) == holder = NoOne /\ user # NoOne /\ enabled = {user}

\* Where claim and row stand at each step of a request no other disturbs.
Progress(p) ==
    /\ pc[p] \in Ended \cup {"claim", "holder", "check", "releaseRead", "releaseDelete",
                             "dropRead", "dropDelete", "botFetch", "botSet", "botRead",
                             "botMark", "deleted", "removed", "clearHome", "find", "backfill",
                             "backfillRead", "backfillOnly", "recheck", "post"} => Matched
    /\ pc[p] = "claimRead" => JustClaimed(who[p]) \/ (Matched /\ holder # NoOne)
    /\ pc[p] = "holder" => holder # NoOne
    /\ pc[p] \in {"check", "releaseRead", "releaseDelete"} =>
          target[p] = holder /\ holder # NoOne
    /\ pc[p] = "disableHolder" => JustReleased(target[p])
    /\ pc[p] = "retry" => Matched /\ holder = NoOne
    /\ pc[p] = "retryRead" => JustClaimed(who[p])
    /\ pc[p] = "enableRow" =>
          JustClaimed(who[p]) \/ (Matched /\ holder = who[p] /\ holder # NoOne)
    /\ pc[p] \in {"dropRead", "dropDelete", "botFetch", "botSet", "botRead", "botMark"} =>
          who[p] = holder /\ holder # NoOne
    /\ pc[p] = "dropRow" => JustReleased(who[p])
    /\ pc[p] \in {"botSet", "find", "backfill", "backfillOnly", "deleted", "removed"} =>
          subject[p] # NoOne
    /\ pc[p] \in {"botRead", "botMark"} => botInstallation # NoOne
    /\ pc[p] \in {"deleted", "removed"} =>
          target[p] = IF botInstallation = subject[p] THEN holder ELSE NoOne
    /\ pc[p] \in {"disableAll", "disableListed"} =>
          JustReleased(target[p]) \/ (Matched /\ target[p] = NoOne)

Orderly ==
    /\ \A p \in Requests : pc[p] \notin Ended => Alone(p)
    /\ \A p \in Requests : Alone(p) => Progress(p)
    /\ Quiet => Matched
    /\ holder = NoOne => botInstallation = NoOne

SerialInv == traffic = "calm" => Orderly

USE DEF Matched, Ended, Alone, JustClaimed, JustReleased, Progress

\* A request that enables keeps claim and row in step.
LEMMA ProgressEnable ==
    ASSUME IInv, Orderly, NEW p \in Requests, Progress(p), Enable(p)
    PROVE  Progress(p)' /\ (holder = NoOne => botInstallation = NoOne)'
<1>0. holder = NoOne => botInstallation = NoOne
  BY DEF Orderly
<1>1. CASE EnableRepo(p)
  BY <1>0, <1>1 DEF EnableRepo
<1>2. CASE \/ ClaimInsert(p, "claim", "claimRead")
           \/ ClaimInsert(p, "retry", "retryRead")
  BY <1>0, <1>2 DEF ClaimInsert, InsertRoute
<1>3. CASE \/ ClaimReadBack(p, "claimRead", "holder")
           \/ ClaimReadBack(p, "retryRead", "done")
  BY <1>0, <1>3 DEF ClaimReadBack
<1>4. CASE RouteHolder(p)
  BY <1>0, <1>4 DEF RouteHolder
<1>5. CASE CheckHolderAccess(p)
  BY <1>0, <1>5 DEF CheckHolderAccess
<1>6. CASE ReleaseHolder(p)
  BY <1>0, <1>6 DEF ReleaseHolder, ReleaseRead, ReleaseDelete, DeleteRouteIf
<1>7. CASE DisableHolder(p)
  BY <1>0, <1>7 DEF DisableHolder, DeleteEnabledRow
<1>8. CASE EnableRow(p)
  BY <1>0, <1>8 DEF EnableRow
<1> QED
  BY <1>1, <1>2, <1>3, <1>4, <1>5, <1>6, <1>7, <1>8 DEF Enable, ClaimRoute, RetryClaim

\* So do the other requests of the Lab.
LEMMA ProgressLab ==
    ASSUME IInv, Orderly, NEW p \in Requests, Progress(p),
           DisableRepo(p) \/ CompleteRepoBot(p) \/ DeleteAccount(p)
    PROVE  Progress(p)' /\ (holder = NoOne => botInstallation = NoOne)'
<1>0. holder = NoOne => botInstallation = NoOne
  BY DEF Orderly
<1>1. CASE DisableRepo(p)
  BY <1>0, <1>1 DEF DisableRepo, FromEnabled, ReleaseRead, ReleaseDelete, DeleteRouteIf,
                    DropRow, DeleteEnabledRow
<1>2. CASE CompleteRepoBot(p)
  <2>1. CASE FromEnabled(p, "bot", "botFetch")
    BY <1>0, <2>1 DEF FromEnabled
  <2>2. CASE FetchInstallation(p)
    BY <1>0, <2>2 DEF FetchInstallation
  <2>3. CASE \/ RecordInstallation(p, "botSet", "botRead")
             \/ InstallationReadBack(p, "botRead", "botMark")
    BY <1>0, <2>3 DEF RecordInstallation, SetBotInstallation, InstallationReadBack
  <2>4. CASE MarkRepoBotAt(p)
    BY <1>0, <2>4 DEF MarkRepoBotAt
  <2> QED
    BY <1>2, <2>1, <2>2, <2>3, <2>4 DEF CompleteRepoBot
<1>3. CASE DeleteAccount(p)
  BY <1>0, <1>3 DEF DeleteAccount, DeleteRouteIf
<1> QED
  BY <1>1, <1>2, <1>3

\* So do lifecycle webhooks, Wakes and their Home runs, unless one fails.
LEMMA ProgressWebhook ==
    ASSUME IInv, Orderly, NEW p \in Requests, Progress(p),
           HandleAppLifecycle(p) \/ Wake(p)
    PROVE  Progress(p)' /\ (holder = NoOne => botInstallation = NoOne)'
<1>0. holder = NoOne => botInstallation = NoOne
  BY DEF Orderly
<1>1. CASE HandleAppLifecycle(p)
  <2>1. CASE Lifecycle(p)
    BY <1>0, <2>1 DEF Lifecycle
  <2>2. CASE ReleaseAllForInstallation(p) \/ ReleaseListedRepo(p)
    BY <1>0, <2>2 DEF ReleaseAllForInstallation, ReleaseListedRepo, DeleteRouteIf
  <2>3. CASE \/ DisableSelected(p, "disableAll", "clearHome")
             \/ DisableSelected(p, "disableListed", "done")
    BY <1>0, <2>3 DEF DisableSelected, DeleteEnabledRow
  <2>4. CASE ClearInstallation(p)
    BY <1>0, <2>4 DEF ClearInstallation
  <2> QED
    BY <1>1, <2>1, <2>2, <2>3, <2>4 DEF HandleAppLifecycle
<1>2. CASE Wake(p)
  <2>1. CASE DeliverWake(p)
    BY <1>0, <2>1 DEF DeliverWake
  <2>2. CASE FindRoute(p)
    BY <1>0, <2>2 DEF FindRoute
  <2>3. CASE \/ RecordInstallation(p, "backfillOnly", "done")
             \/ RecordInstallation(p, "backfill", "backfillRead")
    BY <1>0, <2>3 DEF RecordInstallation, SetBotInstallation
  <2>4. CASE InstallationReadBack(p, "backfillRead", "recheck")
    BY <1>0, <2>4 DEF InstallationReadBack
  <2>5. CASE ClaimRecheck(p) \/ Post(p)
    BY <1>0, <2>5 DEF ClaimRecheck, Post
  <2> QED
    BY <1>2, <2>1, <2>2, <2>3, <2>4, <2>5 DEF Wake
<1> QED
  BY <1>1, <1>2

\* A request moves itself only, and starts calmly only when the others are over.
LEMMA OneMoves ==
    ASSUME IInv, NEW p \in Requests,
           \/ Enable(p) \/ DisableRepo(p) \/ CompleteRepoBot(p) \/ DeleteAccount(p)
           \/ HandleAppLifecycle(p) \/ Wake(p)
    PROVE  /\ \A q \in Requests : q # p => pc'[q] = pc[q]
           /\ pc[p] # "done" /\ (pc[p] = "idle" /\ traffic' = "calm" => Alone(p))
           /\ traffic' = "calm" => traffic = "calm"
<1>1. CASE Enable(p)
  BY <1>1 DEF Quiet, Enable, EnableRepo, ClaimRoute, ClaimInsert, ClaimReadBack,
              RouteHolder, CheckHolderAccess, ReleaseHolder, ReleaseRead,
              ReleaseDelete, DisableHolder, RetryClaim, EnableRow
<1>2. CASE DisableRepo(p)
  BY <1>2 DEF Quiet, DisableRepo, FromEnabled, ReleaseRead, ReleaseDelete, DropRow
<1>3. CASE CompleteRepoBot(p)
  BY <1>3 DEF Quiet, CompleteRepoBot, FromEnabled, FetchInstallation, RecordInstallation,
              InstallationReadBack, MarkRepoBotAt
<1>4. CASE DeleteAccount(p)
  BY <1>4 DEF Quiet, DeleteAccount
<1>5. CASE HandleAppLifecycle(p)
  BY <1>5 DEF Quiet, HandleAppLifecycle, Lifecycle, ReleaseAllForInstallation,
              ReleaseListedRepo, DisableSelected, ClearInstallation
<1>6. CASE Wake(p)
  BY <1>6 DEF Quiet, Wake, DeliverWake, FindRoute, RecordInstallation,
              InstallationReadBack, ClaimRecheck, Post
<1> QED
  BY <1>1, <1>2, <1>3, <1>4, <1>5, <1>6

\* Claim and row stay in step while requests neither overlap nor fail.
LEMMA SerialStep ==
    ASSUME IInv, SerialInv, [Next]_vars
    PROVE  SerialInv'
<1> HIDE DEF Progress, Matched, IInv
<1>1. ASSUME NEW p \in Requests, RequestStep(p) PROVE SerialInv'
  <2> SUFFICES ASSUME traffic' = "calm" PROVE Orderly'
    BY DEF SerialInv
  <2>1. \/ Enable(p) \/ DisableRepo(p) \/ CompleteRepoBot(p) \/ DeleteAccount(p)
        \/ HandleAppLifecycle(p) \/ Wake(p)
    BY <1>1 DEF RequestStep, Fail
  <2>2. /\ \A q \in Requests : q # p => pc'[q] = pc[q]
        /\ pc[p] # "done" /\ (pc[p] = "idle" => Alone(p))
        /\ Orderly
    BY <2>1, OneMoves DEF SerialInv
  <2>3. Alone(p)
    BY <2>2 DEF Orderly
  <2>4. Progress(p)
    BY <2>2, <2>3 DEF Orderly
  <2>5. Progress(p)' /\ (holder = NoOne => botInstallation = NoOne)'
    BY <2>1, <2>2, <2>4, ProgressEnable, ProgressLab, ProgressWebhook
  <2>6. pc'[p] \in Ended => Matched'
    BY <2>5 DEF Progress
  <2>7. ASSUME NEW q \in Requests, pc'[q] \notin Ended PROVE Alone(q)'
    BY <2>2, <2>3, <2>7
  <2>8. ASSUME NEW q \in Requests, Alone(q)' PROVE Progress(q)'
    <3>1. CASE q = p
      BY <2>5, <3>1
    <3>2. CASE q # p
      <4>1. pc'[p] \in Ended /\ pc'[q] \in Ended
        BY <2>2, <2>3, <2>8, <3>2
      <4> QED
        BY <2>6, <4>1 DEF Progress
    <3> QED
      BY <3>1, <3>2
  <2>9. Quiet' => Matched'
    BY <2>6 DEF Quiet
  <2> QED
    BY <2>5, <2>7, <2>8, <2>9 DEF Orderly
<1>2. ASSUME \/ (\E user \in Users : LoseWrite(user)) \/ Uninstall \/ Install
             \/ UNCHANGED vars
      PROVE  SerialInv'
  <2>1. UNCHANGED <<routeVars, enabled, botAt, pc, who, target, subject, traffic>>
    BY <1>2 DEF LoseWrite, Uninstall, Install, vars
  <2>2. ASSUME NEW p \in Requests, Progress(p) PROVE Progress(p)'
    BY <2>1, <2>2 DEF Progress, Matched
  <2>3. Matched => Matched'
    BY <2>1 DEF Matched
  <2> QED
    BY <2>1, <2>2, <2>3 DEF SerialInv, Orderly, Quiet
<1> QED
  BY <1>1, <1>2 DEF Next

\* As long as no two requests overlapped and none failed, the Dashboard shows the
\* repo to the holder of the claim and to nobody else, and the bot only where an
\* uninstall would find the claim, whatever was enabled, reclaimed, disabled,
\* confirmed, deleted or uninstalled before.
THEOREM DashboardMatchesClaimAlways == Spec => []DashboardMatchesClaim
<1>1. Init => SerialInv
  BY DEF Init, SerialInv, Orderly
<1>2. IInv /\ SerialInv /\ [Next]_vars => SerialInv'
  BY SerialStep
<1>3. SerialInv => DashboardMatchesClaim
  BY DEF SerialInv, Orderly, DashboardMatchesClaim
<1> QED
  BY <1>1, <1>2, <1>3, Invariance, PTL DEF Spec
=============================================================================
