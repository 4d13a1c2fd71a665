----------------------------- MODULE RepoClaim -----------------------------
(***************************************************************************)
(* The claim on one consumer repository: who receives its Wakes.           *)
(*                                                                         *)
(* The claim is a row of repo_routes (holder, generation, bot installation)*)
(* and the Dashboard's list is a row of enabled_repos per user.  They are  *)
(* written, one D1 statement at a time, by                                 *)
(*   - Lab requests: enable (with the reclaim of a stale claim), disable,  *)
(*     bot confirm and account deletion (apps/web/src/web-app);            *)
(*   - the webhook: App uninstall, repositories removed, and the backfill  *)
(*     of the installation id on every Wake (apps/web/src/wake);           *)
(* and read by the Home run, which compares the generation its dispatch    *)
(* carries with the one of /api/claim-status before it posts.              *)
(*                                                                         *)
(* Each request is a process of its own that makes one operation and ends; *)
(* between two of its awaits any other request may run.  generation keeps  *)
(* its last value while there is no row, as a record of the last claim.    *)
(*                                                                         *)
(* A generation is a bare Date.now() (route-store.ts): nothing orders the  *)
(* readings of different Workers, two of them may be equal, and the code   *)
(* only compares generations for equality.  Times are the readings.        *)
(***************************************************************************)

CONSTANTS
    Users,          \* GitHub users signed in to the Lab
    Requests,       \* Lab requests, webhook deliveries and Home runs
    Installs,       \* installation ids GitHub gives to the Hosted bot App
    Times,          \* the readings of Date.now()
    NoOne,          \* no user, no installation and no reading
    Operations,     \* the operations the requests may be
    Faults          \* {"call"} when a call to D1 or GitHub may fail

AllOperations ==
    {"enable", "disable", "bot", "delete-account", "lifecycle", "wake"}

ASSUME ClaimAssumption ==
    /\ NoOne \notin Users \cup Installs \cup Times
    /\ Operations \subseteq AllOperations
    /\ Faults \subseteq {"call"}

VARIABLES
    holder,             \* repo_routes.github_user_id, NoOne when there is no row
    generation,         \* repo_routes.generation
    botInstallation,    \* repo_routes.bot_installation_id
    enabled,            \* the users with an enabled_repos row for the repo
    botAt,              \* those of them whose row has bot_at
    homeInstallation,   \* home_repos.installation_id by user
    writers,            \* the users who have had write access all along
    installed,          \* the installation that covers the repo
    events,             \* lifecycle events GitHub has sent, and may send again
    pc,                 \* the next step of each request
    who,                \* its user; of a Wake and its Home run, the claim's holder
    now,                \* the `now` of an enable; the generation of a dispatch
    target,             \* the user a reclaim or a lifecycle event disables
    subject             \* the installation of a bot confirm, Wake or lifecycle event

\* What happened so far, which only the properties look at.
VARIABLES
    readings,           \* who began an enable at which reading of Date.now()
    traffic             \* "calm" until two requests overlap or one fails, then "rough"

routeVars   == <<holder, generation, botInstallation>>
rowVars     == <<enabled, botAt, homeInstallation>>
githubVars  == <<writers, installed, events>>
requestVars == <<who, now, target, subject>>
history     == <<readings, traffic>>
vars == <<routeVars, rowVars, githubVars, pc, requestVars, history>>

-----------------------------------------------------------------------------
(* Values *)

EnableSteps ==
    {"claim", "claimRead", "holder", "check", "releaseRead", "releaseDelete",
     "disableHolder", "retry", "retryRead", "enableRow"}

OtherSteps ==
    {"dropRead", "dropDelete", "dropRow", "botFetch", "botSet", "botRead", "botMark",
     "deleted", "disableAll", "clearHome", "removed", "disableListed",
     "find", "backfill", "backfillRead", "backfillOnly", "recheck", "post"}

Steps == {"idle", "done"} \cup EnableSteps \cup OtherSteps

Someone == Users \cup {NoOne}
Installation == Installs \cup {NoOne}
Reading == Times \cup {NoOne}
Kinds == {"deleted", "removed"}

Goto(p, from, to) == pc[p] = from /\ pc' = [pc EXCEPT ![p] = to]

Quiet == \A p \in Requests : pc[p] \in {"idle", "done"}

\* An operation starts, while the others are over or on their way.
Starts(p, operation) ==
    /\ operation \in Operations
    /\ pc[p] = "idle"
    /\ \/ Quiet /\ traffic' = traffic
       \/ ~Quiet /\ traffic' = "rough"

\* findWakeRoute: repo_routes joined with the holder's enabled_repos and
\* home_repos; wakeWouldDispatch: both are there.
RouteDispatches ==
    /\ holder \in enabled
    /\ homeInstallation[holder] # NoOne

\* An App that is uninstalled keeps its id on the claim until told otherwise.
Init ==
    /\ holder = NoOne
    /\ generation = NoOne
    /\ botInstallation = NoOne
    /\ enabled = {}
    /\ botAt = {}
    /\ homeInstallation \in [Users -> Installation]
    /\ writers \in SUBSET Users
    /\ installed \in Installation
    /\ events = {}
    /\ pc = [p \in Requests |-> "idle"]
    /\ who = [p \in Requests |-> NoOne]
    /\ now = [p \in Requests |-> NoOne]
    /\ target = [p \in Requests |-> NoOne]
    /\ subject = [p \in Requests |-> NoOne]
    /\ readings = {}
    /\ traffic = "calm"

-----------------------------------------------------------------------------
(* The statements of the route store and of the enabled repos store *)

\* INSERT ... ON CONFLICT DO NOTHING of claimRoute.
InsertRoute(user, at) ==
    IF holder = NoOne
    THEN /\ holder' = user
         /\ generation' = at
         /\ botInstallation' = NoOne
    ELSE UNCHANGED routeVars

\* DELETE of the route when the condition holds.
DeleteRouteIf(condition) ==
    /\ holder' = IF condition THEN NoOne ELSE holder
    /\ botInstallation' = IF condition THEN NoOne ELSE botInstallation
    /\ UNCHANGED generation

\* UPDATE ... SET bot_installation_id WHERE repo_id: whoever the holder is.
SetBotInstallation(installation) ==
    /\ botInstallation' = IF holder = NoOne THEN NoOne ELSE installation
    /\ UNCHANGED <<holder, generation>>

\* disableRepo of the vault store; the repo's model list goes with the row.
DeleteEnabledRow(user) ==
    /\ enabled' = enabled \ {user}
    /\ botAt' = botAt \ {user}
    /\ UNCHANGED homeInstallation

-----------------------------------------------------------------------------
(* enableRepo: write access, claim (or reclaim), enabled row *)

\* enablerWriteAccessFromSession, then Date.now().  A user who is not in
\* writers may still have write access now.
EnableRepo(p) ==
    /\ Starts(p, "enable")
    /\ \E user \in Users, t \in Times :
          /\ who' = [who EXCEPT ![p] = user]
          /\ now' = [now EXCEPT ![p] = t]
          /\ readings' = readings \cup {<<user, t>>}
    /\ pc' = [pc EXCEPT ![p] = "claim"]
    /\ UNCHANGED <<routeVars, rowVars, githubVars, target, subject>>

\* claimRoute, the insert.
ClaimInsert(p, from, to) ==
    /\ Goto(p, from, to)
    /\ InsertRoute(who[p], now[p])
    /\ UNCHANGED <<rowVars, githubVars, requestVars, history>>

\* claimRoute, the read back: claimed, held by another, or gone again.
ClaimReadBack(p, from, ifHeld) ==
    /\ pc[p] = from
    /\ pc' = [pc EXCEPT ![p] = CASE holder = who[p] -> "enableRow"
                                 [] holder = NoOne  -> "done"
                                 [] OTHER           -> ifHeld]
    /\ UNCHANGED <<routeVars, rowVars, githubVars, requestVars, history>>

ClaimRoute(p) ==
    ClaimInsert(p, "claim", "claimRead") \/ ClaimReadBack(p, "claimRead", "holder")

\* finishClaimOrReclaim reads the holder once more.
RouteHolder(p) ==
    /\ pc[p] = "holder"
    /\ target' = [target EXCEPT ![p] = holder]
    /\ pc' = [pc EXCEPT ![p] = IF holder = NoOne THEN "retry" ELSE "check"]
    /\ UNCHANGED <<routeVars, rowVars, githubVars, history, who, now, subject>>

\* checkHolderAccess: only a plain "no access" goes on to the reclaim.
CheckHolderAccess(p) ==
    /\ \/ Goto(p, "check", "done")
       \/ target[p] \notin writers /\ Goto(p, "check", "releaseRead")
    /\ UNCHANGED <<routeVars, rowVars, githubVars, requestVars, history>>

\* releaseRoute: nothing to delete when the user holds nothing, and the DELETE
\* names the user again (ReleaseDelete).
ReleaseRead(p, user, from, delete, next) ==
    /\ pc[p] = from
    /\ pc' = [pc EXCEPT ![p] = IF holder = user THEN delete ELSE next]
    /\ UNCHANGED <<routeVars, rowVars, githubVars, requestVars, history>>

\* A variant whose DELETE names the repo and not the user.
ReleaseByRepo(p, user, from, next) ==
    /\ Goto(p, from, next)
    /\ DeleteRouteIf(TRUE)
    /\ UNCHANGED <<rowVars, githubVars, requestVars, history>>

ReleaseDelete(p, user, from, next) ==
    /\ Goto(p, from, next)
    /\ DeleteRouteIf(holder = user)
    /\ UNCHANGED <<rowVars, githubVars, requestVars, history>>

ReleaseHolder(p) ==
    \/ ReleaseRead(p, target[p], "releaseRead", "releaseDelete", "disableHolder")
    \/ ReleaseDelete(p, target[p], "releaseDelete", "disableHolder")

\* A variant of the reclaim that leaves the former holder's row.
KeepHolderEnabled(p) ==
    /\ Goto(p, "disableHolder", "retry")
    /\ UNCHANGED <<routeVars, rowVars, githubVars, requestVars, history>>

DisableHolder(p) ==
    /\ Goto(p, "disableHolder", "retry")
    /\ DeleteEnabledRow(target[p])
    /\ UNCHANGED <<routeVars, githubVars, requestVars, history>>

\* retryClaim, with the `now` of the first attempt.
RetryClaim(p) ==
    ClaimInsert(p, "retry", "retryRead") \/ ClaimReadBack(p, "retryRead", "done")

\* enableRepo of the vault store: insert or keep the row.
EnableRow(p) ==
    /\ Goto(p, "enableRow", "done")
    /\ enabled' = enabled \cup {who[p]}
    /\ UNCHANGED <<routeVars, botAt, homeInstallation, githubVars, requestVars, history>>

-----------------------------------------------------------------------------
(* disableRepo, completeRepoBot, deleteAccount *)

\* repoFromEnabled: the operation needs the user's enabled row.
FromEnabled(p, operation, first) ==
    /\ Starts(p, operation)
    /\ \E user \in enabled : who' = [who EXCEPT ![p] = user]
    /\ pc' = [pc EXCEPT ![p] = first]
    /\ UNCHANGED <<routeVars, rowVars, githubVars, readings, now, target, subject>>

DropRow(p) ==
    /\ Goto(p, "dropRow", "done")
    /\ DeleteEnabledRow(who[p])
    /\ UNCHANGED <<routeVars, githubVars, requestVars, history>>

DisableRepo(p) ==
    \/ FromEnabled(p, "disable", "dropRead")
    \/ ReleaseRead(p, who[p], "dropRead", "dropDelete", "dropRow")
    \/ ReleaseDelete(p, who[p], "dropDelete", "dropRow")
    \/ DropRow(p)

\* completeHostedBotInstall asks GitHub for the installation of the repo.
FetchInstallation(p) ==
    /\ \/ installed # NoOne /\ Goto(p, "botFetch", "botSet")
       \/ installed = NoOne /\ Goto(p, "botFetch", "done")
    /\ subject' = [subject EXCEPT ![p] = installed]
    /\ UNCHANGED <<routeVars, rowVars, githubVars, history, who, now, target>>

RecordInstallation(p, from, to) ==
    /\ Goto(p, from, to)
    /\ SetBotInstallation(subject[p])
    /\ UNCHANGED <<rowVars, githubVars, requestVars, history>>

\* setBotInstallation reads back: without a row the request ends.
InstallationReadBack(p, from, to) ==
    /\ pc[p] = from
    /\ pc' = [pc EXCEPT ![p] = IF holder = NoOne THEN "done" ELSE to]
    /\ UNCHANGED <<routeVars, rowVars, githubVars, requestVars, history>>

\* markRepoBotAt updates the row if it is still there.
MarkRepoBotAt(p) ==
    /\ Goto(p, "botMark", "done")
    /\ botAt' = botAt \cup ({who[p]} \cap enabled)
    /\ UNCHANGED <<routeVars, enabled, homeInstallation, githubVars, requestVars, history>>

CompleteRepoBot(p) ==
    \/ FromEnabled(p, "bot", "botFetch") \/ FetchInstallation(p)
    \/ RecordInstallation(p, "botSet", "botRead")
    \/ InstallationReadBack(p, "botRead", "botMark")
    \/ MarkRepoBotAt(p)

\* deleteAccount: every row of the user in one D1 batch.
DeleteAccount(p) ==
    /\ Starts(p, "delete-account")
    /\ \E user \in Users :
          /\ DeleteRouteIf(holder = user)
          /\ enabled' = enabled \ {user}
          /\ botAt' = botAt \ {user}
          /\ homeInstallation' = [homeInstallation EXCEPT ![user] = NoOne]
          /\ who' = [who EXCEPT ![p] = user]
    /\ pc' = [pc EXCEPT ![p] = "done"]
    /\ UNCHANGED <<githubVars, readings, now, target, subject>>

-----------------------------------------------------------------------------
(* handleAppLifecycle: the claim is read, deleted, and its user disabled *)

Lifecycle(p) ==
    /\ Starts(p, "lifecycle")
    /\ \E event \in events :
          /\ subject' = [subject EXCEPT ![p] = event[2]]
          /\ target' = [target EXCEPT ![p] =
                          IF botInstallation = event[2] THEN holder ELSE NoOne]
          /\ pc' = [pc EXCEPT ![p] = event[1]]
    /\ UNCHANGED <<routeVars, rowVars, githubVars, readings, who, now>>

\* releaseByInstallationId deletes by installation, whatever it selected.
ReleaseAllForInstallation(p) ==
    /\ Goto(p, "deleted", "disableAll")
    /\ DeleteRouteIf(botInstallation = subject[p])
    /\ UNCHANGED <<rowVars, githubVars, requestVars, history>>

\* releaseReposByInstallationId deletes the repo if it selected it.
ReleaseListedRepo(p) ==
    /\ Goto(p, "removed", "disableListed")
    /\ DeleteRouteIf(target[p] # NoOne /\ botInstallation = subject[p])
    /\ UNCHANGED <<rowVars, githubVars, requestVars, history>>

DisableSelected(p, from, to) ==
    /\ Goto(p, from, to)
    /\ DeleteEnabledRow(target[p])
    /\ UNCHANGED <<routeVars, githubVars, requestVars, history>>

\* clearInstallationIfMatches, for the Homes of the installation.
ClearInstallation(p) ==
    /\ Goto(p, "clearHome", "done")
    /\ homeInstallation' = [user \in Users |->
            IF homeInstallation[user] = subject[p] THEN NoOne ELSE homeInstallation[user]]
    /\ UNCHANGED <<routeVars, enabled, botAt, githubVars, requestVars, history>>

HandleAppLifecycle(p) ==
    \/ Lifecycle(p)
    \/ ReleaseAllForInstallation(p) \/ ReleaseListedRepo(p)
    \/ DisableSelected(p, "disableAll", "clearHome")
    \/ DisableSelected(p, "disableListed", "done")
    \/ ClearInstallation(p)

-----------------------------------------------------------------------------
(* A Wake: route, backfill, dispatch; and the Home run's claim recheck *)

DeliverWake(p) ==
    /\ installed # NoOne
    /\ Starts(p, "wake")
    /\ pc' = [pc EXCEPT ![p] = "find"]
    /\ subject' = [subject EXCEPT ![p] = installed]
    /\ UNCHANGED <<routeVars, rowVars, githubVars, readings, who, now, target>>

\* A repo that nobody holds and enabled is ignored; without a Home repo the
\* installation is recorded, and nothing is dispatched.
FindRoute(p) ==
    /\ pc[p] = "find"
    /\ who' = [who EXCEPT ![p] = holder]
    /\ now' = [now EXCEPT ![p] = generation]
    /\ pc' = [pc EXCEPT ![p] = CASE holder \notin enabled -> "done"
                                 [] RouteDispatches       -> "backfill"
                                 [] OTHER                 -> "backfillOnly"]
    /\ UNCHANGED <<routeVars, rowVars, githubVars, history, target, subject>>

\* A variant that asks only whether the repo is claimed.
ClaimIsHeld(p) == RouteDispatches

\* claimStillHolds: the claim is still there and has the dispatch's generation.
ClaimStillHolds(p) == RouteDispatches /\ generation = now[p]

ClaimRecheck(p) ==
    /\ pc[p] = "recheck"
    /\ pc' = [pc EXCEPT ![p] = IF ClaimStillHolds(p) THEN "post" ELSE "done"]
    /\ UNCHANGED <<routeVars, rowVars, githubVars, requestVars, history>>

Post(p) ==
    /\ Goto(p, "post", "done")
    /\ UNCHANGED <<routeVars, rowVars, githubVars, requestVars, history>>

Wake(p) ==
    \/ DeliverWake(p) \/ FindRoute(p)
    \/ RecordInstallation(p, "backfillOnly", "done")
    \/ RecordInstallation(p, "backfill", "backfillRead")
    \/ InstallationReadBack(p, "backfillRead", "recheck")
    \/ ClaimRecheck(p) \/ Post(p)

-----------------------------------------------------------------------------
(* GitHub *)

LoseWrite(user) ==
    /\ user \in writers
    /\ writers' = writers \ {user}
    /\ UNCHANGED <<routeVars, rowVars, installed, events, pc, requestVars, history>>

\* The App leaves the repo, alone or with the account; GitHub tells the Lab.
Uninstall ==
    /\ installed # NoOne
    /\ installed' = NoOne
    /\ \E kind \in Kinds : events' = events \cup {<<kind, installed>>}
    /\ UNCHANGED <<routeVars, rowVars, writers, pc, requestVars, history>>

\* An id is used again when only the repo was removed from the installation.
Install ==
    /\ installed = NoOne
    /\ \E i \in Installs : <<"deleted", i>> \notin events /\ installed' = i
    /\ UNCHANGED <<routeVars, rowVars, writers, events, pc, requestVars, history>>

\* D1 or GitHub fails the request's call, or the Worker is killed.
Fail(p) ==
    /\ "call" \in Faults
    /\ pc[p] \notin {"idle", "done"}
    /\ pc' = [pc EXCEPT ![p] = "done"]
    /\ traffic' = "rough"
    /\ UNCHANGED <<routeVars, rowVars, githubVars, requestVars, readings>>

-----------------------------------------------------------------------------
(* The system *)

Enable(p) ==
    \/ EnableRepo(p) \/ ClaimRoute(p) \/ RouteHolder(p) \/ CheckHolderAccess(p)
    \/ ReleaseHolder(p) \/ DisableHolder(p) \/ RetryClaim(p) \/ EnableRow(p)

RequestStep(p) ==
    \/ Enable(p) \/ DisableRepo(p) \/ CompleteRepoBot(p) \/ DeleteAccount(p)
    \/ HandleAppLifecycle(p) \/ Wake(p) \/ Fail(p)

Next ==
    \/ \E p \in Requests : RequestStep(p)
    \/ \E user \in Users : LoseWrite(user)
    \/ Uninstall \/ Install
    \/ Quiet /\ UNCHANGED vars

Spec == Init /\ [][Next]_vars

-----------------------------------------------------------------------------
(* Properties *)

\* Every variable keeps its type; a claim has a user, an installation a claim.
TypeOK ==
    /\ holder \in Someone
    /\ generation \in Reading
    /\ botInstallation \in Installation
    /\ enabled \in SUBSET Users
    /\ botAt \in SUBSET enabled
    /\ homeInstallation \in [Users -> Installation]
    /\ writers \in SUBSET Users
    /\ installed \in Installation
    /\ events \in SUBSET (Kinds \X Installs)
    /\ pc \in [Requests -> Steps]
    /\ who \in [Requests -> Someone]
    /\ now \in [Requests -> Reading]
    /\ target \in [Requests -> Someone]
    /\ subject \in [Requests -> Installation]
    /\ readings \in SUBSET (Users \X Times)
    /\ traffic \in {"calm", "rough"}

\* A Home run whose claim recheck holds was dispatched for the user who holds
\* the claim at that moment (holdsRecheck): a claim that moved is always seen,
\* unless the enables of the two users read the very same Date.now(), which is
\* the generation of both claims.  ADR 0006 has the generation increment on each
\* claim; route-store.ts stores the time, and only equal times can be confused.
ForeignRunNeverPosts ==
    [][\A p \in Requests :
          (pc[p] = "recheck" /\ pc'[p] = "post") =>
              \/ holder = who[p]
              \/ {<<holder, generation>>, <<who[p], generation>>} \subseteq readings]_vars

\* Nobody's enable takes the claim or the Dashboard row from a user who has had
\* write access all along, however stale its reads are (takeRepoClaim).
EnableMoves == \E p \in Requests : pc[p] \in EnableSteps /\ pc'[p] # pc[p]

WriterKeepsClaim ==
    [][\A user \in writers :
          EnableMoves => /\ holder = user => holder' = user
                         /\ user \in enabled => user \in enabled']_vars

\* As long as no two requests overlapped and none failed, the Dashboard shows
\* the repo to the holder of the claim and to nobody else, and shows the bot
\* installed only if an uninstall would find the claim.
DashboardMatchesClaim ==
    traffic = "calm" /\ Quiet =>
        /\ enabled = {holder} \ {NoOne}
        /\ botAt # {} => botInstallation # NoOne
=============================================================================
