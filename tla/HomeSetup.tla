----------------------------- MODULE HomeSetup -----------------------------
(***************************************************************************)
(* One user's Home repo, the "house", and the setup of one enabled repo:   *)
(* what has to be in place on GitHub before a wake can run, and what the   *)
(* two D1 rows say of it.                                                  *)
(*                                                                         *)
(* Three requests write the house and its home_repos row: bootstrap makes  *)
(* it, lets the App in, commits the workflow and stores the App's secrets; *)
(* refresh stores the secrets of a new installation; push stores the vault *)
(* key.  A page of the Dashboard runs the install machine of the enabled   *)
(* repo: the bot stage, then the sync stage.  Meanwhile the user installs  *)
(* and uninstalls the App, lets it into repos and takes it out again,      *)
(* deletes the house, and enables or disables the repo on another page.    *)
(*                                                                         *)
(* A house is named by its repository id, a fresh number each time one is  *)
(* made.  GitHub is asked by owner and name: such a call reaches the house *)
(* there is now, whichever id the caller has in mind.                      *)
(***************************************************************************)
EXTENDS Integers, FiniteSets

CONSTANTS
    Pages,          \* pages of the Dashboard
    Requests,       \* bootstrap, refresh and push requests
    AtOnce,         \* bound: requests under way, and setups under way or shown
    MaxHouses,      \* bound: houses made, their repository ids
    MaxApps,        \* bound: installations of the App, their ids
    MaxEnables,     \* bound: rows of the enabled repo made
    MaxEvents       \* bound: of the three together

ASSUME SetupAssumption ==
    /\ MaxHouses \in Nat /\ MaxApps \in Nat /\ MaxEnables \in Nat
    /\ AtOnce \in Nat /\ MaxEvents \in Nat

VARIABLES
    house, houses,  \* the house there is, and how many were made
    inside,         \* what each house has: workflow, App secrets, vault key
    app, apps,      \* the installation of the App there is, and how many there were
    hooks,          \* installations whose deletion GitHub has not reported yet
    home,           \* the row of home_repos
    row, enables,   \* the row of enabled_repos with its claim, and how many were made
    asked,          \* what each request does next, and what it has read
    install,        \* the install machine of each page
    run,            \* the stage its promise chain is in (runningRef)
    shows,          \* the row it lists
    late            \* installations saved after their deletion was handled

githubVars == <<house, houses, inside, app, apps, hooks>>
homeVars == <<home, late>>
rowVars == <<row, enables>>
pageVars == <<install, run, shows>>
vars == <<githubVars, homeVars, rowVars, asked, pageVars>>

-----------------------------------------------------------------------------
(* Values *)

None == 0
Houses == 1..MaxHouses
Apps == 1..MaxApps

NoRow == [gen |-> None, bot |-> FALSE, key |-> FALSE, app |-> None]
Rows == [gen : 0..MaxEnables, bot : BOOLEAN, key : BOOLEAN, app : Apps \cup {None}]
Listed == row.gen # None

\* installation_id, secrets_synced_at; astray: the key is in another house.
NoHome == [house |-> None, app |-> None, key |-> FALSE, astray |-> FALSE]
Homes == [house : Houses \cup {None}, app : Apps \cup {None}, key : BOOLEAN,
          astray : BOOLEAN]
Made == home.house # None

Quiet == [at |-> "idle", house |-> None, app |-> None]
RequestSteps == {"idle", "cover", "covered", "workflow", "look", "fetch",
                 "secrets", "save", "put", "mark"}
Asked == [at : RequestSteps, house : Houses \cup {None}, app : Apps \cup {None}]

Stages == {"bot", "secret_sync"}
Idle == [kind |-> "idle", stage |-> "bot"]
Machines == [kind : {"idle", "running", "failed", "done"}, stage : Stages]

\* began: the row the setup was started for.
Still == [at |-> "none", app |-> None, put |-> None, began |-> None]
RunSteps == {"none", "bot", "route", "botAt", "home", "put", "row", "rehome", "again"}
Runs == [at : RunSteps, app : Apps \cup {None}, put : Houses \cup {None},
         began : 0..MaxEnables]

TypeOK ==
    /\ house \in {None, houses} /\ houses \in 0..MaxHouses
    /\ inside \in [Houses -> [workflow : BOOLEAN, secrets : BOOLEAN, key : BOOLEAN]]
    /\ app \in {None, apps} /\ apps \in 0..MaxApps
    /\ hooks \subseteq Apps /\ late \subseteq Apps
    /\ home \in Homes
    /\ row \in Rows /\ enables \in 0..MaxEnables
    /\ asked \in [Requests -> Asked]
    /\ install \in [Pages -> Machines]
    /\ run \in [Pages -> Runs]
    /\ shows \in [Pages -> Rows]

Init ==
    /\ house = None /\ houses = 0
    /\ inside = [h \in Houses |-> [workflow |-> FALSE, secrets |-> FALSE, key |-> FALSE]]
    /\ app = None /\ apps = 0 /\ hooks = {}
    /\ home = NoHome /\ late = {}
    /\ row = NoRow /\ enables = 0
    /\ asked = [r \in Requests |-> Quiet]
    /\ install = [p \in Pages |-> Idle]
    /\ run = [p \in Pages |-> Still]
    /\ shows = [p \in Pages |-> NoRow]

Busy(p) == run[p].at # "none"
Underway == {r \in Requests : asked[r].at # "idle"} \cup
            {p \in Pages : install[p].kind # "idle"}

\* The bounds: nothing else waits for them.
MayBegin(actor) == Cardinality(Underway \ {actor}) < AtOnce
MayMake(made, most) == made < most /\ houses + apps + enables < MaxEvents

-----------------------------------------------------------------------------
(* GitHub: the user and the App *)

\* An installation covers the repos its owner lets it into, who may change
\* that at any time: a look finds a repo covered, or not, as it comes.
HouseCovered == app # None /\ house # None

InstallApp ==
    /\ app = None /\ MayMake(apps, MaxApps)
    /\ apps' = apps + 1
    /\ app' = apps'
    /\ UNCHANGED <<house, houses, inside, hooks, homeVars, rowVars, asked, pageVars>>

UninstallApp ==
    /\ app # None
    /\ app' = None
    /\ hooks' = hooks \cup {app}
    /\ UNCHANGED <<house, houses, inside, apps, homeVars, rowVars, asked, pageVars>>

DeleteHouse ==
    /\ house # None
    /\ house' = None
    /\ UNCHANGED <<houses, inside, app, apps, hooks, homeVars, rowVars, asked, pageVars>>

\* Mutant.  The uninstalled App is released from the repos only.
HandleReleasesOnly(id) ==
    /\ id \in hooks
    /\ hooks' = hooks \ {id}
    /\ row' = IF row.app = id THEN NoRow ELSE row
    /\ UNCHANGED <<house, houses, inside, app, apps, homeVars, enables, asked, pageVars>>

\* clearInstallationIfMatches
ClearInstallation(id) ==
    home' = IF home.app = id THEN [home EXCEPT !.app = None] ELSE home

\* handleAppLifecycle for a deleted installation: the claim and the row of
\* every repo it was confirmed for go, and the Home row forgets it.
HandleDeleted(id) ==
    /\ id \in hooks
    /\ hooks' = hooks \ {id}
    /\ row' = IF row.app = id THEN NoRow ELSE row
    /\ ClearInstallation(id)
    /\ UNCHANGED <<house, houses, inside, app, apps, late, enables, asked, pageVars>>

-----------------------------------------------------------------------------
(* Requests for the house *)

Reply(r) == asked' = [asked EXCEPT ![r] = Quiet]
Onward(r, at) == asked' = [asked EXCEPT ![r] = [@ EXCEPT !.at = at]]

\* createUserRepo, when the user has no repository of that name.
CreateUserRepo ==
    /\ house = None /\ MayMake(houses, MaxHouses)
    /\ houses' = houses + 1
    /\ house' = houses'

\* ensureHomeRepo: makes the repository, or finds the one of that name; when
\* the answer of the creation is lost, the next look finds it.
EnsureHomeRepo(r) ==
    /\ asked[r].at = "idle" /\ MayBegin(r)
    /\ CreateUserRepo \/ (house # None /\ UNCHANGED <<house, houses>>)
    /\ \/ asked' = [asked EXCEPT ![r] = [Quiet EXCEPT !.at = "cover", !.house = house']]
       \/ Reply(r)
    /\ UNCHANGED <<inside, app, apps, hooks, homeVars, rowVars, pageVars>>

\* ensureHomeAppCoverage: an installation that covers the house ...
FindInstallation(r) ==
    /\ asked[r].at \in {"cover", "covered"}
    /\ \/ /\ HouseCovered
          /\ asked' = [asked EXCEPT ![r] = [@ EXCEPT !.at = "workflow", !.app = app]]
       \/ Reply(r)
    /\ UNCHANGED <<githubVars, homeVars, rowVars, pageVars>>

\* ... or, when none does, the user's own, asked to take the house in (by
\* its id) before the same look again.
AddToInstallation(r) ==
    /\ asked[r].at = "cover"
    /\ app # None /\ house = asked[r].house
    /\ Onward(r, "covered")
    /\ UNCHANGED <<githubVars, homeVars, rowVars, pageVars>>

\* fetchRepoContents and putRepoContents, which adds the file or replaces it.
PutRepoContents == house # None /\ inside' = [inside EXCEPT ![house].workflow = TRUE]

\* upsertDispatcher; nothing is put when the file is there as it should be.
UpsertDispatcher(r) ==
    /\ asked[r].at = "workflow"
    /\ \/ PutRepoContents /\ (Onward(r, "fetch") \/ Reply(r))
       \/ Reply(r) /\ UNCHANGED inside
    /\ UNCHANGED <<house, houses, app, apps, hooks, homeVars, rowVars, pageVars>>

\* refreshHomeInstallation and the push read the Home row first.
ReadHome(r) ==
    /\ asked[r].at = "idle" /\ MayBegin(r)
    /\ Made
    /\ \E at \in {"look", "put"} :
           asked' = [asked EXCEPT ![r] =
               [Quiet EXCEPT !.at = at,
                             !.house = IF at = "look" THEN home.house ELSE None]]
    /\ UNCHANGED <<githubVars, homeVars, rowVars, pageVars>>

LookUpInstallation(r) ==
    /\ asked[r].at = "look"
    /\ \/ HouseCovered /\ asked' = [asked EXCEPT ![r] = [@ EXCEPT !.at = "fetch", !.app = app]]
       \/ Reply(r)
    /\ UNCHANGED <<githubVars, homeVars, rowVars, pageVars>>

\* hostedBotSecretWriteForRepo: the installation is looked up once more for
\* the secrets.
FetchForSecrets(r) ==
    /\ asked[r].at = "fetch"
    /\ \/ HouseCovered /\ Onward(r, "secrets")
       \/ Reply(r)
    /\ UNCHANGED <<githubVars, homeVars, rowVars, pageVars>>

\* fetchRepoPublicKey and putRepoSecret; a secret sealed for another house is
\* refused.
PutRepoSecrets == house # None /\ inside' = [inside EXCEPT ![house].secrets = TRUE]

\* Mutant.  The row is saved whether the secrets were written or not.
WriteSecretsOrSave(r) ==
    /\ asked[r].at = "secrets"
    /\ PutRepoSecrets \/ UNCHANGED inside
    /\ Onward(r, "save")
    /\ UNCHANGED <<house, houses, app, apps, hooks, homeVars, rowVars, pageVars>>

\* writeActionsSecrets: three secrets, of which the workflow reads the id and
\* the key of the App, the same in every house.
WriteSecrets(r) ==
    /\ asked[r].at = "secrets"
    /\ \/ PutRepoSecrets /\ (Onward(r, "save") \/ Reply(r))
       \/ Reply(r) /\ UNCHANGED inside
    /\ UNCHANGED <<house, houses, app, apps, hooks, homeVars, rowVars, pageVars>>

\* putHomeRepo: the row keeps secrets_synced_at, also for another house.
PutHomeRepo(r) ==
    /\ asked[r].at = "save"
    /\ \/ /\ home' = [home EXCEPT !.house = asked[r].house, !.app = asked[r].app,
                        !.astray = @ \/ (home.key /\ home.house # asked[r].house)]
          /\ late' = late \cup ({asked[r].app} \ ({app} \cup hooks))
       \/ UNCHANGED homeVars
    /\ Reply(r)
    /\ UNCHANGED <<githubVars, rowVars, pageVars>>

\* syncVaultSecretsFromBrowser into the house, and what the mark makes of it.
PutKey == house # None /\ inside' = [inside EXCEPT ![house].key = TRUE]

\* markHomeSecretsSynced updates the user's row, whichever house it names;
\* from is the house the key was put into.
MarkHome(from) ==
    home' = IF Made
            THEN [home EXCEPT !.key = TRUE, !.astray = home.house # from]
            ELSE home

\* Mutant.  The mark is sent before the answer of the copy is looked at.
PushAndMark(r) ==
    /\ asked[r].at = "put"
    /\ PutKey \/ UNCHANGED inside
    /\ asked' = [asked EXCEPT ![r] = [@ EXCEPT !.at = "mark", !.house = house]]
    /\ UNCHANGED <<house, houses, app, apps, hooks, homeVars, rowVars, pageVars>>

PushKey(r) ==
    /\ asked[r].at = "put"
    /\ \/ PutKey /\ asked' = [asked EXCEPT ![r] = [@ EXCEPT !.at = "mark", !.house = house]]
       \/ Reply(r) /\ UNCHANGED inside
    /\ UNCHANGED <<house, houses, app, apps, hooks, homeVars, rowVars, pageVars>>

MarkPushed(r) ==
    /\ asked[r].at = "mark"
    /\ MarkHome(asked[r].house) \/ UNCHANGED home
    /\ Reply(r)
    /\ UNCHANGED <<githubVars, late, rowVars, pageVars>>

-----------------------------------------------------------------------------
(* The install machine of a page *)

\* initialInstallStage
InitialStage(shown) == IF shown.bot THEN "secret_sync" ELSE "bot"

\* startStage and stageEffect
StartStage(stage) == [kind |-> "running", stage |-> stage]

\* applyRepoInstallEvent; an event of another stage, or with nothing running,
\* is dropped by applyEvent.
ApplyRepoInstallEvent(state, kind, stage) ==
    IF state # StartStage(stage) THEN state
    ELSE IF kind = "stage_failed" THEN [state EXCEPT !.kind = "failed"]
    ELSE IF stage = "bot" THEN StartStage("secret_sync")
    ELSE [state EXCEPT !.kind = "done"]

\* runStages: where the promise chain of a stage begins.
FirstStep(stage) == IF stage = "bot" THEN "bot" ELSE "home"

\* dispatchReduced: began is the row the setup is for, None when the page had
\* none to look at.
Start(p, stage, began) ==
    /\ install' = [install EXCEPT ![p] = StartStage(stage)]
    /\ run' = [run EXCEPT ![p] = [Still EXCEPT !.at = FirstStep(stage), !.began = began]]

Shown(p) == shows[p].gen # None

\* InstallOrResyncButton: "finish setup" while the key is out.
BeginInstall(p) ==
    /\ ~Busy(p) /\ MayBegin(p) /\ Shown(p) /\ ~shows[p].key
    /\ Start(p, InitialStage(shows[p]), shows[p].gen)
    /\ UNCHANGED <<githubVars, homeVars, rowVars, asked, shows>>

\* ... "recopy" afterwards, which the reducer rejects while the bot is out.
BeginResync(p) ==
    /\ ~Busy(p) /\ MayBegin(p) /\ Shown(p) /\ shows[p].key /\ shows[p].bot
    /\ Start(p, "secret_sync", shows[p].gen)
    /\ UNCHANGED <<githubVars, homeVars, rowVars, asked, shows>>

\* Mutant.  Retry copies the key, whichever stage has failed.
RetrySync(p) ==
    /\ ~Busy(p) /\ MayBegin(p) /\ Shown(p) /\ install[p].kind = "failed"
    /\ Start(p, "secret_sync", run[p].began)
    /\ UNCHANGED <<githubVars, homeVars, rowVars, asked, shows>>

\* InstallFailedBanner: retry, which looks at no row, and cancel.
Retry(p) ==
    /\ ~Busy(p) /\ MayBegin(p) /\ Shown(p) /\ install[p].kind = "failed"
    /\ Start(p, install[p].stage, run[p].began)
    /\ UNCHANGED <<githubVars, homeVars, rowVars, asked, shows>>

Cancel(p) ==
    /\ Shown(p) /\ install[p].kind = "failed"
    /\ install' = [install EXCEPT ![p] = Idle]
    /\ run' = [run EXCEPT ![p] = Still]
    /\ UNCHANGED <<githubVars, homeVars, rowVars, asked, shows>>

\* useEnableRepo: the row, and the setup with the list the page still has; the
\* row keeps its marks when it is there already.
Enable(p) ==
    /\ IF Listed THEN UNCHANGED rowVars
       ELSE /\ MayMake(enables, MaxEnables)
            /\ enables' = enables + 1
            /\ row' = [NoRow EXCEPT !.gen = enables']
    /\ IF Busy(p) \/ ~MayBegin(p) THEN UNCHANGED <<install, run>>
       ELSE Start(p, InitialStage(shows[p]), IF Shown(p) THEN shows[p].gen ELSE row'.gen)
    /\ UNCHANGED <<githubVars, homeVars, asked, shows>>

Disable ==
    /\ Listed
    /\ row' = NoRow
    /\ UNCHANGED <<githubVars, homeVars, enables, asked, pageVars>>

\* invalidateRepos, or the list's own refetch.
Refetch(p) ==
    /\ shows' = [shows EXCEPT ![p] = [row EXCEPT !.app = None]]
    /\ UNCHANGED <<githubVars, homeVars, rowVars, asked, install, run>>

\* The page is loaded anew: its promise chain is gone.
Reload(p) ==
    /\ install' = [install EXCEPT ![p] = Idle]
    /\ run' = [run EXCEPT ![p] = Still]
    /\ shows' = [shows EXCEPT ![p] = [row EXCEPT !.app = None]]
    /\ UNCHANGED <<githubVars, homeVars, rowVars, asked>>

-----------------------------------------------------------------------------
(* The stages *)

Event(p, kind, stage) ==
    install' = [install EXCEPT ![p] = ApplyRepoInstallEvent(@, kind, stage)]

Onto(p, at) == run' = [run EXCEPT ![p].at = at]
Stop(p) == run' = [run EXCEPT ![p] = [Still EXCEPT !.began = run[p].began]]

\* The catch of runBotStage and of runSyncStage; the stage ends the chain.
Fail(p, stage) == Event(p, "stage_failed", stage) /\ Stop(p)

\* Mutant.  The catch of the bot stage names the stage after it.
BotFailsAsSync(p) ==
    /\ run[p].at \in {"bot", "route", "botAt"}
    /\ Fail(p, "secret_sync")
    /\ UNCHANGED <<githubVars, homeVars, rowVars, asked, shows>>

BotFails(p) ==
    /\ run[p].at \in {"bot", "route", "botAt"}
    /\ Fail(p, "bot")
    /\ UNCHANGED <<githubVars, homeVars, rowVars, asked, shows>>

SyncFails(p) ==
    /\ run[p].at \in {"home", "put", "row", "rehome", "again"}
    /\ Fail(p, "secret_sync")
    /\ UNCHANGED <<githubVars, homeVars, rowVars, asked, shows>>

\* completeRepoBot: the row must be there, and the App cover the enabled repo.
FetchBot(p) ==
    /\ run[p].at = "bot"
    /\ Listed /\ app # None
    /\ run' = [run EXCEPT ![p] = [@ EXCEPT !.at = "route", !.app = app]]
    /\ UNCHANGED <<githubVars, homeVars, rowVars, asked, install, shows>>

\* setBotInstallation, on the claim there is by now.
RouteBot(p) ==
    /\ run[p].at = "route"
    /\ Listed
    /\ row' = [row EXCEPT !.app = run[p].app]
    /\ Onto(p, "botAt")
    /\ UNCHANGED <<githubVars, homeVars, enables, asked, install, shows>>

\* markRepoBotAt; its answer may be lost.
MarkBot(p) ==
    /\ run[p].at = "botAt"
    /\ Listed
    /\ row' = [row EXCEPT !.bot = TRUE]
    /\ \/ Event(p, "stage_ok", "bot")
          /\ run' = [run EXCEPT ![p] = [@ EXCEPT !.at = "home", !.app = None]]
       \/ Fail(p, "bot")
    /\ UNCHANGED <<githubVars, homeVars, enables, asked, shows>>

\* pushRepoVaultSecretsFromBrowser: the Home row must be there ...
ReadHomeRepo(p) ==
    /\ run[p].at = "home"
    /\ Made
    /\ Onto(p, "put")
    /\ UNCHANGED <<githubVars, homeVars, rowVars, asked, install, shows>>

\* ... the key goes into the house ...
PushVaultSecrets(p) ==
    /\ run[p].at = "put"
    /\ PutKey
    /\ \/ run' = [run EXCEPT ![p] = [@ EXCEPT !.at = "row", !.put = house]] /\ UNCHANGED install
       \/ Fail(p, "secret_sync")
    /\ UNCHANGED <<house, houses, app, apps, hooks, homeVars, rowVars, asked,
                   shows>>

\* ... and markRepoSynced marks the enabled row, then the Home row, whose
\* answer it does not look at, then the enabled row again.
MarkRepoSynced(p) ==
    /\ run[p].at \in {"row", "again"}
    /\ Listed
    /\ row' = [row EXCEPT !.key = TRUE]
    /\ IF run[p].at = "row" THEN Onto(p, "rehome") /\ UNCHANGED install
       ELSE \/ Event(p, "stage_ok", "secret_sync") /\ Stop(p)
            \/ Fail(p, "secret_sync")
    /\ UNCHANGED <<githubVars, homeVars, enables, asked, shows>>

MarkHomeSynced(p) ==
    /\ run[p].at = "rehome"
    /\ MarkHome(run[p].put) \/ UNCHANGED home
    /\ run' = [run EXCEPT ![p] = [@ EXCEPT !.at = "again", !.put = None]]
    /\ UNCHANGED <<githubVars, late, rowVars, asked, install, shows>>

-----------------------------------------------------------------------------
RunStep(p) ==
    \/ BotFails(p) \/ SyncFails(p)
    \/ FetchBot(p) \/ RouteBot(p) \/ MarkBot(p)
    \/ ReadHomeRepo(p) \/ PushVaultSecrets(p) \/ MarkRepoSynced(p) \/ MarkHomeSynced(p)

PageStep(p) ==
    \/ BeginInstall(p) \/ BeginResync(p) \/ Retry(p) \/ Cancel(p)
    \/ Enable(p) \/ Refetch(p) \/ Reload(p)
    \/ RunStep(p)

RequestStep(r) ==
    \/ EnsureHomeRepo(r) \/ FindInstallation(r) \/ AddToInstallation(r)
    \/ UpsertDispatcher(r) \/ ReadHome(r) \/ LookUpInstallation(r) \/ FetchForSecrets(r)
    \/ WriteSecrets(r) \/ PutHomeRepo(r) \/ PushKey(r) \/ MarkPushed(r)

GithubStep ==
    \/ InstallApp \/ UninstallApp \/ DeleteHouse
    \/ \E id \in Apps : HandleDeleted(id)

Next ==
    \/ \E p \in Pages : PageStep(p)
    \/ \E r \in Requests : RequestStep(r)
    \/ GithubStep
    \/ Disable

Spec == Init /\ [][Next]_vars

-----------------------------------------------------------------------------
(* Properties *)

\* An installation the Home row names is the one there is, or its deletion is
\* still to be reported, or the row was saved after the report was handled:
\* otherwise the Lab offers no check of the helper, and wakes are dispatched
\* to a house the App has left.
HelperIsIn ==
    home.app # None =>
        home.app \in {app} \cup hooks \cup late

\* A Home row with an installation stands for a house a dispatch can run in:
\* it has the workflow and the App's secrets, whoever wrote the row last.
HouseIsReady ==
    Made /\ home.app # None /\ home.house = house =>
        inside[house].workflow /\ inside[house].secrets

\* Where the Home row says the key was copied, the house it names has the key,
\* unless the row or the house changed between the copy and the mark, or since.
KeyIsThere == home.key => inside[home.house].key \/ home.astray

\* When the machine says done, the row it was started for, if it is still
\* there, has the helper and the key, whatever other rows the marks met.
DoneIsSetUp ==
    \A p \in Pages :
        install[p].kind = "done" /\ row.gen # None /\ row.gen = run[p].began =>
            row.bot /\ row.key

\* A machine that runs has a promise chain behind it, in the stage it shows:
\* the page that says "copying" will say done or failed, and Retry comes back.
RunningIsDriven ==
    \A p \in Pages : install[p].kind = "running" =>
        run[p].at \in IF install[p].stage = "bot" THEN {"bot", "route", "botAt"}
                     ELSE {"home", "put", "row", "rehome", "again"}

=============================================================================
