-------------------------- MODULE HomeSetupProofs --------------------------
(***************************************************************************)
(* Theorems about HomeSetup, for any number of pages, requests, houses,    *)
(* installations and rows.                                                 *)
(*                                                                         *)
(* Three facts carry the safety properties: ids are fresh, so a house or a *)
(* row that is gone never comes back under its id; what a house has and    *)
(* what a row is marked with is never taken back; and a promise chain is   *)
(* in the stage its machine shows.                                         *)
(***************************************************************************)
EXTENDS HomeSetup, TLAPS

-----------------------------------------------------------------------------
(* The invariants *)

\* A request that has looked the App up has its installation.
HasApp ==
    \A r \in Requests :
        asked[r].at \in {"workflow", "fetch", "secrets", "save"} => asked[r].app # None

TInv == TypeOK /\ HasApp

\* A house that was named has existed; if it is still the one there is, it has
\* what the steps up to at have put into it.
Has(h, at) ==
    /\ h <= houses
    /\ h # None /\ h = house =>
           /\ at \in {"look", "fetch", "secrets", "save"} => inside[h].workflow
           /\ at = "save" => inside[h].secrets

HouseInv ==
    /\ Has(home.house, "save")
    /\ \A r \in Requests : Has(asked[r].house, asked[r].at)

\* A mark under way is for a house that has the key.
KeyAt(h) == h # None /\ inside[h].key

Naming == {"cover", "covered", "workflow", "look", "fetch", "secrets", "save"}

KeyInv ==
    /\ home.key => home.house # None /\ (KeyAt(home.house) \/ home.astray)
    /\ \A r \in Requests :
           /\ asked[r].at \in Naming => asked[r].house # None
           /\ asked[r].at = "mark" => KeyAt(asked[r].house)
    /\ \A p \in Pages : run[p].at \in {"row", "rehome"} => KeyAt(run[p].put)

BotSteps == {"bot", "route", "botAt"}
SyncSteps == {"home", "put", "row", "rehome", "again"}

\* The promise chain and the machine go together.
Driven(p) ==
    /\ run[p].at \in BotSteps <=> install[p] = StartStage("bot")
    /\ run[p].at \in SyncSteps <=> install[p] = StartStage("secret_sync")

\* What the row was seen to have, it has as long as it is there.
Seen(p) ==
    /\ run[p].began <= enables /\ shows[p].gen <= enables
    /\ shows[p].gen = None => ~shows[p].bot
    /\ row.gen # None /\ row.gen = shows[p].gen /\ shows[p].bot => row.bot

\* The sync stage is reached through the bot stage, or by a row that has it.
BotFirst(p) ==
    row.gen # None /\ row.gen = run[p].began =>
        /\ install[p].stage = "secret_sync" => row.bot
        /\ install[p].kind = "done" => row.bot /\ row.key

RowOK == row.gen \in {None, enables} /\ (row.gen = None => ~row.bot /\ ~row.key)
PageOK(p) == Driven(p) /\ Seen(p) /\ BotFirst(p)
PageInv == RowOK /\ \A p \in Pages : PageOK(p)

-----------------------------------------------------------------------------
(* Types *)

LEMMA Constants ==
    /\ None = 0 /\ None \notin Houses /\ None \notin Apps
    /\ Houses \subseteq Nat /\ Apps \subseteq Nat
    /\ NoRow \in Rows /\ NoHome \in Homes /\ Quiet \in Asked /\ Idle \in Machines
    /\ Still \in Runs
BY SetupAssumption
DEF SetupAssumption, None, Houses, Apps, NoRow, Rows, NoHome, Homes, Quiet, Asked, RequestSteps,
    Idle, Machines, Stages, Still, Runs, RunSteps

LEMMA InitType == Init => TInv
<1> SUFFICES ASSUME Init PROVE TInv
  OBVIOUS
<1> USE Constants, SetupAssumption DEF SetupAssumption
<1>1. /\ house \in {None, houses} /\ houses \in 0..MaxHouses
      /\ app \in {None, apps} /\ apps \in 0..MaxApps /\ enables \in 0..MaxEnables
      /\ hooks \subseteq Apps /\ late \subseteq Apps
  BY DEF Init
<1>2. home \in Homes /\ row \in Rows
  BY DEF Init
<1>3. inside \in [Houses -> [workflow : BOOLEAN, secrets : BOOLEAN, key : BOOLEAN]]
  BY DEF Init
<1>4. /\ asked \in [Requests -> Asked] /\ install \in [Pages -> Machines]
      /\ run \in [Pages -> Runs] /\ shows \in [Pages -> Rows]
  BY DEF Init
<1>5. HasApp
  BY DEF Init, HasApp, Quiet
<1> QED
  BY <1>1, <1>2, <1>3, <1>4, <1>5 DEF TInv, TypeOK

\* GitHub's own steps and the webhook.
LEMMA GithubType == TInv /\ (GithubStep \/ Disable) => TInv'
<1> SUFFICES ASSUME TInv, GithubStep \/ Disable PROVE TInv'
  OBVIOUS
<1> USE Constants, SetupAssumption
    DEF SetupAssumption, TInv, TypeOK, HasApp, homeVars, rowVars, pageVars, githubVars
<1>1. CASE InstallApp
  BY <1>1 DEF InstallApp, MayMake, Apps
<1>2. CASE UninstallApp
  BY <1>2 DEF UninstallApp, Apps
<1>3. CASE DeleteHouse
  BY <1>3 DEF DeleteHouse
<1>4. ASSUME NEW id \in Apps, HandleDeleted(id) PROVE TInv'
  <2>1. home' \in Homes
    BY <1>4 DEF HandleDeleted, ClearInstallation, Homes
  <2> QED
    BY <1>4, <2>1 DEF HandleDeleted
<1>5. CASE Disable
  BY <1>5 DEF Disable
<1> QED
  BY <1>1, <1>2, <1>3, <1>4, <1>5 DEF GithubStep

LEMMA Present ==
    TypeOK => /\ house \in Houses \cup {None}
              /\ house # None => house \in Houses
              /\ app \in Apps \cup {None}
              /\ app # None => app \in Apps
<1> SUFFICES ASSUME TypeOK
             PROVE  /\ house # None => house \in Houses
                    /\ app # None => app \in Apps
  OBVIOUS
<1>1. house # None => house \in 1..MaxHouses
  BY SetupAssumption DEF SetupAssumption, TypeOK, None
<1>2. app # None => app \in 1..MaxApps
  BY SetupAssumption DEF SetupAssumption, TypeOK, None
<1> QED
  BY <1>1, <1>2 DEF Houses, Apps

LEMMA PutStep ==
    ASSUME TypeOK, PutRepoContents \/ PutRepoSecrets \/ PutKey
    PROVE  inside' \in [Houses -> [workflow : BOOLEAN, secrets : BOOLEAN, key : BOOLEAN]]
<1>1. inside \in [Houses -> [workflow : BOOLEAN, secrets : BOOLEAN, key : BOOLEAN]]
  BY DEF TypeOK
<1>2. CASE PutRepoContents
  <2>1. house \in Houses /\ inside' = [inside EXCEPT ![house].workflow = TRUE]
    BY <1>2, Present DEF PutRepoContents
  <2> QED
    BY <1>1, <2>1
<1>3. CASE PutRepoSecrets
  <2>1. house \in Houses /\ inside' = [inside EXCEPT ![house].secrets = TRUE]
    BY <1>3, Present DEF PutRepoSecrets
  <2> QED
    BY <1>1, <2>1
<1>4. CASE PutKey
  <2>1. house \in Houses /\ inside' = [inside EXCEPT ![house].key = TRUE]
    BY <1>4, Present DEF PutKey
  <2> QED
    BY <1>1, <2>1
<1> QED
  BY <1>2, <1>3, <1>4

\* A request steps to another record of its kind.
LEMMA AskedStep ==
    ASSUME TInv, NEW r \in Requests, NEW v \in Asked,
           v.at \in {"workflow", "fetch", "secrets", "save"} => v.app # None,
           asked' = [asked EXCEPT ![r] = v]
    PROVE  asked' \in [Requests -> Asked] /\ HasApp'
BY Constants DEF TInv, TypeOK, HasApp

LEMMA ReplyStep ==
    ASSUME TInv, NEW r \in Requests, Reply(r)
    PROVE  asked' \in [Requests -> Asked] /\ HasApp'
<1>1. Quiet \in Asked /\ Quiet.at = "idle"
  BY Constants DEF Quiet
<1> QED
  BY <1>1, AskedStep DEF Reply

LEMMA OnwardStep ==
    ASSUME TInv, NEW r \in Requests, NEW at \in RequestSteps, Onward(r, at),
           at \in {"workflow", "fetch", "secrets", "save"} => asked[r].app # None
    PROVE  asked' \in [Requests -> Asked] /\ HasApp'
<1> DEFINE v == [asked[r] EXCEPT !.at = at]
<1>1. asked[r] \in Asked
  BY DEF TInv, TypeOK
<1>2. v \in Asked /\ v.at = at /\ v.app = asked[r].app
  BY <1>1 DEF Asked
<1>3. asked' = [asked EXCEPT ![r] = v]
  BY DEF Onward
<1> QED
  BY <1>2, <1>3, AskedStep

LEMMA RequestType == ASSUME TInv, NEW r \in Requests, RequestStep(r) PROVE TInv'
<1> USE Constants, SetupAssumption DEF SetupAssumption, homeVars, rowVars, pageVars, githubVars
<1>0. TypeOK /\ HasApp /\ asked[r] \in Asked
  BY DEF TInv, TypeOK
<1>r. asked[r] = [at |-> asked[r].at, house |-> asked[r].house, app |-> asked[r].app]
      /\ asked[r].at \in RequestSteps
      /\ asked[r].house \in Houses \cup {None} /\ asked[r].app \in Apps \cup {None}
  BY <1>0 DEF Asked
<1>p. /\ house # None => house \in Houses
      /\ app # None => app \in Apps
  BY <1>0, Present
<1>s. {"cover", "covered", "workflow", "look", "fetch", "secrets", "save", "put", "mark"}
          \subseteq RequestSteps
  BY DEF RequestSteps
<1>1. CASE EnsureHomeRepo(r)
  <2>1. house' \in Houses /\ house' = houses' /\ houses' \in 0..MaxHouses
    BY <1>0, <1>1 DEF EnsureHomeRepo, CreateUserRepo, MayMake, TypeOK, Houses, None
  <2> DEFINE v == [Quiet EXCEPT !.at = "cover", !.house = house']
  <2>2. v \in Asked /\ v.at = "cover"
    BY <2>1 DEF Quiet, Asked, RequestSteps
  <2>3. asked' = [asked EXCEPT ![r] = v] \/ Reply(r)
    BY <1>1 DEF EnsureHomeRepo
  <2>4. asked' \in [Requests -> Asked] /\ HasApp'
    BY <2>2, <2>3, AskedStep, ReplyStep
  <2> QED
    BY <1>0, <1>1, <2>1, <2>4 DEF EnsureHomeRepo, TInv, TypeOK
<1>2. CASE FindInstallation(r)
  <2> DEFINE v == [asked[r] EXCEPT !.at = "workflow", !.app = app]
  <2>1. CASE Reply(r)
    BY <1>0, <1>2, <2>1, ReplyStep DEF FindInstallation, TInv, TypeOK
  <2>2. CASE HouseCovered /\ asked' = [asked EXCEPT ![r] = v]
    <3>1. v \in Asked /\ v.app # None
      BY <1>0, <1>p, <1>s, <2>2 DEF HouseCovered, TypeOK, Asked
    <3>2. asked' \in [Requests -> Asked] /\ HasApp'
      BY <2>2, <3>1, AskedStep
    <3> QED
      BY <1>0, <1>2, <3>2 DEF FindInstallation, TInv, TypeOK
  <2> QED
    BY <1>2, <2>1, <2>2 DEF FindInstallation
<1>3. CASE AddToInstallation(r)
  BY <1>0, <1>3, <1>s, OnwardStep DEF AddToInstallation, TInv, TypeOK
<1>4. CASE UpsertDispatcher(r)
  <2>1. asked[r].app # None
    BY <1>0, <1>4 DEF UpsertDispatcher, HasApp
  <2>2. asked' \in [Requests -> Asked] /\ HasApp'
    BY <1>4, <1>s, <2>1, OnwardStep, ReplyStep DEF UpsertDispatcher
  <2>3. inside' \in [Houses -> [workflow : BOOLEAN, secrets : BOOLEAN, key : BOOLEAN]]
    <3>1. PutRepoContents \/ inside' = inside
      BY <1>4 DEF UpsertDispatcher
    <3> QED
      BY <1>0, <3>1, PutStep DEF TypeOK
  <2> QED
    BY <1>0, <1>4, <2>2, <2>3 DEF UpsertDispatcher, TInv, TypeOK
<1>5. CASE ReadHome(r)
  <2>1. PICK at \in {"look", "put"} :
            asked' = [asked EXCEPT ![r] =
                [Quiet EXCEPT !.at = at, !.house = IF at = "look" THEN home.house ELSE None]]
    BY <1>5 DEF ReadHome
  <2> DEFINE h == IF at = "look" THEN home.house ELSE None
             v == [Quiet EXCEPT !.at = at, !.house = h]
  <2>2. h \in Houses \cup {None}
    BY <1>0 DEF TypeOK, Homes
  <2>3. v \in Asked /\ v.at = at
    BY <2>2 DEF Quiet, Asked, RequestSteps
  <2>4. asked' \in [Requests -> Asked] /\ HasApp'
    BY <2>1, <2>3, AskedStep
  <2> QED
    BY <1>0, <1>5, <2>4 DEF ReadHome, TInv, TypeOK
<1>6. CASE LookUpInstallation(r)
  <2> DEFINE v == [asked[r] EXCEPT !.at = "fetch", !.app = app]
  <2>1. CASE Reply(r)
    BY <1>0, <1>6, <2>1, ReplyStep DEF LookUpInstallation, TInv, TypeOK
  <2>2. CASE HouseCovered /\ asked' = [asked EXCEPT ![r] = v]
    <3>1. v \in Asked /\ v.app # None
      BY <1>0, <1>p, <1>s, <2>2 DEF HouseCovered, TypeOK, Asked
    <3>2. asked' \in [Requests -> Asked] /\ HasApp'
      BY <2>2, <3>1, AskedStep
    <3> QED
      BY <1>0, <1>6, <3>2 DEF LookUpInstallation, TInv, TypeOK
  <2> QED
    BY <1>6, <2>1, <2>2 DEF LookUpInstallation
<1>7. CASE FetchForSecrets(r)
  <2>1. asked[r].app # None
    BY <1>0, <1>7 DEF FetchForSecrets, HasApp
  <2> QED
    BY <1>0, <1>7, <1>s, <2>1, OnwardStep, ReplyStep DEF FetchForSecrets, TInv, TypeOK
<1>8. CASE WriteSecrets(r)
  <2>1. asked[r].app # None
    BY <1>0, <1>8 DEF WriteSecrets, HasApp
  <2>2. asked' \in [Requests -> Asked] /\ HasApp'
    BY <1>8, <1>s, <2>1, OnwardStep, ReplyStep DEF WriteSecrets
  <2>3. inside' \in [Houses -> [workflow : BOOLEAN, secrets : BOOLEAN, key : BOOLEAN]]
    <3>1. PutRepoSecrets \/ inside' = inside
      BY <1>8 DEF WriteSecrets
    <3> QED
      BY <1>0, <3>1, PutStep DEF TypeOK
  <2> QED
    BY <1>0, <1>8, <2>2, <2>3 DEF WriteSecrets, TInv, TypeOK
<1>9. CASE PutHomeRepo(r)
  <2>1. asked[r].app \in Apps /\ asked[r].house \in Houses \cup {None}
    BY <1>0, <1>9, <1>r DEF PutHomeRepo, HasApp
  <2>2. home' \in Homes /\ late' \subseteq Apps
    BY <1>0, <1>9, <2>1 DEF PutHomeRepo, TypeOK, Homes
  <2>3. asked' \in [Requests -> Asked] /\ HasApp'
    BY <1>9, ReplyStep DEF PutHomeRepo
  <2> QED
    BY <1>0, <1>9, <2>2, <2>3 DEF PutHomeRepo, TInv, TypeOK
<1>10. CASE PushKey(r)
  <2> DEFINE v == [asked[r] EXCEPT !.at = "mark", !.house = house]
  <2>1. CASE Reply(r) /\ UNCHANGED inside
    BY <1>0, <1>10, <2>1, ReplyStep DEF PushKey, TInv, TypeOK
  <2>2. CASE PutKey /\ asked' = [asked EXCEPT ![r] = v]
    <3>1. v \in Asked /\ v.at = "mark"
      BY <1>0, <1>p, <1>s, <2>2 DEF PutKey, TypeOK, Asked, Houses
    <3>2. asked' \in [Requests -> Asked] /\ HasApp'
      BY <2>2, <3>1, AskedStep
    <3>3. inside' \in [Houses -> [workflow : BOOLEAN, secrets : BOOLEAN, key : BOOLEAN]]
      BY <1>0, <2>2, PutStep
    <3> QED
      BY <1>0, <1>10, <3>2, <3>3 DEF PushKey, TInv, TypeOK
  <2> QED
    BY <1>10, <2>1, <2>2 DEF PushKey
<1>11. CASE MarkPushed(r)
  <2>1. home' \in Homes
    BY <1>0, <1>11 DEF MarkPushed, MarkHome, TypeOK, Homes
  <2>2. asked' \in [Requests -> Asked] /\ HasApp'
    BY <1>11, ReplyStep DEF MarkPushed
  <2> QED
    BY <1>0, <1>11, <2>1, <2>2 DEF MarkPushed, TInv, TypeOK
<1> QED
  BY <1>1, <1>2, <1>3, <1>4, <1>5, <1>6, <1>7, <1>8, <1>9, <1>10, <1>11 DEF RequestStep

\* The buttons of a page.
LEMMA ButtonType ==
    ASSUME TInv, NEW p \in Pages,
           \/ BeginInstall(p) \/ BeginResync(p) \/ Retry(p) \/ Cancel(p)
           \/ Enable(p) \/ Refetch(p) \/ Reload(p)
    PROVE  TInv'
<1> USE Constants, SetupAssumption DEF SetupAssumption, homeVars, rowVars, pageVars, githubVars
<1>0. /\ TypeOK /\ HasApp
      /\ shows[p] \in Rows /\ install[p] \in Machines /\ run[p] \in Runs /\ row \in Rows
  BY DEF TInv, TypeOK
<1>1. \A stage \in Stages : StartStage(stage) \in Machines
  BY DEF StartStage, Machines
<1>2. ASSUME NEW stage \in Stages, NEW began \in 0..MaxEnables
      PROVE  [Still EXCEPT !.at = FirstStep(stage), !.began = began] \in Runs
  BY DEF Still, FirstStep, Runs, RunSteps
<1>3. ASSUME NEW stage \in Stages, NEW began \in 0..MaxEnables, Start(p, stage, began)
      PROVE  install' \in [Pages -> Machines] /\ run' \in [Pages -> Runs]
  BY <1>0, <1>1, <1>2, <1>3 DEF Start, TypeOK
<1>4. InitialStage(shows[p]) \in Stages /\ shows[p].gen \in 0..MaxEnables
      /\ install[p].stage \in Stages /\ run[p].began \in 0..MaxEnables
  BY <1>0 DEF InitialStage, Stages, Rows, Machines, Runs
<1>5. CASE BeginInstall(p)
  <2>1. install' \in [Pages -> Machines] /\ run' \in [Pages -> Runs]
    BY <1>3, <1>4, <1>5 DEF BeginInstall
  <2> QED
    BY <1>0, <1>5, <2>1 DEF BeginInstall, TInv, TypeOK, HasApp
<1>6. CASE BeginResync(p)
  <2>1. install' \in [Pages -> Machines] /\ run' \in [Pages -> Runs]
    BY <1>3, <1>4, <1>6 DEF BeginResync, Stages
  <2> QED
    BY <1>0, <1>6, <2>1 DEF BeginResync, TInv, TypeOK, HasApp
<1>7. CASE Retry(p)
  <2>1. install' \in [Pages -> Machines] /\ run' \in [Pages -> Runs]
    BY <1>3, <1>4, <1>7 DEF Retry
  <2> QED
    BY <1>0, <1>7, <2>1 DEF Retry, TInv, TypeOK, HasApp
<1>8. CASE Cancel(p)
  BY <1>0, <1>8 DEF Cancel, TInv, TypeOK, HasApp
<1>9. CASE Enable(p)
  <2>1. /\ enables' \in 0..MaxEnables
        /\ \/ row' = row /\ enables' = enables
           \/ /\ enables' \in Nat \ {0} /\ enables' = enables + 1
              /\ row' = [NoRow EXCEPT !.gen = enables']
    BY <1>0, <1>9 DEF Enable, MayMake, TypeOK
  <2>2. row' \in Rows
    BY <1>0, <2>1 DEF NoRow, Rows
  <2>3. (IF Shown(p) THEN shows[p].gen ELSE row'.gen) \in 0..MaxEnables
    BY <1>4, <2>2 DEF Rows
  <2>4. install' \in [Pages -> Machines] /\ run' \in [Pages -> Runs]
    <3>1. CASE Busy(p) \/ ~MayBegin(p)
      BY <1>0, <1>9, <3>1 DEF Enable, TypeOK
    <3>2. CASE ~(Busy(p) \/ ~MayBegin(p))
      BY <1>3, <1>4, <1>9, <2>3, <3>2 DEF Enable
    <3> QED
      BY <3>1, <3>2
  <2> QED
    BY <1>0, <1>9, <2>1, <2>2, <2>4 DEF Enable, TInv, TypeOK, HasApp
<1>10. [row EXCEPT !.app = None] \in Rows
  BY <1>0 DEF Rows
<1>11. CASE Refetch(p)
  BY <1>0, <1>10, <1>11 DEF Refetch, TInv, TypeOK, HasApp
<1>12. CASE Reload(p)
  BY <1>0, <1>10, <1>12 DEF Reload, TInv, TypeOK, HasApp
<1> QED
  BY <1>5, <1>6, <1>7, <1>8, <1>9, <1>11, <1>12

\* The stages of a setup.
LEMMA RunType == ASSUME TInv, NEW p \in Pages, RunStep(p) PROVE TInv'
<1> USE Constants, SetupAssumption DEF SetupAssumption, homeVars, rowVars, pageVars, githubVars
<1>0. /\ TypeOK /\ HasApp
      /\ install[p] \in Machines /\ run[p] \in Runs /\ row \in Rows /\ home \in Homes
  BY DEF TInv, TypeOK
<1>p. house \in Houses \cup {None} /\ app \in Apps \cup {None}
  BY <1>0, Present
<1>1. ASSUME NEW kind, NEW stage \in Stages
      PROVE  ApplyRepoInstallEvent(install[p], kind, stage) \in Machines
  BY <1>0 DEF ApplyRepoInstallEvent, StartStage, Machines, Stages
<1>2. ASSUME NEW kind, NEW stage \in Stages, Event(p, kind, stage)
      PROVE  install' \in [Pages -> Machines]
  BY <1>0, <1>1, <1>2 DEF Event, TypeOK
<1>3. ASSUME NEW at \in RunSteps, Onto(p, at) PROVE run' \in [Pages -> Runs]
  BY <1>0, <1>3 DEF Onto, TypeOK, Runs
<1>4. ASSUME Stop(p) PROVE run' \in [Pages -> Runs]
  BY <1>0, <1>4 DEF Stop, Still, TypeOK, Runs, RunSteps
<1>5. ASSUME NEW stage \in Stages, Fail(p, stage)
      PROVE  install' \in [Pages -> Machines] /\ run' \in [Pages -> Runs]
  BY <1>2, <1>4, <1>5 DEF Fail
<1>6. "bot" \in Stages /\ "secret_sync" \in Stages
  BY DEF Stages
<1>7. CASE BotFails(p) \/ SyncFails(p)
  <2>1. install' \in [Pages -> Machines] /\ run' \in [Pages -> Runs]
    BY <1>5, <1>6, <1>7 DEF BotFails, SyncFails
  <2> QED
    BY <1>0, <1>7, <2>1 DEF BotFails, SyncFails, TInv, TypeOK, HasApp
<1>8. CASE FetchBot(p)
  <2> DEFINE v == [run[p] EXCEPT !.at = "route", !.app = app]
  <2>2. v \in Runs
    BY <1>0, <1>p DEF Runs, RunSteps
  <2>1. run' \in [Pages -> Runs]
    BY <1>0, <1>8, <2>2 DEF FetchBot, TypeOK
  <2> QED
    BY <1>0, <1>8, <2>1 DEF FetchBot, TInv, TypeOK, HasApp
<1>9. CASE RouteBot(p)
  <2>1. row' \in Rows /\ run' \in [Pages -> Runs]
    BY <1>0, <1>3, <1>9 DEF RouteBot, Rows, Runs, RunSteps
  <2> QED
    BY <1>0, <1>9, <2>1 DEF RouteBot, TInv, TypeOK, HasApp
<1>10. CASE MarkBot(p)
  <2>1. row' \in Rows
    BY <1>0, <1>10 DEF MarkBot, Rows
  <2> DEFINE v == [run[p] EXCEPT !.at = "home", !.app = None]
  <2>2. v \in Runs
    BY <1>0 DEF Runs, RunSteps
  <2>3. (Event(p, "stage_ok", "bot") /\ run' = [run EXCEPT ![p] = v]) \/ Fail(p, "bot")
    BY <1>10 DEF MarkBot
  <2>4. install' \in [Pages -> Machines] /\ run' \in [Pages -> Runs]
    BY <1>0, <1>2, <1>5, <1>6, <2>2, <2>3 DEF TypeOK
  <2> QED
    BY <1>0, <1>10, <2>1, <2>4 DEF MarkBot, TInv, TypeOK, HasApp
<1>11. CASE ReadHomeRepo(p)
  <2>1. run' \in [Pages -> Runs]
    BY <1>3, <1>11 DEF ReadHomeRepo, RunSteps
  <2> QED
    BY <1>0, <1>11, <2>1 DEF ReadHomeRepo, TInv, TypeOK, HasApp
<1>12. CASE PushVaultSecrets(p)
  <2>1. inside' \in [Houses -> [workflow : BOOLEAN, secrets : BOOLEAN, key : BOOLEAN]]
    BY <1>0, <1>12, PutStep DEF PushVaultSecrets
  <2> DEFINE v == [run[p] EXCEPT !.at = "row", !.put = house]
  <2>2. v \in Runs
    BY <1>0, <1>p DEF Runs, RunSteps
  <2>3. (run' = [run EXCEPT ![p] = v] /\ UNCHANGED install) \/ Fail(p, "secret_sync")
    BY <1>12 DEF PushVaultSecrets
  <2>4. install' \in [Pages -> Machines] /\ run' \in [Pages -> Runs]
    BY <1>0, <1>5, <1>6, <2>2, <2>3 DEF TypeOK
  <2> QED
    BY <1>0, <1>12, <2>1, <2>4 DEF PushVaultSecrets, TInv, TypeOK, HasApp
<1>13. CASE MarkRepoSynced(p)
  <2>1. row' \in Rows
    BY <1>0, <1>13 DEF MarkRepoSynced, Rows
  <2>2. install' \in [Pages -> Machines] /\ run' \in [Pages -> Runs]
    BY <1>0, <1>2, <1>3, <1>4, <1>5, <1>6, <1>13 DEF MarkRepoSynced, TypeOK, RunSteps
  <2> QED
    BY <1>0, <1>13, <2>1, <2>2 DEF MarkRepoSynced, TInv, TypeOK, HasApp
<1>14. CASE MarkHomeSynced(p)
  <2> DEFINE v == [run[p] EXCEPT !.at = "again", !.put = None]
  <2>2. v \in Runs
    BY <1>0 DEF Runs, RunSteps
  <2>3. run' = [run EXCEPT ![p] = v]
    BY <1>14 DEF MarkHomeSynced
  <2>4. home' \in Homes
    <3>1. [home EXCEPT !.key = TRUE, !.astray = home.house # run[p].put] \in Homes
      BY <1>0 DEF Homes
    <3>2. home' \in {home, [home EXCEPT !.key = TRUE, !.astray = home.house # run[p].put]}
      BY <1>14 DEF MarkHomeSynced, MarkHome
    <3> QED
      BY <1>0, <3>1, <3>2
  <2> HIDE DEF v
  <2>1. home' \in Homes /\ run' \in [Pages -> Runs]
    BY <1>0, <2>2, <2>3, <2>4 DEF TypeOK
  <2> QED
    BY <1>0, <1>14, <2>1 DEF MarkHomeSynced, TInv, TypeOK, HasApp
<1> QED
  BY <1>7, <1>8, <1>9, <1>10, <1>11, <1>12, <1>13, <1>14 DEF RunStep

THEOREM TypesHold == Spec => []TInv
<1>1. TInv /\ UNCHANGED vars => TInv'
  BY DEF TInv, TypeOK, HasApp, vars, githubVars, homeVars, rowVars, pageVars
<1>2. TInv /\ [Next]_vars => TInv'
  <2> SUFFICES ASSUME TInv, Next PROVE TInv'
    BY <1>1
  <2> QED
    BY GithubType, RequestType, ButtonType, RunType DEF Next, PageStep
<1> QED
  BY InitType, <1>2, PTL DEF Spec

\* Every variable has its type, however many pages and requests there are.
THEOREM TypeCorrect == Spec => []TypeOK
<1>1. TInv => TypeOK
  BY DEF TInv
<1> QED
  BY <1>1, TypesHold, PTL

-----------------------------------------------------------------------------
(* What a step never takes back *)

\* No house comes back under its id, and none loses what it has.
Grows ==
    /\ houses' \in Nat /\ houses <= houses'
    /\ house' \in {None, house} \/ house' > houses
    /\ \A h \in Houses : /\ inside[h].workflow => inside'[h].workflow
                         /\ inside[h].secrets => inside'[h].secrets
                         /\ inside[h].key => inside'[h].key

LEMMA StillGrows ==
    ASSUME TypeOK, UNCHANGED <<house, houses>>,
           inside' = inside \/ PutRepoContents \/ PutRepoSecrets \/ PutKey
    PROVE  Grows
<1>1. houses \in Nat /\ inside \in [Houses -> [workflow : BOOLEAN, secrets : BOOLEAN, key : BOOLEAN]]
  BY SetupAssumption DEF SetupAssumption, TypeOK
<1>2. CASE inside' = inside
  BY <1>1, <1>2 DEF Grows
<1>3. CASE PutRepoContents
  BY <1>1, <1>3, Present DEF PutRepoContents, Grows
<1>4. CASE PutRepoSecrets
  BY <1>1, <1>4, Present DEF PutRepoSecrets, Grows
<1>5. CASE PutKey
  BY <1>1, <1>5, Present DEF PutKey, Grows
<1> QED
  BY <1>2, <1>3, <1>4, <1>5

\* What the request steps leave alone.
LEMMA RequestFrame ==
    ASSUME TInv, NEW r \in Requests, RequestStep(r)
    PROVE  UNCHANGED <<app, apps, hooks, rowVars, pageVars>> /\ Grows
<1> USE DEF githubVars, homeVars
<1>0. TypeOK
  BY DEF TInv
<1>1. CASE EnsureHomeRepo(r)
  <2>1. inside' = inside /\ houses \in Nat
        /\ (UNCHANGED <<house, houses>> \/ (houses' = houses + 1 /\ house' = houses'))
    BY <1>0, <1>1, SetupAssumption DEF EnsureHomeRepo, CreateUserRepo, TypeOK, SetupAssumption
  <2> QED
    BY <1>1, <2>1 DEF EnsureHomeRepo, Grows
<1>2. CASE FindInstallation(r)
  BY <1>0, <1>2, StillGrows DEF FindInstallation
<1>3. CASE AddToInstallation(r)
  BY <1>0, <1>3, StillGrows DEF AddToInstallation
<1>4. CASE UpsertDispatcher(r)
  BY <1>0, <1>4, StillGrows DEF UpsertDispatcher
<1>5. CASE ReadHome(r)
  BY <1>0, <1>5, StillGrows DEF ReadHome
<1>6. CASE LookUpInstallation(r)
  BY <1>0, <1>6, StillGrows DEF LookUpInstallation
<1>7. CASE FetchForSecrets(r)
  BY <1>0, <1>7, StillGrows DEF FetchForSecrets
<1>8. CASE WriteSecrets(r)
  BY <1>0, <1>8, StillGrows DEF WriteSecrets
<1>9. CASE PutHomeRepo(r)
  BY <1>0, <1>9, StillGrows DEF PutHomeRepo
<1>10. CASE PushKey(r)
  BY <1>0, <1>10, StillGrows DEF PushKey
<1>11. CASE MarkPushed(r)
  BY <1>0, <1>11, StillGrows DEF MarkPushed
<1> QED
  BY <1>1, <1>2, <1>3, <1>4, <1>5, <1>6, <1>7, <1>8, <1>9, <1>10, <1>11 DEF RequestStep

\* What the steps of a page leave alone.
LEMMA PageFrame ==
    ASSUME TInv, NEW p \in Pages, PageStep(p)
    PROVE  /\ UNCHANGED <<house, houses, app, apps, hooks, late, asked>> /\ Grows
           /\ home' = home \/ (run[p].at = "rehome" /\ MarkHome(run[p].put))
<1> USE DEF githubVars, homeVars
<1>0. TypeOK
  BY DEF TInv
<1>1. CASE BeginInstall(p) \/ BeginResync(p) \/ Retry(p) \/ Cancel(p)
  BY <1>0, <1>1, StillGrows DEF BeginInstall, BeginResync, Retry, Cancel
<1>2. CASE Enable(p) \/ Refetch(p) \/ Reload(p)
  BY <1>0, <1>2, StillGrows DEF Enable, Refetch, Reload
<1>3. CASE BotFails(p) \/ SyncFails(p) \/ FetchBot(p) \/ RouteBot(p)
  BY <1>0, <1>3, StillGrows DEF BotFails, SyncFails, FetchBot, RouteBot
<1>4. CASE MarkBot(p) \/ ReadHomeRepo(p) \/ MarkRepoSynced(p)
  BY <1>0, <1>4, StillGrows DEF MarkBot, ReadHomeRepo, MarkRepoSynced
<1>5. CASE PushVaultSecrets(p)
  BY <1>0, <1>5, StillGrows DEF PushVaultSecrets
<1>6. CASE MarkHomeSynced(p)
  BY <1>0, <1>6, StillGrows DEF MarkHomeSynced
<1> QED
  BY <1>1, <1>2, <1>3, <1>4, <1>5, <1>6 DEF PageStep, RunStep

LEMMA GithubFrame ==
    ASSUME TInv, GithubStep \/ Disable
    PROVE  /\ UNCHANGED <<asked, pageVars, enables>> /\ Grows
           /\ row' \in {row, NoRow}
           /\ home' = home \/ home' = [home EXCEPT !.app = None]
<1> USE DEF githubVars, homeVars, rowVars, pageVars
<1>0. TypeOK
  BY DEF TInv
<1>1. CASE InstallApp
  BY <1>0, <1>1, StillGrows DEF InstallApp
<1>2. CASE UninstallApp
  BY <1>0, <1>2, StillGrows DEF UninstallApp
<1>3. CASE DeleteHouse
  <2>1. inside' = inside /\ houses' = houses /\ house' = None /\ houses \in Nat
    BY <1>0, <1>3, SetupAssumption DEF DeleteHouse, TypeOK, SetupAssumption
  <2> QED
    BY <1>3, <2>1 DEF DeleteHouse, Grows
<1>4. ASSUME NEW id \in Apps, HandleDeleted(id)
      PROVE  /\ UNCHANGED <<asked, pageVars, enables>> /\ Grows
             /\ row' \in {row, NoRow}
             /\ home' = home \/ home' = [home EXCEPT !.app = None]
  BY <1>0, <1>4, StillGrows DEF HandleDeleted, ClearInstallation
<1>5. CASE Disable
  BY <1>0, <1>5, StillGrows DEF Disable
<1> QED
  BY <1>1, <1>2, <1>3, <1>4, <1>5 DEF GithubStep

-----------------------------------------------------------------------------
(* The installation of the Home row *)

LEMMA HelperStep == TInv /\ HelperIsIn /\ [Next]_vars => HelperIsIn'
<1> SUFFICES ASSUME TInv, HelperIsIn, [Next]_vars PROVE HelperIsIn'
  OBVIOUS
<1>0. TypeOK
  BY DEF TInv
<1>1. ASSUME NEW p \in Pages, PageStep(p) PROVE HelperIsIn'
  <2>1. home'.app = home.app
    BY <1>0, <1>1, PageFrame DEF MarkHome, TypeOK, Homes
  <2> QED
    BY <1>1, <2>1, PageFrame DEF HelperIsIn
<1>2. ASSUME NEW r \in Requests, RequestStep(r) PROVE HelperIsIn'
  <2>1. UNCHANGED <<app, hooks>>
    BY <1>2, RequestFrame
  <2>2. CASE UNCHANGED homeVars
    BY <2>1, <2>2 DEF HelperIsIn, homeVars
  <2>3. CASE PutHomeRepo(r) /\ ~UNCHANGED homeVars
    <3>1. home'.app = asked[r].app
      BY <1>0, <2>3 DEF PutHomeRepo, TypeOK, Homes
    <3>2. late' = late \cup ({asked[r].app} \ ({app} \cup hooks))
      BY <2>3 DEF PutHomeRepo
    <3> QED
      BY <2>1, <3>1, <3>2 DEF HelperIsIn
  <2>4. CASE MarkPushed(r)
    <3>1. home'.app = home.app /\ late' = late
      BY <1>0, <2>4 DEF MarkPushed, MarkHome, TypeOK, Homes
    <3> QED
      BY <2>1, <3>1 DEF HelperIsIn
  <2>5. UNCHANGED homeVars \/ PutHomeRepo(r) \/ MarkPushed(r)
    BY <1>2 DEF RequestStep, EnsureHomeRepo, FindInstallation, AddToInstallation,
       UpsertDispatcher, ReadHome, LookUpInstallation, FetchForSecrets, WriteSecrets, PushKey
  <2> QED
    BY <2>2, <2>3, <2>4, <2>5
<1>3. CASE InstallApp
  <2>1. home.app # None => home.app \in hooks \cup late \/ home.app = app
    BY DEF HelperIsIn
  <2>2. UNCHANGED <<home, hooks, late>> /\ app = None
    BY <1>3 DEF InstallApp, homeVars
  <2> QED
    BY <2>1, <2>2 DEF HelperIsIn
<1>4. CASE UninstallApp
  BY <1>4 DEF UninstallApp, homeVars, HelperIsIn
<1>5. CASE DeleteHouse \/ Disable \/ UNCHANGED vars
  BY <1>5 DEF DeleteHouse, Disable, homeVars, githubVars, vars, HelperIsIn
<1>6. ASSUME NEW id \in Apps, HandleDeleted(id) PROVE HelperIsIn'
  <2>1. home'.app = IF home.app = id THEN None ELSE home.app
    BY <1>0, <1>6 DEF HandleDeleted, ClearInstallation, TypeOK, Homes
  <2>2. hooks' = hooks \ {id} /\ UNCHANGED <<app, late>>
    BY <1>6 DEF HandleDeleted
  <2> QED
    BY <2>1, <2>2 DEF HelperIsIn
<1> QED
  BY <1>1, <1>2, <1>3, <1>4, <1>5, <1>6 DEF Next, GithubStep

\* The installation the Home row names is there, or is about to be cleared by
\* the report of its deletion, or was written after that report.
THEOREM HelperIsInAlways == Spec => []HelperIsIn
<1>1. Init => HelperIsIn
  BY DEF Init, HelperIsIn, NoHome
<1> QED
  BY <1>1, TypesHold, HelperStep, PTL DEF Spec

-----------------------------------------------------------------------------
(* What the house of the Home row has *)

\* The same of the state after a step.
WillHave(h, at) ==
    /\ h <= houses'
    /\ h # None /\ h = house' =>
           /\ at \in {"look", "fetch", "secrets", "save"} => inside'[h].workflow
           /\ at = "save" => inside'[h].secrets

\* A house that has what a step needs still has it after any step of anyone.
LEMMA StillHas ==
    ASSUME TypeOK, Grows, NEW h \in Houses \cup {None}, NEW at, Has(h, at)
    PROVE  WillHave(h, at)
<1>1. houses \in Nat /\ houses' \in Int /\ h \in Int
  BY Constants, SetupAssumption DEF TypeOK, Grows, SetupAssumption
<1> QED
  BY <1>1 DEF Has, WillHave, Grows

LEMMA HouseOfPage == ASSUME TInv, HouseInv, NEW p \in Pages, PageStep(p) PROVE HouseInv'
<1>0. TypeOK /\ Grows /\ asked' = asked
  BY PageFrame DEF TInv
<1>1. home'.house = home.house /\ home.house \in Houses \cup {None}
  BY <1>0, PageFrame DEF MarkHome, TypeOK, Homes
<1>2. Has(home.house, "save")'
  BY <1>0, <1>1, StillHas DEF HouseInv, Has, WillHave
<1>3. ASSUME NEW q \in Requests PROVE Has(asked[q].house, asked[q].at)'
  <2>1. asked[q].house \in Houses \cup {None}
    BY <1>0 DEF TypeOK, Asked
  <2>2. Has(asked[q].house, asked[q].at)
    BY DEF HouseInv
  <2> QED
    BY <1>0, <2>1, <2>2, StillHas DEF Has, WillHave
<1> QED
  BY <1>2, <1>3 DEF HouseInv

LEMMA HouseOfGithub == ASSUME TInv, HouseInv, GithubStep \/ Disable PROVE HouseInv'
<1>0. TypeOK /\ Grows /\ asked' = asked
  BY GithubFrame DEF TInv
<1>1. home'.house = home.house /\ home.house \in Houses \cup {None}
  BY <1>0, GithubFrame DEF TypeOK, Homes
<1>2. Has(home.house, "save")'
  BY <1>0, <1>1, StillHas DEF HouseInv, Has, WillHave
<1>3. ASSUME NEW q \in Requests PROVE Has(asked[q].house, asked[q].at)'
  <2>1. asked[q].house \in Houses \cup {None}
    BY <1>0 DEF TypeOK, Asked
  <2>2. Has(asked[q].house, asked[q].at)
    BY DEF HouseInv
  <2> QED
    BY <1>0, <2>1, <2>2, StillHas DEF Has, WillHave
<1> QED
  BY <1>2, <1>3 DEF HouseInv

\* A step of a request: its own record and the Home row are what is to be looked at.
LEMMA HouseOfOthers ==
    ASSUME TInv, HouseInv, Grows, NEW r \in Requests, NEW v \in Asked,
           asked' = [asked EXCEPT ![r] = v],
           WillHave(v.house, v.at), home'.house = home.house
    PROVE  HouseInv'
<1>0. TypeOK /\ home.house \in Houses \cup {None}
  BY DEF TInv, TypeOK, Homes
<1>1. Has(home.house, "save")'
  BY <1>0, StillHas DEF HouseInv, Has, WillHave
<1>2. ASSUME NEW q \in Requests PROVE Has(asked[q].house, asked[q].at)'
  <2>1. CASE q = r
    <3>1. asked'[q] = v
      BY <1>0, <2>1 DEF TypeOK
    <3> QED
      BY <3>1 DEF Has, WillHave
  <2>2. CASE q # r
    <3>1. asked'[q] = asked[q] /\ asked[q].house \in Houses \cup {None}
      BY <1>0, <2>2 DEF TypeOK, Asked
    <3>2. Has(asked[q].house, asked[q].at)
      BY DEF HouseInv
    <3> QED
      BY <1>0, <3>1, <3>2, StillHas DEF Has, WillHave
  <2> QED
    BY <2>1, <2>2
<1> QED
  BY <1>1, <1>2 DEF HouseInv

LEMMA HouseOfReply ==
    ASSUME TInv, HouseInv, Grows, NEW r \in Requests, Reply(r), home'.house = home.house
    PROVE  HouseInv'
<1>1. houses' \in Int /\ 0 <= houses'
  BY SetupAssumption DEF TInv, TypeOK, Grows, SetupAssumption
<1>2. Quiet \in Asked /\ WillHave(Quiet.house, Quiet.at)
  BY <1>1, Constants DEF Has, WillHave, Quiet, None
<1> QED
  BY <1>2, HouseOfOthers DEF Reply

LEMMA HouseOfRequest ==
    ASSUME TInv, TInv', HouseInv, NEW r \in Requests, RequestStep(r) PROVE HouseInv'
<1>0. TypeOK /\ Grows /\ asked[r] \in Asked /\ asked'[r] \in Asked
  BY RequestFrame DEF TInv, TypeOK
<1>a. /\ asked[r].house \in Houses \cup {None} /\ home.house \in Houses \cup {None}
      /\ Has(asked[r].house, asked[r].at) /\ Has(home.house, "save")
  BY <1>0 DEF TypeOK, Homes, Asked, HouseInv
<1>b. houses \in Nat /\ houses' \in Nat /\ house' \in Houses \cup {None} /\ Houses \subseteq Nat
  <2>1. TypeOK'
    BY DEF TInv
  <2>2. house' \in {None, houses'} /\ houses' \in 0..MaxHouses
    BY <2>1 DEF TypeOK
  <2> QED
    BY <1>0, <2>2, Constants, SetupAssumption DEF TypeOK, SetupAssumption, Houses, None
\* The record a step leaves, when it is not a reply, and what it must have.
<1>v. ASSUME NEW v, asked' = [asked EXCEPT ![r] = v],
             WillHave(v.house, v.at), home'.house = home.house
      PROVE  HouseInv'
  <2>1. v \in Asked
    BY <1>0, <1>v DEF TypeOK
  <2> QED
    BY <1>0, <1>v, <2>1, HouseOfOthers
<1>w. ASSUME NEW at, Onward(r, at), WillHave(asked[r].house, at), home'.house = home.house
      PROVE  HouseInv'
  <2> DEFINE v == [asked[r] EXCEPT !.at = at]
  <2>1. v.house = asked[r].house /\ v.at = at
    BY <1>0 DEF Asked
  <2>2. asked' = [asked EXCEPT ![r] = v]
    BY <1>w DEF Onward
  <2>3. WillHave(v.house, v.at)
    BY <1>0, <1>w, <2>1, <2>2 DEF Has, WillHave
  <2> QED
    BY <1>v, <1>w, <2>2, <2>3
<1>1. CASE EnsureHomeRepo(r)
  <2>1. CASE Reply(r)
    BY <1>0, <1>1, <2>1, HouseOfReply DEF EnsureHomeRepo, homeVars
  <2>2. CASE asked' = [asked EXCEPT ![r] = [Quiet EXCEPT !.at = "cover", !.house = house']]
    <3> DEFINE v == [Quiet EXCEPT !.at = "cover", !.house = house']
    <3>1. v.house = house' /\ v.at = "cover" /\ home' = home
      BY <1>1 DEF Quiet, EnsureHomeRepo, homeVars
    <3>2. house' <= houses'
      <4>1. TypeOK'
        BY DEF TInv
      <4> QED
        BY <4>1, <1>b DEF TypeOK, None
    <3>3. WillHave(v.house, v.at)
      BY <2>2, <3>1, <3>2 DEF Has, WillHave
    <3> QED
      BY <1>v, <2>2, <3>1, <3>3
  <2> QED
    BY <1>1, <2>1, <2>2 DEF EnsureHomeRepo
<1>2. CASE FindInstallation(r)
  <2>1. CASE Reply(r)
    BY <1>0, <1>2, <2>1, HouseOfReply DEF FindInstallation, homeVars
  <2>2. CASE asked' = [asked EXCEPT ![r] = [@ EXCEPT !.at = "workflow", !.app = app]]
    <3> DEFINE v == [asked[r] EXCEPT !.at = "workflow", !.app = app]
    <3>1. v.house = asked[r].house /\ v.at = "workflow" /\ UNCHANGED <<home, house, houses, inside>>
      BY <1>0, <1>2 DEF Asked, FindInstallation, homeVars, githubVars
    <3>2. WillHave(v.house, v.at)
      BY <1>a, <2>2, <3>1 DEF Has, WillHave
    <3> QED
      BY <1>v, <2>2, <3>1, <3>2
  <2> QED
    BY <1>2, <2>1, <2>2 DEF FindInstallation
<1>3. CASE AddToInstallation(r)
  <2>1. UNCHANGED <<home, house, houses, inside>> /\ Onward(r, "covered")
    BY <1>3 DEF AddToInstallation, homeVars, githubVars
  <2>2. WillHave(asked[r].house, "covered")
    BY <1>0, <1>a, <2>1, StillHas DEF Has, WillHave
  <2> QED
    BY <1>w, <2>1, <2>2
<1>4. CASE UpsertDispatcher(r)
  <2>1. CASE Reply(r)
    BY <1>0, <1>4, <2>1, HouseOfReply DEF UpsertDispatcher, homeVars
  <2>2. CASE PutRepoContents /\ Onward(r, "fetch")
    <3>1. asked[r].house <= houses' /\ home' = home /\ house' = house
      BY <1>0, <1>4, <1>a, StillHas DEF UpsertDispatcher, homeVars, WillHave
    <3>2. house \in Houses /\ inside'[house].workflow
      BY <1>0, <2>2, Present DEF PutRepoContents, TypeOK
    <3>3. WillHave(asked[r].house, "fetch")
      BY <3>1, <3>2 DEF Has, WillHave
    <3> QED
      BY <1>w, <2>2, <3>1, <3>3
  <2> QED
    BY <1>4, <2>1, <2>2 DEF UpsertDispatcher
<1>5. CASE ReadHome(r)
  <2>1. PICK at \in {"look", "put"} :
            asked' = [asked EXCEPT ![r] =
                [Quiet EXCEPT !.at = at,
                              !.house = IF at = "look" THEN home.house ELSE None]]
    BY <1>5 DEF ReadHome
  <2> DEFINE v == [Quiet EXCEPT !.at = at,
                                !.house = IF at = "look" THEN home.house ELSE None]
  <2>2. /\ v.house = (IF at = "look" THEN home.house ELSE None) /\ v.at = at
        /\ UNCHANGED <<home, house, houses, inside>>
    BY <1>5 DEF Quiet, ReadHome, homeVars, githubVars
  <2>3. WillHave(v.house, v.at)
    BY <1>a, <1>b, <2>1, <2>2 DEF Has, WillHave, None
  <2> QED
    BY <1>v, <2>1, <2>2, <2>3
<1>6. CASE LookUpInstallation(r)
  <2>1. CASE Reply(r)
    BY <1>0, <1>6, <2>1, HouseOfReply DEF LookUpInstallation, homeVars
  <2>2. CASE asked' = [asked EXCEPT ![r] = [@ EXCEPT !.at = "fetch", !.app = app]]
    <3> DEFINE v == [asked[r] EXCEPT !.at = "fetch", !.app = app]
    <3>1. /\ v.house = asked[r].house /\ v.at = "fetch" /\ asked[r].at = "look"
          /\ UNCHANGED <<home, house, houses, inside>>
      BY <1>0, <1>6 DEF Asked, LookUpInstallation, homeVars, githubVars
    <3>2. WillHave(v.house, v.at)
      BY <1>a, <2>2, <3>1 DEF Has, WillHave
    <3> QED
      BY <1>v, <2>2, <3>1, <3>2
  <2> QED
    BY <1>6, <2>1, <2>2 DEF LookUpInstallation
<1>7. CASE FetchForSecrets(r)
  <2>1. CASE Reply(r)
    BY <1>0, <1>7, <2>1, HouseOfReply DEF FetchForSecrets, homeVars
  <2>2. CASE Onward(r, "secrets")
    <3>1. asked[r].at = "fetch" /\ UNCHANGED <<home, house, houses, inside>>
      BY <1>7 DEF FetchForSecrets, homeVars, githubVars
    <3>2. WillHave(asked[r].house, "secrets")
      <4>1. asked[r].house <= houses'
        BY <1>0, <1>a, StillHas DEF WillHave
      <4>2. asked[r].house # None /\ asked[r].house = house' => inside'[asked[r].house].workflow
        BY <1>a, <3>1 DEF Has, WillHave
      <4> QED
        BY <4>1, <4>2 DEF Has, WillHave
    <3> QED
      BY <1>w, <2>2, <3>1, <3>2
  <2> QED
    BY <1>7, <2>1, <2>2 DEF FetchForSecrets
<1>8. CASE WriteSecrets(r)
  <2>1. CASE Reply(r)
    BY <1>0, <1>8, <2>1, HouseOfReply DEF WriteSecrets, homeVars
  <2>2. CASE PutRepoSecrets /\ Onward(r, "save")
    <3>1. asked[r].at = "secrets" /\ home' = home /\ house' = house
      BY <1>8 DEF WriteSecrets, homeVars
    <3>2. /\ asked[r].house <= houses'
          /\ asked[r].house # None /\ asked[r].house = house' => inside'[asked[r].house].workflow
      BY <1>0, <1>a, <3>1, StillHas DEF WillHave
    <3>3. house \in Houses /\ inside'[house].secrets
      BY <1>0, <2>2, Present DEF PutRepoSecrets, TypeOK
    <3>4. WillHave(asked[r].house, "save")
      BY <3>1, <3>2, <3>3 DEF Has, WillHave
    <3> QED
      BY <1>w, <2>2, <3>1, <3>4
  <2> QED
    BY <1>8, <2>1, <2>2 DEF WriteSecrets
<1>9. CASE PutHomeRepo(r)
  <2>1. CASE home' = home
    BY <1>0, <1>9, <2>1, HouseOfReply DEF PutHomeRepo
  <2>2. CASE home' # home
    <3>1. home'.house = asked[r].house /\ asked[r].at = "save"
      BY <1>0, <1>9, <2>2 DEF PutHomeRepo, homeVars, TypeOK, Homes
    <3>2. UNCHANGED <<house, houses, inside>> /\ Reply(r)
      BY <1>9 DEF PutHomeRepo, githubVars
    <3>3. Has(home.house, "save")'
      BY <1>a, <3>1, <3>2 DEF Has, WillHave
    <3>4. ASSUME NEW q \in Requests PROVE Has(asked[q].house, asked[q].at)'
      <4>1. asked' = [asked EXCEPT ![r] = Quiet]
        BY <3>2 DEF Reply
      <4>2. CASE q = r
        <5>1. asked'[q].house = 0 /\ asked'[q].at = "idle"
          BY <1>0, <4>1, <4>2 DEF TypeOK, Quiet, None
        <5> QED
          BY <1>b, <5>1 DEF Has, WillHave, None
      <4>3. CASE q # r
        BY <1>0, <3>2, <4>1, <4>3 DEF TypeOK, Has, HouseInv
      <4> QED
        BY <4>2, <4>3
    <3> QED
      BY <3>3, <3>4 DEF HouseInv
  <2> QED
    BY <2>1, <2>2
<1>10. CASE PushKey(r)
  <2>1. CASE Reply(r)
    BY <1>0, <1>10, <2>1, HouseOfReply DEF PushKey, homeVars
  <2>2. CASE asked' = [asked EXCEPT ![r] = [@ EXCEPT !.at = "mark", !.house = house]]
    <3> DEFINE v == [asked[r] EXCEPT !.at = "mark", !.house = house]
    <3>1. v.house = house /\ v.at = "mark" /\ UNCHANGED <<home, house, houses>>
      BY <1>0, <1>10 DEF Asked, PushKey, homeVars
    <3>2. house <= houses'
      BY <1>0, <1>b, <3>1 DEF TypeOK, None
    <3>3. WillHave(v.house, v.at)
      BY <2>2, <3>1, <3>2 DEF Has, WillHave
    <3> QED
      BY <1>v, <2>2, <3>1, <3>3
  <2> QED
    BY <1>10, <2>1, <2>2 DEF PushKey
<1>11. CASE MarkPushed(r)
  <2>1. home'.house = home.house /\ Reply(r)
    BY <1>0, <1>11 DEF MarkPushed, MarkHome, TypeOK, Homes
  <2> QED
    BY <1>0, <2>1, HouseOfReply
<1> QED
  BY <1>1, <1>2, <1>3, <1>4, <1>5, <1>6, <1>7, <1>8, <1>9, <1>10, <1>11 DEF RequestStep

LEMMA HouseStep == TInv /\ TInv' /\ HouseInv /\ [Next]_vars => HouseInv'
<1>1. TInv /\ HouseInv /\ UNCHANGED vars => HouseInv'
  BY DEF HouseInv, Has, vars, githubVars, homeVars
<1> QED
  BY <1>1, HouseOfPage, HouseOfGithub, HouseOfRequest DEF Next

\* A Home row with an installation stands for a house that has the workflow
\* and the App's secrets, as long as that house is the one there is.
THEOREM HouseIsReadyAlways == Spec => []HouseIsReady
<1>1. Init => HouseInv
  BY DEF Init, HouseInv, Has, NoHome, Quiet, None
<1>2. HouseInv => HouseIsReady
  BY DEF HouseInv, Has, HouseIsReady, Made
<1> QED
  BY <1>1, <1>2, TypesHold, HouseStep, PTL DEF Spec

-----------------------------------------------------------------------------
(* Where the vault key is *)

\* The same of the state after a step.
WillHold(h) == h # None /\ inside'[h].key

\* A key that was put into a house stays there.
LEMMA StillHolds ==
    ASSUME Grows, NEW h \in Houses \cup {None}, KeyAt(h) PROVE WillHold(h)
BY DEF KeyAt, WillHold, Grows

LEMMA PutHolds == ASSUME TypeOK, PutKey, house' = house PROVE WillHold(house)
<1>1. house \in Houses /\ inside' = [inside EXCEPT ![house].key = TRUE] /\ house # None
  BY Present DEF PutKey
<1> QED
  BY <1>1 DEF WillHold, TypeOK

\* The Home row after a mark for a house that has the key.
LEMMA MarkKeepsKey ==
    ASSUME TInv, KeyInv, Grows, NEW from \in Houses \cup {None}, KeyAt(from),
           home' = home \/ MarkHome(from)
    PROVE  home'.key => home'.house # None /\ (WillHold(home'.house) \/ home'.astray)
<1>0. home \in Homes
  BY DEF TInv, TypeOK
<1>1. CASE home' = home
  <2>1. home.house \in Houses \cup {None}
    BY <1>0 DEF Homes
  <2> QED
    BY <1>1, <2>1, StillHolds DEF KeyInv
<1>2. CASE home' # home
  <2>1. /\ home' = [home EXCEPT !.key = TRUE, !.astray = home.house # from]
        /\ home.house # None
    BY <1>2 DEF MarkHome, Made
  <2>2. home'.house = home.house /\ home'.astray = (home.house # from)
    BY <1>0, <2>1 DEF Homes
  <2>3. WillHold(from)
    BY StillHolds
  <2> QED
    BY <2>1, <2>2, <2>3
<1> QED
  BY <1>1, <1>2

\* The Home row keeps what it says of the key when it keeps its house.
LEMMA RowKeepsKey ==
    ASSUME TInv, KeyInv, Grows, home' = home \/ home' = [home EXCEPT !.app = None]
    PROVE  home'.key => home'.house # None /\ (WillHold(home'.house) \/ home'.astray)
<1>1. home'.key = home.key /\ home'.house = home.house /\ home'.astray = home.astray
      /\ home.house \in Houses \cup {None}
  BY DEF TInv, TypeOK, Homes
<1> QED
  BY <1>1, StillHolds DEF KeyInv

\* The records of the requests and of the pages that took no step.
LEMMA AskedKeepsKey ==
    ASSUME TInv, KeyInv, Grows, NEW q \in Requests, asked'[q] = asked[q]
    PROVE  /\ asked'[q].at \in Naming => asked'[q].house # None
           /\ asked'[q].at = "mark" => WillHold(asked'[q].house)
<1>1. asked[q].house \in Houses \cup {None}
  BY DEF TInv, TypeOK, Asked
<1> QED
  BY <1>1, StillHolds DEF KeyInv

LEMMA RunKeepsKey ==
    ASSUME TInv, KeyInv, Grows, NEW q \in Pages, run'[q] = run[q]
    PROVE  run'[q].at \in {"row", "rehome"} => WillHold(run'[q].put)
<1>1. run[q].put \in Houses \cup {None}
  BY DEF TInv, TypeOK, Runs
<1> QED
  BY <1>1, StillHolds DEF KeyInv

\* A page has put the key where its chain is about to mark it.
LEMMA KeyOfChain ==
    ASSUME TInv, KeyInv, Grows, NEW p \in Pages, PageStep(p), NEW q \in Pages
    PROVE  run'[q].at \in {"row", "rehome"} => WillHold(run'[q].put)
<1>0. TypeOK /\ run[p] \in Runs /\ Still \in Runs
  BY Constants DEF TInv, TypeOK
<1>k. run[p].at \in {"row", "rehome"} => WillHold(run[p].put)
  <2>1. run[p].put \in Houses \cup {None}
    BY <1>0 DEF Runs
  <2> QED
    BY <2>1, StillHolds DEF KeyInv
\* The record of p is another one, and not at a mark.
<1>v. ASSUME NEW v, run' = [run EXCEPT ![p] = v], v.at \in {"row", "rehome"} => WillHold(v.put)
      PROVE  run'[q].at \in {"row", "rehome"} => WillHold(run'[q].put)
  BY <1>0, <1>v, RunKeepsKey DEF TypeOK
<1>s. ASSUME NEW stage, NEW began, Start(p, stage, began)
      PROVE  run'[q].at \in {"row", "rehome"} => WillHold(run'[q].put)
  <2> DEFINE v == [Still EXCEPT !.at = FirstStep(stage), !.began = began]
  <2>1. run' = [run EXCEPT ![p] = v] /\ v.at \notin {"row", "rehome"}
    BY <1>s DEF Start, FirstStep, Still
  <2> QED
    BY <1>v, <2>1
<1>t. ASSUME Stop(p)
      PROVE  run'[q].at \in {"row", "rehome"} => WillHold(run'[q].put)
  <2> DEFINE v == [Still EXCEPT !.began = run[p].began]
  <2>1. run' = [run EXCEPT ![p] = v] /\ v.at \notin {"row", "rehome"}
    BY <1>t DEF Stop, Still
  <2> QED
    BY <1>v, <2>1
<1>o. ASSUME NEW at, Onto(p, at), at \in {"row", "rehome"} => run[p].at \in {"row", "rehome"}
      PROVE  run'[q].at \in {"row", "rehome"} => WillHold(run'[q].put)
  <2> DEFINE v == [run[p] EXCEPT !.at = at]
  <2>1. run' = [run EXCEPT ![p] = v]
    BY <1>o DEF Onto
  <2>2. v.at = at /\ v.put = run[p].put
    BY <1>0 DEF Runs
  <2> QED
    BY <1>k, <1>o, <1>v, <2>1, <2>2
<1>u. ASSUME run' = run
      PROVE  run'[q].at \in {"row", "rehome"} => WillHold(run'[q].put)
  BY <1>u, RunKeepsKey
<1>x. ASSUME run' = [run EXCEPT ![p] = Still]
      PROVE  run'[q].at \in {"row", "rehome"} => WillHold(run'[q].put)
  BY <1>v, <1>x DEF Still
<1>1. CASE BeginInstall(p) \/ BeginResync(p) \/ Retry(p)
  BY <1>1, <1>s DEF BeginInstall, BeginResync, Retry
<1>2. CASE Cancel(p) \/ Reload(p) \/ Refetch(p)
  BY <1>2, <1>u, <1>x DEF Cancel, Reload, Refetch
<1>3. CASE Enable(p)
  BY <1>3, <1>s, <1>u DEF Enable
<1>4. CASE BotFails(p) \/ SyncFails(p)
  BY <1>4, <1>t DEF BotFails, SyncFails, Fail
<1>5. CASE FetchBot(p)
  <2> DEFINE v == [run[p] EXCEPT !.at = "route", !.app = app]
  <2>1. run' = [run EXCEPT ![p] = v] /\ v.at \notin {"row", "rehome"}
    BY <1>0, <1>5 DEF FetchBot, Runs
  <2> QED
    BY <1>v, <2>1
<1>6. CASE RouteBot(p) \/ ReadHomeRepo(p)
  BY <1>6, <1>o DEF RouteBot, ReadHomeRepo
<1>7. CASE MarkBot(p)
  <2> DEFINE v == [run[p] EXCEPT !.at = "home", !.app = None]
  <2>1. v.at \notin {"row", "rehome"}
    BY <1>0 DEF Runs
  <2>2. run' = [run EXCEPT ![p] = v] \/ Stop(p)
    BY <1>7 DEF MarkBot, Fail
  <2> QED
    BY <1>t, <1>v, <2>1, <2>2
<1>8. CASE PushVaultSecrets(p)
  <2> DEFINE v == [run[p] EXCEPT !.at = "row", !.put = house]
  <2>1. v.put = house
    BY <1>0 DEF Runs
  <2>2. WillHold(house)
    BY <1>0, <1>8, PutHolds DEF PushVaultSecrets
  <2>3. run' = [run EXCEPT ![p] = v] \/ Stop(p)
    BY <1>8 DEF PushVaultSecrets, Fail
  <2> QED
    BY <1>t, <1>v, <2>1, <2>2, <2>3
<1>9. CASE MarkRepoSynced(p)
  <2>1. (run[p].at = "row" /\ Onto(p, "rehome")) \/ Stop(p)
    BY <1>9 DEF MarkRepoSynced, Fail
  <2> QED
    BY <1>o, <1>t, <2>1
<1>10. CASE MarkHomeSynced(p)
  <2> DEFINE v == [run[p] EXCEPT !.at = "again", !.put = None]
  <2>1. run' = [run EXCEPT ![p] = v] /\ v.at \notin {"row", "rehome"}
    BY <1>0, <1>10 DEF MarkHomeSynced, Runs
  <2> QED
    BY <1>v, <2>1
<1> QED
  BY <1>1, <1>2, <1>3, <1>4, <1>5, <1>6, <1>7, <1>8, <1>9, <1>10 DEF PageStep, RunStep

\* A request names a house from its first look on, and has put the key into
\* the house it is about to mark.
LEMMA KeyOfAsked ==
    ASSUME TInv, KeyInv, Grows, NEW r \in Requests, RequestStep(r), NEW q \in Requests
    PROVE  /\ asked'[q].at \in Naming => asked'[q].house # None
           /\ asked'[q].at = "mark" => WillHold(asked'[q].house)
<1> DEFINE Fine(v) == /\ v.at \in Naming => v.house # None
                      /\ v.at = "mark" => WillHold(v.house)
<1> SUFFICES Fine(asked'[q])
  OBVIOUS
<1>0. TypeOK /\ asked[r] \in Asked /\ (asked[r].at \in Naming => asked[r].house # None)
  BY DEF TInv, TypeOK, KeyInv
<1>v. ASSUME NEW v, asked' = [asked EXCEPT ![r] = v], Fine(v) PROVE Fine(asked'[q])
  <2>1. CASE q = r
    BY <1>0, <1>v, <2>1 DEF TypeOK
  <2>2. CASE q # r
    <3>1. asked'[q] = asked[q]
      BY <1>0, <1>v, <2>2 DEF TypeOK
    <3> QED
      BY <3>1, AskedKeepsKey
  <2> QED
    BY <2>1, <2>2
<1>q. ASSUME Reply(r) PROVE Fine(asked'[q])
  <2>1. Fine(Quiet)
    BY DEF Quiet, Naming
  <2> QED
    BY <1>q, <1>v, <2>1 DEF Reply
<1>o. ASSUME NEW at \in Naming, Onward(r, at), asked[r].at \in Naming PROVE Fine(asked'[q])
  <2> DEFINE v == [asked[r] EXCEPT !.at = at]
  <2>1. v.at = at /\ v.house = asked[r].house /\ at # "mark"
    BY <1>0 DEF Asked, Naming
  <2>2. asked' = [asked EXCEPT ![r] = v]
    BY <1>o DEF Onward
  <2>3. Fine(v)
    BY <1>0, <1>o, <2>1
  <2> HIDE DEF v, Fine
  <2> QED
    BY <1>v, <2>2, <2>3
<1>a. ASSUME NEW at \in Naming, asked[r].at \in Naming,
             asked' = [asked EXCEPT ![r] = [@ EXCEPT !.at = at, !.app = app]]
      PROVE  Fine(asked'[q])
  <2> DEFINE v == [asked[r] EXCEPT !.at = at, !.app = app]
  <2>1. v.at = at /\ v.house = asked[r].house /\ at # "mark"
    BY <1>0 DEF Asked, Naming
  <2>2. asked' = [asked EXCEPT ![r] = v]
    BY <1>a
  <2>3. Fine(v)
    BY <1>0, <1>a, <2>1
  <2> HIDE DEF v, Fine
  <2> QED
    BY <1>v, <2>2, <2>3
<1>n. {"cover", "covered", "workflow", "look", "fetch", "secrets", "save"} = Naming
  BY DEF Naming
<1>1. CASE EnsureHomeRepo(r)
  <2>1. house' # None
    <3>1. houses \in Nat
      BY <1>0, SetupAssumption DEF TypeOK, SetupAssumption
    <3> QED
      BY <1>1, <3>1 DEF EnsureHomeRepo, CreateUserRepo, None
  <2> DEFINE v == [Quiet EXCEPT !.at = "cover", !.house = house']
  <2>2. v.at = "cover" /\ v.house = house'
    BY DEF Quiet
  <2>3. Fine(v)
    BY <2>1, <2>2
  <2>4. Reply(r) \/ asked' = [asked EXCEPT ![r] = v]
    BY <1>1 DEF EnsureHomeRepo
  <2> HIDE DEF v, Fine
  <2> QED
    BY <1>q, <1>v, <2>3, <2>4
<1>2. CASE FindInstallation(r)
  <2>1. /\ asked[r].at \in Naming
        /\ Reply(r) \/ asked' = [asked EXCEPT ![r] = [@ EXCEPT !.at = "workflow", !.app = app]]
    BY <1>2, <1>n DEF FindInstallation
  <2> HIDE DEF Fine
  <2> QED
    BY <1>a, <1>n, <1>q, <2>1
<1>3. CASE AddToInstallation(r)
  <2> HIDE DEF Fine
  <2> QED
    BY <1>3, <1>n, <1>o DEF AddToInstallation
<1>4. CASE UpsertDispatcher(r)
  <2> HIDE DEF Fine
  <2> QED
    BY <1>4, <1>n, <1>o, <1>q DEF UpsertDispatcher
<1>5. CASE ReadHome(r)
  <2>1. PICK at \in {"look", "put"} :
            asked' = [asked EXCEPT ![r] =
                [Quiet EXCEPT !.at = at,
                              !.house = IF at = "look" THEN home.house ELSE None]]
    BY <1>5 DEF ReadHome
  <2> DEFINE v == [Quiet EXCEPT !.at = at,
                                !.house = IF at = "look" THEN home.house ELSE None]
  <2>2. /\ v.house = (IF at = "look" THEN home.house ELSE None) /\ v.at = at
        /\ home.house # None
    BY <1>5 DEF Quiet, ReadHome, Made
  <2>3. Fine(v)
    BY <2>2 DEF Naming
  <2> HIDE DEF v, Fine
  <2> QED
    BY <1>v, <2>1, <2>3 DEF v
<1>6. CASE LookUpInstallation(r)
  <2>1. /\ asked[r].at \in Naming
        /\ Reply(r) \/ asked' = [asked EXCEPT ![r] = [@ EXCEPT !.at = "fetch", !.app = app]]
    BY <1>6, <1>n DEF LookUpInstallation
  <2> HIDE DEF Fine
  <2> QED
    BY <1>a, <1>n, <1>q, <2>1
<1>7. CASE FetchForSecrets(r) \/ WriteSecrets(r)
  <2> HIDE DEF Fine
  <2> QED
    BY <1>7, <1>n, <1>o, <1>q DEF FetchForSecrets, WriteSecrets
<1>8. CASE PutHomeRepo(r) \/ MarkPushed(r)
  <2> HIDE DEF Fine
  <2> QED
    BY <1>8, <1>q DEF PutHomeRepo, MarkPushed
<1>9. CASE PushKey(r)
  <2>1. CASE Reply(r)
    BY <1>q, <2>1
  <2>2. CASE PutKey /\ asked' = [asked EXCEPT ![r] = [@ EXCEPT !.at = "mark", !.house = house]]
    <3> DEFINE v == [asked[r] EXCEPT !.at = "mark", !.house = house]
    <3>1. v.at = "mark" /\ v.house = house /\ v.at \notin Naming
      BY <1>0 DEF Asked, Naming
    <3>2. WillHold(house)
      BY <1>0, <1>9, <2>2, PutHolds DEF PushKey
    <3>3. Fine(v)
      BY <3>1, <3>2
    <3> HIDE DEF v, Fine
    <3> QED
      BY <1>v, <2>2, <3>3 DEF v
  <2> QED
    BY <1>9, <2>1, <2>2 DEF PushKey
<1> QED
  BY <1>1, <1>2, <1>3, <1>4, <1>5, <1>6, <1>7, <1>8, <1>9 DEF RequestStep

\* What a request makes of the Home row.
LEMMA KeyOfHome ==
    ASSUME TInv, KeyInv, Grows, NEW r \in Requests, RequestStep(r)
    PROVE  home'.key => home'.house # None /\ (WillHold(home'.house) \/ home'.astray)
<1>0. TypeOK /\ home \in Homes /\ asked[r] \in Asked
  BY DEF TInv, TypeOK
<1>1. CASE home' = home
  BY <1>1, RowKeepsKey
<1>2. CASE PutHomeRepo(r) /\ home' # home
  <2>1. /\ home' = [home EXCEPT !.house = asked[r].house, !.app = asked[r].app,
                      !.astray = @ \/ (home.key /\ home.house # asked[r].house)]
        /\ asked[r].at = "save"
    BY <1>2 DEF PutHomeRepo, homeVars
  <2>2. /\ home'.key = home.key /\ home'.house = asked[r].house
        /\ home'.astray = (home.astray \/ (home.key /\ home.house # asked[r].house))
    BY <1>0, <2>1 DEF Homes
  <2>3. asked[r].house # None
    BY <2>1 DEF KeyInv, Naming
  <2>4. KeyAt(home.house) => WillHold(home.house)
    BY <1>0, StillHolds DEF Homes
  <2>5. home.key => KeyAt(home.house) \/ home.astray
    BY DEF KeyInv
  <2> QED
    BY <2>2, <2>3, <2>4, <2>5
<1>3. CASE MarkPushed(r)
  <2>1. asked[r].house \in Houses \cup {None} /\ KeyAt(asked[r].house)
    BY <1>0, <1>3 DEF MarkPushed, KeyInv, Asked
  <2> QED
    BY <1>3, <2>1, MarkKeepsKey DEF MarkPushed
<1> QED
  BY <1>1, <1>2, <1>3 DEF RequestStep, homeVars, EnsureHomeRepo, FindInstallation,
     AddToInstallation, UpsertDispatcher, ReadHome, LookUpInstallation, FetchForSecrets,
     WriteSecrets, PushKey

LEMMA KeyStep == TInv /\ KeyInv /\ [Next]_vars => KeyInv'
<1> SUFFICES ASSUME TInv, KeyInv, [Next]_vars PROVE KeyInv'
  OBVIOUS
<1>1. ASSUME NEW p \in Pages, PageStep(p) PROVE KeyInv'
  <2>1. Grows /\ asked' = asked /\ (home' = home \/ (run[p].at = "rehome" /\ MarkHome(run[p].put)))
    BY <1>1, PageFrame
  <2>2. home'.key => home'.house # None /\ (WillHold(home'.house) \/ home'.astray)
    <3>1. CASE home' = home
      BY <2>1, <3>1, RowKeepsKey
    <3>2. CASE run[p].at = "rehome" /\ MarkHome(run[p].put)
      <4>1. run[p].put \in Houses \cup {None} /\ KeyAt(run[p].put)
        BY <3>2 DEF KeyInv, TInv, TypeOK, Runs
      <4> QED
        BY <2>1, <3>2, <4>1, MarkKeepsKey
    <3> QED
      BY <2>1, <3>1, <3>2
  <2> QED
    BY <1>1, <2>1, <2>2, AskedKeepsKey, KeyOfChain DEF KeyInv, KeyAt, WillHold
<1>2. ASSUME NEW r \in Requests, RequestStep(r) PROVE KeyInv'
  <2>1. Grows /\ run' = run
    BY <1>2, RequestFrame DEF pageVars
  <2> QED
    BY <1>2, <2>1, KeyOfHome, KeyOfAsked, RunKeepsKey DEF KeyInv, KeyAt, WillHold
<1>3. CASE GithubStep \/ Disable
  <2>1. Grows /\ asked' = asked /\ run' = run
        /\ (home' = home \/ home' = [home EXCEPT !.app = None])
    BY <1>3, GithubFrame DEF pageVars
  <2> QED
    BY <2>1, RowKeepsKey, AskedKeepsKey, RunKeepsKey DEF KeyInv, KeyAt, WillHold
<1>4. CASE UNCHANGED vars
  BY <1>4 DEF KeyInv, KeyAt, vars, githubVars, homeVars, pageVars
<1> QED
  BY <1>1, <1>2, <1>3, <1>4 DEF Next

\* Where the Home row says the key was copied, the house it names has the key,
\* unless the row or the house changed under the copy.
THEOREM KeyIsThereAlways == Spec => []KeyIsThere
<1>1. Init => KeyInv
  BY DEF Init, KeyInv, NoHome, Quiet, Still, Naming
<1>2. KeyInv => KeyIsThere
  BY DEF KeyInv, KeyAt, KeyIsThere
<1> QED
  BY <1>1, <1>2, TypesHold, KeyStep, PTL DEF Spec

-----------------------------------------------------------------------------
(* The machine, its promise chain and the row it was started for *)

\* A row that is still there is the same, with all it had; any other is new.
RowGrows ==
    /\ enables' \in Nat /\ enables <= enables'
    /\ RowOK'
    /\ row'.gen # None /\ row'.gen <= enables =>
           row'.gen = row.gen /\ (row.bot => row'.bot) /\ (row.key => row'.key)

LEMMA RowStays == ASSUME TypeOK, RowOK, row' \in {row, NoRow}, enables' = enables PROVE RowGrows
<1>1. enables \in Nat /\ row \in Rows
  BY SetupAssumption DEF TypeOK, SetupAssumption
<1> QED
  BY <1>1 DEF RowGrows, RowOK, NoRow

LEMMA RowOfPage == ASSUME TInv, RowOK, NEW p \in Pages, PageStep(p) PROVE RowGrows
<1>0. TypeOK /\ row \in Rows /\ enables \in Nat
  BY SetupAssumption DEF TInv, TypeOK, SetupAssumption
<1>1. CASE UNCHANGED rowVars
  BY <1>0, <1>1, RowStays DEF rowVars
<1>2. CASE Enable(p)
  <2>1. CASE Listed
    BY <1>0, <1>2, <2>1, RowStays DEF Enable, rowVars
  <2>2. CASE ~Listed
    <3>1. enables' = enables + 1 /\ row' = [NoRow EXCEPT !.gen = enables']
      BY <1>2, <2>2 DEF Enable
    <3>2. row'.gen = enables' /\ ~row'.bot /\ ~row'.key
      BY <3>1 DEF NoRow
    <3> QED
      BY <1>0, <3>1, <3>2 DEF RowGrows, RowOK
  <2> QED
    BY <2>1, <2>2
<1>3. CASE RouteBot(p)
  <2>1. /\ enables' = enables /\ row'.gen = row.gen
        /\ row'.bot = row.bot /\ row'.key = row.key
    BY <1>0, <1>3 DEF RouteBot, Rows
  <2> QED
    BY <1>0, <2>1 DEF RowGrows, RowOK
<1>4. CASE MarkBot(p)
  <2>1. /\ enables' = enables /\ row'.gen = row.gen /\ row.gen # None
        /\ row'.bot /\ row'.key = row.key
    BY <1>0, <1>4 DEF MarkBot, Listed, Rows
  <2> QED
    BY <1>0, <2>1 DEF RowGrows, RowOK
<1>5. CASE MarkRepoSynced(p)
  <2>1. /\ enables' = enables /\ row'.gen = row.gen /\ row.gen # None
        /\ row'.bot = row.bot /\ row'.key
    BY <1>0, <1>5 DEF MarkRepoSynced, Listed, Rows
  <2> QED
    BY <1>0, <2>1 DEF RowGrows, RowOK
<1> QED
  BY <1>1, <1>2, <1>3, <1>4, <1>5 DEF PageStep, RunStep, BeginInstall, BeginResync, Retry,
     Cancel, Refetch, Reload, BotFails, SyncFails, FetchBot, ReadHomeRepo, PushVaultSecrets,
     MarkHomeSynced

\* A page says what it said, of a machine and a list that did not change.
LEMMA SeenStays ==
    ASSUME TInv, NEW p \in Pages, Seen(p), RowGrows,
           shows'[p] = shows[p], run'[p].began <= enables'
    PROVE  Seen(p)'
<1>1. enables \in Nat /\ enables' \in Nat /\ shows[p] \in Rows /\ shows[p].gen \in Int
  BY SetupAssumption DEF TInv, TypeOK, SetupAssumption, RowGrows, Rows
<1> QED
  BY <1>1 DEF Seen, RowGrows

LEMMA BeganBefore ==
    ASSUME TInv, NEW p \in Pages, Seen(p), RowGrows
    PROVE  run[p].began <= enables' /\ shows[p].gen <= enables'
<1>1. enables \in Nat /\ enables' \in Nat /\ run[p].began \in Int /\ shows[p].gen \in Int
  BY SetupAssumption DEF TInv, TypeOK, SetupAssumption, RowGrows, Rows, Runs
<1> QED
  BY <1>1 DEF Seen, RowGrows

LEMMA BotStays ==
    ASSUME TInv, NEW p \in Pages, Seen(p), BotFirst(p), RowGrows,
           run'[p].began = run[p].began, install'[p].stage = install[p].stage,
           install'[p].kind = "done" => install[p].kind = "done"
    PROVE  BotFirst(p)'
BY DEF Seen, BotFirst, RowGrows

LEMMA OthersStay ==
    ASSUME TInv, NEW q \in Pages, PageOK(q), RowGrows,
           install'[q] = install[q], run'[q] = run[q], shows'[q] = shows[q]
    PROVE  PageOK(q)'
<1>1. Seen(q)'
  BY SeenStays, BeganBefore DEF PageOK
<1>2. BotFirst(q)'
  BY BotStays DEF PageOK
<1>3. Driven(q)'
  BY DEF PageOK, Driven
<1> QED
  BY <1>1, <1>2, <1>3 DEF PageOK

\* The page that starts a stage, and the page whose stage fails.
LEMMA StartDrives ==
    ASSUME TInv, NEW p \in Pages, NEW stage \in Stages, NEW began, Start(p, stage, began)
    PROVE  /\ Driven(p)' /\ run'[p].began = began
           /\ install'[p].stage = stage /\ install'[p].kind = "running"
<1>1. install'[p] = StartStage(stage) /\ run'[p] = [Still EXCEPT !.at = FirstStep(stage), !.began = began]
  BY DEF Start, TInv, TypeOK
<1>2. /\ run'[p].at = FirstStep(stage) /\ run'[p].began = began
      /\ install'[p].stage = stage /\ install'[p].kind = "running"
  BY <1>1 DEF Still, StartStage
<1>3. CASE stage = "bot"
  BY <1>1, <1>2, <1>3 DEF Driven, BotSteps, SyncSteps, FirstStep, StartStage
<1>4. CASE stage = "secret_sync"
  BY <1>1, <1>2, <1>4 DEF Driven, BotSteps, SyncSteps, FirstStep, StartStage
<1> QED
  BY <1>2, <1>3, <1>4 DEF Stages

LEMMA FailDrives ==
    ASSUME TInv, NEW p \in Pages, NEW stage \in Stages, Driven(p),
           run[p].at \in IF stage = "bot" THEN BotSteps ELSE SyncSteps, Fail(p, stage)
    PROVE  /\ Driven(p)' /\ run'[p].began = run[p].began
           /\ install'[p].stage = install[p].stage /\ install'[p].kind = "failed"
<1>1. install[p] = StartStage(stage)
  BY DEF Driven, Stages
<1>2. install'[p] = [StartStage(stage) EXCEPT !.kind = "failed"]
  BY <1>1 DEF Fail, Event, ApplyRepoInstallEvent, TInv, TypeOK
<1>3. run'[p] = [Still EXCEPT !.began = run[p].began]
  BY DEF Fail, Stop, TInv, TypeOK
<1>4. install'[p].stage = stage /\ install'[p].kind = "failed"
  BY <1>2 DEF StartStage
<1>5. run'[p].at = "none" /\ run'[p].began = run[p].began
  BY <1>3 DEF Still
<1> QED
  BY <1>1, <1>4, <1>5 DEF Driven, BotSteps, SyncSteps, StartStage

\* A chain that goes on in the stage it is in.
LEMMA OnDrives ==
    ASSUME TInv, NEW p \in Pages, Driven(p), install' = install,
           \E steps \in {BotSteps, SyncSteps} : run[p].at \in steps /\ run'[p].at \in steps
    PROVE  Driven(p)'
BY DEF Driven, BotSteps, SyncSteps

LEMMA OthersAlone ==
    ASSUME TInv, NEW p \in Pages, PageStep(p), NEW q \in Pages, q # p
    PROVE  install'[q] = install[q] /\ run'[q] = run[q] /\ shows'[q] = shows[q]
<1> USE DEF TInv, TypeOK
<1>1. CASE BeginInstall(p) \/ BeginResync(p) \/ Retry(p) \/ Cancel(p)
  BY <1>1 DEF BeginInstall, BeginResync, Retry, Cancel, Start
<1>2. CASE Enable(p) \/ Refetch(p) \/ Reload(p)
  BY <1>2 DEF Enable, Refetch, Reload, Start
<1>3. CASE BotFails(p) \/ SyncFails(p) \/ FetchBot(p) \/ RouteBot(p)
  BY <1>3 DEF BotFails, SyncFails, FetchBot, RouteBot, Fail, Event, Stop, Onto
<1>4. CASE MarkBot(p) \/ ReadHomeRepo(p)
  BY <1>4 DEF MarkBot, ReadHomeRepo, Fail, Event, Stop, Onto
<1>5. CASE PushVaultSecrets(p) \/ MarkRepoSynced(p) \/ MarkHomeSynced(p)
  BY <1>5 DEF PushVaultSecrets, MarkRepoSynced, MarkHomeSynced, Fail, Event, Stop, Onto
<1> QED
  BY <1>1, <1>2, <1>3, <1>4, <1>5 DEF PageStep, RunStep

LEMMA PageItself ==
    ASSUME TInv, PageInv, NEW p \in Pages, PageStep(p), RowGrows PROVE PageOK(p)'
<1>0. /\ TypeOK /\ RowOK /\ Driven(p) /\ Seen(p) /\ BotFirst(p)
      /\ install[p] \in Machines /\ run[p] \in Runs /\ row \in Rows
  BY DEF PageInv, PageOK, TInv, TypeOK
<1>b. run[p].began <= enables' /\ shows[p].gen <= enables'
  BY <1>0, BeganBefore
\* A stage is started for the row the page shows, which is there as it was.
<1>s. ASSUME NEW stage \in Stages, NEW began, Start(p, stage, began), shows' = shows,
             began <= enables',
             stage = "secret_sync" /\ row'.gen # None /\ row'.gen = began => row'.bot
      PROVE  PageOK(p)'
  <2>1. /\ Driven(p)' /\ run'[p].began = began
        /\ install'[p].stage = stage /\ install'[p].kind = "running"
    BY <1>s, StartDrives
  <2>2. Seen(p)'
    BY <1>0, <1>s, <2>1, SeenStays
  <2>3. BotFirst(p)'
    BY <1>s, <2>1 DEF BotFirst
  <2> QED
    BY <2>1, <2>2, <2>3 DEF PageOK
<1>f. ASSUME NEW stage \in Stages, Fail(p, stage), shows' = shows,
             run[p].at \in IF stage = "bot" THEN BotSteps ELSE SyncSteps
      PROVE  PageOK(p)'
  <2>1. /\ Driven(p)' /\ run'[p].began = run[p].began
        /\ install'[p].stage = install[p].stage /\ install'[p].kind = "failed"
    BY <1>0, <1>f, FailDrives
  <2>2. Seen(p)'
    BY <1>0, <1>b, <1>f, <2>1, SeenStays
  <2>3. BotFirst(p)'
    BY <1>0, <2>1, BotStays
  <2> QED
    BY <2>1, <2>2, <2>3 DEF PageOK
\* The chain goes on.
<1>o. ASSUME install' = install, shows' = shows, run'[p].began = run[p].began,
             \E steps \in {BotSteps, SyncSteps} : run[p].at \in steps /\ run'[p].at \in steps
      PROVE  PageOK(p)'
  <2>1. Driven(p)'
    BY <1>0, <1>o, OnDrives
  <2>2. Seen(p)'
    BY <1>0, <1>b, <1>o, SeenStays
  <2>3. BotFirst(p)'
    BY <1>0, <1>o, BotStays
  <2> QED
    BY <2>1, <2>2, <2>3 DEF PageOK
<1>t. ASSUME NEW at, Onto(p, at) PROVE run'[p].at = at /\ run'[p].began = run[p].began
  BY <1>0, <1>t DEF Onto, TypeOK, Runs
<1>x. install[p].stage \in Stages /\ "bot" \in Stages /\ "secret_sync" \in Stages
  BY <1>0 DEF Machines, Stages
<1>i. InitialStage(shows[p]) \in Stages /\ (InitialStage(shows[p]) = "secret_sync" => shows[p].bot)
  BY DEF InitialStage, Stages
<1>1. CASE BeginInstall(p)
  <2>1. shows' = shows /\ row' = row /\ Start(p, InitialStage(shows[p]), shows[p].gen)
    BY <1>1 DEF BeginInstall, rowVars
  <2> QED
    BY <1>0, <1>b, <1>i, <1>s, <2>1 DEF Seen
<1>2. CASE BeginResync(p)
  <2>1. shows' = shows /\ row' = row /\ shows[p].bot /\ Start(p, "secret_sync", shows[p].gen)
    BY <1>2 DEF BeginResync, rowVars
  <2> QED
    BY <1>0, <1>b, <1>s, <1>x, <2>1 DEF Seen
<1>3. CASE Retry(p)
  <2>1. shows' = shows /\ row' = row /\ Start(p, install[p].stage, run[p].began)
    BY <1>3 DEF Retry, rowVars
  <2> QED
    BY <1>0, <1>b, <1>s, <1>x, <2>1 DEF BotFirst
<1>4. CASE Cancel(p) \/ Reload(p)
  <2>1. install'[p] = Idle /\ run'[p] = Still
    BY <1>0, <1>4 DEF Cancel, Reload, TypeOK
  <2>2. Driven(p)' /\ BotFirst(p)'
    BY <2>1 DEF Driven, BotFirst, Idle, Still, StartStage, BotSteps, SyncSteps
  <2>3. row' = row /\ enables' = enables
    BY <1>4 DEF Cancel, Reload, rowVars
  <2>4. run'[p].began <= enables'
    BY <1>0, <2>1, <2>3, SetupAssumption DEF Still, None, TypeOK, SetupAssumption
  <2>5. CASE Cancel(p)
    <3>1. Seen(p)'
      BY <1>0, <2>4, <2>5, SeenStays DEF Cancel
    <3> QED
      BY <2>2, <3>1 DEF PageOK
  <2>6. CASE Reload(p)
    <3>1. shows'[p] = [row EXCEPT !.app = None]
      BY <1>0, <2>6 DEF Reload, TypeOK
    <3>2. shows'[p].gen = row.gen /\ shows'[p].bot = row.bot
      BY <1>0, <3>1 DEF Rows
    <3>3. row.gen <= enables
      BY <1>0, SetupAssumption DEF RowOK, None, TypeOK, SetupAssumption
    <3>4. Seen(p)'
      BY <1>0, <2>3, <2>4, <3>2, <3>3 DEF Seen, RowOK
    <3> QED
      BY <2>2, <3>4 DEF PageOK
  <2> QED
    BY <1>4, <2>5, <2>6
<1>5. CASE Refetch(p)
  <2>1. shows'[p] = [row EXCEPT !.app = None]
    BY <1>0, <1>5 DEF Refetch, TypeOK
  <2>2. shows'[p].gen = row.gen /\ shows'[p].bot = row.bot
    BY <1>0, <2>1 DEF Rows
  <2>3. row' = row /\ enables' = enables /\ install' = install /\ run' = run
    BY <1>5 DEF Refetch, rowVars
  <2>4. row.gen <= enables
    BY <1>0, SetupAssumption DEF RowOK, None, TypeOK, SetupAssumption
  <2>5. Seen(p)'
    BY <1>0, <1>b, <2>2, <2>3, <2>4 DEF Seen, RowOK
  <2>6. Driven(p)' /\ BotFirst(p)'
    BY <1>0, <2>3, BotStays DEF Driven
  <2> QED
    BY <2>5, <2>6 DEF PageOK
<1>6. CASE Enable(p)
  <2>1. shows' = shows
    BY <1>6 DEF Enable
  <2>2. CASE UNCHANGED <<install, run>>
    BY <1>0, <2>1, <2>2, OthersStay DEF PageOK
  <2>3. CASE Start(p, InitialStage(shows[p]), IF Shown(p) THEN shows[p].gen ELSE row'.gen)
    <3>1. CASE Shown(p)
      <4>1. Seen(p) /\ RowGrows
        BY <1>0
      <4>2. row'.gen # None /\ row'.gen = shows[p].gen /\ shows[p].bot => row'.bot
        BY <4>1 DEF Seen, RowGrows
      <4> QED
        BY <1>b, <1>i, <1>s, <2>1, <2>3, <3>1, <4>2
    <3>2. CASE ~Shown(p)
      <4>1. InitialStage(shows[p]) = "bot"
        BY <1>0, <3>2 DEF Shown, Seen, InitialStage
      <4>2. row'.gen <= enables'
        BY DEF RowGrows, RowOK, None
      <4> QED
        BY <1>s, <1>x, <2>1, <2>3, <3>2, <4>1, <4>2
    <3> QED
      BY <3>1, <3>2
  <2> QED
    BY <1>6, <2>2, <2>3 DEF Enable
<1>7. CASE BotFails(p)
  BY <1>7, <1>f, <1>x DEF BotFails, BotSteps
<1>8. CASE SyncFails(p)
  BY <1>8, <1>f, <1>x DEF SyncFails, SyncSteps
<1>9. CASE FetchBot(p)
  <2>1. run'[p] = [run[p] EXCEPT !.at = "route", !.app = app] /\ run[p].at = "bot"
    BY <1>0, <1>9 DEF FetchBot, TypeOK
  <2>2. run'[p].at = "route" /\ run'[p].began = run[p].began
    BY <1>0, <2>1 DEF Runs
  <2> QED
    BY <1>9, <1>o, <2>1, <2>2 DEF FetchBot, BotSteps
<1>10. CASE RouteBot(p)
  <2>1. run[p].at = "route" /\ run'[p].at = "botAt" /\ run'[p].began = run[p].began
    BY <1>10, <1>t DEF RouteBot
  <2> QED
    BY <1>10, <1>o, <2>1 DEF RouteBot, BotSteps
<1>11. CASE MarkBot(p)
  <2>1. shows' = shows /\ run[p].at \in BotSteps /\ row'.bot
    BY <1>0, <1>11 DEF MarkBot, BotSteps, Rows
  <2>2. CASE Fail(p, "bot")
    BY <1>f, <1>x, <2>1, <2>2
  <2>3. CASE Event(p, "stage_ok", "bot") /\ run' = [run EXCEPT ![p] = [@ EXCEPT !.at = "home", !.app = None]]
    <3>1. install[p] = StartStage("bot")
      BY <1>0, <2>1 DEF Driven
    <3>2. install'[p] = StartStage("secret_sync")
      BY <1>0, <2>3, <3>1 DEF Event, ApplyRepoInstallEvent, TypeOK, StartStage
    <3>3. run'[p].at = "home" /\ run'[p].began = run[p].began
      BY <1>0, <2>3 DEF TypeOK, Runs
    <3>4. Driven(p)'
      BY <3>2, <3>3 DEF Driven, BotSteps, SyncSteps, StartStage
    <3>5. Seen(p)'
      BY <1>0, <1>b, <2>1, <3>3, SeenStays
    <3>6. BotFirst(p)'
      BY <2>1, <3>2 DEF BotFirst, StartStage
    <3> QED
      BY <3>4, <3>5, <3>6 DEF PageOK
  <2> QED
    BY <1>11, <2>2, <2>3 DEF MarkBot
<1>12. CASE ReadHomeRepo(p)
  <2>1. run[p].at = "home" /\ run'[p].at = "put" /\ run'[p].began = run[p].began
    BY <1>12, <1>t DEF ReadHomeRepo
  <2> QED
    BY <1>12, <1>o, <2>1 DEF ReadHomeRepo, SyncSteps
<1>13. CASE PushVaultSecrets(p)
  <2>1. shows' = shows /\ run[p].at = "put"
    BY <1>13 DEF PushVaultSecrets
  <2>2. CASE Fail(p, "secret_sync")
    BY <1>f, <1>x, <2>1, <2>2 DEF SyncSteps
  <2>3. CASE run' = [run EXCEPT ![p] = [@ EXCEPT !.at = "row", !.put = house]] /\ install' = install
    <3>1. run'[p].at = "row" /\ run'[p].began = run[p].began
      BY <1>0, <2>3 DEF TypeOK, Runs
    <3> QED
      BY <1>o, <2>1, <2>3, <3>1 DEF SyncSteps
  <2> QED
    BY <1>13, <2>2, <2>3 DEF PushVaultSecrets
<1>14. CASE MarkRepoSynced(p)
  <2>1. /\ shows' = shows /\ run[p].at \in {"row", "again"}
        /\ row'.gen = row.gen /\ row'.bot = row.bot /\ row'.key
    BY <1>0, <1>14 DEF MarkRepoSynced, Rows
  <2>2. CASE Fail(p, "secret_sync")
    BY <1>f, <1>x, <2>1, <2>2 DEF SyncSteps
  <2>3. CASE run[p].at = "row" /\ Onto(p, "rehome") /\ install' = install
    BY <1>o, <1>t, <2>1, <2>3 DEF SyncSteps
  <2>4. CASE Event(p, "stage_ok", "secret_sync") /\ Stop(p)
    <3>1. install[p] = StartStage("secret_sync")
      BY <1>0, <2>1 DEF Driven, SyncSteps
    <3>2. install'[p] = [StartStage("secret_sync") EXCEPT !.kind = "done"]
      BY <1>0, <2>4, <3>1 DEF Event, ApplyRepoInstallEvent, TypeOK
    <3>3. run'[p].at = "none" /\ run'[p].began = run[p].began
      BY <1>0, <2>4 DEF Stop, Still, TypeOK
    <3>4. install'[p].kind = "done" /\ install[p].stage = "secret_sync"
      BY <3>1, <3>2 DEF StartStage
    <3>5. Driven(p)'
      BY <3>3, <3>4 DEF Driven, BotSteps, SyncSteps, StartStage
    <3>6. Seen(p)'
      BY <1>0, <1>b, <2>1, <3>3, SeenStays
    <3>7. BotFirst(p)'
      BY <1>0, <2>1, <3>3, <3>4 DEF BotFirst
    <3> QED
      BY <3>5, <3>6, <3>7 DEF PageOK
  <2> QED
    BY <1>14, <2>2, <2>3, <2>4 DEF MarkRepoSynced
<1>15. CASE MarkHomeSynced(p)
  <2>1. run'[p] = [run[p] EXCEPT !.at = "again", !.put = None] /\ run[p].at = "rehome"
    BY <1>0, <1>15 DEF MarkHomeSynced, TypeOK
  <2>2. run'[p].at = "again" /\ run'[p].began = run[p].began
    BY <1>0, <2>1 DEF Runs
  <2> QED
    BY <1>15, <1>o, <2>1, <2>2 DEF MarkHomeSynced, SyncSteps
<1> QED
  BY <1>1, <1>2, <1>3, <1>4, <1>5, <1>6, <1>7, <1>8, <1>9, <1>10, <1>11, <1>12, <1>13,
     <1>14, <1>15 DEF PageStep, RunStep

LEMMA PagesStep == TInv /\ PageInv /\ [Next]_vars => PageInv'
<1> SUFFICES ASSUME TInv, PageInv, [Next]_vars PROVE PageInv'
  OBVIOUS
<1>0. TypeOK /\ RowOK /\ \A p \in Pages : PageOK(p)
  BY DEF TInv, PageInv
<1>1. ASSUME NEW p \in Pages, PageStep(p) PROVE PageInv'
  <2>1. RowGrows
    BY <1>0, <1>1, RowOfPage
  <2>2. ASSUME NEW q \in Pages PROVE PageOK(q)'
    <3>1. CASE q = p
      BY <1>1, <2>1, <3>1, PageItself
    <3>2. CASE q # p
      BY <1>0, <1>1, <2>1, <3>2, OthersAlone, OthersStay
    <3> QED
      BY <3>1, <3>2
  <2> QED
    BY <2>1, <2>2 DEF PageInv, RowGrows
<1>2. CASE row' \in {row, NoRow} /\ UNCHANGED <<pageVars, enables>>
  <2>1. RowGrows
    BY <1>0, <1>2, RowStays
  <2>2. ASSUME NEW q \in Pages PROVE PageOK(q)'
    BY <1>0, <1>2, <2>1, OthersStay DEF pageVars
  <2> QED
    BY <2>1, <2>2 DEF PageInv, RowGrows
<1>3. ASSUME NEW r \in Requests, RequestStep(r)
      PROVE  row' \in {row, NoRow} /\ UNCHANGED <<pageVars, enables>>
  BY <1>3, RequestFrame DEF rowVars
<1>4. UNCHANGED vars => row' \in {row, NoRow} /\ UNCHANGED <<pageVars, enables>>
  BY DEF vars, rowVars
<1> QED
  BY <1>1, <1>2, <1>3, <1>4, GithubFrame DEF Next

LEMMA InitPages == Init => PageInv
<1> SUFFICES ASSUME Init PROVE PageInv
  OBVIOUS
<1>1. RowOK
  BY DEF Init, RowOK, NoRow
<1>2. ASSUME NEW p \in Pages PROVE PageOK(p)
  <2>1. install[p] = Idle /\ run[p] = Still /\ shows[p] = NoRow /\ row = NoRow /\ enables = 0
    BY DEF Init
  <2> QED
    BY <2>1 DEF PageOK, Driven, Seen, BotFirst, Idle, Still, NoRow, None, StartStage,
       BotSteps, SyncSteps
<1> QED
  BY <1>1, <1>2 DEF PageInv

\* When the machine says done, the row it was started for has the helper and
\* the key if it is still there, on any number of pages.
THEOREM DoneIsSetUpAlways == Spec => []DoneIsSetUp
<1>1. PageInv => DoneIsSetUp
  BY DEF PageInv, PageOK, BotFirst, DoneIsSetUp
<1> QED
  BY <1>1, InitPages, TypesHold, PagesStep, PTL DEF Spec

\* A machine that runs has a promise chain in the stage it shows, so its page
\* will be told of an end.
THEOREM RunningIsDrivenAlways == Spec => []RunningIsDriven
<1>1. ASSUME TInv, PageInv, NEW p \in Pages, install[p].kind = "running"
      PROVE  run[p].at \in IF install[p].stage = "bot" THEN {"bot", "route", "botAt"}
                          ELSE {"home", "put", "row", "rehome", "again"}
  <2>1. install[p] \in Machines /\ Driven(p)
    BY <1>1 DEF TInv, TypeOK, PageInv, PageOK
  <2>2. install[p] = StartStage(install[p].stage) /\ install[p].stage \in Stages
    BY <1>1, <2>1 DEF Machines, StartStage
  <2> QED
    BY <2>1, <2>2 DEF Driven, Stages, BotSteps, SyncSteps
<1>2. TInv /\ PageInv => RunningIsDriven
  BY <1>1 DEF RunningIsDriven
<1> QED
  BY <1>2, InitPages, TypesHold, PagesStep, PTL DEF Spec

=============================================================================
