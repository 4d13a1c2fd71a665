--------------------------- MODULE WakeAdmission ---------------------------
(***************************************************************************)
(* Which events wake the bot: from what the users of one repo set in the   *)
(* Dashboard, through the columns of enabled_repos, to what decideWake     *)
(* says of a webhook (packages/core/src/wake, apps/web/src/wake).          *)
(*                                                                         *)
(* A settings page sends a setting together with its neighbours as the     *)
(* page shows them, which may be an older state: the last save wins.  The  *)
(* claim moves between the users as RepoClaim says; a row may outlive it.  *)
(* All a wake reads of the settings is the row of the claim's holder, in   *)
(* one join, so that the handling of a webhook is one step here.  What     *)
(* becomes of an admitted wake is the matter of WakeDispatch.              *)
(***************************************************************************)
EXTENDS Integers, FiniteSets

CONSTANTS
    Users,          \* GitHub users signed in to the Lab
    Nobody,         \* no user
    Homes,          \* users with a Home repo the App is installed on
    Authors,        \* pull request authors: [login, user, association]
    Nameless,       \* an author whose login is not one of a person
    Branches,       \* base branches
    DefaultBranch,  \* the default branch of the repo
    Patterns,       \* branch names and globs
    Matches,        \* the branches each of them matches
    OldRows,        \* columns of rows that an older release left
    Savers,         \* bound: users who open a settings page
    MaxSaves        \* bound: settings saved

VARIABLES
    holder,     \* repo_routes: who has the claim on the repo
    rows,       \* enabled_repos: per user the columns of the repo's row
    defaults,   \* repo_setting_defaults: per user
    page,       \* what the user's settings page shows of the row
    wake,       \* the webhook being handled, or the last one
    saves,      \* settings saved so far
    meant,      \* per user the settings as they were asked for
    restored    \* and those of them that an old page wrote back differently

settings == <<rows, defaults, page, saves, meant, restored>>
vars == <<holder, wake, settings>>

-----------------------------------------------------------------------------
(* Settings and the columns they are kept in *)

Modes == {"auto", "mention-only"}
AuthorScopes == {"you", "friends", "everyone"}
BranchScopes == {"all", "default", "listed"}
Cadences == {"every-push", "once-per-pr"}

Aliases == [anyone |-> "you", outsiders |-> "everyone", team |-> "friends"]

Logins == {a.login : a \in Authors}
Unreadable == "?"   \* a member of a column that does not parse

DefaultAuthors == [scope |-> "you", skip |-> {}]
DefaultBranches == [scope |-> "default", listed |-> {}, skip |-> {}]
ProductDefaults ==
    [mode |-> "auto", authors |-> "you", branches |-> "default", cadence |-> "every-push"]

\* A row made of defaults: scopes without lists.
RowFromDefaults(d) ==
    [mode |-> d.mode, cadence |-> d.cadence, authors |-> d.authors, authorSkip |-> {},
     branches |-> d.branches, branchList |-> {}, branchSkip |-> {}]

NoRow == [mode |-> ""]
NoPage == [mode |-> ""]

AuthorsParse(row) ==
    row.authors \in AuthorScopes \cup DOMAIN Aliases /\ Unreadable \notin row.authorSkip

BranchesParse(row) ==
    row.branches \in BranchScopes /\ Unreadable \notin row.branchList \cup row.branchSkip

PoliciesParse(row) == row.mode \in Modes /\ row.cadence \in Cadences

ParseAutoAuthorScope(text) == IF text \in DOMAIN Aliases THEN Aliases[text] ELSE text

ParseAutoAuthors(row) == [scope |-> ParseAutoAuthorScope(row.authors), skip |-> row.authorSkip]

ParseAutoBranches(row) ==
    [scope |-> row.branches, listed |-> row.branchList, skip |-> row.branchSkip]

\* The Dashboard refuses a row with any column it cannot read ...
ParseEnabledRepo(row) ==
    [mode |-> row.mode, cadence |-> row.cadence,
     authors |-> ParseAutoAuthors(row), branches |-> ParseAutoBranches(row)]

Shows(row) == row # NoRow /\ PoliciesParse(row) /\ AuthorsParse(row) /\ BranchesParse(row)

\* ... a wake takes the default for authors or branches it cannot read.
RouteSettings(row) ==
    [mode |-> row.mode, cadence |-> row.cadence,
     authors |-> IF AuthorsParse(row) THEN ParseAutoAuthors(row) ELSE DefaultAuthors,
     branches |-> IF BranchesParse(row) THEN ParseAutoBranches(row) ELSE DefaultBranches]

NoWake == [outcome |-> ""]

\* What a column may hold: a text this release writes, or one an older left.
Texts ==
    Modes \cup Cadences \cup AuthorScopes \cup BranchScopes
      \cup UNION {{row.mode, row.cadence, row.authors, row.branches} : row \in OldRows}

Columns ==
    [mode : Texts, cadence : Texts,
     authors : Texts, authorSkip : SUBSET (Logins \cup {Unreadable}),
     branches : Texts, branchList : SUBSET (Patterns \cup {Unreadable}),
     branchSkip : SUBSET (Patterns \cup {Unreadable})]

\* What a user may ask for, and a page show.
Asked ==
    [mode : Modes, cadence : Cadences,
     authors : [scope : AuthorScopes, skip : SUBSET Logins],
     branches : [scope : BranchScopes, listed : SUBSET Patterns, skip : SUBSET Patterns]]

ASSUME AdmissionAssumption ==
    /\ Nobody \notin Users /\ Homes \cup Savers \subseteq Users /\ Nameless \notin Authors
    /\ DefaultBranch \in Branches
    /\ Matches \in [Patterns -> SUBSET Branches]
    /\ OldRows \subseteq Columns /\ Unreadable \notin Logins \cup Patterns
    /\ MaxSaves \in Nat

Init ==
    /\ holder \in Users \cup {Nobody}
    /\ rows \in [Users -> OldRows \cup {NoRow}]
    /\ defaults = [u \in Users |-> ProductDefaults]
    /\ page = [u \in Users |-> NoPage]
    /\ wake = NoWake
    /\ saves = 0
    /\ meant = [u \in Users |-> IF rows[u] = NoRow \/ ~PoliciesParse(rows[u]) THEN NoPage
                                ELSE RouteSettings(rows[u])]
    /\ restored = [u \in Users |-> {}]

-----------------------------------------------------------------------------
(* The claim and the row, of which RepoClaim has the requests *)

ClaimRoute(u) ==
    /\ holder = Nobody
    /\ holder' = u
    /\ UNCHANGED <<wake, settings>>

ReleaseRoute ==
    /\ holder # Nobody
    /\ holder' = Nobody
    /\ UNCHANGED <<wake, settings>>

\* INSERT ... ON CONFLICT DO NOTHING: a row that is there keeps its settings.
EnableRepo(u) ==
    /\ rows[u] = NoRow
    /\ rows' = [rows EXCEPT ![u] = RowFromDefaults(defaults[u])]
    /\ meant' = [meant EXCEPT ![u] =
                    [mode |-> defaults[u].mode, cadence |-> defaults[u].cadence,
                     authors |-> [DefaultAuthors EXCEPT !.scope = defaults[u].authors],
                     branches |-> [DefaultBranches EXCEPT !.scope = defaults[u].branches]]]
    /\ restored' = [restored EXCEPT ![u] = {}]
    /\ UNCHANGED <<holder, wake, defaults, page, saves>>

\* The settings go with the row; an open page still shows them.
DisableRepo(u) ==
    /\ rows[u] # NoRow
    /\ rows' = [rows EXCEPT ![u] = NoRow]
    /\ meant' = [meant EXCEPT ![u] = NoPage]
    /\ restored' = [restored EXCEPT ![u] = {}]
    /\ UNCHANGED <<holder, wake, defaults, page, saves>>

-----------------------------------------------------------------------------
(* The settings pages *)

ListEnabledRepos(u) ==
    /\ Shows(rows[u])
    /\ page' = [page EXCEPT ![u] = ParseEnabledRepo(rows[u])]
    /\ UNCHANGED <<holder, wake, rows, defaults, saves, meant, restored>>

AuthorPieces == {"authorScope", "authorSkip"}
BranchPieces == {"branchScope", "branchList", "branchSkip"}

PieceOf(m, piece) ==
    CASE piece = "authorScope" -> m.authors.scope
      [] piece = "authorSkip" -> m.authors.skip
      [] piece = "branchScope" -> m.branches.scope
      [] piece = "branchList" -> m.branches.listed
      [] piece = "branchSkip" -> m.branches.skip

\* Of the pieces sent as the page shows them: those the row has otherwise.
WrittenBack(u, sent) ==
    {piece \in sent : PieceOf(page[u], piece) # PieceOf(ParseEnabledRepo(rows[u]), piece)}

\* UPDATE of some columns of the row, if there is one that lists.  asked is
\* what was asked for with this change, touched the pieces it was about, sent
\* those that went along.  The read before the UPDATE finds out only that the
\* repo is listed: where the row goes in between, nothing is updated, and where
\* it is made again, the UPDATE is one of an old page.
UpdateEnabledRepo(u, row, asked, touched, sent) ==
    /\ Shows(rows[u])
    /\ saves < MaxSaves
    /\ rows' = [rows EXCEPT ![u] = row]
    /\ meant' = [meant EXCEPT ![u] = asked]
    /\ restored' = [restored EXCEPT ![u] = (@ \ touched) \cup WrittenBack(u, sent)]
    /\ saves' = saves + 1
    /\ UNCHANGED <<holder, wake, defaults, page>>

SetRepoWakeMode(u, mode) ==
    /\ page[u] # NoPage
    /\ mode # page[u].mode
    /\ UpdateEnabledRepo(u, [rows[u] EXCEPT !.mode = mode], [meant[u] EXCEPT !.mode = mode],
                         {}, {})

SetRepoAutoReviewCadence(u, cadence) ==
    /\ page[u] # NoPage
    /\ cadence # page[u].cadence
    /\ UpdateEnabledRepo(u, [rows[u] EXCEPT !.cadence = cadence],
                         [meant[u] EXCEPT !.cadence = cadence], {}, {})

\* Scope and skip list are saved together, the one not touched as shown.
SetRepoAutoAuthors(u, autoAuthors, asked, touched) ==
    UpdateEnabledRepo(u,
        [rows[u] EXCEPT !.authors = autoAuthors.scope, !.authorSkip = autoAuthors.skip],
        [meant[u] EXCEPT !.authors = asked], touched, AuthorPieces \ touched)

PickAuthorScope(u, scope) ==
    /\ page[u] # NoPage
    /\ scope # page[u].authors.scope
    /\ SetRepoAutoAuthors(u, [page[u].authors EXCEPT !.scope = scope],
                          [meant[u].authors EXCEPT !.scope = scope], {"authorScope"})

SaveSkipLogins(u, logins) ==
    /\ page[u] # NoPage
    /\ SetRepoAutoAuthors(u, [page[u].authors EXCEPT !.skip = logins],
                          [meant[u].authors EXCEPT !.skip = logins], {"authorSkip"})

\* Mutant.  The skip column is left out of the UPDATE.
SetBranchesKeepSkip(u, autoBranches, asked, touched) ==
    UpdateEnabledRepo(u,
        [rows[u] EXCEPT !.branches = autoBranches.scope, !.branchList = autoBranches.listed],
        [meant[u] EXCEPT !.branches = asked], touched, BranchPieces \ touched)

SetRepoAutoBranches(u, autoBranches, asked, touched) ==
    UpdateEnabledRepo(u,
        [rows[u] EXCEPT !.branches = autoBranches.scope, !.branchList = autoBranches.listed,
                        !.branchSkip = autoBranches.skip],
        [meant[u] EXCEPT !.branches = asked], touched, BranchPieces \ touched)

\* "listed" without branches only opens the field for them; another scope
\* leaves the list empty.
PickBranchScope(u, scope) ==
    /\ page[u] # NoPage
    /\ scope # page[u].branches.scope
    /\ \/ /\ scope = "listed" /\ page[u].branches.listed # {}
          /\ SetRepoAutoBranches(u, [page[u].branches EXCEPT !.scope = scope],
                 [meant[u].branches EXCEPT !.scope = scope], {"branchScope"})
       \/ /\ scope # "listed"
          /\ SetRepoAutoBranches(u, [page[u].branches EXCEPT !.scope = scope, !.listed = {}],
                 [meant[u].branches EXCEPT !.scope = scope, !.listed = {}],
                 {"branchScope", "branchList"})

SaveListedBranches(u, listed) ==
    /\ page[u] # NoPage
    /\ listed # {}
    /\ SetRepoAutoBranches(u, [page[u].branches EXCEPT !.scope = "listed", !.listed = listed],
           [meant[u].branches EXCEPT !.scope = "listed", !.listed = listed],
           {"branchScope", "branchList"})

SaveSkipBranches(u, skip) ==
    /\ page[u] # NoPage
    /\ SetRepoAutoBranches(u, [page[u].branches EXCEPT !.skip = skip],
                           [meant[u].branches EXCEPT !.skip = skip], {"branchSkip"})

\* The defaults are saved as a whole; a stale page would bring back a state of
\* an earlier save, which is there with fewer saves too.
SetRepoSettingDefaults(u, d) ==
    /\ saves < MaxSaves
    /\ defaults' = [defaults EXCEPT ![u] = d]
    /\ saves' = saves + 1
    /\ UNCHANGED <<holder, wake, rows, page, meant, restored>>

PatchDefaults(u) ==
    \/ \E x \in Modes : SetRepoSettingDefaults(u, [defaults[u] EXCEPT !.mode = x])
    \/ \E x \in AuthorScopes : SetRepoSettingDefaults(u, [defaults[u] EXCEPT !.authors = x])
    \/ \E x \in BranchScopes : SetRepoSettingDefaults(u, [defaults[u] EXCEPT !.branches = x])
    \/ \E x \in Cadences : SetRepoSettingDefaults(u, [defaults[u] EXCEPT !.cadence = x])

-----------------------------------------------------------------------------
(* Webhooks *)

PullActions == {"opened", "synchronize", "reopened", "ready_for_review"}

\* The event is dropped before the rest of it is looked at.
Unread(e) == e.bot \/ e.action = "edited"

\* GitHub sends ready_for_review of a pull request that is no draft any more.
\* Bound: of the events dropped unread, one of each kind and author.
PullEvents ==
    {e \in [name : {"pull_request"}, action : {"opened", "ready_for_review", "edited"},
            bot : BOOLEAN, draft : BOOLEAN, author : Authors \cup {Nameless},
            base : Branches, told : BOOLEAN] :
        /\ e.action = "ready_for_review" => ~e.draft
        /\ Unread(e) => ~e.draft /\ e.told /\ e.base = DefaultBranch}

\* told: the payload has the default branch.  onPull: the issue is a pull
\* request.  phrase: what of the bot's phrases the body has.
CommentEvents ==
    {e \in [name : {"issue_comment", "pull_request_review_comment"},
            action : {"created", "edited"}, bot : BOOLEAN, onPull : BOOLEAN,
            phrase : {"none", "trigger", "fix"}] :
        /\ e.name = "pull_request_review_comment" => e.onPull
        /\ Unread(e) => e.onPull /\ e.phrase = "trigger"}

IsPull(e) == e.name = "pull_request"

\* parseWakeEvent and parseGithubEvent.
Supported(e) ==
    /\ ~e.bot
    /\ IF IsPull(e) THEN e.action \in PullActions
       ELSE e.action = "created" /\ e.onPull

Draft(e) == e.action # "ready_for_review" /\ e.draft

\* planFromTrigger: only a comment on a line may ask for a fix.
PlanOf(e) ==
    IF IsPull(e) THEN "review"
    ELSE IF e.phrase = "none" THEN "no_match"
    ELSE IF e.phrase = "fix" /\ e.name = "pull_request_review_comment" THEN "fix"
    ELSE "mention"

\* findWakeRoute: the claim joined with the row of its holder.
RowOfRoute == IF holder = Nobody THEN NoRow ELSE rows[holder]

Friends == {"OWNER", "MEMBER", "COLLABORATOR"}

AutoWakeAllowsAuthor(autoAuthors, author, user) ==
    /\ author # Nameless
    /\ author.login \notin autoAuthors.skip
    /\ \/ autoAuthors.scope = "everyone"
       \/ autoAuthors.scope = "you" /\ author.user = user
       \/ autoAuthors.scope = "friends" /\ author.association \in Friends

BranchMatchesAny(patterns, branch) == \E p \in patterns : branch \in Matches[p]

AutoWakeAllowsBranch(autoBranches, base, known) ==
    /\ ~BranchMatchesAny(autoBranches.skip, base)
    /\ \/ autoBranches.scope = "all"
       \/ autoBranches.scope = "default" /\ known /\ base = DefaultBranch
       \/ autoBranches.scope = "listed" /\ BranchMatchesAny(autoBranches.listed, base)

\* autoWakeCadenceBlocks: the latest review wake of the pull request is under way.
CadenceBlocks(route, underWay) == route.cadence = "once-per-pr" /\ underWay

\* Mutant.  A mention passes the gates of a review.
DecideAllAlike(w, known, underWay) ==
    IF ~w.home \/ PlanOf(w.event) = "no_match" THEN "ignored"
    ELSE IF \/ IsPull(w.event) /\ Draft(w.event)
            \/ w.route.mode = "mention-only" THEN "ignored"
    ELSE IF PlanOf(w.event) # "review" THEN "dispatch"
    ELSE IF ~AutoWakeAllowsAuthor(w.route.authors, w.event.author, w.user) THEN "ignored"
    ELSE IF CadenceBlocks(w.route, underWay) THEN "duplicate"
    ELSE IF ~AutoWakeAllowsBranch(w.route.branches, w.event.base, known) THEN "ignored"
    ELSE "dispatch"

\* A mention or a fix passes the gates that hold back a review.
DecideWake(w, known, underWay) ==
    IF ~w.home \/ PlanOf(w.event) = "no_match" THEN "ignored"
    ELSE IF PlanOf(w.event) # "review" THEN "dispatch"
    ELSE IF \/ Draft(w.event)
            \/ w.route.mode = "mention-only"
            \/ ~AutoWakeAllowsAuthor(w.route.authors, w.event.author, w.user) THEN "ignored"
    ELSE IF CadenceBlocks(w.route, underWay) THEN "duplicate"
    ELSE IF ~AutoWakeAllowsBranch(w.route.branches, w.event.base, known) THEN "ignored"
    ELSE "dispatch"

\* resolveDefaultBranch asks GitHub for the branch the payload does not have,
\* when a review needs it; it may get no answer.
DefaultMayBeKnown(w) ==
    IF ~IsPull(w.event) \/ w.event.told THEN {TRUE}
    ELSE IF w.route.branches.scope = "default" THEN BOOLEAN
    ELSE {FALSE}

\* The latest review wake of the pull request, where the decision looks at it.
MayBeUnderWay(w) ==
    IF IsPull(w.event) /\ w.route.cadence = "once-per-pr" THEN BOOLEAN ELSE {FALSE}

\* What becomes of an admitted wake: nothing to review it with, of which the
\* pull request is told, or a queued run.
Admitted == {"no-model-slots", "accepted"}

\* The claim, the holder's row and her Home repo, joined by findWakeRoute.
Routed(e) ==
    [event |-> e, user |-> holder, home |-> holder \in Homes,
     meant |-> IF holder = Nobody THEN NoPage ELSE meant[holder],
     restored |-> IF holder = Nobody THEN {} ELSE restored[holder],
     row |-> RowOfRoute,
     route |-> IF PoliciesParse(RowOfRoute) THEN RouteSettings(RowOfRoute) ELSE NoPage]

\* The wake is over; known and underWay are what it found out on the way, and
\* calls says whether D1 and GitHub gave it an answer.
Ends(w, outcome, calls, known, underWay) ==
    wake' = [event |-> w.event, user |-> w.user, home |-> w.home, meant |-> w.meant,
             restored |-> w.restored, row |-> w.row, route |-> w.route,
             outcome |-> outcome, calls |-> calls, known |-> known, underWay |-> underWay]

Ignore(e) == ~Supported(e) /\ Ends(Routed(e), "ignored", "answered", TRUE, FALSE)

\* Without a claim or a row the route is disabled, and every plan ignored.
NoRoute(e) ==
    /\ Supported(e)
    /\ RowOfRoute = NoRow
    /\ Ends(Routed(e), "ignored", "answered", TRUE, FALSE)

\* The mode or the cadence of the row does not parse, or D1 fails.
RouteFails(e) ==
    /\ Supported(e)
    /\ \/ /\ RowOfRoute # NoRow /\ ~PoliciesParse(RowOfRoute)
          /\ Ends(Routed(e), "unavailable", "answered", TRUE, FALSE)
       \/ Ends(Routed(e), "unavailable", "failed", TRUE, FALSE)

\* The token or the question for the slots may fail an admitted wake.
ProcessPlannedWake(e, known, underWay) ==
    /\ Supported(e)
    /\ Routed(e).route # NoPage
    /\ known \in DefaultMayBeKnown(Routed(e)) /\ underWay \in MayBeUnderWay(Routed(e))
    /\ LET decision == DecideWake(Routed(e), known, underWay)
       IN  \/ /\ decision # "dispatch"
              /\ Ends(Routed(e), decision, "answered", known, underWay)
           \/ /\ decision = "dispatch"
              /\ \/ \E outcome \in Admitted :
                       Ends(Routed(e), outcome, "answered", known, underWay)
                 \/ Ends(Routed(e), "unavailable", "failed", known, underWay)

HandleGithubWake ==
    /\ \E e \in PullEvents \cup CommentEvents :
           \/ Ignore(e) \/ NoRoute(e) \/ RouteFails(e)
           \/ \E known, underWay \in BOOLEAN : ProcessPlannedWake(e, known, underWay)
    /\ UNCHANGED <<holder, settings>>

RecordReceipt ==
    /\ wake # NoWake
    /\ wake' = NoWake
    /\ UNCHANGED <<holder, settings>>

ClaimStep == ReleaseRoute \/ \E u \in Users : ClaimRoute(u) \/ EnableRepo(u) \/ DisableRepo(u)

\* Bound: one login to skip at most.
SkipLists == {x \in SUBSET Logins : Cardinality(x) <= 1}

PageStep ==
    \E u \in Savers :
        \/ ListEnabledRepos(u)
        \/ \E x \in Modes : SetRepoWakeMode(u, x)
        \/ \E x \in Cadences : SetRepoAutoReviewCadence(u, x)
        \/ \E x \in AuthorScopes : PickAuthorScope(u, x)
        \/ \E x \in SkipLists : SaveSkipLogins(u, x)
        \/ \E x \in BranchScopes : PickBranchScope(u, x)
        \/ \E x \in SUBSET Patterns : SaveListedBranches(u, x) \/ SaveSkipBranches(u, x)
        \/ PatchDefaults(u)

Next ==
    \/ wake = NoWake /\ (ClaimStep \/ PageStep \/ HandleGithubWake)
    \/ RecordReceipt

Spec == Init /\ [][Next]_vars

-----------------------------------------------------------------------------
(* Properties *)

\* Every variable keeps its type: whatever is saved, a page shows and a row
\* holds something that can be asked for.
TypeOK ==
    /\ holder \in Users \cup {Nobody}
    /\ rows \in [Users -> Columns \cup {NoRow}]
    /\ defaults \in [Users -> [mode : Modes, authors : AuthorScopes,
                               branches : BranchScopes, cadence : Cadences]]
    /\ page \in [Users -> Asked \cup {NoPage}]
    /\ saves \in Nat
    /\ meant \in [Users -> Asked \cup {NoPage}]
    /\ restored \in [Users -> SUBSET (AuthorPieces \cup BranchPieces)]
    /\ wake = NoWake \/ wake.outcome \in Admitted \cup {"ignored", "duplicate", "unavailable"}

AuthorInScope(m, author, user) ==
    CASE m.authors.scope = "you" -> author.user = user
      [] m.authors.scope = "friends" -> author.association \in Friends
      [] m.authors.scope = "everyone" -> TRUE

BranchesInScope(m) ==
    CASE m.branches.scope = "all" -> Branches
      [] m.branches.scope = "default" -> {DefaultBranch}
      [] m.branches.scope = "listed" -> UNION {Matches[p] : p \in m.branches.listed}

\* The settings of the user with the claim, as she asked for them last, want
\* the review; some of them do not count.
Wants(w, but) ==
    /\ w.meant # NoPage /\ w.meant.mode = "auto"
    /\ ~w.event.draft
    /\ w.event.author \in Authors
    /\ "authorScope" \notin but => AuthorInScope(w.meant, w.event.author, w.user)
    /\ "authorSkip" \notin but => w.event.author.login \notin w.meant.authors.skip
    /\ but \cap {"branchScope", "branchList"} = {} => w.event.base \in BranchesInScope(w.meant)
    /\ "branchSkip" \notin but =>
          w.event.base \notin UNION {Matches[p] : p \in w.meant.branches.skip}

\* An automatic review starts only if the user whose Home runs it asked for it
\* when she last touched each of the settings: for this author, into this
\* branch, whatever else was saved since, by whom, and in which columns.  A
\* setting that a page wrote back as an older one cannot hold it off any more:
\* the neighbours of the control she touched go along as the page shows them.
ReviewsAreWanted ==
    wake.outcome = "accepted" =>
        /\ wake.user \in Homes
        /\ IsPull(wake.event) => Wants(wake, wake.restored)

\* What the settings page says of the skip list, "never these people": a login
\* its user put on it last gets no automatic review.
SkippedAreNeverReviewed ==
    wake.outcome = "accepted" /\ IsPull(wake.event) =>
        wake.event.author.login \notin wake.meant.authors.skip

\* The webhook has an answer for all it asked, and of a row that can be read.
Answered(w) == w.calls = "answered" /\ w.route # NoPage

\* While the repo is claimed, enabled and has a Home, a poke in a comment is
\* admitted whatever the settings are, and so is a review they want, but for
\* one under way and a default branch GitHub would not tell.  Only a call that
\* fails, or a mode or cadence that does not parse, turns them down, and then
\* GitHub is told of it: the wake is unavailable, never ignored.
NoneIsPassedOver ==
    /\ wake # NoWake /\ wake.row # NoRow /\ wake.home /\ ~wake.event.bot
    /\ IF IsPull(wake.event)
       THEN /\ wake.event.action # "edited" /\ wake.known
            /\ wake.route # NoPage => /\ Wants(wake, {}) /\ wake.restored = {}
                                      /\ wake.meant.cadence = "once-per-pr" => ~wake.underWay
       ELSE wake.event.action = "created" /\ wake.event.onPull /\ wake.event.phrase # "none"
    => wake.outcome \in IF Answered(wake) THEN Admitted ELSE {"unavailable"}
=============================================================================
