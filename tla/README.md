# hakasebot, specified

TLA+ modules for the parts of hakasebot whose order of events matters, the TLC
configurations that check them on small instances, and proofs of the results
that matter most, checked by TLAPS for every value of the constants.

hakasebot is a Cloudflare Worker (`apps/web`: the Lab, a Dashboard, and the
GitHub webhook), a GitHub Action that runs in a user's Home repo
(`packages/action`), and a core they share (`packages/core`). A push or a
mention on a consumer repo is a Wake: the Worker decides whether it wants one,
records it in D1 and starts the Home workflow; the Home run fetches its Runtime
pack from the Worker, reviews the pull request and posts.

## Inventory

| Part | State | Operations | Interacts with | What must hold |
|---|---|---|---|---|
| Wake pipeline, Worker (`apps/web/src/wake`, `home/wake-run-store.ts`) | `wake_runs` (key, dispatch id, status, created_at, run url), the progress comment | plan, insert, supersede, comment, dispatch, poll, commit, fail | D1, GitHub REST, other handlers of the same pull request, the Home run's PATCH | one live review per pull request; final rows stay final; a failure is told; queued rows are settled |
| Wake decision and triggers (`core/src/wake`, `wake/plan-wake.server.ts`, the settings views and stores) | columns of `enabled_repos`, `repo_setting_defaults`, what a page shows | save a setting, enable, disable, parse a row, decide a webhook | the claim, the planner | a review starts if and only if the settings of the user with the claim ask for it; a mention always works |
| Home run (`packages/action/src/home`, `review-runtime.ts`) | a GitHub Actions run, the checkout, the review on the pull request | boot, prepare, three rechecks, checkout, queue, post, failure report | Lab status endpoints, GitHub, the concurrency group | an ended wake never posts; one writer at a time; every run ends |
| Review post and incremental review (`action/src/review-post.ts`, `review-context.ts`, `incremental-review.ts`, `report-checks.ts`) | reviews on the pull request | read the head, find the prior review, check findings, skip unchanged, dismiss, create | the Home run, the author who pushes and dismisses | one verdict per commit; no commit is left unread; a result is a review that is there |
| Model queue and similar models (`action/src/vault/runtime.ts`, `similar-model.ts`, `engines.ts`) | the slot the run is at, credentials on disk | try a slot, fall back, substitute a retired model | engines, the catalogs of the pack | one review per run; no credential outlives its pass; the newest kin runs |
| Model slots and lists (`core/src/vault/store/slots.ts`, `repo-model-list.ts`, `home/runtime-pack.ts`) | `model_slots`, `repo_model_list(_meta)`, accounts | save, delete, order, override, build a pack | pages, rotation, the Home run | no list is a mixture; an empty one has a cause; a pack is complete and allowed |
| Repo claim (`home/route-store.ts`, `web-app/repos.server.ts`, `reclaim-stale-claim.server.ts`) | `repo_routes` (holder, generation, bot installation), `enabled_repos`, `home_repos.installation_id` | enable, reclaim, disable, bot confirm | the App lifecycle webhook, account deletion, the Wake's backfill, the Home run's claim recheck | a writer keeps the claim; a claim that moved is seen; Dashboard and claim agree |
| App lifecycle webhook (`wake/webhook.server.ts`, `app-lifecycle`) | none of its own | release the repos of an installation, clear the Home row | the claim, the Home row | nothing names an App that has left |
| Account deletion (`web-app/account-deletion-store.ts`) | every table of the user | one D1 batch | everything above | nothing of the user is left half deleted |
| Vault rotation and sync (`core/src/vault/store/rotate.ts`, `web-app/rotate.client.ts`, `web-app/repo-install.ts`) | accounts, epoch, the browser's key and staged key, the Home secret, synced epochs | rotate, save account, push the key, mark synced | several browser tabs, GitHub secrets | no key is used before it was saved; one key seals the vault; a rotation marks every repo stale |
| Vendor login (`core/src/vendor-login`, `apps/web/src/vendor-login`) | the login in the tab, its timer, requests, the form's draft | start, paste, answer, time out, cancel, reload, save | vendors, the relay, React | a code is spent once; a stale answer fills in nothing; a login ends |
| Home repo bootstrap (`home/bootstrap.server.ts`, `home-repo-store.ts`) | the house (Home repo) and its row | make, let the App in, commit the workflow, write secrets, refresh, push the key | GitHub, the user on github.com | the row promises no more than the house has |
| Repo install machine (`core/.../repo-install`, `web-app/use-repo-install.ts`) | the machine and promise chain of a page, the marks of the row | begin, resync, retry, cancel, the bot and sync stages | the claim, the house, other pages | done means set up; a stage that runs is driven |
| Sessions and OAuth, views, host console, catalog fetching, rendering, setup scripts | none that concurrent steps share | request plumbing, pages, pure formatting | | not modelled, see the end |

What is hard to test here: handlers await D1 and GitHub some twenty times and
D1 has no interactive transactions, so any two requests interleave at every
await; pages save what they show, which may be old; the Home run acts on a row,
a head and a listing it read seconds or minutes earlier; GitHub redelivers,
lists runs late and cancels runs by group; keys and logins live in browser tabs
that know nothing of each other; and any process may stop half way.
`PROJECT.json` lists each of these hazards at its line, with the properties
that would show it going wrong.

## Modules

Each module is one component; `MC…` modules hold the symmetry sets and small
inputs for TLC, `…Proofs` modules the theorems. An operator with the comment
"Mutant." or "A variant that …" stands before the definition it distorts: a
plausible bug, used to show that a property can fail.

- `WakeDispatch`: one pull request, from the webhook to the posted review. A
  delivery, its handler, its dispatch id and its Home run share one identifier (a
  handler mints at most one). `pc` is the handler's next await, `home` the stage of
  the Home run, `house` the Home repo it is in: of the user whose claim the route
  named, so that the deliveries of one pull request may be in several. Each Home
  repo has its own concurrency group (`SameGroup`). `told` says whether a failure
  was told, told in vain, or never. Every D1 statement and every GitHub call is one
  action, named after the function it translates; a failing call is a disjunct
  enabled by the member of `Faults` that names it. Rows are kept by dispatch id, and
  `WakeKeyOf` gives the primary key, which is what INSERT and DELETE look at.
- `WakePromise`: what the pipeline promises without the database: a wake is new,
  live, then ended; in each Home repo one live wake at a time gets the right to
  write; it writes once. `WakeDispatch` implements it (`KeepsPromise`) with phase =
  row in flight, writer = the run between its last recheck and its post.
- `WakeAdmission`: two users, one repo, one webhook at a time. Settings are
  saved from `page`, which shows the row as of some earlier fetch; `rows` are
  the columns, also such as an older release left, readable or not; a wake reads the
  row of the claim's holder in one join and `DecideWake` follows. A control of the
  page sends more than it is about: its neighbours go along as the page shows them.
  `meant` remembers each setting as it was asked for with its own control, and
  `restored` those that a page has written back since as something else.
- `ReviewRun`: the Home runs of one pull request from the checkout to the review,
  with the author pushing, force-pushing and dismissing in between. `pc` is the
  run's next call; `ended` keeps how every run ended. It extends
- `ModelChoice`: how a queue entry compares model ids when its own was retired;
  pure operators over tokenised ids. `ReviewRun` walks the catalog with them, entry
  by entry, as the loop of `pickSimilarModel` does.
- `ModelSlots`: the slots of one user, the list of one repo and the Runtime pack
  being built. A request is a record of what a page asked and `pc`, its next D1
  statement; the ghosts `dropped`, `emptied` and `allowed` remember what
  explains a short queue.
- `RepoClaim`: one consumer repo and any number of users; every request is a
  process that makes one operation, a D1 statement per step. Only the Wakes'
  claim-related steps are here (find the route, backfill the installation,
  recheck the generation, post); what happens in between is `WakeDispatch`. A
  reading of `Date.now()` is any member of `Times`, in no order. The ghosts
  `readings` (who read which) and `traffic` ("calm" until two requests overlap or
  one fails) serve the properties.
- `VaultRotation`: the encryption key of one user. A tab is a process: it loads
  the page, passes the vault gate (`ResolveGate`, then ceremony, import or open)
  and makes one operation at a time: seal and save an account, delete one, enable
  or disable a repo, push the key and mark the repo synced, or rotate. D1 is
  `boxes`, `epoch` and `synced`; each tab's sessionStorage is `key`, `acked` and
  `staged`; the Actions secret of the Home is `homeSecret`. Any call may fail, and
  a tab may be reloaded or closed at every step; a closed tab that opens again is
  another browser. The request such a tab had sent is `adrift`: it is lost, or the
  server goes through with it (`LateCall`) while no page has read the vault again.
- `VendorLogin`: a login in one tab: the reducer as operators that return a state
  and at most one effect, the interpreter (`ApplyLoginEvent`), the tab's storage
  and the account form. `tag` names a login (its PKCE state), `wires` are the
  requests under way with the venue they are at. What reaches the vendor is counted
  (`received`, from `VendorReceives`), not what the reducer asks for; `unread` has
  the codes whose answer could not be read. React may run an updater at once or
  leave it to the next render, where its effects are lost (`effects`).
- `HomeSetup`: one user's house and the setup of one repo. Requests (bootstrap,
  refresh, push) and pages (the install machine and its promise chain) take one
  GitHub or D1 call per step, while the user installs and uninstalls the App and
  deletes the house, and another page disables and enables the repo.

### How the modules meet

Each of them cuts one component out along the state nobody else writes, and the
cuts are these. What becomes of an admitted wake in `WakeAdmission` is a delivery
of `WakeDispatch`; a started Home run of `WakeDispatch` is a `Dispatch` of
`ReviewRun`, whose concurrency group serialises the runs; the claim recheck of
`WakeDispatch` succeeds or fails as `RepoClaim` says; the queue of `ReviewRun` is
a pack of `ModelSlots`; the accounts of `ModelSlots` are the boxes of
`VaultRotation`, filled from a draft of `VendorLogin`; `HomeSetup` writes the
installation that `RepoClaim` routes by and pushes the key of `VaultRotation`. A
neighbour's step is taken at any time (the claim moves at will in
`WakeAdmission`, a vault account goes at will in `ModelSlots`), which allows every
behaviour of the composition and more. Only the two abstractions of a wake
(`WakeDispatch` and `WakePromise`) are formally linked.

### Abstractions

- Head commits, mentions, users and installations are model values or small
  numbers. Messages, wording and payloads are left out, except that a comment is
  known by its kind (queued, started, failure, deleted), because the code searches
  for a marker.
- `WakeDispatch`: `Recheck` merges the dispatch and the claim recheck of
  `holdsRecheck`; `RepoClaim` has the claim side in detail. Three polls for the
  Home run are one, the last: the earlier ones change nothing. A lookup by run
  name or run url is "GitHub lists the run". The review itself is success or
  failure. `clock` is `Date.now()` of `insertWake`, which only the once-per-pr
  lookup reads: there two readings may be equal (`Tick = 0`). Clocks of different
  Worker isolates are taken as one. The "hold" fault lets any recheck fail, also one
  that reports a failure: the run then ends "silenced", as when the claim moved.
- `WakeAdmission`: the handling of a webhook is one step, because everything it
  reads of the settings comes from one join; pages and claims move between two
  webhooks. A pattern is the set of branches it matches; `"?"` is a member of a
  column that does not parse. Reading and inserting the defaults is one step. The
  Worker's read before the UPDATE of a setting finds out only that the repo is
  listed, so the two are one step: where the row goes in between, nothing is
  updated, and where it is made again, the UPDATE is that of an old page. The
  App's slug is configured; signature and JSON rejection are left out.
- `ReviewRun`: the gate, the token and the list of reviews are read at once, for
  only a dismissal can change between them; both passes start at once. A finding
  is flags: safe path, ignored, no-op patch, the heads whose diff shows it, the
  commits whose file has it. The notice of a substituted model is (requested,
  used). A dry run is left out.
- `ModelSlots`: one repo stands for all; the page that makes a request has just
  fetched the tables, and the request's first statement runs at any time later,
  which covers old pages. What a page forbids while a request of its own is
  pending, another page allows. Ids are never used again.
- `RepoClaim`: the three deletes of the vault store's `disableRepo` are one step;
  the model lists they remove first are in `ModelSlots`. `writers` are the users
  who had write access all along; a user outside it may or may not have it when
  asked, so access that comes and goes is covered.
- `VaultRotation`: a box, a sample and a secret are known by the key they hold or
  are sealed under; a key opens what it sealed and nothing else, and a new key is
  one never generated before. `saved` is the keys the user ticked as saved in a
  ceremony, the only ones a user can paste. The count, the epoch and the sample of
  the gate's snapshot are read in one step, and so are the second comparison of
  the repo list and the epoch in `rotateVault`. A tab makes one operation at a
  time; a call that fails was served before or never is; a request that is adrift
  when the next page reads the vault is lost, for served any later it is that of a
  second tab, left open. Deletes, enables and disables are one step of their page.
  Account deletion and the epoch on the Home row, which nobody reads,
  are left out. `shared` records that two tabs have been open together: the code
  cannot tell one tab of another and promises little then.
- `VendorLogin`: PKCE, URLs and the parsing of vendor answers are their outcomes
  (`Readings`). A generation is the flag `live`. The page is either shown or was
  unmounted while the PKCE was made.
- `HomeSetup`: the App is configured; the claim and the enabled row are one
  (`RepoClaim` has the statements); the vault epoch is `VaultRotation`'s. Which
  repos the installation covers is not state: its owner may change it any time, so
  each look finds a repo covered or not. Of the three Actions secrets the workflow
  reads the App's id and key, the same in every house, so they are one flag. Calls
  by owner and name reach the house there is now. The ghosts `astray` (the key went
  into another house than the row names) and `late` (an installation saved after
  the report of its deletion was handled) mark two states the code lets happen.

### Bounds and assumptions of the runs

Counters are bounded by the processes where each acts once (deliveries, requests,
Home runs); the other bounds are constants whose name starts with `Max` or whose
comment says "bound". No state constraint is used.

- Two deliveries are the least with a supersede, a duplicate key and a cancelled
  run; two Home repos (`WakeEveryPush`) let the claim move between them. A clock
  that stands still (`WakeOncePerPr`) has all ties. Two users and three requests
  give every pair of operations with a third in between, overlapping or not; two
  times are the least that can repeat, grow and fall.
- `VaultTabs`: two tabs and three keys give a mint and two rotations, two mints and
  a rotation, or three browsers; two accounts (`MaxBoxes`) are the least that can
  disagree.
- `LoginRaces`: one engine per kind of grant (a pasted code, a device code with an
  exchange, one without), two presses, a clock of six units with a TTL of two, so
  that a second login starts and times out after a first, and updaters early or
  late. `antigravity` differs from `claude` in its venue only.
- `ReviewPosts`: three runs over two commits in any order of pushes and resets, one
  slot and no faults; `ReviewFaults`: one commit, three runs, two slots, every
  fault. Two commits with every fault is out of reach.
- `ModelSlots`: two accounts, two slots and two requests, the least with a mixture,
  a torn list and an account that goes while a pack is built.
- `WakeAdmission`: two users over a claim that moves, three authors (the holder, a
  friend, a stranger), two branches, one glob, rows an older release left, one of
  them with a mode that does not parse, two saves by one user, skip lists of at most
  one login, and one of each event that is dropped unread.
- `HomeSetup`: two actors under way at once (`AtOnce`), two houses, two
  installations and two rows of the repo, four of these together.

Symmetry is over values compared for equality only; runs with a liveness property
use none. `CHECK_DEADLOCK FALSE` is said where the system may really stop: no run
is left to dispatch, or every bounded event has happened.

Fairness: `WakeLiveness` assumes that a handler that is not killed takes its next
step (an await is answered or times out), that GitHub lists and starts a run it
accepted, and that a Home run goes on until it ends. A killed Worker breaks the
first, and the code has no recovery for it. `ReviewFaults` assumes that the
process of the job runs until it exits (GitHub ends it otherwise). `LoginRaces`
assumes that the clock runs, that the browser settles every request and fires
every timer; the user owes nothing, so a login that lost its effect may wait for
ever. Every safety property is checked without
fairness, so a handler, request or page may stop for good at any step.
`HomeSetup` states no liveness: its `RunningIsDriven` is the safety half of "a
setup that runs comes to an end".

## Runs

| Run | Shows |
|---|---|
| `WakeEveryPush` | two pushes into one or two Home repos, all faults but the comments': `OneLiveReview`, `TerminalIsFinal`, and the refinement of `WakePromise` |
| `WakeOncePerPr` | a push and a mention in one concurrency group; tokens, slots, comments, credentials and engines fail: `FailureIsTold`, `EveryWakeIsAnswered`, `DoomedNeverPosts` |
| `WakeLiveness` | `QueuedIsSettled`: no row stays queued |
| `WakeAdmission` | every webhook over moving claims, old pages and unreadable rows: `ReviewsAreWanted`, `NoneIsPassedOver` |
| `StaleSkipList` | fails, and should: `SkippedAreNeverReviewed`, what the page and ADR 0015 say of the skip list, is not what a page with an old list keeps |
| `ReviewPosts` | pushes, force pushes, resets and dismissals between the calls of a run: `GapHasCause` (an incremental review leaves no commit unread), `RefusedHasCause` |
| `ReviewFaults` | every call may fail, a new run cancels the last: one verdict per commit, at most one review per run, a reported review is there, credentials go with their pass, the newest kin runs, `RunEnds` |
| `ModelSlots` | two requests and a pack, statement by statement: `NoMixedList`, `EmptyListHasCause`, `PackIsComplete`, `PackIsAllowed` |
| `ClaimRaces` | three requests that may overlap and stop half way, any clock: `ForeignRunNeverPosts`, `WriterKeepsClaim`, and `DashboardMatchesClaim` as long as none did |
| `VaultTabs` | two tabs and a rotation, any call of which may fail, or be served when its page is gone: `UsedKeysAreSaved`, `OneVaultKey`, `RotationMarksStale` |
| `LoginRaces` | updaters early or late: a code reaches its vendor once and from one venue, the form gets wanted credentials only, an ended login stays away, a waiting login is driven and settles |
| `HomeSetup` | the Home row and the repo's row say what is there, whatever fails and whoever interferes: `HelperIsIn`, `HouseIsReady`, `KeyIsThere`, `DoneIsSetUp`; `RunningIsDriven` |

What a property lets through, it names. `FailureIsTold` counts an attempt GitHub
refused, and a run that never got its credentials, as told in vain: the code does its
best there. `EveryWakeIsAnswered` lets a run go that was killed, that found the claim
moved, or that was displaced by another of its group which was not displaced itself.
`ForeignRunNeverPosts` excepts two users whose enables read the same millisecond,
`CodeSpentOnce` a code whose answer could not be read, which the relay may try once
more; it speaks of authorization codes, for the polls of a device grant are repeatable
by design (`repeatable_form`). `LoginIsDriven` and `LoginSettles` except the login
whose effect a late updater lost. `ReviewsAreWanted` excepts a setting that an old
page wrote back, `NoneIsPassedOver` asks for "unavailable" where a call fails or a
mode or cadence does not parse. In each case TLC breaks the property without the
exception, and the next section tells what the user sees.

A property named "… HasCause" holds up to causes it lists: each of them is a
behaviour of the code that TLC produced when the cause was left out, and the next
section describes those a user would notice. All runs but `StaleSkipList` pass.

## What the models brought to light

These are what the code does, met while the modules were written and shown by a
counterexample when a property is stated without its exception. The first of
"Deciding on a wake" has a run of its own, `StaleSkipList`.

Wake pipeline and claim
- Two overlapping pushes may supersede each other, so that neither is reviewed
  (the supersede runs before either row is seen as the newer one).
- A once-per-pr row that was just dispatched may be deleted by a handler with a
  stale status. A mention displaces the review run of its pull request in their
  concurrency group; that run reports nothing, so its row stays dispatched and holds
  back the once-per-pr review, although ADR 0021 (line 7) says that a Home run
  cancelled by concurrency does not. (After a push instead of a mention, the
  supersede has marked the row.)
- When the claim moves between two pushes, their runs are in the groups of two Home
  repos and may both be at their post; only the claim recheck keeps the first out.
- The recheck after the post fails closed: a posted review may be reported as
  failed. ADR 0006 says that the recheck before the post fails open, and
  `holdsRecheck` fails closed (`run-guards.ts:52`). It also says that a generation
  increments on claim, and `claimRoute` stores the time its request began: a
  later claim may carry a smaller one, which does no harm, or the same, and then a
  run dispatched for the one holder passes the recheck under the other.
- With requests that overlap or stop half way, Dashboard and claim may part until
  the next enable: a bot confirm between the SELECT and the DELETE of an uninstall
  leaves a Dashboard row without a claim.
- A new browser mints a second key while the vault is empty; a repo synced with
  the first still counts as synced.

Deciding on a wake
- A scope toggle or branch save from an old page writes back the old skip list or
  scope, against "never these people" (`messages/en.json:270`); disabling and
  enabling loses all settings.
- A row with one column that does not parse hides all repos of its user from the
  Dashboard while wakes go on with the default authors and branches; with an
  unreadable mode or cadence they are unavailable, mentions too, against "poking
  it in a comment always works" (`messages/en.json:252`): `NoneIsPassedOver` says
  unavailable there, and never ignored.
- A pull request that is retargeted ("edited") waits for its next push.

Review
- "Unchanged" also matches a dismissed review, so a run may report a review as
  there while none stands; reviews are dismissed as superseded before the new one
  is created, which may fail.
- Answers to mentions and fixes dismiss the standing review of the commit and
  count as prior reviews, as does a review labelled with a head it did not read
  (the checkout is of the dispatch, the label of the head now): the next
  incremental review starts after commits nobody reviewed.
- A 403 from GitHub while posting reads as a refused login, and the whole review
  runs again with the next slot. A refused codex or grok login ("sign in again")
  has none of those words and ends the queue, against the comment at
  `run-attempt.ts:140`.
- `pickSimilarModel` picks the newest listed model of the family, which is older
  than the stored one when no newer is listed: ADR 0011 has it so ("Same family,
  highest version, id-string tie-break"), `CONTEXT.md:176` speaks of a successor. It
  counts a custom id that was never published as one that went away
  (`CONTEXT.md:176`, `:100`).

Slots, login, Home
- The panel orders equal slots by creation, the queue by id, so "top goes first"
  (`messages/en.json:166`) may fail after a delete and an add. A toggle from an old
  page restores a deleted slot and its old order. A failure between the delete and
  the insert of a list, or replacing the only slot while a pack is built, gives "no
  model slots". Two lists without a common slot may mix.
- React runs an updater at once only on a clean queue, and may leave the one that
  computes a login's effects to the next render; the effects are then never run, and
  the login waits for the user to cancel (`use-vendor-login.ts:42`).
- A house saved with an installation whose deletion was handled meanwhile keeps it:
  the Lab sees the App as in and offers no check of it. A Home row keeps
  `secrets_synced_at` when it comes to name another house. When the repo is disabled
  and enabled between the two marks of the bot stage or of the sync stage, the new
  row may be left with the key and without the bot; the page then offers "recopy"
  only, which the reducer rejects, or with the bot and a claim without
  installation, which the next wake fills in.

## Proofs

Every safety property that a run checks is also a theorem, and so is the
refinement: for any number of deliveries, heads, mentions, users, requests,
installations, tabs, keys, accounts, slots, commits, runs and presses, any set of
faults and any clock, from the named assumptions on the constants alone: no theorem
has a hypothesis besides.

The assumptions say that "nobody" is no user, that bounds are natural numbers,
that a set named as part of another is one, and, where a proof counts or orders,
that what is finite in the program is finite: the slot ids (`SlotsAssumption`), a
catalog (`CatalogsAssumption`), the findings of a report (`ReportsAssumption`). A
row an older release left has the columns of the table
(`AdmissionAssumption`). TLC evaluates them in every run.

Hardly any of the properties is inductive by itself. The invariant a proof needs
was first checked by TLC on the run's instance, then proved. Where there are many
actions they are sorted into a few kinds of step (what a request does to the
tables, how a run goes on or ends, what an answer does to a login), each described
once by a lemma; an invariant is then kept kind by kind.

- `TypeCorrect` in each proof module: the type invariants. Only the runs of
  `WakeDispatch` check theirs; the others are in no run, being proved.

`WakeDispatchProofs`
- `OneLiveReviewAlways`, `TerminalIsFinalAlways`, `DoomedNeverPostsAlways`. The
  invariant `IInv` adds to the types that a handler before its insert has no row and
  no run, that a run exists only for a handler that dispatched it, that at most one
  Home run of the group is running, that a run which has not reached its post has
  posted nothing, and that a live review whose handler is past its supersede is the
  only one except for those that have not superseded yet. Each lemma takes one group
  of actions (up to the insert, the start, the Home run, GitHub), a step per action.
- `FailureIsToldAlways`: a handler at the write of "failed" has told or tried every
  comment, and so has a Home run that reports its failure (`TellsFirst`).
- `EveryWakeIsAnsweredAlways`: no handler returns with its row queued, a dispatched
  row has its run, and a run ends of itself only after its review, a failure told, or
  with its row ended (`Settles`). Only a run that appears displaces others
  (`VictimsEnded`), and of a group it leaves one that was not displaced (`Replaced`).
- `KeepsPromiseAlways`: the refinement of `WakePromise`. A step that gives the right
  to write is the last recheck; that no other run in the same Home repo is between its
  recheck and its post comes from the concurrency group there, which is the reason
  `IInv` carries it (`HouseKnown` says that a dispatched run knows its Home).

`WakeAdmissionProofs`
- `ReviewsAreWantedAlways`, `NoneIsPassedOverAlways`. The invariant is `MeansRow`: a
  row whose mode and cadence parse agrees, read as a wake reads it, with what its user
  asked for last, setting by setting, but for those written back (`Agrees`,
  `restored`); no row, nothing asked. A save of some columns keeps it because the
  page it came from showed a row that parses as a whole (`Shows`), an enable
  because it writes the defaults without lists. A gate of `DecideWake` then lets
  pass exactly who and what is meant (`GateOfAuthors`, `GateOfBranches`), and a row
  that does not parse ends in "unavailable".

`ReviewRunProofs`
- `OneVerdictPerCommit` (`StandingIsNewest`): between its list of the reviews and its
  post, a run has every standing review of its head still to dismiss (`StandingInv`).
- `PostsOnce`: the run under way has posted nothing yet (`RunsInv`); a lost answer is
  no reason to take another slot. `ReportedIsShown`: the hash by which a run finds
  its review there stands for the report and the notice (`ShownInv`).
  `RefusalIsExplained`: what is left of the report was looked up in the diff of the
  listed head (`CheckedInv`). `CredentialsGo`: only the passes of the plan's axes run,
  and none lingers while no pass may run (`HomesInv`).
- `SupersedingIsExplained`: what the run under way has dismissed at its first slot is
  of its head and it is still at it (`SupersededInv`). `NoUnexplainedGap`: a review
  that starts after a commit has a review of that commit before it (`GapInv`), so
  that the cover of the one goes on in the other; the line of a commit never changes.
- `OnlyTheNewestKinRuns`, for any finite catalog in any order: the comparison of two
  ids (`Beats`: version piece by piece, then the id itself) is strict and transitive,
  and at each round of the loop no entry scanned so far beats the best one (`ScanInv`).

`ModelSlotsProofs`
- `InOrderSorts`: the order by rank has every id of a finite table once, each before
  those that come after it. This is what `mergeSlotOrder` sorts by.
- `ListsDoNotMix`, `EmptyListIsExplained`, `PackHasItsLogins`, `PackObeysTheList`. The
  tables keep their references (`TablesInv`), an account never comes back and a slot
  that went is in `dropped`; a request saves a slot with the account it has; the
  rows of a list are those of a whole list, but for what was dropped; a pack under
  way knows where its slots come from, and notes what the list lets through.

`RepoClaimProofs`
- `WriterKeepsClaimAlways`: an enable only deletes for its `target`, and a target
  that reached the release was not a writer when it was checked; `writers` only
  shrinks. The invariant carries that for every step between.
- `ForeignRunNeverPostsAlways`: the generation of the claim, and of each enable and
  dispatched run that carries one, was read by an enable of the user it belongs to
  (`Tokens`, over `readings`). Two that are equal belong to one user, or to two who
  read the same time, which is the exception the property names.
- `DashboardMatchesClaimAlways`: `SerialInv` says that while no two requests have
  overlapped and none has failed, one at a time is under way, and how far claim and
  row are apart at each of its steps (`Progress`).

`VaultRotationProofs`
- `UsedKeysAreSavedAlways`: `SavedInv` says that a confirmed or open tab has a saved
  key and that the key an operation has loaded is saved. It holds because a
  rotation takes the confirmation away with the key it commits.
- `OneVaultKeyAlways`, `RotationMarksStaleAlways`: `AloneInv` adds, while only one
  tab is open at a time, what the tab's gate knows of the vault: the snapshot has
  the first row, an open tab's key seals every row, an operation about to save has
  that key, and one about to wipe or to mark has read an epoch that still stands.
  `LateKnows` carries this on for a request whose page is gone: no page is at work
  since, so that what it knew still holds when the server comes to it.

`VendorLoginProofs`
- `CodeSpentOnceAlways`, `EndedIsOverAlways`: a login on screen or in storage is of a
  tag handed out and still open, and has asked for no exchange before its exchange
  phase. What the reducer may return is characterised once (`WellReduced`), and the
  interpreter keeps the invariant for all of that. What the vendor received is then
  counted request by request (`SpentInv`, `Counted`): a code once from the venue its
  request is at, and once more where the answer to the venue before went unread.
- `DraftIsWantedAlways`: an answer the reducer takes is of the request the login
  waits for, and so of its engine (`FormInv`). A request is named by the time its
  login started and a counter. Two logins of one millisecond share such names, but
  only those of their device codes, which fill in nothing: time has passed since
  the start once a login polls or exchanges.
- `OneVenueAlways`: by the same invariant at most one request carries a code, and a
  walk to the next venue takes the request along.
- `LoginIsDrivenAlways`: inductive with the shape of a login that `FormInv` has; an
  updater that ran late leaves `effects = "lost"`, which the property lets through.

`HomeSetupProofs`
- All five properties of its run. Three facts carry them. Ids are fresh (`Grows`,
  `RowGrows`): a house or a row that is gone never comes back under its id, so what
  was put into a house is in it as long as it is the one there is. Nothing is taken
  back: a house keeps its workflow, secrets and key, a row its marks. And a chain
  goes with its machine (`Driven`). `HouseIsReadyAlways` carries along a request what
  its steps so far have put into the house it names (`HouseInv`); `KeyIsThereAlways`
  that a mark under way is for a house that has the key (`KeyInv`);
  `DoneIsSetUpAlways` that the sync stage is reached through the bot stage or from a
  row that has the bot (`BotFirst`), and that a list a page shows, however old, is
  right about a row that is still there (`Seen`); `RunningIsDrivenAlways` is `Driven`;
  `HelperIsInAlways` is inductive with the types.

### Only model-checked

Liveness, which is beyond TLAPS here: `QueuedIsSettled`, `LoginSettles`,
`RunEnds`.

## Not modelled

- Sessions, OAuth and API tokens: each request reads one row and acts on it; the
  hard part is cryptography and cookies, which a state machine says nothing about.
- The Dashboard's views and the host console, beyond what a page may show or send
  (`WakeAdmission`, `ModelSlots`, `VaultRotation`, `HomeSetup`): rendering.
- Fetching, parsing and caching the catalogs of models, and the rendering and
  parsing of reports and comments: text, without a state that steps share.
- The engines' own tools and the vendors' services: a pass is an outcome.
- Setup scripts and the build: they run once, by hand.
- GitHub's redelivery of lifecycle events, and the tables of the vault in the
  account deletion: one batch, whose effect on claim and rows is in `RepoClaim`.
- The runs of one pull request are in two modules: `WakeDispatch` has the rows,
  `ReviewRun` the review. Their product is beyond TLC.

## Plan

1. Abstract specifications: of the claim (one holder at a time, told when lost) and
   of the vault (one key, rotated as a whole), with refinements from `RepoClaim` and
   `VaultRotation`.
2. The abstraction of `ReviewRun` that `WakeDispatch` uses, as a refinement.
