---------------------------- MODULE VendorLogin ----------------------------
(***************************************************************************)
(* A vendor login in one browser tab (ADR-0037): the login reducer of the  *)
(* core package, the interpreter that carries out its effects, the tab's   *)
(* sessionStorage and the account form the credential lands in.            *)
(*                                                                         *)
(* The reducer is a function of a state and an event.  Everything that can *)
(* go wrong sits around it: requests answered after the user cancelled,    *)
(* started again or changed the engine, a start that waits for its PKCE, a *)
(* page reloaded between two steps, timers, and React, which may run a     *)
(* state updater inside setState or leave it to the next render, when its  *)
(* effects are lost.                                                       *)
(*                                                                         *)
(* A login is named by a tag, its PKCE state.  The interpreter compares    *)
(* generations to recognise work it has stopped; a generation is never     *)
(* used again, so a request or a start carries the outcome of that         *)
(* comparison (live) instead of the number.                                *)
(***************************************************************************)
EXTENDS Integers, FiniteSets

CONSTANTS
    Engines,        \* the OAuth engines the form offers
    Starts,         \* bound: presses of the Login button
    MaxNow,         \* bound: the clock
    MaxInterval,    \* bound: the poll interval slow_down grows to
    TTL,            \* LOGIN_TTL_MS
    Lifetime        \* how long a device code lives, at least the TTL

OAUTH_ENGINES == {"claude", "codex", "grok", "antigravity"}

ASSUME LoginAssumption ==
    /\ Engines \subseteq OAUTH_ENGINES
    /\ Starts \in Nat /\ MaxNow \in Nat /\ MaxInterval \in Nat \ {0}
    /\ TTL \in Nat \ {0} /\ Lifetime \in Nat /\ Lifetime >= TTL

VARIABLES
    now,            \* Date.now()
    engine,         \* the engine the account form shows
    login,          \* the state of the mounted block
    timer,          \* when its one scheduled wake fires, Never
    wires,          \* token requests that are under way
    begins,         \* starts that wait for createPkce
    stored,         \* the login sessionStorage holds
    draft,          \* the credential draft of the form: the login and engine it is from
    saving          \* the form's save mutation is under way

\* What happened so far, which only the properties look at.
VARIABLES
    presses,        \* presses of the Login button so far: tags are 1..presses
    exchanges,      \* how many exchange requests each login has issued
    received,       \* how often the vendor has received the code of each login
    unread,         \* logins whose code the browser sent itself, to no readable answer
    outcome,        \* how each login has ended for the user
    effects         \* whether the last effect was carried out ("run") or lost

pageVars == <<engine, draft, saving>>
vendorVars == <<received, unread>>
userVars == <<presses, exchanges, outcome, effects>>
vars == <<now, pageVars, login, timer, wires, begins, stored, userVars, vendorVars>>

-----------------------------------------------------------------------------
(* Values *)

Tags == 1..Starts
Never == -1
NoReq == <<-1, -1>>
NoTag == 0
NoDraft == [tag |-> NoTag, engine |-> "claude"]

\* Request ids are derived from the login's start and a counter, so two
\* logins started in the same millisecond use the same ids.
ReqIds == Int \X Int
Phases == {"authorize", "device_code", "device_wait", "exchange"}
Outcomes == {"open", "cancelled", "failed", "done"}

\* The states of the reducer.  req is the request the phase waits for (the
\* poll under way for device_wait), pollAt, interval and expires are the
\* device grant; a login that is not active has none of them.
Idle == [kind |-> "idle", engine |-> "claude", tag |-> NoTag, phase |-> "authorize",
         startedAt |-> 0, seq |-> 0, req |-> NoReq, pollAt |-> 0, interval |-> 1,
         expires |-> 0]
Logins == [kind : {"idle", "active", "done", "failed"}, engine : OAUTH_ENGINES,
           tag : Tags \cup {NoTag}, phase : Phases, startedAt : Nat, seq : Nat,
           req : ReqIds, pollAt : Int, interval : Int, expires : Int]

Active(s) == s.kind = "active"

\* One token request, where it is on its ladder of venues, and whether the
\* vendor has received it from there.
Wires == [tag : Tags, req : ReqIds, what : {"device_code", "poll", "exchange"},
          engine : OAUTH_ENGINES, venue : {"direct", "relay"}, arrived : BOOLEAN,
          live : BOOLEAN]

TypeOK ==
    /\ now \in Nat
    /\ engine \in Engines
    /\ login \in Logins /\ stored \in Logins
    /\ timer \in Int
    /\ wires \subseteq Wires
    /\ begins \subseteq [tag : Tags, engine : Engines, live : BOOLEAN]
    /\ draft \in [tag : Tags \cup {NoTag}, engine : OAUTH_ENGINES]
    /\ saving \in BOOLEAN
    /\ presses \in 0..Starts
    /\ exchanges \in [Tags -> Nat]
    /\ received \in [Tags -> Nat]
    /\ unread \subseteq Tags
    /\ outcome \in [Tags -> Outcomes]
    /\ effects \in {"run", "lost"}

-----------------------------------------------------------------------------
(* Adapters: what each vendor asks for and how its answers are read *)

PastesCode(e) == e \in {"claude", "antigravity"}

\* How a request is classified decides its venues: a body that forces a
\* preflight and one that consumes nothing are tried from the browser first.
Classified(e, what) ==
    CASE e = "claude" \/ (e = "codex" /\ what # "exchange") -> "preflighted_json"
      [] e = "grok" -> "repeatable_form"
      [] OTHER -> "single_use_form"
TransportsFor(e, what) ==
    IF Classified(e, what) = "single_use_form" THEN {"relay"} ELSE {"direct", "relay"}
FirstVenue(e, what) ==
    IF "direct" \in TransportsFor(e, what) THEN "direct" ELSE "relay"

\* Token JSON becomes plaintext the vault can hold, or is refused.
Projected == {"credential", "invalid"}
CodexPoll == {"pending", "next", "invalid"}
GrokPending == {"pending", "slow_down"}
GrokPoll == GrokPending \cup Projected
Grant == {"grant", "invalid"}

\* How an answer may be read: by the step the login has reached, whatever
\* request it answers.
Readings(e, phase) ==
    CASE phase = "exchange" -> Projected
      [] phase = "device_wait" -> IF e = "codex" THEN CodexPoll ELSE GrokPoll
      [] OTHER -> Grant

\* What the user pastes: no code at all, the code of another login, or this one's.
Pastes == {"invalid", "other", "code"}

-----------------------------------------------------------------------------
(* The reducer: a state, and at most one effect *)

NoEffect == [kind |-> "none"]
Stay(s) == [state |-> s, effect |-> NoEffect]
Ended(s, how) == [Idle EXCEPT !.kind = how, !.engine = s.engine, !.tag = s.tag]
Failed(s) == Stay(Ended(s, "failed"))

SendRequest(s, phase, what) ==
    LET req == <<s.startedAt, s.seq + 1>> IN
    [state |-> [s EXCEPT !.phase = phase, !.seq = s.seq + 1, !.req = req],
     effect |-> [kind |-> "http", what |-> what, req |-> req]]

WaitToPoll(s, interval, pollAt) ==
    [state |-> [s EXCEPT !.phase = "device_wait", !.req = NoReq,
                         !.interval = interval, !.pollAt = pollAt],
     effect |-> [kind |-> "wake_at", at |-> pollAt]]

\* The vault's own validator has accepted the plaintext the request brought.
Finish(s, w) ==
    [state |-> Ended(s, "done"),
     effect |-> [kind |-> "credential", draft |-> [tag |-> w.tag, engine |-> w.engine]]]

Advance(s, w, reading) ==
    CASE reading \in GrokPending ->
             IF s.phase # "device_wait" THEN Failed(s)
             ELSE LET wait == IF reading = "pending" THEN s.interval ELSE s.interval + 1
                  IN  WaitToPoll(s, wait, now + wait)
      [] reading = "next" -> SendRequest(s, "exchange", "exchange")
      [] reading = "credential" -> Finish(s, w)
      [] OTHER -> Failed(s)

Start(e, tag) ==
    LET s == [Idle EXCEPT !.kind = "active", !.engine = e, !.tag = tag, !.startedAt = now]
    IN  IF PastesCode(e) THEN Stay(s)
        ELSE SendRequest(s, "device_code", "device_code")

\* Mutant. A second paste is not told from the first.
OnAnyPaste(s, paste) ==
    IF ~PastesCode(s.engine) THEN Stay(s)
    ELSE IF paste = "code" THEN SendRequest(s, "exchange", "exchange")
    ELSE Failed(s)

OnCallbackPasted(s, paste) ==
    IF s.phase # "authorize" \/ ~PastesCode(s.engine) THEN Stay(s)
    ELSE IF paste = "code" THEN SendRequest(s, "exchange", "exchange")
    ELSE Failed(s)

OnDeviceGrant(s, reading) ==
    IF reading = "invalid" THEN Failed(s)
    ELSE WaitToPoll([s EXCEPT !.expires = now + Lifetime], 1, now + 1)

OnHttpOk(s, w, reading) ==
    IF s.phase = "authorize" \/ s.req # w.req THEN Stay(s)
    ELSE IF s.phase = "device_code" THEN OnDeviceGrant(s, reading)
    ELSE Advance(s, w, reading)

\* Mutant. A poll that failed is not made again.
OnHttpFailedStay(s, req) ==
    IF s.phase \in {"authorize", "device_wait"} \/ s.req # req THEN Stay(s) ELSE Failed(s)

\* A failed poll is made again; any other request that fails ends the login.
OnHttpFailed(s, req) ==
    IF s.phase = "authorize" \/ s.req # req THEN Stay(s)
    ELSE IF s.phase = "device_wait" THEN WaitToPoll(s, s.interval, now + s.interval)
    ELSE Failed(s)

OnTick(s) ==
    IF s.phase # "device_wait" THEN Stay(s)
    ELSE IF now >= s.expires THEN Failed(s)
    ELSE IF s.req # NoReq \/ now < s.pollAt THEN Stay(s)
    ELSE SendRequest(s, "device_wait", "poll")

\* Mutant. An event after the TTL is ignored.
OnTimedEventLate(s, reduced) ==
    IF ~Active(s) \/ now - s.startedAt > TTL THEN Stay(s) ELSE reduced

\* Every event of an active login but cancel and reset looks at the TTL first.
OnTimedEvent(s, reduced) ==
    IF ~Active(s) THEN Stay(s)
    ELSE IF now - s.startedAt > TTL THEN Failed(s)
    ELSE reduced

-----------------------------------------------------------------------------
(* The interpreter *)

\* Only a login in flight is kept in the tab.
SaveVendorLogin(s) == IF Active(s) THEN s ELSE Idle

\* A credential, a device code or an exchange cannot be taken up again.
CanResume(s, e) == Active(s) /\ s.engine = e /\ s.phase = "authorize"
ReadInitial(e) == IF CanResume(stored, e) THEN stored ELSE Idle

\* What the block shows, and so what the user may press.
ViewOf(s) ==
    CASE ~Active(s) -> s.kind
      [] Active(s) /\ s.phase = "authorize" -> "callback_paste"
      [] Active(s) /\ s.phase = "device_wait" -> "poll"
      [] OTHER -> "busy"

\* Mutant. The generation is not counted up.
StoppedNever(w) == w

Stopped(w) == [w EXCEPT !.live = FALSE]

StopEffects ==
    /\ timer' = Never
    /\ wires' = {Stopped(w) : w \in wires}

NewWire(s, effect) ==
    [tag |-> s.tag, req |-> effect.req, what |-> effect.what, engine |-> s.engine,
     venue |-> FirstVenue(s.engine, effect.what), arrived |-> FALSE, live |-> TRUE]

\* under and left: the requests and the timer but the one this event is from.
RunEffects(s, effect, under, left) ==
    /\ wires' = IF effect.kind = "http" THEN under \cup {NewWire(s, effect)} ELSE under
    /\ timer' = IF effect.kind = "wake_at" THEN effect.at ELSE left
    /\ draft' = IF effect.kind = "credential" THEN effect.draft ELSE draft
    /\ exchanges' =
         IF effect.kind = "http" /\ effect.what = "exchange"
         THEN [exchanges EXCEPT ![s.tag] = @ + 1] ELSE exchanges

\* Mutant. A login that ended is left in the tab.
SaveActiveOnly(s) == login' = s /\ stored' = IF Active(s) THEN s ELSE stored

StepLogin(s) == login' = s /\ stored' = SaveVendorLogin(s)

\* The updater assigns the effects that runEffects reads after setState.  React
\* runs it at once only on a queue it knows to be clean; when it leaves the
\* updater to the next render, there are no effects to read.
ApplyLoginEvent(reduced, under, left) ==
    /\ StepLogin(reduced.state)
    /\ \/ /\ RunEffects(reduced.state, reduced.effect, under, left)
          /\ effects' = IF reduced.effect = NoEffect THEN effects ELSE "run"
       \/ /\ RunEffects(reduced.state, NoEffect, under, left)
          /\ effects' = IF reduced.effect = NoEffect THEN effects ELSE "lost"
    /\ outcome' =
         IF reduced.state.kind \in {"done", "failed"} /\ Active(login)
         THEN [outcome EXCEPT ![login.tag] = reduced.state.kind] ELSE outcome

-----------------------------------------------------------------------------
(* Actions *)

Init ==
    /\ now = 0
    /\ engine \in Engines
    /\ login = Idle /\ stored = Idle
    /\ timer = Never
    /\ wires = {} /\ begins = {}
    /\ draft = NoDraft /\ saving = FALSE
    /\ presses = 0
    /\ exchanges = [t \in Tags |-> 0]
    /\ received = [t \in Tags |-> 0]
    /\ unread = {}
    /\ outcome = [t \in Tags |-> "open"]
    /\ effects = "run"

\* The Login button is there while no login is; its PKCE is awaited, and it
\* can be pressed again meanwhile.
HandleStart ==
    /\ ViewOf(login) = "idle" /\ presses < Starts
    /\ presses' = presses + 1
    /\ StopEffects
    /\ begins' = begins \cup {[tag |-> presses + 1, engine |-> engine, live |-> TRUE]}
    /\ UNCHANGED <<now, pageVars, login, stored, exchanges, outcome, effects, vendorVars>>

\* Bound: a login starts while the clock can still pass its TTL and one more poll.
InTime == now + TTL + MaxInterval < MaxNow

BeginLogin(b) ==
    /\ b.live /\ InTime
    /\ begins' = begins \ {b}
    /\ ApplyLoginEvent(Start(b.engine, b.tag), wires, timer)
    /\ UNCHANGED <<now, engine, saving, presses, vendorVars>>

\* The block was unmounted while the PKCE was made.  No one renders the login,
\* but if React runs its updater the login is left in the tab's storage and its
\* device code is asked for; the answer meets a queue that is not clean any more
\* and changes nothing.
BeginUnmounted(b) ==
    /\ ~b.live /\ InTime
    /\ begins' = begins \ {b}
    /\ LET started == Start(b.engine, b.tag) IN
       \/ /\ stored' = SaveVendorLogin(started.state)
          /\ wires' = IF started.effect.kind = "http"
                      THEN wires \cup {Stopped(NewWire(started.state, started.effect))}
                      ELSE wires
       \/ UNCHANGED <<stored, wires>>
    /\ UNCHANGED <<now, pageVars, login, timer, userVars, vendorVars>>

\* Cancel while the login is active, and "again" once it ended.
HandleCancel ==
    /\ ViewOf(login) # "idle"
    /\ StopEffects
    /\ StepLogin(Idle)
    /\ outcome' = IF Active(login) THEN [outcome EXCEPT ![login.tag] = "cancelled"] ELSE outcome
    /\ UNCHANGED <<now, pageVars, begins, presses, exchanges, effects, vendorVars>>

\* The box is shown in the authorize phase; a second press may come before
\* the render that takes it away.  The user was at the vendor meanwhile, so a
\* paste is never in the millisecond of its start.
HandleSubmitCallback(paste) ==
    /\ ViewOf(login) \in {"callback_paste", "busy"} /\ PastesCode(login.engine)
    /\ now > login.startedAt
    /\ ApplyLoginEvent(OnTimedEvent(login, OnCallbackPasted(login, paste)), wires, timer)
    /\ UNCHANGED <<now, engine, begins, saving, presses, vendorVars>>

\* The vendor receives a request, whoever still waits for the answer; the relay
\* sends it on even when the page is gone.
VendorReceives(w) ==
    /\ ~w.arrived
    /\ wires' = (wires \ {w}) \cup {[w EXCEPT !.arrived = TRUE]}
    /\ received' = IF w.what = "exchange" THEN [received EXCEPT ![w.tag] = @ + 1] ELSE received
    /\ UNCHANGED <<now, pageVars, login, timer, begins, stored, userVars, unread>>

AtRelay(w) == [w EXCEPT !.venue = "relay", !.arrived = FALSE]

\* Mutant. The venues are tried in parallel.
WalkVenuesAtOnce(w) ==
    /\ w.venue = "direct"
    /\ wires' = wires \cup {AtRelay(w)}
    /\ UNCHANGED <<now, pageVars, login, timer, begins, stored, userVars, vendorVars>>

\* No readable answer at this venue: the next rung of the ladder.  Either the
\* request never left the browser (a refused preflight, no network), or the
\* vendor has it and the answer was lost or may not be read.
WalkVenues(w) ==
    /\ w.venue = "direct"
    /\ wires' = (wires \ {w}) \cup {AtRelay(w)}
    /\ unread' = IF w.what = "exchange" /\ w.arrived
                    /\ Classified(w.engine, w.what) # "single_use_form"
                 THEN unread \cup {w.tag} ELSE unread
    /\ UNCHANGED <<now, pageVars, login, timer, begins, stored, userVars, received>>

AnswerDropped(w) ==
    /\ ~w.live
    /\ wires' = wires \ {w}
    /\ UNCHANGED <<now, pageVars, login, timer, begins, stored, userVars, vendorVars>>

\* The answer of a request, read by the adapter.
HttpOk(w, reading) ==
    /\ w.live /\ w.arrived
    /\ reading = "slow_down" => login.interval < MaxInterval
    /\ ApplyLoginEvent(OnTimedEvent(login, OnHttpOk(login, w, reading)), wires \ {w}, timer)
    /\ UNCHANGED <<now, engine, begins, saving, presses, vendorVars>>

\* Every venue failed.  The relay is the last: it refuses a user who is not
\* signed in, a body too large and a URL off its list, or gets no answer from
\* the vendor, which may have received the request.
HttpFailed(w) ==
    /\ w.live /\ w.venue = "relay"
    /\ ApplyLoginEvent(OnTimedEvent(login, OnHttpFailed(login, w.req)), wires \ {w}, timer)
    /\ UNCHANGED <<now, engine, begins, saving, presses, vendorVars>>

Settles(w) ==
    \/ WalkVenues(w)
    \/ AnswerDropped(w)
    \/ \E reading \in Readings(login.engine, login.phase) : HttpOk(w, reading)
    \/ HttpFailed(w)

\* runEffects clears the timer it replaces, so there is one wake at a time.
TimerFires ==
    /\ timer # Never /\ now >= timer
    /\ ApplyLoginEvent(OnTimedEvent(login, OnTick(login)), wires, Never)
    /\ UNCHANGED <<now, engine, begins, saving, presses, vendorVars>>

Mount(e) ==
    /\ engine' = e
    /\ login' = ReadInitial(e)
    /\ begins' = {Stopped(b) : b \in begins}
    /\ StopEffects
    /\ UNCHANGED <<now, stored, userVars, vendorVars>>

\* The form is for another engine: the block is keyed by the engine.
SetEngine(e) ==
    /\ e # engine
    /\ Mount(e)
    /\ draft' = NoDraft
    /\ UNCHANGED saving

\* Lock it in: the mutation reads the draft, and the form may change under it.
SubmitDraft ==
    /\ draft # NoDraft /\ ~saving
    /\ saving' = TRUE
    /\ UNCHANGED <<now, engine, login, timer, wires, begins, stored, draft, userVars, vendorVars>>

SaveSucceeds ==
    /\ saving
    /\ saving' = FALSE /\ draft' = NoDraft
    /\ Mount(engine)

SaveFails ==
    /\ saving
    /\ saving' = FALSE
    /\ UNCHANGED <<now, engine, login, timer, wires, begins, stored, draft, userVars, vendorVars>>

\* The page is loaded again: only sessionStorage is left.
Reload ==
    /\ \E e \in Engines : engine' = e /\ login' = ReadInitial(e)
    /\ timer' = Never /\ wires' = {} /\ begins' = {}
    /\ draft' = NoDraft /\ saving' = FALSE
    /\ UNCHANGED <<now, stored, userVars, vendorVars>>

Tick ==
    /\ now < MaxNow
    /\ now' = now + 1
    /\ UNCHANGED <<pageVars, login, timer, wires, begins, stored, userVars, vendorVars>>

Next ==
    \/ HandleStart
    \/ \E b \in begins : BeginLogin(b) \/ BeginUnmounted(b)
    \/ HandleCancel
    \/ \E paste \in Pastes : HandleSubmitCallback(paste)
    \/ \E w \in wires : VendorReceives(w) \/ Settles(w)
    \/ TimerFires
    \/ \E e \in Engines : SetEngine(e)
    \/ SubmitDraft \/ SaveSucceeds \/ SaveFails
    \/ Reload
    \/ Tick

Spec == Init /\ [][Next]_vars

\* The clock runs, the browser settles every request and fires every timer; the
\* user owes nothing.
Fairness ==
    /\ WF_vars(Tick)
    /\ WF_vars(\E w \in wires : Settles(w))
    /\ WF_vars(TimerFires)

FairSpec == Spec /\ Fairness

-----------------------------------------------------------------------------
(* Properties *)

\* The vendor receives the code of a login at most once, whatever is pasted
\* again, cancelled, reloaded or answered late (machine.ts, onCallbackPasted;
\* login-interpreter.ts, canResume), and a second time only when it received the
\* browser's own request and the answer could not be read: the relay is tried
\* next (login-io.client.ts, walkVenues).  A code that goes in a single_use_form
\* has no such second venue (domain.ts, transportsFor).
CodeSpentOnce ==
    \A t \in Tags : received[t] <= IF t \in unread THEN 2 ELSE 1

\* A code is with one venue at a time (login-io.client.ts, walkVenues).
OneVenueAtATime ==
    \A v, w \in wires : v.what = "exchange" /\ w.what = "exchange" /\ v.tag = w.tag => v = w

\* What stands in the form is the credential of a login that succeeded, for
\* the engine the form shows: an answer that comes after the user cancelled,
\* changed the engine or started again fills in nothing (stopEffects).
DraftIsWanted ==
    draft # NoDraft => outcome[draft.tag] = "done" /\ draft.engine = engine

\* A login that was cancelled, failed or succeeded is on no screen and in no
\* storage again, so a reload cannot bring it back (saveVendorLogin).
EndedIsOver ==
    \A s \in {login, stored} : Active(s) => outcome[s.tag] = "open"

\* While a login waits for the vendor, the request it waits for is under way
\* or its next poll is scheduled; otherwise nothing would ever move it, not
\* even its TTL (use-vendor-login.ts, applyLoginEvent).  Only an effect that
\* React's late updater lost leaves a login without either.
LoginIsDriven ==
    Active(login) /\ login.phase # "authorize" /\ effects = "run" =>
        \/ \E w \in wires : w.live /\ w.tag = login.tag /\ w.req = login.req
        \/ login.phase = "device_wait" /\ login.req = NoReq
              /\ timer # Never /\ timer >= login.pollAt

\* A login that waits for the vendor ends, for the polls go on no longer than
\* the TTL (machine.ts, onTimedEvent), or its effect was lost and it waits for
\* the user's cancel.
LoginSettles ==
    \A t \in Tags :
        Active(login) /\ login.tag = t /\ login.phase # "authorize"
            ~> ~(Active(login) /\ login.tag = t) \/ effects = "lost"
=============================================================================
