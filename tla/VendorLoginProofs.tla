------------------------- MODULE VendorLoginProofs -------------------------
(***************************************************************************)
(* Theorems about VendorLogin, for every number of presses, every clock,   *)
(* TTL and lifetime, with updaters run at once or left to the next render. *)
(*                                                                         *)
(* The reducer's branches are characterised once (WellReduced), and the    *)
(* interpreter's step is shown to preserve the invariant for whatever      *)
(* satisfies that; each action is then one of a few kinds of step.         *)
(***************************************************************************)
EXTENDS VendorLogin, TLAPS

-----------------------------------------------------------------------------
(* The invariant *)

\* A login on screen or in storage is of a tag handed out, has not ended, and
\* has not exchanged its code before its exchange phase.
Fresh(s) ==
    Active(s) =>
        /\ s.tag \in Tags /\ s.tag <= presses
        /\ outcome[s.tag] = "open"
        /\ s.phase # "exchange" => exchanges[s.tag] = 0

\* A start that waits for its PKCE is of a tag nothing else has.
Apart(b) ==
    /\ b.tag <= presses
    /\ exchanges[b.tag] = 0 /\ outcome[b.tag] = "open"
    /\ Active(login) => login.tag # b.tag
    /\ Active(stored) => stored.tag # b.tag

IssuedOnce == \A t \in Tags : exchanges[t] <= 1

Unused(t) == t > presses => exchanges[t] = 0 /\ outcome[t] = "open"

IInv ==
    /\ TypeOK
    /\ IssuedOnce
    /\ Fresh(login) /\ Fresh(stored)
    /\ \A b \in begins : Apart(b)
    /\ \A b, c \in begins : b.tag = c.tag => b = c
    /\ \A t \in Tags : Unused(t)

-----------------------------------------------------------------------------
(* What the reducer may return *)

Effects ==
    [kind : {"none"}]
      \cup [kind : {"http"}, what : {"device_code", "poll", "exchange"}, req : ReqIds]
      \cup [kind : {"wake_at"}, at : Int]
      \cup [kind : {"credential"}, draft : [tag : Tags \cup {NoTag}, engine : OAUTH_ENGINES]]

Exchanges(effect) == effect.kind = "http" /\ effect.what = "exchange"

\* A step of the reducer from s keeps its tag, wakes no login that ended,
\* enters the exchange phase when it issues the exchange, and never leaves it
\* for another phase.
WellReduced(s, r) ==
    /\ r.state \in Logins /\ r.effect \in Effects
    /\ r.state.tag = s.tag
    /\ Active(r.state) => Active(s)
    /\ Active(r.state) /\ r.state.phase # "exchange" => s.phase # "exchange"
    /\ r.effect.kind = "http" => Active(r.state)
    /\ Exchanges(r.effect) => r.state.phase = "exchange" /\ s.phase # "exchange"

LEMMA IdleIsLogin == Idle \in Logins /\ ~Active(Idle)
BY DEF Idle, Logins, OAUTH_ENGINES, NoTag, Phases, ReqIds, NoReq, Active

LEMMA StayWell == ASSUME NEW s \in Logins PROVE WellReduced(s, Stay(s))
BY DEF WellReduced, Stay, NoEffect, Effects, Exchanges

LEMMA EndedIsLogin ==
    ASSUME NEW s \in Logins, NEW how \in {"done", "failed"}
    PROVE  Ended(s, how) \in Logins /\ Ended(s, how).tag = s.tag /\ ~Active(Ended(s, how))
<1>1. Idle \in Logins
  BY IdleIsLogin
<1>2. Ended(s, how) \in Logins
  BY <1>1 DEF Ended, Logins
<1>3. Ended(s, how).tag = s.tag /\ Ended(s, how).kind = how
  BY <1>1 DEF Ended, Logins
<1> QED
  BY <1>2, <1>3 DEF Active

LEMMA FailedWell == ASSUME NEW s \in Logins PROVE WellReduced(s, Failed(s))
BY EndedIsLogin DEF WellReduced, Failed, Stay, NoEffect, Effects, Exchanges

LEMMA FinishWell ==
    ASSUME NEW s \in Logins, NEW w \in Wires PROVE WellReduced(s, Finish(s, w))
<1>1. [tag |-> w.tag, engine |-> w.engine] \in [tag : Tags \cup {NoTag}, engine : OAUTH_ENGINES]
  BY DEF Wires
<1> QED
  BY <1>1, EndedIsLogin DEF WellReduced, Finish, Effects, Exchanges

LEMMA SendWell ==
    ASSUME NEW s \in Logins, Active(s), NEW phase \in Phases,
           NEW what \in {"device_code", "poll", "exchange"},
           s.phase # "exchange", what = "exchange" => phase = "exchange"
    PROVE  WellReduced(s, SendRequest(s, phase, what))
<1> DEFINE req == <<s.startedAt, s.seq + 1>>
           t == [s EXCEPT !.phase = phase, !.seq = s.seq + 1, !.req = req]
           effect == [kind |-> "http", what |-> what, req |-> req]
<1>1. req \in ReqIds /\ s.seq + 1 \in Nat
  BY DEF ReqIds, Logins
<1>2. t \in Logins /\ t.tag = s.tag /\ t.phase = phase /\ Active(t)
  BY <1>1 DEF Logins, Active
<1>3. effect \in Effects /\ effect.kind = "http" /\ effect.what = what
  BY <1>1 DEF Effects
<1>4. SendRequest(s, phase, what) = [state |-> t, effect |-> effect]
  BY DEF SendRequest
<1> HIDE DEF t, effect
<1> QED
  BY <1>2, <1>3, <1>4 DEF WellReduced, Exchanges

LEMMA WaitWell ==
    ASSUME NEW s \in Logins, Active(s), NEW interval \in Int, NEW pollAt \in Int,
           s.phase # "exchange"
    PROVE  WellReduced(s, WaitToPoll(s, interval, pollAt))
<1> DEFINE t == [s EXCEPT !.phase = "device_wait", !.req = NoReq,
                          !.interval = interval, !.pollAt = pollAt]
           effect == [kind |-> "wake_at", at |-> pollAt]
<1>1. NoReq \in ReqIds /\ "device_wait" \in Phases
  BY DEF NoReq, ReqIds, Phases
<1>2. t \in Logins /\ t.tag = s.tag /\ t.phase = "device_wait" /\ Active(t)
  BY <1>1 DEF Logins, Active
<1>3. effect \in Effects /\ effect.kind = "wake_at"
  BY DEF Effects
<1>4. WaitToPoll(s, interval, pollAt) = [state |-> t, effect |-> effect]
  BY DEF WaitToPoll
<1> HIDE DEF t, effect
<1> QED
  BY <1>2, <1>3, <1>4 DEF WellReduced, Exchanges

LEMMA AdvanceWell ==
    ASSUME NEW s \in Logins, Active(s), now \in Nat, NEW w \in Wires, NEW reading,
           reading = "next" => s.phase # "exchange"
    PROVE  WellReduced(s, Advance(s, w, reading))
<1>1. s.interval \in Int /\ s.interval + 1 \in Int
  BY DEF Logins
<1> QED
  BY <1>1, FailedWell, FinishWell, SendWell, WaitWell
  DEF Advance, GrokPending, Phases

LEMMA PasteWell ==
    ASSUME NEW s \in Logins, Active(s), NEW paste
    PROVE  WellReduced(s, OnCallbackPasted(s, paste))
BY StayWell, FailedWell, SendWell DEF OnCallbackPasted, Phases

LEMMA OkWell ==
    ASSUME NEW s \in Logins, Active(s), now \in Nat, Lifetime \in Nat, NEW w \in Wires,
           NEW reading, reading = "next" => s.phase # "exchange"
    PROVE  WellReduced(s, OnHttpOk(s, w, reading))
<1> DEFINE g == [s EXCEPT !.expires = now + Lifetime]
<1>0. now + Lifetime \in Int /\ now + 1 \in Int
  OBVIOUS
<1>1. g \in Logins /\ g.tag = s.tag /\ g.phase = s.phase /\ Active(g)
  BY <1>0 DEF Logins, Active
<1>2. CASE s.phase = "device_code"
  <2>1. WellReduced(s, WaitToPoll(g, 1, now + 1))
    <3> HIDE DEF g
    <3>1. g.phase # "exchange"
      BY <1>1, <1>2
    <3>2. WellReduced(g, WaitToPoll(g, 1, now + 1))
      BY <1>0, <1>1, <3>1, WaitWell
    <3> QED
      BY <1>1, <3>2 DEF WellReduced
  <2> QED
    BY <1>2, <2>1, FailedWell, StayWell DEF OnHttpOk, OnDeviceGrant
<1> QED
  BY <1>2, StayWell, AdvanceWell DEF OnHttpOk

LEMMA HttpFailedWell ==
    ASSUME NEW s \in Logins, Active(s), now \in Nat, NEW req
    PROVE  WellReduced(s, OnHttpFailed(s, req))
<1>1. s.interval \in Int /\ now + s.interval \in Int
  BY DEF Logins
<1> QED
  BY <1>1, StayWell, FailedWell, WaitWell DEF OnHttpFailed

LEMMA TickWell ==
    ASSUME NEW s \in Logins, Active(s) PROVE WellReduced(s, OnTick(s))
BY StayWell, FailedWell, SendWell DEF OnTick, Phases

LEMMA TimedWell ==
    ASSUME NEW s \in Logins, NEW r, Active(s) => WellReduced(s, r)
    PROVE  WellReduced(s, OnTimedEvent(s, r))
BY StayWell, FailedWell DEF OnTimedEvent

-----------------------------------------------------------------------------
(* The interpreter's step *)

LEMMA VenueType ==
    ASSUME NEW e, NEW what PROVE FirstVenue(e, what) \in {"direct", "relay"}
BY DEF FirstVenue

\* What an effect does to the wires, the timer, the draft and the exchanges.
LEMMA RunEffectsTypes ==
    ASSUME NEW s \in Logins, NEW effect \in Effects, NEW under \in SUBSET Wires,
           NEW left \in Int, TypeOK, effect.kind = "http" => s.tag \in Tags,
           RunEffects(s, effect, under, left)
    PROVE  /\ wires' \subseteq Wires /\ timer' \in Int
           /\ draft' \in [tag : Tags \cup {NoTag}, engine : OAUTH_ENGINES]
           /\ exchanges' \in [Tags -> Nat]
           /\ \A t \in Tags : exchanges'[t] =
                 IF Exchanges(effect) /\ t = s.tag THEN exchanges[t] + 1 ELSE exchanges[t]
<1>1. CASE effect.kind = "http"
  <2>1. effect.req \in ReqIds /\ effect.what \in {"device_code", "poll", "exchange"}
    BY <1>1 DEF Effects
  <2>2. NewWire(s, effect) \in Wires
    BY <1>1, <2>1, VenueType DEF NewWire, Wires, Logins
  <2>3. wires' \subseteq Wires /\ timer' \in Int /\ draft' = draft
    BY <1>1, <2>2 DEF RunEffects
  <2>4. /\ exchanges' \in [Tags -> Nat]
        /\ \A t \in Tags : exchanges'[t] =
              IF Exchanges(effect) /\ t = s.tag THEN exchanges[t] + 1 ELSE exchanges[t]
    <3>1. exchanges \in [Tags -> Nat]
      BY DEF TypeOK
    <3> QED
      BY <1>1, <3>1 DEF RunEffects, Exchanges
  <2> QED
    BY <2>3, <2>4 DEF TypeOK
<1>2. CASE effect.kind = "wake_at"
  <2>1. effect.at \in Int
    BY <1>2 DEF Effects
  <2> QED
    BY <1>2, <2>1 DEF RunEffects, Exchanges, TypeOK
<1>3. CASE effect.kind = "credential"
  <2>1. effect.draft \in [tag : Tags \cup {NoTag}, engine : OAUTH_ENGINES]
    BY <1>3 DEF Effects
  <2> QED
    BY <1>3, <2>1 DEF RunEffects, Exchanges, TypeOK
<1>4. CASE effect.kind = "none"
  BY <1>4 DEF RunEffects, Exchanges, TypeOK
<1> QED
  BY <1>1, <1>2, <1>3, <1>4 DEF Effects

LEMMA SaveType ==
    ASSUME NEW s \in Logins
    PROVE  /\ SaveVendorLogin(s) \in Logins
           /\ Active(SaveVendorLogin(s)) => SaveVendorLogin(s) = s
BY IdleIsLogin DEF SaveVendorLogin

\* The interpreter carries out a step of the reducer from s, the login on
\* screen or a new one: every conjunct of the invariant about a login holds
\* of what it leaves on screen and in storage.
LEMMA ApplyKeepsInv ==
    ASSUME IInv, NEW s \in Logins, NEW r, WellReduced(s, r),
           NEW under \in SUBSET Wires, NEW left \in Int,
           Fresh(s), s = login \/ r.state.kind = "active",
           begins' \subseteq begins, presses' = presses,
           \A b \in begins' : Active(s) => b.tag # s.tag,
           ApplyLoginEvent(r, under, left)
    PROVE  /\ login' \in Logins /\ stored' \in Logins
           /\ wires' \subseteq Wires /\ timer' \in Int
           /\ draft' \in [tag : Tags \cup {NoTag}, engine : OAUTH_ENGINES]
           /\ exchanges' \in [Tags -> Nat] /\ outcome' \in [Tags -> Outcomes]
           /\ effects' \in {"run", "lost"}
           /\ IssuedOnce' /\ Fresh(login)' /\ Fresh(stored)'
           /\ \A b \in begins' : Apart(b)'
           /\ \A t \in Tags : Unused(t)'
<1>1. PICK effect \in {r.effect, NoEffect} : RunEffects(r.state, effect, under, left)
  BY DEF ApplyLoginEvent
<1>2. /\ effect \in Effects
      /\ effect.kind = "http" => Active(r.state) /\ Active(s) /\ r.state.tag \in Tags
      /\ Exchanges(effect) => Exchanges(r.effect)
  BY DEF WellReduced, NoEffect, Effects, Exchanges, Fresh
<1>3. TypeOK /\ r.state \in Logins
  BY DEF IInv, WellReduced
<1>4. /\ wires' \subseteq Wires /\ timer' \in Int
      /\ draft' \in [tag : Tags \cup {NoTag}, engine : OAUTH_ENGINES]
      /\ exchanges' \in [Tags -> Nat]
      /\ \A t \in Tags : exchanges'[t] =
            IF Exchanges(effect) /\ t = r.state.tag THEN exchanges[t] + 1 ELSE exchanges[t]
  BY <1>1, <1>2, <1>3, RunEffectsTypes
<1>5. login' = r.state /\ stored' = SaveVendorLogin(r.state)
  BY DEF ApplyLoginEvent, StepLogin
<1>6. /\ stored' \in Logins
      /\ Active(stored') => stored' = r.state
  BY <1>3, <1>5, SaveType
<1>7. /\ outcome' \in [Tags -> Outcomes]
      /\ \A t \in Tags : outcome'[t] # outcome[t] =>
            ~Active(r.state) /\ Active(s) /\ t = s.tag
  <2>1. CASE r.state.kind \in {"done", "failed"} /\ Active(login)
    <3>1. s = login /\ outcome' = [outcome EXCEPT ![login.tag] = r.state.kind]
      BY <2>1 DEF ApplyLoginEvent
    <3> QED
      BY <1>3, <2>1, <3>1 DEF TypeOK, Outcomes, Active
  <2>2. CASE ~(r.state.kind \in {"done", "failed"} /\ Active(login))
    BY <1>3, <2>2 DEF ApplyLoginEvent, TypeOK
  <2> QED
    BY <2>1, <2>2
<1>14. effects' \in {"run", "lost"}
  BY <1>3 DEF ApplyLoginEvent, TypeOK
<1>8. Active(r.state) => /\ Active(s) /\ r.state.tag = s.tag /\ s.tag \in Tags /\ s.tag <= presses
                         /\ outcome'[s.tag] = "open"
                         /\ r.state.phase # "exchange" => exchanges'[s.tag] = 0
  BY <1>2, <1>4, <1>7 DEF WellReduced, Fresh
<1>9. Exchanges(effect) => Active(s) /\ s.tag \in Tags /\ r.state.tag = s.tag /\ exchanges[s.tag] = 0
  BY <1>2 DEF WellReduced, Fresh, Exchanges
<1>10. IssuedOnce'
  <2> SUFFICES ASSUME NEW t \in Tags PROVE exchanges'[t] <= 1
    BY DEF IssuedOnce
  <2>1. exchanges[t] <= 1 /\ exchanges[t] \in Nat
    BY DEF IInv, IssuedOnce, TypeOK
  <2> QED
    BY <1>4, <1>9, <2>1
<1>11. Fresh(login)' /\ Fresh(stored)'
  BY <1>5, <1>6, <1>8 DEF Fresh, Active
<1>12. ASSUME NEW b \in begins' PROVE Apart(b)'
  <2>1. b \in begins /\ b.tag \in Tags /\ Apart(b)
    BY DEF IInv, TypeOK
  <2>2. Active(s) => b.tag # s.tag
    OBVIOUS
  <2>3. exchanges'[b.tag] = 0 /\ outcome'[b.tag] = "open"
    BY <1>4, <1>7, <1>9, <2>1, <2>2 DEF Apart
  <2>4. (Active(login) => login.tag # b.tag)' /\ (Active(stored) => stored.tag # b.tag)'
    BY <1>5, <1>6, <1>8, <2>2
  <2> QED
    BY <2>1, <2>3, <2>4 DEF Apart
<1>13. ASSUME NEW t \in Tags PROVE Unused(t)'
  <2>1. Unused(t) /\ presses \in Nat
    BY DEF IInv, TypeOK
  <2>2. t > presses => ~(Active(s) /\ t = s.tag)
    BY <2>1 DEF Fresh, Tags
  <2> QED
    BY <1>4, <1>7, <1>9, <2>1, <2>2 DEF Unused
<1> QED
  BY <1>3, <1>4, <1>5, <1>6, <1>7, <1>10, <1>11, <1>12, <1>13, <1>14

-----------------------------------------------------------------------------
(* Actions *)

\* The new login of a start, and the step that takes it from there.
LEMMA StartWell ==
    ASSUME now \in Nat, NEW e \in OAUTH_ENGINES, NEW tag \in Tags
    PROVE  \E s \in Logins : /\ Active(s) /\ s.tag = tag /\ s.phase = "authorize"
                             /\ WellReduced(s, Start(e, tag))
                             /\ Start(e, tag).state.kind = "active"
                             /\ Start(e, tag).state.tag = tag
<1> DEFINE s == [Idle EXCEPT !.kind = "active", !.engine = e, !.tag = tag, !.startedAt = now]
<1>1. Idle \in Logins /\ Idle.phase = "authorize"
  BY IdleIsLogin DEF Idle
<1>2. s \in Logins /\ s.kind = "active" /\ s.tag = tag /\ s.phase = "authorize"
  BY <1>1 DEF Logins
<1>3. Start(e, tag) = IF PastesCode(e) THEN Stay(s)
                      ELSE SendRequest(s, "device_code", "device_code")
  BY DEF Start
<1> HIDE DEF s
<1>4. WellReduced(s, Start(e, tag))
  BY <1>2, <1>3, StayWell, SendWell DEF Active, Phases
<1>5. Start(e, tag).state.kind = "active"
  BY <1>2, <1>3 DEF Stay, SendRequest, Logins
<1> QED
  BY <1>2, <1>4, <1>5 DEF Active, WellReduced

\* An event of the login on screen.
LEMMA EventKeepsInv ==
    ASSUME IInv, NEW r, Active(login) => WellReduced(login, r),
           NEW under \in SUBSET wires, NEW left \in Int,
           ApplyLoginEvent(OnTimedEvent(login, r), under, left),
           UNCHANGED <<now, engine, begins, saving, presses, vendorVars>>
    PROVE  IInv'
<1>1. login \in Logins /\ under \in SUBSET Wires /\ TypeOK /\ Fresh(login)
  BY DEF IInv, TypeOK
<1>2. WellReduced(login, OnTimedEvent(login, r))
  BY <1>1, TimedWell
<1>3. \A b \in begins' : Active(login) => b.tag # login.tag
  BY DEF IInv, Apart
<1>4. begins' \subseteq begins /\ presses' = presses
  OBVIOUS
<1>5. /\ login' \in Logins /\ stored' \in Logins
      /\ wires' \subseteq Wires /\ timer' \in Int
      /\ draft' \in [tag : Tags \cup {NoTag}, engine : OAUTH_ENGINES]
      /\ exchanges' \in [Tags -> Nat] /\ outcome' \in [Tags -> Outcomes]
      /\ effects' \in {"run", "lost"}
      /\ IssuedOnce' /\ Fresh(login)' /\ Fresh(stored)'
      /\ \A b \in begins' : Apart(b)'
      /\ \A t \in Tags : Unused(t)'
  BY <1>1, <1>2, <1>3, <1>4, ApplyKeepsInv
<1>6. TypeOK'
  BY <1>1, <1>5 DEF TypeOK, vendorVars
<1> QED
  BY <1>5, <1>6 DEF IInv

\* Login, storage and tags stay, or a resumable login takes the screen.
LEMMA QuietKeepsInv ==
    ASSUME IInv, stored' = stored, login' \in {login, stored, Idle},
           UNCHANGED <<now, presses, exchanges, outcome, effects>>,
           received' \in [Tags -> Nat], unread' \subseteq Tags,
           engine' \in Engines, saving' \in BOOLEAN, timer' \in Int,
           wires' \subseteq Wires, draft' \in {draft, NoDraft},
           \/ begins' \subseteq begins
           \/ begins' = {Stopped(b) : b \in begins}
    PROVE  IInv'
<1>1. NoDraft \in [tag : Tags \cup {NoTag}, engine : OAUTH_ENGINES]
  BY DEF NoDraft, OAUTH_ENGINES
<1>2. \A b \in begins' : \E c \in begins : b.tag = c.tag /\ b.engine = c.engine /\ b.live \in BOOLEAN
                                           /\ b \in [tag : Tags, engine : Engines, live : BOOLEAN]
  <2> SUFFICES ASSUME NEW b \in begins'
               PROVE  \E c \in begins : b.tag = c.tag /\ b.engine = c.engine /\ b.live \in BOOLEAN
                                     /\ b \in [tag : Tags, engine : Engines, live : BOOLEAN]
    OBVIOUS
  <2>1. begins \subseteq [tag : Tags, engine : Engines, live : BOOLEAN]
    BY DEF IInv, TypeOK
  <2>2. CASE begins' \subseteq begins
    BY <2>1, <2>2
  <2>3. CASE begins' = {Stopped(c) : c \in begins}
    <3>1. PICK c \in begins : b = Stopped(c)
      BY <2>3
    <3> QED
      BY <2>1, <3>1 DEF Stopped
  <2> QED
    BY <2>2, <2>3
<1>3. TypeOK'
  BY <1>1, <1>2, IdleIsLogin DEF IInv, TypeOK
<1>4. Fresh(login)' /\ Fresh(stored)'
  BY IdleIsLogin DEF IInv, Fresh
<1>5. ASSUME NEW b \in begins' PROVE Apart(b)'
  BY <1>2, <1>5, IdleIsLogin DEF IInv, Apart
<1>6. ASSUME NEW b \in begins', NEW c \in begins', b.tag = c.tag PROVE b = c
  <2>1. CASE begins' \subseteq begins
    BY <1>6, <2>1 DEF IInv
  <2>2. CASE begins' = {Stopped(x) : x \in begins}
    <3>1. PICK x \in begins, y \in begins : b = Stopped(x) /\ c = Stopped(y)
      BY <2>2
    <3>2. b.tag = x.tag /\ c.tag = y.tag
      BY <3>1 DEF Stopped, IInv, TypeOK
    <3> QED
      BY <1>6, <3>1, <3>2 DEF IInv
  <2> QED
    BY <2>1, <2>2
<1> QED
  BY <1>3, <1>4, <1>5, <1>6 DEF IInv, IssuedOnce, Unused

LEMMA InitInv == ASSUME LoginAssumption, Init PROVE IInv
<1>1. now \in Nat /\ engine \in Engines /\ timer \in Int /\ saving \in BOOLEAN /\ presses \in 0..Starts
  <2>1. now = 0 /\ timer = -1 /\ presses = 0 /\ Starts \in Nat
    BY DEF Init, LoginAssumption, Never
  <2>2. engine \in Engines /\ saving \in BOOLEAN
    BY ZenonT(10) DEF Init
  <2> QED
    BY <2>1, <2>2
<1>0. login \in Logins /\ stored \in Logins /\ ~Active(login) /\ ~Active(stored)
  BY IdleIsLogin DEF Init
<1>2. wires \subseteq Wires /\ begins \subseteq [tag : Tags, engine : Engines, live : BOOLEAN]
  BY DEF Init
<1>3. /\ exchanges \in [Tags -> Nat] /\ outcome \in [Tags -> Outcomes]
      /\ received \in [Tags -> Nat] /\ unread \subseteq Tags /\ effects \in {"run", "lost"}
  BY DEF Init, Outcomes
<1>4. draft \in [tag : Tags \cup {NoTag}, engine : OAUTH_ENGINES]
  BY DEF Init, NoDraft, OAUTH_ENGINES
<1>5. TypeOK
  BY <1>0, <1>1, <1>2, <1>3, <1>4 DEF TypeOK
<1> QED
  BY <1>0, <1>5 DEF Init, IInv, IssuedOnce, Fresh, Unused

LEMMA StoppedWires == ASSUME TypeOK PROVE {Stopped(w) : w \in wires} \subseteq Wires
<1> SUFFICES ASSUME NEW w \in wires PROVE Stopped(w) \in Wires
  OBVIOUS
<1>1. w \in Wires
  BY DEF TypeOK
<1> QED
  BY <1>1 DEF Stopped, Wires

LEMMA HandleStartInv == ASSUME LoginAssumption, IInv, HandleStart PROVE IInv'
<1> DEFINE new == [tag |-> presses + 1, engine |-> engine, live |-> TRUE]
<1>1. presses \in Nat /\ presses + 1 \in Tags /\ presses' = presses + 1 /\ presses' <= Starts
  BY DEF HandleStart, IInv, TypeOK, LoginAssumption, Tags
<1>2. new \in [tag : Tags, engine : Engines, live : BOOLEAN] /\ new.tag = presses + 1
  BY <1>1 DEF IInv, TypeOK
<1>3. begins' = begins \cup {new}
  BY DEF HandleStart
<1>4. TypeOK'
  <2>1. TypeOK /\ wires' \subseteq Wires /\ timer' \in Int /\ presses' \in 0..Starts
    BY <1>1, StoppedWires DEF HandleStart, StopEffects, IInv, Never
  <2>2. begins' \subseteq [tag : Tags, engine : Engines, live : BOOLEAN]
    BY <1>2, <1>3, <2>1 DEF TypeOK
  <2> QED
    BY <2>1, <2>2 DEF HandleStart, TypeOK, pageVars, vendorVars
<1>5. UNCHANGED <<login, stored, exchanges, outcome>>
  BY DEF HandleStart
<1>6. Fresh(login)' /\ Fresh(stored)'
  BY <1>1, <1>5 DEF IInv, Fresh, Tags
<1>7. ASSUME NEW b \in begins' PROVE Apart(b)'
  <2>1. CASE b \in begins
    <3>1. b.tag \in Tags
      BY <2>1 DEF IInv, TypeOK
    <3> QED
      BY <1>1, <1>5, <2>1, <3>1 DEF IInv, Apart, Tags
  <2>2. CASE b = new
    <3>1. exchanges[presses + 1] = 0 /\ outcome[presses + 1] = "open"
      BY <1>1 DEF IInv, Unused
    <3>2. \A s \in {login, stored} : Active(s) => s.tag # presses + 1
      BY <1>1 DEF IInv, Fresh, Tags
    <3> QED
      BY <1>1, <1>2, <1>5, <2>2, <3>1, <3>2 DEF Apart
  <2> QED
    BY <1>3, <2>1, <2>2
<1>8. \A b \in begins : b.tag # presses + 1
  BY <1>1 DEF IInv, TypeOK, Apart, Tags
<1>9. \A b, c \in begins' : b.tag = c.tag => b = c
  <2> HIDE DEF new
  <2> QED
    BY <1>2, <1>3, <1>8 DEF IInv
<1>10. \A t \in Tags : Unused(t)'
  BY <1>1, <1>5 DEF IInv, Unused, Tags
<1> QED
  BY <1>4, <1>5, <1>6, <1>7, <1>9, <1>10 DEF IInv, IssuedOnce

LEMMA BeginLoginInv ==
    ASSUME LoginAssumption, IInv, NEW b \in begins, BeginLogin(b) PROVE IInv'
<1>1. TypeOK /\ b.tag \in Tags /\ b.engine \in OAUTH_ENGINES /\ Apart(b)
  BY DEF IInv, TypeOK, LoginAssumption
<1>2. now \in Nat /\ wires \in SUBSET Wires /\ timer \in Int
  BY <1>1 DEF TypeOK
<1>3. PICK s \in Logins : /\ Active(s) /\ s.tag = b.tag /\ s.phase = "authorize"
                          /\ WellReduced(s, Start(b.engine, b.tag))
                          /\ Start(b.engine, b.tag).state.kind = "active"
  BY <1>1, <1>2, StartWell
<1>4. Fresh(s)
  BY <1>1, <1>3 DEF Fresh, Apart
<1>5. begins' = begins \ {b} /\ presses' = presses
  BY DEF BeginLogin
<1>6. \A c \in begins' : c.tag # s.tag
  BY <1>3, <1>5 DEF IInv
<1>7. ApplyLoginEvent(Start(b.engine, b.tag), wires, timer)
  BY DEF BeginLogin
<1>8. /\ login' \in Logins /\ stored' \in Logins
      /\ wires' \subseteq Wires /\ timer' \in Int
      /\ draft' \in [tag : Tags \cup {NoTag}, engine : OAUTH_ENGINES]
      /\ exchanges' \in [Tags -> Nat] /\ outcome' \in [Tags -> Outcomes]
      /\ effects' \in {"run", "lost"}
      /\ IssuedOnce' /\ Fresh(login)' /\ Fresh(stored)'
      /\ \A c \in begins' : Apart(c)'
      /\ \A t \in Tags : Unused(t)'
  BY <1>2, <1>3, <1>4, <1>5, <1>6, <1>7, ApplyKeepsInv
<1>9. TypeOK'
  BY <1>1, <1>5, <1>8 DEF TypeOK, BeginLogin, vendorVars
<1> QED
  BY <1>5, <1>8, <1>9 DEF IInv

\* A start sends nothing, or asks for the device code.
LEMMA StartAsks ==
    ASSUME NEW e, NEW tag, Start(e, tag).effect.kind = "http"
    PROVE  Start(e, tag).effect.what = "device_code"
BY DEF Start, Stay, NoEffect, SendRequest

\* The request of a start whose block is gone.
LEMMA OrphanWire ==
    ASSUME now \in Nat, NEW e \in OAUTH_ENGINES, NEW tag \in Tags,
           Start(e, tag).effect.kind = "http"
    PROVE  LET w == Stopped(NewWire(Start(e, tag).state, Start(e, tag).effect))
           IN  w \in Wires /\ ~w.live /\ w.what = "device_code"
<1> DEFINE r == Start(e, tag)
           v == NewWire(r.state, r.effect)
<1>1. r.state \in Logins /\ r.effect \in Effects /\ r.state.tag = tag
  BY StartWell DEF WellReduced
<1>2. r.effect.req \in ReqIds /\ r.effect.what = "device_code"
  BY <1>1, StartAsks DEF Effects
<1>3. v \in Wires /\ v.what = "device_code"
  <2> HIDE DEF r
  <2> QED
    BY <1>1, <1>2, VenueType DEF NewWire, Wires, Logins
<1> HIDE DEF v
<1>4. Stopped(v) \in Wires /\ ~Stopped(v).live /\ Stopped(v).what = "device_code"
  BY <1>3 DEF Stopped, Wires
<1> QED
  BY <1>4 DEF v

LEMMA BeginUnmountedInv ==
    ASSUME LoginAssumption, IInv, NEW b \in begins, BeginUnmounted(b) PROVE IInv'
<1>1. TypeOK /\ b.tag \in Tags /\ b.engine \in OAUTH_ENGINES /\ Apart(b) /\ now \in Nat
  BY DEF IInv, TypeOK, LoginAssumption
<1> DEFINE new == SaveVendorLogin(Start(b.engine, b.tag).state)
<1>2. new \in Logins /\ (Active(new) => new.tag = b.tag)
  BY <1>1, StartWell, SaveType DEF WellReduced
<1>3. stored' \in {stored, new} /\ begins' = begins \ {b}
  BY DEF BeginUnmounted
<1>4. UNCHANGED <<now, engine, draft, saving, login, timer, presses, exchanges, outcome,
                  effects, received, unread>>
  BY DEF BeginUnmounted, pageVars, userVars, vendorVars
<1>8. wires' \subseteq Wires
  BY <1>1, OrphanWire DEF BeginUnmounted, TypeOK
<1> HIDE DEF new
<1>5. TypeOK'
  BY <1>1, <1>2, <1>3, <1>4, <1>8 DEF TypeOK
<1>6. Fresh(login)' /\ Fresh(stored)'
  BY <1>1, <1>2, <1>3, <1>4 DEF IInv, Fresh, Apart
<1>7. ASSUME NEW c \in begins' PROVE Apart(c)'
  <2>1. c \in begins /\ c.tag # b.tag /\ Apart(c)
    BY <1>3 DEF IInv
  <2> QED
    BY <1>2, <1>3, <1>4, <2>1 DEF Apart
<1> QED
  BY <1>3, <1>4, <1>5, <1>6, <1>7 DEF IInv, IssuedOnce, Unused

LEMMA HandleCancelInv == ASSUME LoginAssumption, IInv, HandleCancel PROVE IInv'
<1>1. login' = Idle /\ stored' = Idle
  BY IdleIsLogin DEF HandleCancel, StepLogin, SaveVendorLogin
<1>2. UNCHANGED <<now, engine, draft, saving, begins, presses, exchanges, effects,
                  received, unread>>
  BY DEF HandleCancel, pageVars, vendorVars
<1>3. /\ outcome' \in [Tags -> Outcomes]
      /\ \A t \in Tags : outcome'[t] # outcome[t] => Active(login) /\ t = login.tag
  BY DEF HandleCancel, IInv, TypeOK, Outcomes
<1>4. TypeOK'
  BY <1>1, <1>2, <1>3, IdleIsLogin, StoppedWires
  DEF HandleCancel, StopEffects, IInv, TypeOK, Never
<1>5. Fresh(login)' /\ Fresh(stored)'
  BY <1>1, IdleIsLogin DEF Fresh
<1>6. ASSUME NEW b \in begins' PROVE Apart(b)'
  <2>1. b \in begins /\ b.tag \in Tags /\ Apart(b)
    BY <1>2 DEF IInv, TypeOK
  <2> QED
    BY <1>1, <1>2, <1>3, <2>1, IdleIsLogin DEF Apart
<1>7. ASSUME NEW t \in Tags PROVE Unused(t)'
  <2>1. t > presses => ~(Active(login) /\ t = login.tag)
    BY DEF IInv, Fresh, TypeOK, Tags
  <2> QED
    BY <1>2, <1>3, <2>1 DEF IInv, Unused
<1> QED
  BY <1>2, <1>4, <1>5, <1>6, <1>7 DEF IInv, IssuedOnce

LEMMA VendorReceivesInv ==
    ASSUME LoginAssumption, IInv, NEW w \in wires, VendorReceives(w) PROVE IInv'
<1>1. TypeOK /\ w \in Wires
  BY DEF IInv, TypeOK
<1>2. [w EXCEPT !.arrived = TRUE] \in Wires
  BY <1>1 DEF Wires
<1>3. wires' \subseteq Wires
  BY <1>1, <1>2 DEF VendorReceives, TypeOK
<1>4. w.tag \in Tags /\ received \in [Tags -> Nat]
  BY <1>1 DEF Wires, TypeOK
<1>5. received' \in [Tags -> Nat] /\ unread' \subseteq Tags
  BY <1>1, <1>4 DEF VendorReceives, TypeOK
<1> QED
  BY <1>1, <1>3, <1>5, QuietKeepsInv DEF VendorReceives, TypeOK, pageVars, userVars

LEMMA SettlesInv ==
    ASSUME LoginAssumption, IInv, NEW w \in wires, Settles(w) PROVE IInv'
<1>1. /\ TypeOK /\ login \in Logins /\ w \in Wires /\ now \in Nat /\ timer \in Int
      /\ Lifetime \in Nat /\ w.tag \in Tags
  BY DEF IInv, TypeOK, LoginAssumption, Wires
<1>2. CASE WalkVenues(w)
  <2>1. AtRelay(w) \in Wires
    BY <1>1 DEF AtRelay, Wires
  <2>2. wires' \subseteq Wires /\ received' \in [Tags -> Nat] /\ unread' \subseteq Tags
    BY <1>1, <1>2, <2>1 DEF WalkVenues, TypeOK
  <2> QED
    BY <1>1, <1>2, <2>2, QuietKeepsInv DEF WalkVenues, TypeOK, pageVars, userVars
<1>3. CASE AnswerDropped(w)
  BY <1>1, <1>3, QuietKeepsInv DEF AnswerDropped, TypeOK, pageVars, userVars, vendorVars
<1>4. ASSUME NEW reading \in Readings(login.engine, login.phase), HttpOk(w, reading) PROVE IInv'
  <2>1. Active(login) => WellReduced(login, OnHttpOk(login, w, reading))
    <3>1. reading = "next" => login.phase # "exchange"
      BY DEF Readings, Projected
    <3> QED
      BY <1>1, <3>1, OkWell
  <2> QED
    BY <1>1, <1>4, <2>1, EventKeepsInv DEF HttpOk
<1>5. CASE HttpFailed(w)
  <2>1. Active(login) => WellReduced(login, OnHttpFailed(login, w.req))
    BY <1>1, HttpFailedWell
  <2> QED
    BY <1>1, <1>5, <2>1, EventKeepsInv DEF HttpFailed
<1> QED
  BY <1>2, <1>3, <1>4, <1>5 DEF Settles

LEMMA MountType == ASSUME LoginAssumption, IInv, NEW e PROVE ReadInitial(e) \in {stored, Idle}
BY DEF ReadInitial

\* The invariant the theorems rest on.
THEOREM InvAlways == Spec => []IInv
<1>1. Init => IInv
  BY InitInv, LoginAssumption
<1>2. IInv /\ [Next]_vars => IInv'
  <2> SUFFICES ASSUME IInv, [Next]_vars PROVE IInv'
    OBVIOUS
  <2> USE LoginAssumption
  <2>1. TypeOK /\ login \in Logins
    BY DEF IInv, TypeOK
  <2>2. Never \in Int /\ {Stopped(w) : w \in wires} \subseteq Wires
    BY <2>1, StoppedWires DEF Never
  <2>3. CASE HandleStart
    BY <2>3, HandleStartInv
  <2>4. ASSUME NEW b \in begins, BeginLogin(b) \/ BeginUnmounted(b) PROVE IInv'
    BY <2>4, BeginLoginInv, BeginUnmountedInv
  <2>5. CASE HandleCancel
    BY <2>5, HandleCancelInv
  <2>6. ASSUME NEW paste \in Pastes, HandleSubmitCallback(paste) PROVE IInv'
    <3>1. Active(login) => WellReduced(login, OnCallbackPasted(login, paste))
      BY <2>1, PasteWell
    <3> QED
      BY <2>1, <2>6, <3>1, EventKeepsInv DEF HandleSubmitCallback, TypeOK
  <2>7. ASSUME NEW w \in wires, VendorReceives(w) \/ Settles(w) PROVE IInv'
    BY <2>7, SettlesInv, VendorReceivesInv
  <2>8. CASE TimerFires
    <3>1. Active(login) => WellReduced(login, OnTick(login))
      BY <2>1, TickWell
    <3> QED
      BY <2>1, <2>2, <2>8, <3>1, EventKeepsInv DEF TimerFires
  <2>9. ASSUME NEW e \in Engines, SetEngine(e) PROVE IInv'
    BY <2>1, <2>2, <2>9, MountType, QuietKeepsInv
    DEF SetEngine, Mount, StopEffects, TypeOK, userVars, vendorVars
  <2>10. CASE SubmitDraft \/ SaveFails
    BY <2>1, <2>10, QuietKeepsInv DEF SubmitDraft, SaveFails, TypeOK, userVars, vendorVars
  <2>11. CASE SaveSucceeds
    BY <2>1, <2>2, <2>11, MountType, QuietKeepsInv
    DEF SaveSucceeds, Mount, StopEffects, TypeOK, userVars, vendorVars
  <2>12. CASE Reload
    BY <2>1, <2>2, <2>12, MountType, QuietKeepsInv DEF Reload, TypeOK, userVars, vendorVars
  <2>13. CASE Tick
    BY <2>1, <2>13 DEF Tick, pageVars, userVars, vendorVars, IInv, TypeOK, IssuedOnce, Fresh, Apart, Unused
  <2>14. CASE UNCHANGED vars
    BY <2>1, <2>14
    DEF vars, pageVars, userVars, vendorVars, IInv, TypeOK, IssuedOnce, Fresh, Apart, Unused
  <2> QED
    BY <2>3, <2>4, <2>5, <2>6, <2>7, <2>8, <2>9, <2>10, <2>11, <2>12, <2>13, <2>14 DEF Next
<1> QED
  BY <1>1, <1>2, PTL DEF Spec

\* Type correctness, for any number of presses and any clock.
THEOREM TypeCorrect == Spec => []TypeOK
<1>1. IInv => TypeOK
  BY DEF IInv
<1> QED
  BY <1>1, InvAlways, PTL

\* A login that ended is on no screen and in no storage again.
THEOREM EndedIsOverAlways == Spec => []EndedIsOver
<1>1. IInv => EndedIsOver
  BY DEF IInv, Fresh, EndedIsOver
<1> QED
  BY <1>1, InvAlways, PTL

-----------------------------------------------------------------------------
(* What the answers of a login find *)

\* The request a login waits for is named by its start and a counter, and
\* time has passed since the start once it polls or exchanges.
Shape(s) ==
    Active(s) =>
        /\ s.startedAt <= now /\ s.interval >= 1
        /\ s.phase = "authorize" => PastesCode(s.engine) /\ s.seq = 0 /\ s.req = NoReq
        /\ s.phase # "authorize" => s.seq >= 1
        /\ s.req = NoReq \/ s.req = <<s.startedAt, s.seq>>
        /\ s.phase = "device_wait" =>
              s.pollAt > s.startedAt /\ (s.req # NoReq => now > s.startedAt)
        /\ s.phase \in {"device_wait", "exchange"} /\ ~PastesCode(s.engine) =>
              s.req = NoReq \/ s.seq >= 2

\* A request nobody stopped is for the engine of the form.  Two logins of one
\* millisecond share request ids, but only those of their device codes.
Sent(w) ==
    w.live =>
        /\ w.engine = engine
        /\ 0 <= w.req[1] /\ w.req[1] <= now
        /\ w.what = "device_code" => w.req[2] = 1 /\ ~PastesCode(w.engine)
        /\ w.what # "device_code" =>
              /\ w.req[1] < now
              /\ Active(login) /\ w.tag # login.tag => w.req[1] < login.startedAt

FormInv ==
    /\ Shape(login) /\ Shape(stored)
    /\ Active(login) => login.engine = engine
    /\ \A w \in wires : Sent(w)
    /\ \A b \in begins : b.live => b.engine = engine
    /\ draft # NoDraft => draft.tag \in Tags
    /\ DraftIsWanted

\* The five things an event may do to a login.
Onward(s, t) ==
    /\ Active(s) /\ Active(t) /\ t.phase # "authorize" /\ Shape(t)
    /\ t.tag = s.tag /\ t.engine = s.engine /\ t.startedAt = s.startedAt
Stays(s, r) == r.state = s /\ r.effect = NoEffect
Fails(s, r) == r.state.kind = "failed" /\ r.effect = NoEffect
Finishes(s, r) ==
    /\ r.state.kind = "done" /\ s.phase \in {"device_wait", "exchange"}
    /\ \E w \in wires :
          /\ w.live /\ w.req = s.req
          /\ r.effect = [kind |-> "credential", draft |-> [tag |-> w.tag, engine |-> w.engine]]
Sends(s, r) ==
    /\ Onward(s, r.state)
    /\ r.state.req = <<s.startedAt, r.state.seq>>
    /\ \E what \in {"device_code", "poll", "exchange"} :
          /\ r.effect = [kind |-> "http", what |-> what, req |-> r.state.req]
          /\ what = "device_code" => r.state.seq = 1 /\ ~PastesCode(s.engine)
          /\ what # "device_code" => now > s.startedAt
Waits(s, r) ==
    /\ Onward(s, r.state) /\ r.state.phase = "device_wait" /\ r.state.req = NoReq
    /\ r.effect = [kind |-> "wake_at", at |-> r.state.pollAt]

Moved(s, r) == Stays(s, r) \/ Fails(s, r) \/ Finishes(s, r) \/ Sends(s, r) \/ Waits(s, r)

\* Which of them it was shows in the effect.
LEMMA EffectTells ==
    ASSUME NEW s, NEW r, Moved(s, r)
    PROVE  /\ r.effect.kind = "http" => Sends(s, r)
           /\ r.effect.kind = "credential" => Finishes(s, r)
           /\ r.effect.kind = "wake_at" => Waits(s, r)
<1>1. NoEffect.kind = "none"
  BY DEF NoEffect
<1>2. Stays(s, r) \/ Fails(s, r) => r.effect.kind = "none"
  BY <1>1 DEF Stays, Fails
<1>3. Finishes(s, r) => r.effect.kind = "credential"
  BY DEF Finishes
<1>4. Sends(s, r) => r.effect.kind = "http"
  BY DEF Sends
<1>5. Waits(s, r) => r.effect.kind = "wake_at"
  BY DEF Waits
<1> QED
  BY <1>2, <1>3, <1>4, <1>5 DEF Moved

LEMMA StayMoves == ASSUME NEW s PROVE Stays(s, Stay(s))
BY DEF Stays, Stay

LEMMA FailMoves == ASSUME NEW s \in Logins PROVE Fails(s, Failed(s))
<1>1. Ended(s, "failed").kind = "failed"
  BY IdleIsLogin DEF Ended, Logins
<1> QED
  BY <1>1 DEF Fails, Failed, Stay

LEMMA FinishMoves ==
    ASSUME NEW s \in Logins, NEW w \in wires, w.live, w.req = s.req,
           s.phase \in {"device_wait", "exchange"}
    PROVE  Finishes(s, Finish(s, w))
<1>1. Ended(s, "done").kind = "done"
  BY IdleIsLogin DEF Ended, Logins
<1> QED
  BY <1>1 DEF Finishes, Finish

LEMMA SendMoves ==
    ASSUME NEW s \in Logins, Active(s), now \in Nat, s.startedAt <= now, s.interval >= 1,
           NEW phase \in Phases, phase # "authorize",
           NEW what \in {"device_code", "poll", "exchange"},
           what = "device_code" =>
               phase = "device_code" /\ s.phase = "authorize" /\ s.seq = 0 /\ ~PastesCode(s.engine),
           what # "device_code" => now > s.startedAt,
           phase = "device_wait" => s.pollAt > s.startedAt,
           phase \in {"device_wait", "exchange"} /\ ~PastesCode(s.engine) => s.seq >= 1
    PROVE  Sends(s, SendRequest(s, phase, what))
<1> DEFINE req == <<s.startedAt, s.seq + 1>>
           t == [s EXCEPT !.phase = phase, !.seq = s.seq + 1, !.req = req]
<1>0. s.seq \in Nat /\ s.startedAt \in Nat /\ s.interval \in Int /\ s.pollAt \in Int
  BY DEF Logins
<1>1. /\ t.kind = s.kind /\ t.tag = s.tag /\ t.engine = s.engine /\ t.startedAt = s.startedAt
      /\ t.phase = phase /\ t.seq = s.seq + 1 /\ t.req = req
      /\ t.pollAt = s.pollAt /\ t.interval = s.interval
  BY DEF Logins
<1>2. SendRequest(s, phase, what) =
         [state |-> t, effect |-> [kind |-> "http", what |-> what, req |-> t.req]]
  BY <1>1 DEF SendRequest
<1> HIDE DEF t
<1>3. Shape(t)
  BY <1>0, <1>1 DEF Shape, Active
<1> QED
  BY <1>0, <1>1, <1>2, <1>3 DEF Sends, Onward, Active

LEMMA WaitMoves ==
    ASSUME NEW s \in Logins, Active(s), NEW g \in Logins, now \in Nat,
           Shape(s), s.phase # "authorize",
           g.kind = s.kind, g.tag = s.tag, g.engine = s.engine, g.startedAt = s.startedAt,
           g.seq = s.seq,
           NEW interval \in Int, interval >= 1
    PROVE  Waits(s, WaitToPoll(g, interval, now + interval))
<1> DEFINE pollAt == now + interval
           t == [g EXCEPT !.phase = "device_wait", !.req = NoReq,
                          !.interval = interval, !.pollAt = pollAt]
<1>0. s.seq \in Nat /\ s.startedAt \in Nat /\ pollAt \in Int /\ pollAt > s.startedAt
  BY DEF Logins, Shape
<1>1. /\ t.kind = s.kind /\ t.tag = s.tag /\ t.engine = s.engine /\ t.startedAt = s.startedAt
      /\ t.phase = "device_wait" /\ t.seq = s.seq /\ t.req = NoReq
      /\ t.pollAt = pollAt /\ t.interval = interval
  BY DEF Logins
<1>2. WaitToPoll(g, interval, pollAt) =
         [state |-> t, effect |-> [kind |-> "wake_at", at |-> t.pollAt]]
  BY <1>1 DEF WaitToPoll
<1> HIDE DEF t, pollAt
<1>3. Shape(t)
  BY <1>0, <1>1 DEF Shape, Active
<1>4. Waits(s, WaitToPoll(g, interval, pollAt))
  BY <1>0, <1>1, <1>2, <1>3 DEF Waits, Onward, Active
<1> QED
  BY <1>4 DEF pollAt

\* The login a start makes, before its device code is asked for.
LEMMA StartMoves ==
    ASSUME now \in Nat, NEW e \in OAUTH_ENGINES, NEW tag \in Tags
    PROVE  \E s \in Logins :
              /\ Active(s) /\ s.tag = tag /\ s.engine = e /\ s.startedAt = now
              /\ s.phase = "authorize"
              /\ \/ Stays(s, Start(e, tag)) /\ Shape(s)
                 \/ Sends(s, Start(e, tag))
<1> DEFINE s == [Idle EXCEPT !.kind = "active", !.engine = e, !.tag = tag, !.startedAt = now]
<1>1. /\ Idle \in Logins /\ Idle.phase = "authorize" /\ Idle.seq = 0 /\ Idle.req = NoReq
      /\ Idle.interval = 1
  BY IdleIsLogin DEF Idle
<1>2. /\ s \in Logins /\ s.kind = "active" /\ s.tag = tag /\ s.engine = e /\ s.startedAt = now
      /\ s.phase = "authorize" /\ s.seq = 0 /\ s.req = NoReq /\ s.interval = 1
  BY <1>1 DEF Logins
<1>3. Start(e, tag) = IF PastesCode(e) THEN Stay(s)
                      ELSE SendRequest(s, "device_code", "device_code")
  BY DEF Start
<1> HIDE DEF s
<1>4. CASE PastesCode(e)
  <2>1. Shape(s)
    BY <1>2, <1>4 DEF Shape
  <2> QED
    BY <1>2, <1>3, <1>4, <2>1, StayMoves DEF Active
<1>5. CASE ~PastesCode(e)
  <2>1. "device_code" \in Phases
    BY DEF Phases
  <2>2. Sends(s, SendRequest(s, "device_code", "device_code"))
    BY <1>2, <1>5, <2>1, SendMoves DEF Active
  <2> QED
    BY <1>2, <1>3, <1>5, <2>2 DEF Active
<1> QED
  BY <1>4, <1>5

\* The answer to a request that is under way moves the login if and only if
\* the login waits for a request of that id.
LEMMA PasteMoves ==
    ASSUME NEW s \in Logins, Active(s), Shape(s), now \in Nat, now > s.startedAt, NEW paste
    PROVE  Moved(s, OnCallbackPasted(s, paste))
<1>1. CASE s.phase # "authorize" \/ ~PastesCode(s.engine)
  BY <1>1, StayMoves DEF OnCallbackPasted, Moved
<1>2. CASE s.phase = "authorize" /\ PastesCode(s.engine) /\ paste = "code"
  <2>1. Sends(s, SendRequest(s, "exchange", "exchange"))
    BY <1>2, SendMoves DEF Phases, Shape
  <2> QED
    BY <1>2, <2>1 DEF OnCallbackPasted, Moved
<1>3. CASE s.phase = "authorize" /\ PastesCode(s.engine) /\ paste # "code"
  BY <1>3, FailMoves DEF OnCallbackPasted, Moved
<1> QED
  BY <1>1, <1>2, <1>3

LEMMA OkMoves ==
    ASSUME NEW s \in Logins, Active(s), Shape(s), now \in Nat, Lifetime \in Nat,
           NEW w \in wires, w.live, w.req # NoReq,
           NEW reading \in Readings(s.engine, s.phase)
    PROVE  /\ Moved(s, OnHttpOk(s, w, reading))
           /\ s.phase # "authorize" /\ s.req = w.req => ~Stays(s, OnHttpOk(s, w, reading))
<1>0. s.interval \in Int /\ s.interval >= 1 /\ s.startedAt <= now
  BY DEF Logins, Shape
<1>1. CASE s.phase = "authorize" \/ s.req # w.req
  BY <1>1, StayMoves DEF OnHttpOk, Moved
<1>2. CASE s.phase = "device_code" /\ s.req = w.req
  <2> DEFINE g == [s EXCEPT !.expires = now + Lifetime]
  <2>1. /\ g \in Logins /\ g.kind = s.kind /\ g.tag = s.tag /\ g.engine = s.engine
        /\ g.startedAt = s.startedAt /\ g.seq = s.seq
    BY DEF Logins
  <2>2. OnHttpOk(s, w, reading) =
           IF reading = "invalid" THEN Failed(s) ELSE WaitToPoll(g, 1, now + 1)
    BY <1>2 DEF OnHttpOk, OnDeviceGrant
  <2> HIDE DEF g
  <2>3. Waits(s, WaitToPoll(g, 1, now + 1))
    BY <1>2, <2>1, WaitMoves
  <2>4. Fails(s, Failed(s))
    BY FailMoves
  <2>5. Fails(s, OnHttpOk(s, w, reading)) \/ Waits(s, OnHttpOk(s, w, reading))
    BY <2>2, <2>3, <2>4
  <2> QED
    BY <2>5 DEF Moved, Fails, Waits, Stays, Active, NoEffect
<1>3. CASE s.phase \in {"device_wait", "exchange"} /\ s.req = w.req
  <2> DEFINE r == Advance(s, w, reading)
  <2>0. OnHttpOk(s, w, reading) = r
    BY <1>3 DEF OnHttpOk
  <2>1. CASE reading \in GrokPending
    <3>1. s.phase = "device_wait"
      BY <1>3, <2>1 DEF Readings, Projected, GrokPending
    <3>2. r \in {WaitToPoll(s, s.interval, now + s.interval),
                 WaitToPoll(s, s.interval + 1, now + (s.interval + 1))}
      BY <1>0, <2>1, <3>1 DEF Advance, GrokPending
    <3>3. ASSUME NEW wait \in {s.interval, s.interval + 1}
          PROVE  Waits(s, WaitToPoll(s, wait, now + wait))
      BY <1>0, <3>1, WaitMoves
    <3> HIDE DEF r
    <3> QED
      BY <2>0, <3>2, <3>3 DEF Moved, Waits, Stays, NoEffect
  <2>2. CASE reading = "next"
    <3>1. s.phase = "device_wait" /\ ~PastesCode(s.engine)
      BY <1>3, <2>2 DEF Readings, Projected, GrokPoll, GrokPending, CodexPoll, PastesCode
    <3>2. now > s.startedAt /\ s.seq >= 1
      BY <1>3, <3>1 DEF Shape
    <3>3. Sends(s, SendRequest(s, "exchange", "exchange"))
      BY <1>0, <3>1, <3>2, SendMoves DEF Phases
    <3> QED
      BY <2>0, <2>2, <3>1, <3>3 DEF Advance, Moved, GrokPending, Sends, Stays, NoEffect
  <2>3. CASE reading = "credential"
    <3>1. Finishes(s, Finish(s, w))
      BY <1>3, FinishMoves
    <3>2. r = Finish(s, w)
      BY <2>3 DEF Advance, GrokPending
    <3> QED
      BY <2>0, <3>1, <3>2 DEF Moved, Finishes, Stays, Active
  <2>4. CASE reading \notin GrokPending \cup {"next", "credential"}
    <3>1. r = Failed(s)
      BY <2>4 DEF Advance
    <3> QED
      BY <2>0, <3>1, FailMoves DEF Moved, Fails, Stays, Active
  <2> QED
    BY <2>1, <2>2, <2>3, <2>4
<1>4. s.phase \in Phases
  BY DEF Logins
<1> QED
  BY <1>1, <1>2, <1>3, <1>4 DEF Phases

LEMMA HttpFailedMoves ==
    ASSUME NEW s \in Logins, Active(s), Shape(s), now \in Nat, NEW req
    PROVE  /\ Moved(s, OnHttpFailed(s, req))
           /\ s.phase # "authorize" /\ s.req = req => ~Stays(s, OnHttpFailed(s, req))
<1>0. s.interval \in Int /\ s.interval >= 1
  BY DEF Logins, Shape
<1>1. CASE s.phase = "authorize" \/ s.req # req
  BY <1>1, StayMoves DEF OnHttpFailed, Moved
<1>2. CASE s.phase = "device_wait" /\ s.req = req
  BY <1>0, <1>2, WaitMoves DEF OnHttpFailed, Moved, Waits, Stays, NoEffect
<1>3. CASE s.phase \notin {"authorize", "device_wait"} /\ s.req = req
  BY <1>3, FailMoves DEF OnHttpFailed, Moved, Fails, Stays, Active
<1> QED
  BY <1>1, <1>2, <1>3

\* A wake that finds its poll due does not leave the login as it is.
LEMMA TickMoves ==
    ASSUME NEW s \in Logins, Active(s), Shape(s), now \in Nat
    PROVE  /\ Moved(s, OnTick(s))
           /\ s.phase = "device_wait" /\ s.req = NoReq /\ now >= s.pollAt => ~Stays(s, OnTick(s))
<1>0. s.pollAt \in Int /\ s.startedAt \in Nat
  BY DEF Logins
<1>1. CASE s.phase # "device_wait"
  BY <1>1, StayMoves DEF OnTick, Moved
<1>2. CASE s.phase = "device_wait" /\ now >= s.expires
  BY <1>2, FailMoves DEF OnTick, Moved, Fails, Stays, Active
<1>3. CASE s.phase = "device_wait" /\ ~(now >= s.expires) /\ (s.req # NoReq \/ now < s.pollAt)
  BY <1>0, <1>3, StayMoves DEF OnTick, Moved
<1>4. CASE s.phase = "device_wait" /\ ~(now >= s.expires) /\ ~(s.req # NoReq \/ now < s.pollAt)
  <2>1. now >= s.pollAt /\ s.pollAt > s.startedAt /\ s.seq >= 1 /\ s.startedAt <= now /\ s.interval >= 1
    BY <1>0, <1>4 DEF Shape
  <2>2. Sends(s, SendRequest(s, "device_wait", "poll"))
    BY <1>0, <1>4, <2>1, SendMoves DEF Phases
  <2> QED
    BY <1>4, <2>2 DEF OnTick, Moved, Sends, Stays, NoEffect
<1> QED
  BY <1>1, <1>2, <1>3, <1>4

LEMMA TimedMoves ==
    ASSUME NEW s \in Logins, Active(s), NEW r, Moved(s, r)
    PROVE  Moved(s, OnTimedEvent(s, r)) /\ (Stays(s, OnTimedEvent(s, r)) => Stays(s, r))
BY FailMoves DEF OnTimedEvent, Moved, Fails, Stays, Active

-----------------------------------------------------------------------------
(* The answers keep to their login *)

\* A request nobody stopped that a polling or exchanging login waits for is
\* its own: another login started at another time, or asks for a device code.
LEMMA OwnAnswer ==
    ASSUME IInv, FormInv, Active(login), NEW w \in wires, w.live, w.req = login.req,
           login.phase \in {"device_wait", "exchange"}
    PROVE  w.tag = login.tag
<1> SUFFICES ASSUME w.tag # login.tag PROVE FALSE
  OBVIOUS
<1>1. Sent(w) /\ Shape(login) /\ login.engine = engine
  BY DEF FormInv
<1>2. /\ w \in Wires /\ w.req \in ReqIds
      /\ login.seq \in Nat /\ login.startedAt \in Nat
  BY DEF IInv, TypeOK, Logins, Wires
<1>3. w.req[1] >= 0 /\ w.engine = engine
  BY <1>1 DEF Sent
<1>4. w.req # NoReq
  BY <1>3 DEF NoReq
<1>5. w.req = <<login.startedAt, login.seq>>
  BY <1>1, <1>4 DEF Shape
<1>6. w.req[1] = login.startedAt /\ w.req[2] = login.seq
  BY <1>5
<1>7. CASE w.what = "device_code"
  BY <1>1, <1>2, <1>4, <1>6, <1>7 DEF Sent, Shape
<1>8. CASE w.what # "device_code"
  BY <1>1, <1>2, <1>6, <1>8 DEF Sent
<1> QED
  BY <1>7, <1>8

\* The interpreter carries out what the reducer made of the login on screen,
\* or of one that has just started.
LEMMA ApplyKeepsForm ==
    ASSUME IInv, IInv', FormInv, NEW s \in Logins, NEW r, Active(s), s.engine = engine,
           Moved(s, r), Stays(s, r) => Shape(s),
           s = login \/ (s.startedAt = now /\ Active(r.state)),
           NEW under \in SUBSET wires, NEW left,
           begins' \subseteq begins, UNCHANGED <<now, engine>>,
           ApplyLoginEvent(r, under, left)
    PROVE  FormInv'
<1>1. PICK effect \in {r.effect, NoEffect} : RunEffects(r.state, effect, under, left)
  BY DEF ApplyLoginEvent
<1>2. login' = r.state /\ stored' = SaveVendorLogin(r.state)
  BY DEF ApplyLoginEvent, StepLogin
<1>3. /\ now \in Nat /\ wires \subseteq Wires /\ s.startedAt \in Nat
      /\ \A w \in wires : Sent(w)
  BY DEF IInv, TypeOK, FormInv, Logins
<1>4. Active(r.state) => /\ Shape(r.state) /\ r.state.engine = s.engine
                         /\ r.state.startedAt = s.startedAt /\ r.state.tag = s.tag
  BY DEF Moved, Stays, Fails, Finishes, Sends, Waits, Onward, Active
<1>5. Shape(login)' /\ Shape(stored)'
  <2>1. Shape(r.state) /\ Shape(SaveVendorLogin(r.state))
    BY <1>4, IdleIsLogin DEF Shape, SaveVendorLogin
  <2> QED
    BY <1>2, <2>1 DEF Shape
<1>6. Active(login') => login'.engine = engine'
  BY <1>2, <1>4
<1>7. \A b \in begins' : b.live => b.engine = engine'
  BY DEF FormInv
<1>8. ASSUME NEW w \in under PROVE Sent(w)'
  <2>1. Sent(w) /\ w \in Wires /\ w.req \in ReqIds
    BY <1>3 DEF Wires
  <2>2. w.live /\ w.what # "device_code" /\ Active(login') /\ w.tag # login'.tag =>
            w.req[1] < login'.startedAt
    BY <1>2, <1>4, <2>1 DEF Sent
  <2> QED
    BY <2>1, <2>2 DEF Sent
<1>9. effect.kind = "http" => Sent(NewWire(r.state, effect))'
  <2> SUFFICES ASSUME effect.kind = "http" PROVE Sent(NewWire(r.state, effect))'
    OBVIOUS
  <2>0. effect.kind = "http"
    OBVIOUS
  <2>1. effect = r.effect /\ Sends(s, r)
    <3>1. effect = r.effect
      BY <2>0 DEF NoEffect
    <3> QED
      BY <2>0, <3>1, EffectTells
  <2>2. PICK what \in {"device_code", "poll", "exchange"} :
              /\ effect = [kind |-> "http", what |-> what, req |-> r.state.req]
              /\ what = "device_code" => r.state.seq = 1 /\ ~PastesCode(s.engine)
              /\ what # "device_code" => now > s.startedAt
    BY <2>1 DEF Sends
  <2>3. Onward(s, r.state) /\ r.state.req = <<s.startedAt, r.state.seq>>
    BY <2>1 DEF Sends
  <2> DEFINE w == NewWire(r.state, effect)
  <2>4. /\ w.tag = r.state.tag /\ w.engine = r.state.engine
        /\ w.what = what /\ w.req = r.state.req
    BY <2>2 DEF NewWire
  <2>5. w.req[1] = s.startedAt /\ w.req[2] = r.state.seq
    BY <2>3, <2>4
  <2>6. Active(r.state) /\ w.engine = engine /\ s.startedAt <= now
    BY <2>3, <2>4 DEF Onward, Shape
  <2>7. /\ w.engine = engine' /\ 0 <= w.req[1] /\ w.req[1] <= now'
        /\ w.what = "device_code" => w.req[2] = 1 /\ ~PastesCode(w.engine)
        /\ w.what # "device_code" => w.req[1] < now'
        /\ w.tag = login'.tag
    BY <1>2, <1>3, <2>2, <2>3, <2>4, <2>5, <2>6 DEF Onward
  <2>8. Sent(w)'
    <3> HIDE DEF w
    <3> QED
      BY <2>7 DEF Sent
  <2> QED
    BY <2>8
<1>10. \A w \in wires' : Sent(w)'
  <2>1. wires' = IF effect.kind = "http" THEN under \cup {NewWire(r.state, effect)} ELSE under
    BY <1>1 DEF RunEffects
  <2> QED
    BY <1>8, <1>9, <2>1
<1>11. DraftIsWanted' /\ (draft' # NoDraft => draft'.tag \in Tags)
  <2>1. TypeOK /\ DraftIsWanted /\ outcome' \in [Tags -> Outcomes]
    BY DEF IInv, TypeOK, FormInv
  <2>2. ASSUME NEW t \in Tags, outcome[t] = "done" PROVE outcome'[t] = "done"
    <3>1. Active(login) => login.tag \in Tags /\ outcome[login.tag] = "open"
      BY DEF IInv, Fresh
    <3> QED
      BY <2>1, <2>2, <3>1 DEF ApplyLoginEvent, TypeOK
  <2>3. CASE draft' = draft
    <3>1. draft # NoDraft => draft.tag \in Tags
      BY DEF FormInv
    <3> QED
      BY <2>1, <2>2, <2>3, <3>1 DEF DraftIsWanted
  <2>4. CASE draft' # draft
    <3>1. effect.kind = "credential" /\ draft' = effect.draft
      BY <1>1, <2>4 DEF RunEffects
    <3>2. effect = r.effect
      BY <3>1 DEF NoEffect
    <3>3. Finishes(s, r)
      BY <3>1, <3>2, EffectTells
    <3>4. r.state.kind = "done" /\ s = login /\ s.phase \in {"device_wait", "exchange"}
      BY <3>3 DEF Finishes, Active
    <3>5. PICK w \in wires : /\ w.live /\ w.req = s.req
                             /\ effect = [kind |-> "credential",
                                          draft |-> [tag |-> w.tag, engine |-> w.engine]]
      BY <3>2, <3>3 DEF Finishes
    <3>6. w.tag = login.tag /\ w.engine = engine
      BY <1>3, <3>4, <3>5, OwnAnswer DEF Sent
    <3>7. draft' = [tag |-> login.tag, engine |-> engine]
      BY <3>1, <3>5, <3>6
    <3>8. outcome' = [outcome EXCEPT ![login.tag] = "done"] /\ login.tag \in Tags
      BY <3>4 DEF ApplyLoginEvent, IInv, Fresh
    <3>9. outcome'[login.tag] = "done"
      BY <2>1, <3>8 DEF TypeOK
    <3>10. draft'.tag = login.tag /\ draft'.engine = engine
      BY <3>7
    <3> QED
      BY <3>8, <3>9, <3>10 DEF DraftIsWanted
  <2> QED
    BY <2>3, <2>4
<1> QED
  BY <1>5, <1>6, <1>7, <1>10, <1>11 DEF FormInv

\* An event of the login on screen.
LEMMA EventKeepsForm ==
    ASSUME IInv, IInv', FormInv, NEW r, Active(login) => Moved(login, r),
           NEW under \in SUBSET wires, NEW left,
           ApplyLoginEvent(OnTimedEvent(login, r), under, left),
           UNCHANGED <<now, engine, begins, saving, presses>>
    PROVE  FormInv'
<1>1. login \in Logins /\ Shape(login) /\ (Active(login) => login.engine = engine)
  BY DEF IInv, TypeOK, FormInv
<1>2. CASE Active(login)
  <2>1. Moved(login, OnTimedEvent(login, r))
    BY <1>1, <1>2, TimedMoves
  <2> QED
    BY <1>1, <1>2, <2>1, ApplyKeepsForm
<1>3. CASE ~Active(login)
  <2>1. OnTimedEvent(login, r) = [state |-> login, effect |-> NoEffect]
    BY <1>3 DEF OnTimedEvent, Stay
  <2>2. RunEffects(login, NoEffect, under, left)
    BY <2>1 DEF ApplyLoginEvent
  <2>3. wires' = under /\ draft' = draft
    BY <2>2 DEF RunEffects, NoEffect
  <2>4. login' = login /\ stored' = Idle /\ outcome' = outcome
    BY <1>3, <2>1 DEF ApplyLoginEvent, StepLogin, SaveVendorLogin
  <2>5. Shape(Idle)'
    BY IdleIsLogin DEF Shape
  <2>6. \A w \in wires' : Sent(w)'
    BY <2>3, <2>4 DEF FormInv, Sent
  <2>7. Shape(login)' /\ Shape(stored)'
    BY <2>4, <2>5, <1>1 DEF Shape
  <2> QED
    BY <1>1, <2>3, <2>4, <2>6, <2>7 DEF FormInv, DraftIsWanted
<1> QED
  BY <1>2, <1>3

\* The block is mounted anew: whatever was under way is stopped or gone, and
\* the form starts without a draft.
LEMMA MountKeepsForm ==
    ASSUME IInv, FormInv, login' = ReadInitial(engine'),
           \A w \in wires' : ~w.live, \A b \in begins' : ~b.live,
           draft' = NoDraft, UNCHANGED <<now, stored>>
    PROVE  FormInv'
<1>1. Shape(stored)' /\ Shape(Idle)'
  BY IdleIsLogin DEF FormInv, Shape
<1>2. login' = Idle \/ (login' = stored /\ stored.engine = engine')
  BY DEF ReadInitial, CanResume
<1>3. Shape(login)'
  BY <1>1, <1>2 DEF Shape
<1>4. Active(login') => login'.engine = engine'
  BY <1>2, IdleIsLogin
<1>5. \A w \in wires' : Sent(w)'
  BY DEF Sent
<1> QED
  BY <1>1, <1>3, <1>4, <1>5 DEF FormInv, DraftIsWanted

LEMMA StoppedIsStopped ==
    ASSUME IInv
    PROVE  /\ \A w \in {Stopped(x) : x \in wires} : ~w.live
           /\ \A b \in {Stopped(x) : x \in begins} : ~b.live
<1>1. wires \subseteq Wires /\ begins \subseteq [tag : Tags, engine : Engines, live : BOOLEAN]
  BY DEF IInv, TypeOK
<1>2. ASSUME NEW x \in wires PROVE ~Stopped(x).live
  BY <1>1 DEF Stopped, Wires
<1>3. ASSUME NEW x \in begins PROVE ~Stopped(x).live
  BY <1>1 DEF Stopped
<1> QED
  BY <1>2, <1>3

LEMMA BeginKeepsForm ==
    ASSUME LoginAssumption, IInv, IInv', FormInv, NEW b \in begins, BeginLogin(b)
    PROVE  FormInv'
<1>1. now \in Nat /\ b.tag \in Tags /\ b.engine \in OAUTH_ENGINES
  BY DEF IInv, TypeOK, LoginAssumption
<1>2. b.live /\ b.engine = engine
  BY DEF BeginLogin, FormInv
<1>3. PICK s \in Logins :
        /\ Active(s) /\ s.tag = b.tag /\ s.engine = b.engine /\ s.startedAt = now
        /\ \/ Stays(s, Start(b.engine, b.tag)) /\ Shape(s)
           \/ Sends(s, Start(b.engine, b.tag))
  BY <1>1, StartMoves
<1>4. Moved(s, Start(b.engine, b.tag)) /\ Active(Start(b.engine, b.tag).state)
  BY <1>3 DEF Moved, Stays, Sends, Onward
<1>5. Stays(s, Start(b.engine, b.tag)) => Shape(s)
  BY <1>3 DEF Sends, Onward, Stays
<1>6. /\ ApplyLoginEvent(Start(b.engine, b.tag), wires, timer)
      /\ begins' \subseteq begins /\ UNCHANGED <<now, engine>>
  BY DEF BeginLogin
<1> QED
  BY <1>2, <1>3, <1>4, <1>5, <1>6, ApplyKeepsForm

\* The page that was left: only the tab's storage may have the login.
LEMMA UnmountedKeepsForm ==
    ASSUME LoginAssumption, IInv, FormInv, NEW b \in begins, BeginUnmounted(b)
    PROVE  FormInv'
<1>1. now \in Nat /\ b.tag \in Tags /\ b.engine \in OAUTH_ENGINES
  BY DEF IInv, TypeOK, LoginAssumption
<1>2. PICK s \in Logins :
        /\ Active(s) /\ s.tag = b.tag /\ s.engine = b.engine /\ s.startedAt = now
        /\ \/ Stays(s, Start(b.engine, b.tag)) /\ Shape(s)
           \/ Sends(s, Start(b.engine, b.tag))
  BY <1>1, StartMoves
<1>3. Shape(Start(b.engine, b.tag).state) /\ Shape(Idle) /\ Shape(stored)
  BY <1>2, IdleIsLogin DEF Stays, Sends, Onward, Shape, FormInv
<1>4. Shape(stored')
  BY <1>3 DEF BeginUnmounted, SaveVendorLogin
<1>5. begins' \subseteq begins /\ UNCHANGED <<now, engine, draft, login, outcome>>
  BY DEF BeginUnmounted, pageVars, userVars
<1>6. Shape(stored)' /\ Shape(login)'
  BY <1>4, <1>5 DEF Shape, FormInv
<1>7. \A w \in wires' : Sent(w)'
  BY <1>1, <1>5, OrphanWire DEF BeginUnmounted, Sent, FormInv
<1> QED
  BY <1>5, <1>6, <1>7 DEF FormInv, DraftIsWanted

\* No login and no form is touched; a request may go to its next venue or away.
LEMMA WiresKeepForm ==
    ASSUME IInv, FormInv, UNCHANGED <<now, engine, login, stored, begins, draft, outcome>>,
           \A w \in wires' : \E v \in wires :
               /\ w.live = v.live /\ w.engine = v.engine /\ w.req = v.req
               /\ w.what = v.what /\ w.tag = v.tag
    PROVE  FormInv'
<1>1. \A w \in wires' : Sent(w)'
  BY DEF FormInv, Sent
<1>2. Shape(login)' /\ Shape(stored)'
  BY DEF FormInv, Shape
<1> QED
  BY <1>1, <1>2 DEF FormInv, DraftIsWanted

LEMMA VendorReceivesKeepsForm ==
    ASSUME IInv, FormInv, NEW w \in wires, VendorReceives(w) PROVE FormInv'
<1> DEFINE x == [w EXCEPT !.arrived = TRUE]
<1>1. w \in Wires
  BY DEF IInv, TypeOK
<1>2. /\ x.live = w.live /\ x.engine = w.engine /\ x.req = w.req
      /\ x.what = w.what /\ x.tag = w.tag
  BY <1>1 DEF Wires
<1>3. wires' = (wires \ {w}) \cup {x}
  BY DEF VendorReceives
<1>4. UNCHANGED <<now, engine, login, stored, begins, draft, outcome>>
  BY DEF VendorReceives, pageVars, userVars
<1> HIDE DEF x
<1> QED
  BY <1>2, <1>3, <1>4, WiresKeepForm

LEMMA SettlesKeepsForm ==
    ASSUME LoginAssumption, IInv, IInv', FormInv, NEW w \in wires, Settles(w)
    PROVE  FormInv'
<1>1. /\ login \in Logins /\ w \in Wires /\ now \in Nat /\ Lifetime \in Nat
      /\ Shape(login) /\ Sent(w)
  BY DEF IInv, TypeOK, LoginAssumption, FormInv
<1>2. CASE WalkVenues(w)
  <2> DEFINE x == AtRelay(w)
  <2>1. /\ x.live = w.live /\ x.engine = w.engine /\ x.req = w.req
        /\ x.what = w.what /\ x.tag = w.tag
    BY <1>1 DEF AtRelay, Wires
  <2>2. wires' = (wires \ {w}) \cup {x}
    BY <1>2 DEF WalkVenues
  <2>3. UNCHANGED <<now, engine, login, stored, begins, draft, outcome>>
    BY <1>2 DEF WalkVenues, pageVars, userVars
  <2> HIDE DEF x
  <2> QED
    BY <2>1, <2>2, <2>3, WiresKeepForm
<1>3. CASE AnswerDropped(w)
  BY <1>3, WiresKeepForm DEF AnswerDropped, pageVars, userVars
<1>4. ASSUME NEW reading \in Readings(login.engine, login.phase), HttpOk(w, reading)
      PROVE  FormInv'
  <2>1. w.live /\ w.req # NoReq
    BY <1>1, <1>4 DEF HttpOk, Sent, NoReq
  <2>2. Active(login) => Moved(login, OnHttpOk(login, w, reading))
    BY <1>1, <2>1, OkMoves
  <2> QED
    BY <1>4, <2>2, EventKeepsForm DEF HttpOk
<1>5. CASE HttpFailed(w)
  <2>1. Active(login) => Moved(login, OnHttpFailed(login, w.req))
    BY <1>1, HttpFailedMoves
  <2> QED
    BY <1>5, <2>1, EventKeepsForm DEF HttpFailed
<1> QED
  BY <1>2, <1>3, <1>4, <1>5 DEF Settles

\* The invariant that DraftIsWanted is a part of.
THEOREM FormAlways == Spec => []FormInv
<1>1. LoginAssumption /\ Init => FormInv
  BY IdleIsLogin DEF Init, FormInv, Shape, DraftIsWanted
<1>2. IInv /\ IInv' /\ FormInv /\ [Next]_vars => FormInv'
  <2> SUFFICES ASSUME IInv, IInv', FormInv, [Next]_vars PROVE FormInv'
    OBVIOUS
  <2> USE LoginAssumption
  <2>1. /\ login \in Logins /\ now \in Nat /\ Shape(login)
        /\ \A w \in {Stopped(x) : x \in wires} : ~w.live
        /\ \A b \in {Stopped(x) : x \in begins} : ~b.live
    BY StoppedIsStopped DEF IInv, TypeOK, FormInv
  <2>2. CASE HandleStart
    <3>1. Shape(login)' /\ Shape(stored)' /\ UNCHANGED <<engine, draft, login, outcome>>
      BY <2>2 DEF HandleStart, pageVars, FormInv, Shape
    <3>2. \A w \in wires' : Sent(w)'
      BY <2>1, <2>2 DEF HandleStart, StopEffects, Sent
    <3>3. \A b \in begins' : b.live => b.engine = engine'
      BY <2>2, <3>1 DEF HandleStart, FormInv
    <3> QED
      BY <3>1, <3>2, <3>3 DEF FormInv, DraftIsWanted
  <2>3. ASSUME NEW b \in begins, BeginLogin(b) \/ BeginUnmounted(b) PROVE FormInv'
    BY <2>3, BeginKeepsForm, UnmountedKeepsForm
  <2>4. CASE HandleCancel
    <3>1. login' = Idle /\ stored' = Idle /\ UNCHANGED <<now, engine, draft, begins>>
      BY <2>4, IdleIsLogin DEF HandleCancel, StepLogin, SaveVendorLogin, pageVars
    <3>2. \A w \in wires' : Sent(w)'
      BY <2>1, <2>4 DEF HandleCancel, StopEffects, Sent
    <3>3. Shape(login)' /\ Shape(stored)' /\ ~Active(login')
      BY <3>1, IdleIsLogin DEF Shape
    <3>4. DraftIsWanted' /\ (draft' # NoDraft => draft'.tag \in Tags)
      <4>1. Active(login) => outcome[login.tag] = "open"
        BY DEF IInv, Fresh
      <4>2. outcome \in [Tags -> Outcomes]
        BY DEF IInv, TypeOK
      <4> QED
        BY <2>4, <3>1, <4>1, <4>2 DEF HandleCancel, FormInv, DraftIsWanted
    <3> QED
      BY <3>1, <3>2, <3>3, <3>4 DEF FormInv
  <2>5. ASSUME NEW paste \in Pastes, HandleSubmitCallback(paste) PROVE FormInv'
    <3>1. Active(login) => Moved(login, OnCallbackPasted(login, paste))
      BY <2>1, <2>5, PasteMoves DEF HandleSubmitCallback
    <3> QED
      BY <2>5, <3>1, EventKeepsForm DEF HandleSubmitCallback
  <2>6. ASSUME NEW w \in wires, VendorReceives(w) \/ Settles(w) PROVE FormInv'
    BY <2>6, SettlesKeepsForm, VendorReceivesKeepsForm
  <2>7. CASE TimerFires
    <3>1. Active(login) => Moved(login, OnTick(login))
      BY <2>1, TickMoves
    <3> QED
      BY <2>7, <3>1, EventKeepsForm DEF TimerFires
  <2>8. ASSUME NEW e \in Engines, SetEngine(e) PROVE FormInv'
    BY <2>1, <2>8, MountKeepsForm DEF SetEngine, Mount, StopEffects
  <2>9. CASE SubmitDraft \/ SaveFails
    <3>1. UNCHANGED <<now, engine, login, stored, begins, draft, outcome, wires>>
      BY <2>9 DEF SubmitDraft, SaveFails, userVars
    <3> QED
      BY <3>1, WiresKeepForm
  <2>10. CASE SaveSucceeds
    BY <2>1, <2>10, MountKeepsForm DEF SaveSucceeds, Mount, StopEffects
  <2>11. CASE Reload
    BY <2>11, MountKeepsForm DEF Reload
  <2>12. CASE Tick
    <3>1. /\ now' = now + 1
          /\ UNCHANGED <<engine, login, stored, begins, draft, outcome, wires>>
      BY <2>12 DEF Tick, pageVars, userVars
    <3>2. stored \in Logins /\ wires \subseteq Wires
      BY DEF IInv, TypeOK
    <3>3. Shape(login)' /\ Shape(stored)'
      BY <2>1, <3>1, <3>2 DEF FormInv, Shape, Logins
    <3>4. ASSUME NEW w \in wires PROVE Sent(w)'
      <4>1. w.req[1] \in Int /\ Sent(w)
        BY <3>2 DEF Wires, ReqIds, FormInv
      <4> QED
        BY <2>1, <3>1, <4>1 DEF Sent
    <3> QED
      BY <3>1, <3>3, <3>4 DEF FormInv, DraftIsWanted
  <2>13. CASE UNCHANGED vars
    <3>1. UNCHANGED <<now, engine, login, stored, begins, draft, outcome, wires>>
      BY <2>13 DEF vars, pageVars, userVars
    <3> QED
      BY <3>1, WiresKeepForm
  <2> QED
    BY <2>2, <2>3, <2>4, <2>5, <2>6, <2>7, <2>8, <2>9, <2>10, <2>11, <2>12, <2>13 DEF Next
<1> QED
  BY <1>1, <1>2, InvAlways, LoginAssumption, PTL DEF Spec

\* What stands in the form is the credential of a login that succeeded, for
\* the engine the form shows, whatever answers late.
THEOREM DraftIsWantedAlways == Spec => []DraftIsWanted
<1>1. FormInv => DraftIsWanted
  BY DEF FormInv
<1> QED
  BY <1>1, FormAlways, PTL

-----------------------------------------------------------------------------
(* A code at one venue, and how often the vendor has it *)

Spends(w) == w.what = "exchange"

\* A request that exchanges a code is counted, so that of a login that may
\* exchange once there is one.  The vendor has a code once from the venue the
\* request is at, and once more when the venue before went unread.
Counted(w) ==
    Spends(w) =>
        /\ exchanges[w.tag] >= 1
        /\ w.venue = "direct" => Classified(w.engine, w.what) # "single_use_form"
        /\ received[w.tag] <= (IF w.arrived THEN 1 ELSE 0)
                              + (IF w.venue = "relay" /\ w.tag \in unread THEN 1 ELSE 0)

SpentInv ==
    /\ OneVenueAtATime
    /\ \A w \in wires : Counted(w)
    /\ \A t \in Tags : exchanges[t] = 0 => received[t] = 0
    /\ CodeSpentOnce

\* A request starts at a venue its kind allows.
LEMMA FirstIsAllowed ==
    ASSUME NEW e, NEW what, FirstVenue(e, what) = "direct"
    PROVE  Classified(e, what) # "single_use_form"
BY DEF FirstVenue, TransportsFor

LEMMA ApplyKeepsSpent ==
    ASSUME IInv, IInv', SpentInv, NEW r, NEW under \in SUBSET wires, NEW left,
           ApplyLoginEvent(r, under, left), UNCHANGED vendorVars
    PROVE  SpentInv'
<1>1. PICK effect : RunEffects(r.state, effect, under, left)
  BY DEF ApplyLoginEvent
<1>2. /\ exchanges \in [Tags -> Nat] /\ exchanges' \in [Tags -> Nat]
      /\ wires \subseteq Wires /\ wires' \subseteq Wires
      /\ \A t \in Tags : exchanges'[t] <= 1
      /\ received' = received /\ unread' = unread
  BY DEF IInv, TypeOK, IssuedOnce, vendorVars
<1>3. CASE ~(effect.kind = "http" /\ effect.what = "exchange")
  <2>1. exchanges' = exchanges
    BY <1>1, <1>3 DEF RunEffects
  <2>2. \A w \in wires' : Spends(w) => w \in wires
    BY <1>1, <1>3 DEF RunEffects, NewWire, Spends
  <2>3. \A w \in wires' : Counted(w)'
    BY <1>2, <2>1, <2>2 DEF SpentInv, Counted
  <2> QED
    BY <1>2, <2>1, <2>2, <2>3 DEF SpentInv, OneVenueAtATime, CodeSpentOnce, Spends
<1>4. CASE effect.kind = "http" /\ effect.what = "exchange"
  <2> DEFINE new == NewWire(r.state, effect)
             tag == r.state.tag
  <2>1. /\ wires' = under \cup {new} /\ new.tag = tag /\ ~new.arrived
        /\ new.what = effect.what /\ new.engine = r.state.engine
        /\ new.venue = FirstVenue(r.state.engine, effect.what)
    BY <1>1, <1>4 DEF RunEffects, NewWire
  <2>2. tag \in Tags
    BY <1>2, <2>1 DEF Wires
  <2>3. exchanges' = [exchanges EXCEPT ![tag] = @ + 1]
    BY <1>1, <1>4 DEF RunEffects
  <2>4. /\ exchanges'[tag] = exchanges[tag] + 1
        /\ \A t \in Tags : exchanges'[t] >= exchanges[t]
    BY <1>2, <2>2, <2>3
  <2>5. exchanges[tag] = 0 /\ received[tag] = 0
    BY <1>2, <2>2, <2>4 DEF SpentInv
  <2>6. \A w \in wires : Spends(w) => w.tag # tag
    BY <2>5 DEF SpentInv, Counted
  <2> HIDE DEF new, tag
  <2>7. OneVenueAtATime'
    BY <2>1, <2>6 DEF SpentInv, OneVenueAtATime, Spends
  <2>8. ASSUME NEW w \in wires' PROVE Counted(w)'
    <3>1. CASE w = new
      <4>1. w.venue = "direct" => Classified(w.engine, w.what) # "single_use_form"
        BY <2>1, <3>1, FirstIsAllowed
      <4> QED
        BY <1>2, <2>1, <2>2, <2>4, <2>5, <3>1, <4>1 DEF Counted
    <3>2. CASE w \in wires
      <4>1. w.tag \in Tags /\ Counted(w)
        BY <3>2, <1>2 DEF SpentInv, Wires
      <4>2. exchanges[w.tag] >= 1 => exchanges'[w.tag] >= 1
        BY <1>2, <2>4, <4>1
      <4> QED
        BY <1>2, <4>1, <4>2 DEF Counted
    <3> QED
      BY <2>1, <3>1, <3>2
  <2>9. ASSUME NEW t \in Tags, exchanges'[t] = 0 PROVE received'[t] = 0
    <3>1. exchanges[t] = 0
      BY <1>2, <2>4, <2>9
    <3> QED
      BY <1>2, <3>1 DEF SpentInv
  <2>10. CodeSpentOnce'
    BY <1>2 DEF SpentInv, CodeSpentOnce
  <2> QED
    BY <2>7, <2>8, <2>9, <2>10 DEF SpentInv
<1> QED
  BY <1>3, <1>4

\* The vendor receives the request that a login has under way.
LEMMA VendorReceivesKeepsSpent ==
    ASSUME IInv, SpentInv, NEW w \in wires, VendorReceives(w) PROVE SpentInv'
<1> DEFINE x == [w EXCEPT !.arrived = TRUE]
<1>1. /\ wires \subseteq Wires /\ w \in Wires /\ w.tag \in Tags /\ received \in [Tags -> Nat]
      /\ exchanges \in [Tags -> Nat]
  BY DEF IInv, TypeOK, Wires
<1>2. /\ x.tag = w.tag /\ x.what = w.what /\ x.venue = w.venue /\ x.engine = w.engine
      /\ x.arrived
  BY <1>1 DEF Wires
<1>3. wires' = (wires \ {w}) \cup {x} /\ ~w.arrived /\ UNCHANGED <<exchanges, unread>>
  BY DEF VendorReceives, userVars
<1>4. received' = IF Spends(w) THEN [received EXCEPT ![w.tag] = @ + 1] ELSE received
  BY DEF VendorReceives, Spends
<1> HIDE DEF x
<1>5. OneVenueAtATime'
  BY <1>2, <1>3 DEF SpentInv, OneVenueAtATime
<1>6. \A v \in wires : Spends(v) /\ Spends(w) /\ v # w => v.tag # w.tag
  BY DEF SpentInv, OneVenueAtATime, Spends
<1>7. ASSUME NEW t \in Tags PROVE received'[t] = IF Spends(w) /\ t = w.tag THEN received[t] + 1
                                                 ELSE received[t]
  BY <1>1, <1>4
<1>8. Counted(x)'
  <2>1. Counted(w)
    BY DEF SpentInv
  <2> QED
    BY <1>1, <1>2, <1>3, <1>7, <2>1 DEF Counted, Spends
<1>9. ASSUME NEW v \in wires, v # w PROVE Counted(v)'
  <2>1. Counted(v) /\ v.tag \in Tags
    BY <1>1 DEF SpentInv, Wires
  <2>2. Spends(v) => received'[v.tag] = received[v.tag]
    BY <1>6, <1>7, <1>9, <2>1
  <2> QED
    BY <1>3, <2>1, <2>2 DEF Counted
<1>10. ASSUME NEW t \in Tags, exchanges'[t] = 0 PROVE received'[t] = 0
  <2>1. Spends(w) => exchanges[w.tag] >= 1
    BY DEF SpentInv, Counted
  <2> QED
    BY <1>1, <1>3, <1>7, <1>10, <2>1 DEF SpentInv
<1>11. ASSUME NEW t \in Tags PROVE received'[t] <= IF t \in unread' THEN 2 ELSE 1
  <2>1. received[t] <= IF t \in unread THEN 2 ELSE 1
    BY DEF SpentInv, CodeSpentOnce
  <2>2. CASE Spends(w) /\ t = w.tag
    <3>1. received[t] <= IF w.venue = "relay" /\ t \in unread THEN 1 ELSE 0
      BY <1>1, <1>3, <2>2 DEF SpentInv, Counted
    <3> QED
      BY <1>1, <1>3, <1>7, <2>2, <3>1
  <2> QED
    BY <1>3, <1>7, <2>1, <2>2
<1> QED
  BY <1>3, <1>5, <1>8, <1>9, <1>10, <1>11 DEF SpentInv, CodeSpentOnce

\* The next venue: what the vendor has of the code went unread.
LEMMA WalkKeepsSpent ==
    ASSUME IInv, SpentInv, NEW w \in wires, WalkVenues(w) PROVE SpentInv'
<1> DEFINE x == AtRelay(w)
<1>1. /\ wires \subseteq Wires /\ w \in Wires /\ w.tag \in Tags /\ received \in [Tags -> Nat]
      /\ unread \subseteq Tags
  BY DEF IInv, TypeOK, Wires
<1>2. /\ x.tag = w.tag /\ x.what = w.what /\ x.venue = "relay" /\ x.engine = w.engine
      /\ ~x.arrived
  BY <1>1 DEF AtRelay, Wires
<1>3. /\ wires' = (wires \ {w}) \cup {x} /\ w.venue = "direct"
      /\ UNCHANGED <<exchanges, received>>
  BY DEF WalkVenues, userVars
<1> HIDE DEF x
<1>4. OneVenueAtATime'
  BY <1>2, <1>3 DEF SpentInv, OneVenueAtATime
<1>5. unread \subseteq unread' /\ Counted(w)
  BY DEF WalkVenues, SpentInv
<1>6. Counted(x)'
  <2>1. Spends(w) /\ w.arrived => w.tag \in unread'
    BY <1>3, <1>5 DEF WalkVenues, Spends, Counted
  <2> QED
    BY <1>1, <1>2, <1>3, <1>5, <2>1 DEF Counted, Spends
<1>7. ASSUME NEW v \in wires, v # w PROVE Counted(v)'
  <2>1. Counted(v) /\ v.tag \in Tags /\ received[v.tag] \in Nat
    BY <1>1 DEF SpentInv, Wires
  <2>2. (v.tag \in unread) => (v.tag \in unread')
    BY <1>5
  <2> QED
    BY <1>3, <2>1, <2>2 DEF Counted
<1>8. CodeSpentOnce'
  <2> SUFFICES ASSUME NEW t \in Tags PROVE received[t] <= IF t \in unread' THEN 2 ELSE 1
    BY <1>3 DEF CodeSpentOnce
  <2>1. received[t] \in Nat /\ received[t] <= IF t \in unread THEN 2 ELSE 1
    BY <1>1 DEF SpentInv, CodeSpentOnce
  <2> QED
    BY <1>5, <2>1
<1> QED
  BY <1>3, <1>4, <1>6, <1>7, <1>8 DEF SpentInv

\* Requests are stopped or dropped, or one that spends no code is sent.
LEMMA OthersKeepSpent ==
    ASSUME IInv, SpentInv, UNCHANGED <<exchanges, received, unread>>,
           \/ \A w \in wires' : Spends(w) => w \in wires
           \/ wires' = {Stopped(w) : w \in wires}
    PROVE  SpentInv'
<1>1. wires \subseteq Wires
  BY DEF IInv, TypeOK
<1>2. CodeSpentOnce'
  BY DEF SpentInv, CodeSpentOnce
<1>3. CASE \A w \in wires' : Spends(w) => w \in wires
  <2>1. \A w \in wires' : Counted(w)'
    BY <1>3 DEF SpentInv, Counted
  <2> QED
    BY <1>2, <1>3, <2>1 DEF SpentInv, OneVenueAtATime, Spends
<1>4. CASE wires' = {Stopped(w) : w \in wires}
  <2>1. ASSUME NEW w \in wires
        PROVE  /\ Stopped(w).tag = w.tag /\ Stopped(w).what = w.what
               /\ Stopped(w).venue = w.venue /\ Stopped(w).engine = w.engine
               /\ Stopped(w).arrived = w.arrived
    BY <1>1 DEF Stopped, Wires
  <2>2. ASSUME NEW w \in wires PROVE Counted(Stopped(w))'
    <3>1. Counted(w)
      BY DEF SpentInv
    <3> QED
      BY <2>1, <3>1 DEF Counted, Spends
  <2>3. OneVenueAtATime'
    BY <1>4, <2>1 DEF SpentInv, OneVenueAtATime
  <2> QED
    BY <1>2, <1>4, <2>2, <2>3 DEF SpentInv
<1> QED
  BY <1>3, <1>4

\* The invariant of the two theorems about codes.
LEMMA SpentAlways == Spec => []SpentInv
<1>1. Init => SpentInv
  BY DEF Init, SpentInv, OneVenueAtATime, CodeSpentOnce
<1>2. IInv /\ IInv' /\ SpentInv /\ [Next]_vars => SpentInv'
  <2> SUFFICES ASSUME IInv, IInv', SpentInv, [Next]_vars PROVE SpentInv'
    OBVIOUS
  <2> USE DEF vendorVars
  <2>1. CASE HandleStart \/ HandleCancel
    BY <2>1, OthersKeepSpent DEF HandleStart, HandleCancel, StopEffects
  <2>2. ASSUME NEW b \in begins, BeginLogin(b) PROVE SpentInv'
    BY <2>2, ApplyKeepsSpent DEF BeginLogin
  <2>3. ASSUME NEW b \in begins, BeginUnmounted(b) PROVE SpentInv'
    <3>1. now \in Nat /\ b.tag \in Tags /\ b.engine \in OAUTH_ENGINES
      BY LoginAssumption DEF IInv, TypeOK, LoginAssumption
    <3>2. \A w \in wires' : Spends(w) => w \in wires
      BY <2>3, <3>1, OrphanWire DEF BeginUnmounted, Spends
    <3>3. UNCHANGED <<exchanges, received, unread>>
      BY <2>3 DEF BeginUnmounted, userVars
    <3> QED
      BY <3>2, <3>3, OthersKeepSpent
  <2>4. ASSUME NEW paste \in Pastes, HandleSubmitCallback(paste) PROVE SpentInv'
    BY <2>4, ApplyKeepsSpent DEF HandleSubmitCallback
  <2>5. ASSUME NEW w \in wires, VendorReceives(w) \/ Settles(w) PROVE SpentInv'
    <3>1. CASE VendorReceives(w)
      BY <3>1, VendorReceivesKeepsSpent
    <3>2. CASE WalkVenues(w)
      BY <3>2, WalkKeepsSpent
    <3>3. CASE AnswerDropped(w)
      BY <3>3, OthersKeepSpent DEF AnswerDropped, userVars
    <3>4. CASE HttpFailed(w) \/ \E reading \in Readings(login.engine, login.phase) :
                                   HttpOk(w, reading)
      <4>1. wires \ {w} \in SUBSET wires
        OBVIOUS
      <4> QED
        BY <3>4, <4>1, ApplyKeepsSpent DEF HttpFailed, HttpOk
    <3> QED
      BY <2>5, <3>1, <3>2, <3>3, <3>4 DEF Settles
  <2>6. CASE TimerFires
    BY <2>6, ApplyKeepsSpent DEF TimerFires
  <2>7. CASE (\E e \in Engines : SetEngine(e)) \/ SaveSucceeds
    BY <2>7, OthersKeepSpent DEF SetEngine, SaveSucceeds, Mount, StopEffects, userVars
  <2>8. CASE SubmitDraft \/ SaveFails \/ Reload \/ Tick
    BY <2>8, OthersKeepSpent DEF SubmitDraft, SaveFails, Reload, Tick, userVars
  <2>9. CASE UNCHANGED vars
    BY <2>9, OthersKeepSpent DEF vars, userVars
  <2> QED
    BY <2>1, <2>2, <2>3, <2>4, <2>5, <2>6, <2>7, <2>8, <2>9 DEF Next
<1> QED
  BY <1>1, <1>2, InvAlways, PTL DEF Spec

\* A code is with one venue at a time: a venue is tried when the one before
\* has given no answer, and nothing sends the code again.
THEOREM OneVenueAlways == Spec => []OneVenueAtATime
<1>1. SpentInv => OneVenueAtATime
  BY DEF SpentInv
<1> QED
  BY <1>1, SpentAlways, PTL

\* The vendor receives the code of a login once, and a second time only when it
\* received the browser's own request of a code that may be sent from there and
\* the answer was not read: no second paste, late answer, cancel, reload or
\* second start, mounted or not, sends it again.
THEOREM CodeSpentOnceAlways == Spec => []CodeSpentOnce
<1>1. SpentInv => CodeSpentOnce
  BY DEF SpentInv
<1> QED
  BY <1>1, SpentAlways, PTL

-----------------------------------------------------------------------------
(* A login that waits is driven *)

\* By the requests ws and the timer at.
DrivenBy(s, ws, at) ==
    \/ \E w \in ws : w.live /\ w.tag = s.tag /\ w.req = s.req
    \/ s.phase = "device_wait" /\ s.req = NoReq /\ at # Never /\ at >= s.pollAt

Waiting(s) == Active(s) /\ s.phase # "authorize"

\* When React runs an updater at once, the effect of a step drives the login
\* it leaves; a step without one must leave what drove it.
LEMMA ApplyKeepsDriven ==
    ASSUME IInv', NEW s \in Logins, NEW r, Moved(s, r),
           NEW under, NEW left,
           Stays(s, r) /\ Waiting(s) /\ effects = "run" => DrivenBy(s, under, left),
           ApplyLoginEvent(r, under, left)
    PROVE  LoginIsDriven'
<1> SUFFICES ASSUME effects' = "run" PROVE LoginIsDriven'
  BY DEF LoginIsDriven
<1>1. RunEffects(r.state, r.effect, under, left) /\ login' = r.state
  BY DEF ApplyLoginEvent, StepLogin
<1>2. Waiting(r.state) => DrivenBy(r.state, wires', timer')
  <2>1. CASE Stays(s, r)
    <3>1. wires' = under /\ timer' = left /\ r.state = s
      BY <1>1, <2>1 DEF RunEffects, Stays, NoEffect
    <3>2. effects = "run"
      BY <2>1 DEF ApplyLoginEvent, Stays
    <3> QED
      BY <2>1, <3>1, <3>2
  <2>2. CASE Fails(s, r) \/ Finishes(s, r)
    BY <2>2 DEF Fails, Finishes, Waiting, Active
  <2>3. CASE Sends(s, r)
    <3>1. r.effect.kind = "http" /\ r.effect.req = r.state.req
      BY <2>3 DEF Sends
    <3>2. NewWire(r.state, r.effect) \in wires'
      BY <1>1, <3>1 DEF RunEffects
    <3>3. /\ NewWire(r.state, r.effect).live
          /\ NewWire(r.state, r.effect).tag = r.state.tag
          /\ NewWire(r.state, r.effect).req = r.state.req
      BY <3>1 DEF NewWire
    <3> QED
      BY <3>2, <3>3 DEF DrivenBy
  <2>4. CASE Waits(s, r)
    <3>1. timer' = r.state.pollAt
      BY <1>1, <2>4 DEF RunEffects, Waits
    <3>2. r.state.pollAt > r.state.startedAt
      BY <2>4 DEF Waits, Onward, Shape
    <3>3. r.state.pollAt \in Int /\ r.state.startedAt \in Nat
      BY <1>1 DEF IInv, TypeOK, Logins
    <3>4. r.state.pollAt >= r.state.pollAt /\ r.state.pollAt # Never
      BY <3>2, <3>3 DEF Never
    <3> QED
      BY <2>4, <3>1, <3>4 DEF Waits, DrivenBy
  <2> QED
    BY <2>1, <2>2, <2>3, <2>4 DEF Moved
<1> QED
  BY <1>1, <1>2 DEF LoginIsDriven, Waiting, DrivenBy

\* An event of the login on screen.
LEMMA EventKeepsDriven ==
    ASSUME IInv, IInv', NEW r, Active(login) => Moved(login, r),
           NEW under, NEW left,
           Stays(login, r) /\ Waiting(login) /\ effects = "run" =>
               DrivenBy(login, under, left),
           ApplyLoginEvent(OnTimedEvent(login, r), under, left)
    PROVE  LoginIsDriven'
<1>1. login \in Logins
  BY DEF IInv, TypeOK
<1>2. CASE Active(login)
  <2>1. /\ Moved(login, OnTimedEvent(login, r))
        /\ Stays(login, OnTimedEvent(login, r)) => Stays(login, r)
    BY <1>1, <1>2, TimedMoves
  <2> QED
    BY <1>1, <2>1, ApplyKeepsDriven
<1>3. CASE ~Active(login)
  <2>1. login' = login
    BY <1>3 DEF ApplyLoginEvent, StepLogin, OnTimedEvent, Stay
  <2> QED
    BY <1>3, <2>1 DEF LoginIsDriven
<1> QED
  BY <1>2, <1>3

LEMMA SettlesKeepsDriven ==
    ASSUME LoginAssumption, IInv, IInv', FormInv, LoginIsDriven,
           NEW w \in wires, Settles(w)
    PROVE  LoginIsDriven'
<1>1. /\ login \in Logins /\ w \in Wires /\ now \in Nat /\ Lifetime \in Nat
      /\ Shape(login) /\ Sent(w)
  BY DEF IInv, TypeOK, LoginAssumption, FormInv
<1>2. ASSUME Waiting(login), effects = "run", login.req # w.req
      PROVE  DrivenBy(login, wires \ {w}, timer)
  BY <1>2 DEF LoginIsDriven, Waiting, DrivenBy
<1>3. CASE WalkVenues(w)
  <2> DEFINE x == AtRelay(w)
  <2>1. x.live = w.live /\ x.req = w.req /\ x.tag = w.tag
    BY <1>1 DEF AtRelay, Wires
  <2>2. wires' = (wires \ {w}) \cup {x}
    BY <1>3 DEF WalkVenues
  <2>3. UNCHANGED <<login, timer, effects>>
    BY <1>3 DEF WalkVenues, userVars
  <2> HIDE DEF x
  <2> QED
    BY <2>1, <2>2, <2>3 DEF LoginIsDriven
<1>4. CASE AnswerDropped(w)
  BY <1>4 DEF AnswerDropped, userVars, LoginIsDriven
<1>5. ASSUME NEW reading \in Readings(login.engine, login.phase), HttpOk(w, reading)
      PROVE  LoginIsDriven'
  <2>1. w.live /\ w.req # NoReq
    BY <1>1, <1>5 DEF HttpOk, Sent, NoReq
  <2>2. Active(login) =>
           /\ Moved(login, OnHttpOk(login, w, reading))
           /\ login.phase # "authorize" /\ login.req = w.req =>
                 ~Stays(login, OnHttpOk(login, w, reading))
    BY <1>1, <2>1, OkMoves
  <2>3. Stays(login, OnHttpOk(login, w, reading)) /\ Waiting(login) /\ effects = "run" =>
           DrivenBy(login, wires \ {w}, timer)
    BY <1>2, <2>2 DEF Waiting
  <2> QED
    BY <1>5, <2>2, <2>3, EventKeepsDriven DEF HttpOk
<1>6. CASE HttpFailed(w)
  <2>1. Active(login) =>
           /\ Moved(login, OnHttpFailed(login, w.req))
           /\ login.phase # "authorize" /\ login.req = w.req =>
                 ~Stays(login, OnHttpFailed(login, w.req))
    BY <1>1, HttpFailedMoves
  <2>2. Stays(login, OnHttpFailed(login, w.req)) /\ Waiting(login) /\ effects = "run" =>
           DrivenBy(login, wires \ {w}, timer)
    BY <1>2, <2>1 DEF Waiting
  <2> QED
    BY <1>6, <2>1, <2>2, EventKeepsDriven DEF HttpFailed
<1> QED
  BY <1>3, <1>4, <1>5, <1>6 DEF Settles

LEMMA VendorReceivesKeepsDriven ==
    ASSUME IInv, LoginIsDriven, NEW w \in wires, VendorReceives(w) PROVE LoginIsDriven'
<1> DEFINE x == [w EXCEPT !.arrived = TRUE]
<1>1. w \in Wires
  BY DEF IInv, TypeOK
<1>2. x.live = w.live /\ x.req = w.req /\ x.tag = w.tag
  BY <1>1 DEF Wires
<1>3. wires' = (wires \ {w}) \cup {x} /\ UNCHANGED <<login, timer, effects>>
  BY DEF VendorReceives, userVars
<1> HIDE DEF x
<1> QED
  BY <1>2, <1>3 DEF LoginIsDriven

\* The login there was when the block is mounted has not sent anything yet.
LEMMA MountIsDriven ==
    ASSUME NEW e, login' = ReadInitial(e) PROVE LoginIsDriven'
BY IdleIsLogin DEF ReadInitial, CanResume, LoginIsDriven

\* While a login waits for the vendor, the request it waits for is under way
\* or its next poll is scheduled, whatever is answered late, unless the last
\* effect there was is one that React's late updater lost.
THEOREM LoginIsDrivenAlways == Spec => []LoginIsDriven
<1>1. Init => LoginIsDriven
  BY IdleIsLogin DEF Init, LoginIsDriven
<1>2. IInv /\ IInv' /\ FormInv /\ LoginIsDriven /\ [Next]_vars => LoginIsDriven'
  <2> SUFFICES ASSUME IInv, IInv', FormInv, LoginIsDriven, [Next]_vars
               PROVE  LoginIsDriven'
    OBVIOUS
  <2> USE LoginAssumption
  <2>1. /\ login \in Logins /\ now \in Nat /\ timer \in Int /\ Shape(login)
        /\ Waiting(login) /\ effects = "run" => DrivenBy(login, wires, timer)
    BY DEF IInv, TypeOK, FormInv, LoginIsDriven, Waiting, DrivenBy
  <2>2. CASE HandleStart
    BY <2>2 DEF HandleStart, ViewOf, LoginIsDriven, Active
  <2>3. ASSUME NEW b \in begins, BeginLogin(b) PROVE LoginIsDriven'
    <3>1. b.tag \in Tags /\ b.engine \in OAUTH_ENGINES
      BY DEF IInv, TypeOK, LoginAssumption
    <3>2. PICK s \in Logins :
             /\ s.phase = "authorize"
             /\ \/ Stays(s, Start(b.engine, b.tag))
                \/ Sends(s, Start(b.engine, b.tag))
      BY <2>1, <3>1, StartMoves
    <3> QED
      BY <2>3, <3>2, ApplyKeepsDriven DEF BeginLogin, Moved, Waiting
  <2>4. ASSUME NEW b \in begins, BeginUnmounted(b) PROVE LoginIsDriven'
    BY <2>4 DEF BeginUnmounted, userVars, LoginIsDriven
  <2>5. CASE HandleCancel
    BY <2>5, IdleIsLogin DEF HandleCancel, StepLogin, LoginIsDriven
  <2>6. ASSUME NEW paste \in Pastes, HandleSubmitCallback(paste) PROVE LoginIsDriven'
    <3>1. Active(login) => Moved(login, OnCallbackPasted(login, paste))
      BY <2>1, <2>6, PasteMoves DEF HandleSubmitCallback
    <3> QED
      BY <2>1, <2>6, <3>1, EventKeepsDriven DEF HandleSubmitCallback
  <2>7. ASSUME NEW w \in wires, VendorReceives(w) \/ Settles(w) PROVE LoginIsDriven'
    BY <2>7, SettlesKeepsDriven, VendorReceivesKeepsDriven
  <2>8. CASE TimerFires
    <3>1. Active(login) =>
             /\ Moved(login, OnTick(login))
             /\ login.phase = "device_wait" /\ login.req = NoReq /\ now >= login.pollAt =>
                   ~Stays(login, OnTick(login))
      BY <2>1, TickMoves
    <3>2. now >= timer /\ login.pollAt \in Int
      BY <2>1, <2>8 DEF TimerFires, Logins
    <3>3. Stays(login, OnTick(login)) /\ Waiting(login) /\ effects = "run" =>
             DrivenBy(login, wires, Never)
      BY <2>1, <3>1, <3>2 DEF Waiting, DrivenBy
    <3> QED
      BY <2>8, <3>1, <3>3, EventKeepsDriven DEF TimerFires
  <2>9. CASE (\E e \in Engines : SetEngine(e)) \/ SaveSucceeds \/ Reload
    BY <2>9, MountIsDriven DEF SetEngine, SaveSucceeds, Mount, Reload
  <2>10. CASE SubmitDraft \/ SaveFails \/ Tick
    BY <2>10 DEF SubmitDraft, SaveFails, Tick, userVars, LoginIsDriven
  <2>11. CASE UNCHANGED vars
    BY <2>11 DEF vars, userVars, LoginIsDriven
  <2> QED
    BY <2>2, <2>3, <2>4, <2>5, <2>6, <2>7, <2>8, <2>9, <2>10, <2>11 DEF Next
<1> QED
  BY <1>1, <1>2, InvAlways, FormAlways, PTL DEF Spec
=============================================================================
