--------------------------- MODULE VaultRotation ---------------------------
(***************************************************************************)
(* The encryption key of one user: who has it, what is sealed under it.    *)
(*                                                                         *)
(* The key is minted in a browser tab and lives in that tab's              *)
(* sessionStorage.  Credentials are sealed under it into rows of           *)
(* vault_accounts (boxes), and the tab pushes it to the Home repo as an    *)
(* Actions secret.  The Worker never sees it: D1 only has an epoch that    *)
(* counts rotations, and per enabled repo the epoch it was synced at.      *)
(*                                                                         *)
(* A tab is a process: it loads the page, passes the vault gate (ceremony, *)
(* import or open) and makes one operation at a time; between the awaits   *)
(* of an operation other tabs run.  A tab may be reloaded or closed at     *)
(* every step; a closed tab that opens again is another browser.  The       *)
(* request it had sent is adrift then, and may still be served, late.      *)
(***************************************************************************)
EXTENDS Integers, SequencesExt

CONSTANTS
    Tabs,           \* browser tabs
    Keys,           \* what generateEncryptionKey may return
    Repos,          \* repositories the user may enable
    NoKey,          \* no key in sessionStorage, no sealed sample, no secret
    NoRow,          \* synced_epoch of a repo without a row; no repo to sync
    MaxBoxes        \* bound: rows of vault_accounts

ASSUME VaultAssumption ==
    /\ NoKey \notin Keys
    /\ NoRow \notin Nat \cup Repos
    /\ MaxBoxes \in Nat

VARIABLES
    boxes,          \* vault_accounts by created_at: the key each is sealed under
    epoch,          \* encryption_key_meta.epoch, 1 without a row
    synced,         \* enabled_repos.synced_epoch, NoRow for a repo not enabled
    homeSecret,     \* HAKASEBOT_ENCRYPTION_KEY of the Home repo
    key,            \* sessionStorage: the key of each tab
    acked,          \* sessionStorage: the ceremony was confirmed
    staged,         \* sessionStorage: the key a rotation has staged
    gate,           \* the gate of each tab: closed, loading, gating, or a VaultGate
    sample,         \* the sealed sample of its snapshot, by its key
    pc,             \* the next step of the operation each tab makes
    held,           \* the key that operation has loaded
    seen,           \* the epoch it has read
    listed,         \* the repos of its rotation preview
    target,         \* the repo its sync marks, NoRow for the Home alone
    adrift,         \* the request of a page that is gone, one at a time
    minted,         \* the keys generated so far
    saved,          \* the keys the user was shown and ticked as saved
    shared          \* two tabs have been open at the same time

storeVars   == <<boxes, epoch, synced, homeSecret>>
sessionVars == <<key, acked, staged>>
pageVars    == <<gate, sample>>
callVars    == <<held, seen, listed, target>>
otherVars   == <<adrift, minted, saved, shared>>
vars == <<storeVars, sessionVars, pageVars, pc, callVars, otherVars>>

-----------------------------------------------------------------------------
(* Values *)

Gates == {"closed", "loading", "gating", "ceremony", "import", "open"}
SyncSteps == {"put", "readEpoch", "mark", "markAgain"}
RotateSteps == {"confirm", "recheck", "wipe", "commit"}
Steps == {"idle", "save", "peeked"} \cup SyncSteps \cup RotateSteps

Key == Keys \cup {NoKey}

\* The calls that write, at the Worker or at GitHub; a preview, a read or a
\* commit ends with its page.
Served == {"save", "put", "mark", "markAgain", "recheck", "wipe"}

Calls == [step : Served \cup {"idle"}, held : Key, seen : Nat,
          listed : SUBSET Repos, target : Repos \cup {NoRow}]

NoCall == [step |-> "idle", held |-> NoKey, seen |-> 0, listed |-> {}, target |-> NoRow]

TypeOK ==
    /\ boxes \in Seq(Keys)
    /\ epoch \in Nat
    /\ synced \in [Repos -> Nat \cup {NoRow}]
    /\ homeSecret \in Key
    /\ key \in [Tabs -> Key]
    /\ acked \in [Tabs -> BOOLEAN]
    /\ staged \in [Tabs -> Key]
    /\ gate \in [Tabs -> Gates]
    /\ sample \in [Tabs -> Key]
    /\ pc \in [Tabs -> Steps]
    /\ held \in [Tabs -> Key]
    /\ seen \in [Tabs -> Nat]
    /\ listed \in [Tabs -> SUBSET Repos]
    /\ target \in [Tabs -> Repos \cup {NoRow}]
    /\ adrift \in Calls
    /\ minted \subseteq Keys
    /\ saved \subseteq Keys
    /\ shared \in BOOLEAN
    /\ \A t \in Tabs : acked[t] => key[t] \in Keys

Enabled == {r \in Repos : synced[r] # NoRow}

\* getFirstSealedAccount: the row with the least created_at.
FirstSealed == IF boxes = <<>> THEN NoKey ELSE Head(boxes)

\* repoNeedsResync, of an enabled repo.
NeedsResync(r) == synced[r] < epoch

Init ==
    /\ boxes = <<>>
    /\ epoch = 1
    /\ synced = [r \in Repos |-> NoRow]
    /\ homeSecret = NoKey
    /\ key = [t \in Tabs |-> NoKey]
    /\ acked = [t \in Tabs |-> FALSE]
    /\ staged = [t \in Tabs |-> NoKey]
    /\ gate = [t \in Tabs |-> "closed"]
    /\ sample = [t \in Tabs |-> NoKey]
    /\ pc = [t \in Tabs |-> "idle"]
    /\ held = [t \in Tabs |-> NoKey]
    /\ seen = [t \in Tabs |-> 0]
    /\ listed = [t \in Tabs |-> {}]
    /\ target = [t \in Tabs |-> NoRow]
    /\ adrift = NoCall
    /\ minted = {}
    /\ saved = {}
    /\ shared = FALSE

-----------------------------------------------------------------------------
(* The page and the vault gate *)

\* What an operation has loaded is gone when it ends.
ForgetCall(t) ==
    /\ pc' = [pc EXCEPT ![t] = "idle"]
    /\ held' = [held EXCEPT ![t] = NoKey]
    /\ seen' = [seen EXCEPT ![t] = 0]
    /\ listed' = [listed EXCEPT ![t] = {}]
    /\ target' = [target EXCEPT ![t] = NoRow]

\* The page is gone: its request is lost or, one at a time, adrift.
LeaveCall(t) ==
    /\ ForgetCall(t)
    /\ \/ UNCHANGED adrift
       \/ /\ adrift = NoCall
          /\ pc[t] \in Served
          /\ adrift' = [step |-> pc[t], held |-> held[t], seen |-> seen[t],
                        listed |-> listed[t], target |-> target[t]]

Show(t, g) == gate' = [gate EXCEPT ![t] = g]

OpenTab(t) ==
    /\ gate[t] = "closed"
    /\ Show(t, "loading")
    /\ shared' = (shared \/ \E u \in Tabs \ {t} : gate[u] # "closed")
    /\ UNCHANGED <<storeVars, sessionVars, sample, pc, callVars, adrift, minted, saved>>

\* The browser drops the sessionStorage of a tab with it.
CloseTab(t) ==
    /\ gate[t] # "closed"
    /\ Show(t, "closed")
    /\ key' = [key EXCEPT ![t] = NoKey]
    /\ acked' = [acked EXCEPT ![t] = FALSE]
    /\ staged' = [staged EXCEPT ![t] = NoKey]
    /\ sample' = [sample EXCEPT ![t] = NoKey]
    /\ LeaveCall(t)
    /\ UNCHANGED <<storeVars, minted, saved, shared>>

Reload(t) ==
    /\ gate[t] \notin {"closed", "loading"}
    /\ Show(t, "loading")
    /\ sample' = [sample EXCEPT ![t] = NoKey]
    /\ LeaveCall(t)
    /\ UNCHANGED <<storeVars, sessionVars, minted, saved, shared>>

\* vaultGateSnapshotFn.  Bound: a request still adrift is lost now; served any
\* later it would be that of a second tab, left open.
ReadGateSnapshot(t) ==
    /\ gate[t] = "loading"
    /\ sample' = [sample EXCEPT ![t] = FirstSealed]
    /\ Show(t, "gating")
    /\ adrift' = NoCall
    /\ UNCHANGED <<storeVars, sessionVars, pc, callVars, minted, saved, shared>>

\* resolveVaultGate, for the key of the session, which is minted when there is
\* none and no ciphertext.
VaultGate(k, ack, sealed) ==
    IF sealed # NoKey /\ k # sealed THEN "import"
    ELSE IF ack THEN "open" ELSE "ceremony"

\* prepareVaultGate: the keys the session may go on with.
SessionKey(t) ==
    IF sample[t] # NoKey \/ key[t] # NoKey THEN {key[t]} ELSE Keys \ minted

\* resolveClientGate
ResolveGate(t) ==
    /\ gate[t] = "gating"
    /\ \E k \in SessionKey(t) :
          /\ key' = [key EXCEPT ![t] = k]
          /\ Show(t, VaultGate(k, acked[t], sample[t]))
          /\ minted' = minted \cup ({k} \ {NoKey})
    /\ UNCHANGED <<storeVars, acked, staged, sample, pc, callVars, adrift, saved, shared>>

\* CeremonyView: the key is shown, the user ticks that it is saved.
ConfirmCeremony(t) ==
    /\ gate[t] = "ceremony"
    /\ pc[t] = "idle"
    /\ acked' = [acked EXCEPT ![t] = TRUE]
    /\ saved' = saved \cup {key[t]}
    /\ Show(t, "open")
    /\ UNCHANGED <<storeVars, key, staged, sample, pc, callVars, adrift, minted, shared>>

\* A variant that takes any pasted key.
UnlockUnchecked(t) ==
    /\ gate[t] = "import"
    /\ pc[t] = "idle"
    /\ \E k \in saved :
          /\ sample[t] # NoKey
          /\ key' = [key EXCEPT ![t] = k]
    /\ acked' = [acked EXCEPT ![t] = TRUE]
    /\ Show(t, "open")
    /\ UNCHANGED <<storeVars, staged, sample, pc, callVars, otherVars>>

\* ImportView: a key the user has saved opens the sample of the snapshot.
Unlock(t) ==
    /\ gate[t] = "import"
    /\ pc[t] = "idle"
    /\ \E k \in saved :
          /\ k = sample[t]
          /\ key' = [key EXCEPT ![t] = k]
    /\ acked' = [acked EXCEPT ![t] = TRUE]
    /\ Show(t, "open")
    /\ UNCHANGED <<storeVars, staged, sample, pc, callVars, otherVars>>

Page(t) ==
    \/ OpenTab(t) \/ CloseTab(t) \/ Reload(t)
    \/ ReadGateSnapshot(t) \/ ResolveGate(t) \/ ConfirmCeremony(t) \/ Unlock(t)

-----------------------------------------------------------------------------
(* The Dashboard: accounts, enabled repos and the push of the key *)

Ready(t) == gate[t] = "open" /\ pc[t] = "idle"

Goto(t, step) == pc' = [pc EXCEPT ![t] = step]

\* encryptCredential under the key of the session.
SealAccount(t) ==
    /\ Ready(t)
    /\ key[t] # NoKey
    /\ held' = [held EXCEPT ![t] = key[t]]
    /\ Goto(t, "save")
    /\ UNCHANGED <<storeVars, sessionVars, pageVars, seen, listed, target, otherVars>>

\* saveVaultAccountFn
SaveAccount(t) ==
    /\ pc[t] = "save"
    /\ Len(boxes) < MaxBoxes
    /\ boxes' = Append(boxes, held[t])
    /\ ForgetCall(t)
    /\ UNCHANGED <<epoch, synced, homeSecret, sessionVars, pageVars, otherVars>>

DeleteAccount(t) ==
    /\ Ready(t)
    /\ \E i \in DOMAIN boxes : boxes' = RemoveAt(boxes, i)
    /\ UNCHANGED <<epoch, synced, homeSecret, sessionVars, pageVars, pc, callVars, otherVars>>

\* A row that is there already stays as it is.
EnableRepo(t, r) ==
    /\ Ready(t)
    /\ synced[r] = NoRow
    /\ synced' = [synced EXCEPT ![r] = 0]
    /\ UNCHANGED <<boxes, epoch, homeSecret, sessionVars, pageVars, pc, callVars, otherVars>>

DisableRepo(t, r) ==
    /\ Ready(t)
    /\ synced[r] # NoRow
    /\ synced' = [synced EXCEPT ![r] = NoRow]
    /\ UNCHANGED <<boxes, epoch, homeSecret, sessionVars, pageVars, pc, callVars, otherVars>>

\* pushRepoVaultSecretsFromBrowser for an enabled repo,
\* pushHomeVaultSecretsFromBrowser for the Home alone.
PushVaultSecrets(t) ==
    /\ Ready(t)
    /\ key[t] # NoKey
    /\ \E r \in Enabled \cup {NoRow} : target' = [target EXCEPT ![t] = r]
    /\ held' = [held EXCEPT ![t] = key[t]]
    /\ Goto(t, "put")
    /\ UNCHANGED <<storeVars, sessionVars, pageVars, seen, listed, otherVars>>

\* syncVaultSecretsFromBrowser
PutSecret(t) ==
    /\ pc[t] = "put"
    /\ homeSecret' = held[t]
    /\ Goto(t, "readEpoch")
    /\ UNCHANGED <<boxes, epoch, synced, sessionVars, pageVars, callVars, otherVars>>

ReadVaultEpoch(t) ==
    /\ pc[t] = "readEpoch"
    /\ seen' = [seen EXCEPT ![t] = epoch]
    /\ Goto(t, "mark")
    /\ UNCHANGED <<storeVars, sessionVars, pageVars, held, listed, target, otherVars>>

\* UPDATE enabled_repos SET synced_epoch
WriteSyncedEpoch(r, n) ==
    synced' = IF r \in Enabled THEN [synced EXCEPT ![r] = n] ELSE synced

\* markRepoSynced, which stops when there is no row, and markHomeSynced, whose
\* epoch nobody reads.
MarkSynced(t) ==
    /\ pc[t] = "mark"
    /\ WriteSyncedEpoch(target[t], seen[t])
    /\ IF target[t] \in Enabled
       THEN Goto(t, "markAgain") /\ UNCHANGED callVars
       ELSE ForgetCall(t)
    /\ UNCHANGED <<boxes, epoch, homeSecret, sessionVars, pageVars, otherVars>>

\* The Worker writes the epoch once more after the timestamps of the Home.
MarkAgain(t) ==
    /\ pc[t] = "markAgain"
    /\ WriteSyncedEpoch(target[t], seen[t])
    /\ ForgetCall(t)
    /\ UNCHANGED <<boxes, epoch, homeSecret, sessionVars, pageVars, otherVars>>

\* A call fails and the operation stops with an error.
CallFails(t) ==
    /\ pc[t] \in {"save"} \cup SyncSteps
    /\ ForgetCall(t)
    /\ UNCHANGED <<storeVars, sessionVars, pageVars, otherVars>>

Dashboard(t) ==
    \/ SealAccount(t) \/ SaveAccount(t) \/ DeleteAccount(t)
    \/ \E r \in Repos : EnableRepo(t, r) \/ DisableRepo(t, r)
    \/ PushVaultSecrets(t) \/ PutSecret(t) \/ ReadVaultEpoch(t) \/ MarkSynced(t)
    \/ MarkAgain(t) \/ CallFails(t)

-----------------------------------------------------------------------------
(* The rotation *)

\* previewRotateFn; the panel is on the import view and in the settings.
PreviewRotate(t) ==
    /\ gate[t] \in {"import", "open"}
    /\ pc[t] = "idle"
    /\ listed' = [listed EXCEPT ![t] = Enabled]
    /\ Goto(t, "peeked")
    /\ UNCHANGED <<storeVars, sessionVars, pageVars, held, seen, target, otherVars>>

CancelPreview(t) ==
    /\ pc[t] = "peeked"
    /\ ForgetCall(t)
    /\ UNCHANGED <<storeVars, sessionVars, pageVars, otherVars>>

\* stageEncryptionKeyForRotate
StageKey(t) ==
    /\ pc[t] = "peeked"
    /\ \E k \in Keys \ minted :
          /\ staged' = [staged EXCEPT ![t] = k]
          /\ minted' = minted \cup {k}
    /\ Goto(t, "confirm")
    /\ UNCHANGED <<storeVars, key, acked, pageVars, callVars, adrift, saved, shared>>

\* confirmRotateFn
ConfirmRotate(t) ==
    /\ pc[t] = "confirm"
    /\ listed[t] = Enabled
    /\ Goto(t, "recheck")
    /\ UNCHANGED <<storeVars, sessionVars, pageVars, callVars, otherVars>>

\* rotateVaultFn compares the list again and reads the epoch ...
RecheckAndReadEpoch(t) ==
    /\ pc[t] = "recheck"
    /\ listed[t] = Enabled
    /\ seen' = [seen EXCEPT ![t] = epoch]
    /\ Goto(t, "wipe")
    /\ UNCHANGED <<storeVars, sessionVars, pageVars, held, listed, target, otherVars>>

\* A variant that leaves the epoch as it was.
WipeInSameEpoch(t) ==
    /\ pc[t] = "wipe"
    /\ boxes' = <<>>
    /\ epoch' = seen[t]
    /\ Goto(t, "commit")
    /\ UNCHANGED <<synced, homeSecret, sessionVars, pageVars, callVars, otherVars>>

\* ... and then deletes the accounts and writes the next epoch in one batch.
RotateVault(t) ==
    /\ pc[t] = "wipe"
    /\ boxes' = <<>>
    /\ epoch' = seen[t] + 1
    /\ Goto(t, "commit")
    /\ UNCHANGED <<synced, homeSecret, sessionVars, pageVars, callVars, otherVars>>

\* A variant that keeps the confirmation of the key before.
CommitWithAck(t) ==
    /\ pc[t] = "commit"
    /\ key' = [key EXCEPT ![t] = staged[t]]
    /\ staged' = [staged EXCEPT ![t] = NoKey]
    /\ Show(t, "loading")
    /\ sample' = [sample EXCEPT ![t] = NoKey]
    /\ ForgetCall(t)
    /\ UNCHANGED <<storeVars, acked, otherVars>>

\* commitStagedEncryptionKey, and the page reloads.
CommitStagedKey(t) ==
    /\ pc[t] = "commit"
    /\ key' = [key EXCEPT ![t] = staged[t]]
    /\ acked' = [acked EXCEPT ![t] = FALSE]
    /\ staged' = [staged EXCEPT ![t] = NoKey]
    /\ Show(t, "loading")
    /\ sample' = [sample EXCEPT ![t] = NoKey]
    /\ ForgetCall(t)
    /\ UNCHANGED <<storeVars, otherVars>>

\* A call fails or its answer is lost: the staged key is discarded, even when
\* the vault has been wiped.  The preview stays.
DiscardStagedKey(t) ==
    /\ pc[t] \in RotateSteps
    /\ staged' = [staged EXCEPT ![t] = NoKey]
    /\ seen' = [seen EXCEPT ![t] = 0]
    /\ Goto(t, "peeked")
    /\ UNCHANGED <<storeVars, key, acked, pageVars, held, listed, target, otherVars>>

Rotate(t) ==
    \/ PreviewRotate(t) \/ CancelPreview(t) \/ StageKey(t)
    \/ ConfirmRotate(t) \/ RecheckAndReadEpoch(t) \/ RotateVault(t)
    \/ CommitStagedKey(t) \/ DiscardStagedKey(t)

-----------------------------------------------------------------------------
(* A request whose page is gone *)

LateSave ==
    /\ adrift.step = "save"
    /\ Len(boxes) < MaxBoxes
    /\ boxes' = Append(boxes, adrift.held)
    /\ adrift' = NoCall
    /\ UNCHANGED <<epoch, synced, homeSecret>>

\* Nobody is there to mark what was pushed.
LatePut ==
    /\ adrift.step = "put"
    /\ homeSecret' = adrift.held
    /\ adrift' = NoCall
    /\ UNCHANGED <<boxes, epoch, synced>>

\* rotateVaultFn: the list and the epoch, then the batch.
LateRecheck ==
    /\ adrift.step = "recheck"
    /\ adrift.listed = Enabled
    /\ adrift' = [adrift EXCEPT !.seen = epoch, !.step = "wipe"]
    /\ UNCHANGED storeVars

LateWipe ==
    /\ adrift.step = "wipe"
    /\ boxes' = <<>>
    /\ epoch' = adrift.seen + 1
    /\ adrift' = NoCall
    /\ UNCHANGED <<synced, homeSecret>>

LateMark ==
    /\ adrift.step \in {"mark", "markAgain"}
    /\ WriteSyncedEpoch(adrift.target, adrift.seen)
    /\ adrift' = IF adrift.step = "mark" /\ adrift.target \in Enabled
                 THEN [adrift EXCEPT !.step = "markAgain"]
                 ELSE NoCall
    /\ UNCHANGED <<boxes, epoch, homeSecret>>

\* It fails, or gets lost after all.
LateFails ==
    /\ adrift # NoCall
    /\ adrift' = NoCall
    /\ UNCHANGED storeVars

LateCall ==
    /\ LateSave \/ LatePut \/ LateRecheck \/ LateWipe \/ LateMark \/ LateFails
    /\ UNCHANGED <<sessionVars, pageVars, pc, callVars, minted, saved, shared>>

Next ==
    \/ \E t \in Tabs : Page(t) \/ Dashboard(t) \/ Rotate(t)
    \/ LateCall

Spec == Init /\ [][Next]_vars

-----------------------------------------------------------------------------
(* Properties *)

SealedUnder(k) == \A i \in DOMAIN boxes : boxes[i] = k

\* Nothing is sealed under a key, and no key is pushed to the Home, before the
\* user was shown it and ticked that it is saved: the gate stands before every
\* use, and a rotation leads back to it.
UsedKeysAreSaved ==
    /\ \A i \in DOMAIN boxes : boxes[i] \in saved
    /\ homeSecret \in saved \cup {NoKey}

\* A user with one tab at a time has one key: all accounts are sealed under it,
\* across rotations that fail half way, reloads, new browsers and requests that
\* are served after their page is gone.
OneVaultKey ==
    ~shared => \A i, j \in DOMAIN boxes : boxes[i] = boxes[j]

\* The accounts are deleted for a page that waits, or for one that is gone.
Wipes ==
    \/ \E t \in Tabs : pc[t] = "wipe" /\ pc'[t] = "commit"
    \/ adrift.step = "wipe" /\ boxes' = <<>> /\ boxes # <<>>

\* With one tab at a time, no repo counts as synced right after a
\* rotation, whether or not its page is still there.
RotationMarksStale ==
    [][~shared /\ Wipes => \A r \in Enabled : NeedsResync(r)']_vars
=============================================================================
