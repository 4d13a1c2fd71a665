------------------------ MODULE VaultRotationProofs ------------------------
(***************************************************************************)
(* Theorems about VaultRotation, for every number of tabs, keys, repos and *)
(* accounts.                                                               *)
(***************************************************************************)
EXTENDS VaultRotation, SequenceTheorems, TLAPS

USE DEF Show, Goto, ForgetCall, Ready, Key, Gates, Steps, SyncSteps, RotateSteps,
        storeVars, sessionVars, pageVars, callVars, otherVars

-----------------------------------------------------------------------------
(* Type correctness, and the keys that are used *)

\* A tab in the ceremony has a key to show.
CeremonyHasKey == \A t \in Tabs : gate[t] = "ceremony" => key[t] \in Keys

\* A tab that was let in has a saved key, and so has every call it has begun.
LetInWithSavedKey ==
    \A t \in Tabs :
        /\ (acked[t] \/ gate[t] = "open") => key[t] \in saved
        /\ pc[t] \in {"save", "put"} => held[t] \in saved

\* And so has a request whose page is gone.
LateWithSavedKey == adrift.step \in {"save", "put"} => adrift.held \in saved

SavedInv == TypeOK /\ CeremonyHasKey /\ LetInWithSavedKey /\ LateWithSavedKey
            /\ UsedKeysAreSaved

\* Rows appended and removed.
LEMMA AppendedBoxes ==
    ASSUME boxes \in Seq(Keys), NEW k \in Keys
    PROVE  /\ Append(boxes, k) \in Seq(Keys)
           /\ \A i \in DOMAIN Append(boxes, k) :
                 \/ i \in DOMAIN boxes /\ Append(boxes, k)[i] = boxes[i]
                 \/ Append(boxes, k)[i] = k
OBVIOUS

LEMMA RemovedBoxes ==
    ASSUME boxes \in Seq(Keys), NEW n \in DOMAIN boxes
    PROVE  /\ RemoveAt(boxes, n) \in Seq(Keys)
           /\ \A i \in DOMAIN RemoveAt(boxes, n) :
                 \E j \in DOMAIN boxes : RemoveAt(boxes, n)[i] = boxes[j]
<1> DEFINE a == SubSeq(boxes, 1, n - 1)
           b == SubSeq(boxes, n + 1, Len(boxes))
           c == a \o b
<1>1. n \in 1..Len(boxes) /\ Len(boxes) \in Nat
  OBVIOUS
<1>2. a \in Seq(Keys) /\ Len(a) = n - 1 /\ \A i \in 1..Len(a) : a[i] = boxes[i]
  BY <1>1
<1>3. /\ b \in Seq(Keys) /\ Len(b) = Len(boxes) - n
      /\ \A i \in 1..Len(b) : b[i] = boxes[n + i]
  BY <1>1
<1>4. RemoveAt(boxes, n) = c
  BY DEF RemoveAt
<1> HIDE DEF a, b
<1>5. /\ c \in Seq(Keys) /\ Len(c) = Len(a) + Len(b)
      /\ \A i \in 1..(Len(a) + Len(b)) :
            c[i] = IF i <= Len(a) THEN a[i] ELSE b[i - Len(a)]
  BY <1>2, <1>3, ConcatProperties
<1> HIDE DEF c
<1>6. ASSUME NEW i \in 1..Len(c)
      PROVE  \E j \in 1..Len(boxes) : c[i] = boxes[j]
  <2>1. i \in Int /\ Len(a) \in Int /\ Len(b) \in Int
    BY <1>1, <1>2, <1>3, <1>5
  <2>2. CASE i <= Len(a)
    <3>1. i \in 1..Len(a)
      BY <2>1, <2>2
    <3>2. c[i] = a[i]
      BY <1>5, <2>2
    <3>3. a[i] = boxes[i]
      BY <1>2, <3>1
    <3>4. i \in 1..Len(boxes)
      BY <1>1, <1>2, <2>1, <3>1
    <3> QED
      BY <3>2, <3>3, <3>4
  <2>3. CASE i > Len(a)
    <3>1. c[i] = b[i - Len(a)] /\ i - Len(a) \in 1..Len(b)
      BY <1>5, <2>1, <2>3
    <3>2. n + (i - Len(a)) \in 1..Len(boxes)
      <4>1. n \in Int /\ n >= 1 /\ Len(boxes) \in Int /\ Len(b) = Len(boxes) - n
        BY <1>1, <1>3
      <4>2. i - Len(a) \in Int /\ i - Len(a) >= 1 /\ i - Len(a) <= Len(b)
        BY <2>1, <3>1
      <4> QED
        BY <4>1, <4>2
    <3>3. b[i - Len(a)] = boxes[n + (i - Len(a))]
      BY <1>3, <3>1
    <3> QED
      BY <3>1, <3>2, <3>3
  <2> QED
    BY <2>1, <2>2, <2>3
<1> QED
  BY <1>1, <1>4, <1>5, <1>6

USE VaultAssumption DEF SavedInv, TypeOK, CeremonyHasKey, LetInWithSavedKey, LateWithSavedKey,
                        UsedKeysAreSaved

LEMMA NoCallIsCall == NoCall \in Calls /\ NoCall.step = "idle"
  BY DEF NoCall, Calls

\* A request that goes adrift was begun by a page that was let in.
LEMMA LeaveCallSaved ==
    ASSUME SavedInv, NEW t \in Tabs, LeaveCall(t), saved' = saved
    PROVE  adrift' \in Calls /\ LateWithSavedKey'
  BY DEF LeaveCall, Calls, Served

\* The pages and the gate use no key, and let only a saved one in.
LEMMA SavedPage ==
    ASSUME SavedInv, NEW t \in Tabs, Page(t)
    PROVE  SavedInv'
<1>1. CASE OpenTab(t) \/ CloseTab(t) \/ Reload(t)
  <2>1. CASE OpenTab(t)
    BY <2>1 DEF OpenTab
  <2>2. CASE CloseTab(t)
    BY <2>2, LeaveCallSaved DEF CloseTab, LeaveCall
  <2>3. CASE Reload(t)
    BY <2>3, LeaveCallSaved DEF Reload, LeaveCall
  <2> QED
    BY <1>1, <2>1, <2>2, <2>3
<1>2. CASE ReadGateSnapshot(t)
  <2>1. FirstSealed \in Key
    BY DEF FirstSealed
  <2> QED
    BY <1>2, <2>1, NoCallIsCall DEF ReadGateSnapshot
<1>3. CASE ResolveGate(t)
  <2>1. PICK k \in SessionKey(t) :
          /\ key' = [key EXCEPT ![t] = k]
          /\ gate' = [gate EXCEPT ![t] = VaultGate(k, acked[t], sample[t])]
          /\ minted' = minted \cup ({k} \ {NoKey})
    BY <1>3 DEF ResolveGate
  <2>2. k \in Key /\ (acked[t] => k = key[t])
    BY <2>1 DEF SessionKey
  <2>3. /\ VaultGate(k, acked[t], sample[t]) \in {"import", "open", "ceremony"}
        /\ VaultGate(k, acked[t], sample[t]) = "open" => acked[t]
        /\ VaultGate(k, acked[t], sample[t]) = "ceremony" => k \in Keys
    BY <2>1, <2>2 DEF VaultGate, SessionKey
  <2>4. gate' \in [Tabs -> Gates] /\ key' \in [Tabs -> Key] /\ minted' \subseteq Keys
    BY <2>1, <2>2, <2>3
  <2> QED
    BY <1>3, <2>1, <2>2, <2>3, <2>4 DEF ResolveGate
<1>4. CASE ConfirmCeremony(t)
  BY <1>4 DEF ConfirmCeremony
<1>5. CASE Unlock(t)
  BY <1>5 DEF Unlock
<1> QED
  BY <1>1, <1>2, <1>3, <1>4, <1>5 DEF Page

\* The Dashboard seals and pushes the key the tab was let in with.
LEMMA SavedDashboard ==
    ASSUME SavedInv, NEW t \in Tabs, Dashboard(t)
    PROVE  SavedInv'
<1>1. CASE SealAccount(t) \/ PutSecret(t) \/ ReadVaultEpoch(t) \/ CallFails(t)
  <2>1. CASE SealAccount(t)
    BY <2>1 DEF SealAccount
  <2>2. CASE PutSecret(t)
    BY <2>2 DEF PutSecret
  <2>3. CASE ReadVaultEpoch(t)
    BY <2>3 DEF ReadVaultEpoch
  <2>4. CASE CallFails(t)
    BY <2>4 DEF CallFails
  <2> QED
    BY <1>1, <2>1, <2>2, <2>3, <2>4
<1>2. CASE SaveAccount(t)
  <2>1. held[t] \in saved /\ held[t] \in Keys
    BY <1>2 DEF SaveAccount
  <2> QED
    BY <1>2, <2>1, AppendedBoxes DEF SaveAccount
<1>3. CASE DeleteAccount(t)
  BY <1>3, RemovedBoxes DEF DeleteAccount
<1>4. CASE \E r \in Repos : EnableRepo(t, r) \/ DisableRepo(t, r)
  <2>1. PICK r \in Repos : EnableRepo(t, r) \/ DisableRepo(t, r)
    BY <1>4
  <2>2. CASE EnableRepo(t, r)
    BY <2>2 DEF EnableRepo
  <2>3. CASE DisableRepo(t, r)
    BY <2>3 DEF DisableRepo
  <2> QED
    BY <2>1, <2>2, <2>3
<1>5. CASE PushVaultSecrets(t)
  <2>1. target' \in [Tabs -> Repos \cup {NoRow}]
    BY <1>5 DEF PushVaultSecrets, Enabled
  <2> QED
    BY <1>5, <2>1 DEF PushVaultSecrets
<1>6. CASE MarkSynced(t) \/ MarkAgain(t)
  <2>1. synced' \in [Repos -> Nat \cup {NoRow}]
    BY <1>6 DEF MarkSynced, MarkAgain, WriteSyncedEpoch, Enabled
  <2>2. CASE MarkSynced(t) /\ target[t] \in Enabled
    BY <2>1, <2>2 DEF MarkSynced
  <2>3. CASE MarkSynced(t) /\ target[t] \notin Enabled
    <3>1. ForgetCall(t)
      BY <2>3 DEF MarkSynced
    <3>2. TypeOK'
      BY <2>1, <2>3, <3>1 DEF MarkSynced
    <3>3. CeremonyHasKey' /\ LetInWithSavedKey' /\ LateWithSavedKey' /\ UsedKeysAreSaved'
      BY <2>3, <3>1 DEF MarkSynced
    <3> QED
      BY <3>2, <3>3
  <2>4. CASE MarkAgain(t)
    BY <2>1, <2>4 DEF MarkAgain
  <2> QED
    BY <1>6, <2>2, <2>3, <2>4
<1> QED
  BY <1>1, <1>2, <1>3, <1>4, <1>5, <1>6 DEF Dashboard

\* A rotation takes the confirmation away with the key.
LEMMA SavedRotate ==
    ASSUME SavedInv, NEW t \in Tabs, Rotate(t)
    PROVE  SavedInv'
<1>1. CASE PreviewRotate(t)
  <2>1. Enabled \in SUBSET Repos
    BY DEF Enabled
  <2> QED
    BY <1>1, <2>1 DEF PreviewRotate
<1>2. CASE CancelPreview(t) \/ ConfirmRotate(t) \/ DiscardStagedKey(t)
  <2>1. CASE CancelPreview(t)
    BY <2>1 DEF CancelPreview
  <2>2. CASE ConfirmRotate(t)
    BY <2>2 DEF ConfirmRotate
  <2>3. CASE DiscardStagedKey(t)
    BY <2>3 DEF DiscardStagedKey
  <2> QED
    BY <1>2, <2>1, <2>2, <2>3
<1>3. CASE StageKey(t)
  BY <1>3 DEF StageKey
<1>4. CASE RecheckAndReadEpoch(t)
  BY <1>4 DEF RecheckAndReadEpoch
<1>5. CASE RotateVault(t)
  BY <1>5 DEF RotateVault
<1>6. CASE CommitStagedKey(t)
  BY <1>6 DEF CommitStagedKey
<1> QED
  BY <1>1, <1>2, <1>3, <1>4, <1>5, <1>6 DEF Rotate

\* A request whose page is gone uses the key it was sent with.
LEMMA SavedLate ==
    ASSUME SavedInv, LateCall
    PROVE  SavedInv'
<1>0. adrift \in Calls /\ UNCHANGED <<sessionVars, pageVars, pc, callVars, minted, saved, shared>>
  BY DEF LateCall
<1>1. /\ adrift.step \in Served \cup {"idle"} /\ adrift.held \in Key /\ adrift.seen \in Nat
      /\ adrift.target \in Repos \cup {NoRow} /\ adrift.listed \in SUBSET Repos
  BY <1>0 DEF Calls
<1>2. CASE LateSave
  <2>1. adrift.held \in saved /\ adrift.held \in Keys
    BY <1>2 DEF LateSave
  <2> QED
    BY <1>0, <1>2, <2>1, AppendedBoxes, NoCallIsCall DEF LateSave
<1>3. CASE LatePut
  BY <1>0, <1>1, <1>3, NoCallIsCall DEF LatePut
<1>4. CASE LateRecheck
  <2>1. adrift' \in Calls /\ adrift'.step = "wipe"
    BY <1>0, <1>1, <1>4 DEF LateRecheck, Calls, Served
  <2> QED
    BY <1>0, <1>4, <2>1 DEF LateRecheck
<1>5. CASE LateWipe
  BY <1>0, <1>1, <1>5, NoCallIsCall DEF LateWipe
<1>6. CASE LateMark
  <2>1. synced' \in [Repos -> Nat \cup {NoRow}]
    BY <1>1, <1>6 DEF LateMark, WriteSyncedEpoch, Enabled
  <2>2. adrift' \in Calls /\ adrift'.step \in {"markAgain", "idle"}
    BY <1>0, <1>1, <1>6, NoCallIsCall DEF LateMark, Calls, Served
  <2> QED
    BY <1>0, <1>6, <2>1, <2>2 DEF LateMark
<1>7. CASE LateFails
  BY <1>0, <1>7, NoCallIsCall DEF LateFails
<1> QED
  BY <1>2, <1>3, <1>4, <1>5, <1>6, <1>7 DEF LateCall

LEMMA SavedInitially == Init => SavedInv
<1> SUFFICES ASSUME Init PROVE SavedInv
  OBVIOUS
<1>1. boxes \in Seq(Keys) /\ DOMAIN boxes = {}
  BY DEF Init
<1> QED
  BY <1>1, NoCallIsCall DEF Init

LEMMA SavedStep == SavedInv /\ [Next]_vars => SavedInv'
<1> SUFFICES ASSUME SavedInv, [Next]_vars PROVE SavedInv'
  OBVIOUS
<1>1. CASE UNCHANGED vars
  BY <1>1 DEF vars
<1>2. CASE Next
  BY <1>2, SavedPage, SavedDashboard, SavedRotate, SavedLate DEF Next
<1> QED
  BY <1>1, <1>2

LEMMA SavedAlways == Spec => []SavedInv
<1> QED
  BY SavedInitially, SavedStep, PTL DEF Spec

\* Every variable of the vault and of the tabs keeps its type.
THEOREM TypeCorrect == Spec => []TypeOK
<1>1. SavedInv => TypeOK
  OBVIOUS
<1> QED
  BY <1>1, SavedAlways, PTL

\* No key is used, by any number of tabs, before the user has saved it.
THEOREM UsedKeysAreSavedAlways == Spec => []UsedKeysAreSaved
<1>1. SavedInv => UsedKeysAreSaved
  OBVIOUS
<1> QED
  BY <1>1, SavedAlways, PTL

-----------------------------------------------------------------------------
(* One tab at a time: one key, and epochs that only grow *)

\* An operation runs in a tab that was let in; only a rotation also in one
\* that asks for the key.
BusyTabs ==
    \A t \in Tabs :
        /\ pc[t] # "idle" => gate[t] \in {"import", "open"}
        /\ pc[t] \in {"save"} \cup SyncSteps => gate[t] = "open"

OneTab ==
    \A t, u \in Tabs : gate[t] # "closed" /\ gate[u] # "closed" => t = u

OneKey == \A i, j \in DOMAIN boxes : boxes[i] = boxes[j]

\* What the gate of a tab says of the vault.
GateKnows(t) ==
    /\ gate[t] = "gating" => sample[t] = FirstSealed
    /\ gate[t] = "import" => boxes = <<>> \/ sample[t] = FirstSealed
    /\ gate[t] \in {"ceremony", "open"} => SealedUnder(key[t])
    /\ pc[t] = "save" => held[t] = key[t]

\* What an operation knows of the epoch.
EpochKnown(t) ==
    /\ pc[t] = "wipe" => seen[t] = epoch
    /\ pc[t] \in {"mark", "markAgain"} => seen[t] <= epoch

SyncedNotAhead == \A r \in Repos : synced[r] # NoRow => synced[r] <= epoch

\* A request is adrift only until the next page reads the vault; until then
\* it knows what its page knew.
LateKnows ==
    /\ adrift # NoCall => \A t \in Tabs : gate[t] \in {"closed", "loading"}
    /\ adrift.step = "save" => SealedUnder(adrift.held)
    /\ adrift.step = "wipe" => adrift.seen = epoch
    /\ adrift.step \in {"mark", "markAgain"} => adrift.seen <= epoch

AloneInv ==
    /\ SavedInv
    /\ BusyTabs
    /\ ~shared => /\ OneTab
                  /\ OneKey
                  /\ \A t \in Tabs : GateKnows(t)
                  /\ \A t \in Tabs : EpochKnown(t)
                  /\ SyncedNotAhead

\* The sample of the gate is an account's key, or there is no account.
LEMMA FirstSealedIsFirst ==
    ASSUME boxes \in Seq(Keys)
    PROVE  /\ FirstSealed = NoKey => DOMAIN boxes = {}
           /\ DOMAIN boxes # {} => 1 \in DOMAIN boxes /\ FirstSealed = boxes[1]
<1>1. CASE boxes = <<>>
  BY <1>1 DEF FirstSealed
<1>2. CASE boxes # <<>>
  <2>1. Len(boxes) \in Nat /\ Len(boxes) # 0 /\ DOMAIN boxes = 1..Len(boxes)
    BY <1>2
  <2>2. 1 \in DOMAIN boxes /\ Head(boxes) = boxes[1] /\ boxes[1] \in Keys
    BY <1>2, <2>1
  <2> QED
    BY <1>2, <2>2 DEF FirstSealed
<1> QED
  BY <1>1, <1>2

USE DEF AloneInv, BusyTabs, OneTab, OneKey, GateKnows, EpochKnown, SyncedNotAhead, SealedUnder
HIDE DEF CeremonyHasKey, LetInWithSavedKey, LateWithSavedKey, UsedKeysAreSaved

LEMMA AlonePage ==
    ASSUME AloneInv, SavedInv', NEW t \in Tabs, Page(t)
    PROVE  AloneInv'
<1>1. CASE OpenTab(t)
  <2>1. BusyTabs' /\ (~shared' => OneTab' /\ OneKey')
    <3>1. BusyTabs' /\ (~shared' => OneKey')
      BY <1>1 DEF OpenTab
    <3>2. ASSUME ~shared' PROVE \A u \in Tabs : u # t => gate'[u] = "closed"
      <4>1. /\ gate' = [gate EXCEPT ![t] = "loading"]
            /\ shared' = (shared \/ \E u \in Tabs \ {t} : gate[u] # "closed")
        BY <1>1 DEF OpenTab
      <4>2. \A u \in Tabs : u # t => gate[u] = "closed"
        BY <3>2, <4>1
      <4> QED
        BY <4>1, <4>2
    <3> QED
      BY <3>1, <3>2
  <2>2. ASSUME ~shared' PROVE SyncedNotAhead'
    BY <1>1, <2>2 DEF OpenTab
  <2>3. ASSUME ~shared', NEW u \in Tabs PROVE GateKnows(u)'
    BY <1>1, <2>3 DEF OpenTab, FirstSealed
  <2>4. ASSUME ~shared', NEW u \in Tabs PROVE EpochKnown(u)'
    BY <1>1, <2>4 DEF OpenTab
  <2> QED
    BY <2>1, <2>2, <2>3, <2>4
<1>2. CASE CloseTab(t)
  <2>1. BusyTabs' /\ (~shared' => OneTab' /\ OneKey' /\ SyncedNotAhead')
    BY <1>2 DEF CloseTab, LeaveCall
  <2>2. ASSUME ~shared', NEW u \in Tabs PROVE GateKnows(u)'
    BY <1>2, <2>2 DEF CloseTab, LeaveCall, FirstSealed
  <2>3. ASSUME ~shared', NEW u \in Tabs PROVE EpochKnown(u)'
    BY <1>2, <2>3 DEF CloseTab, LeaveCall
  <2> QED
    BY <2>1, <2>2, <2>3
<1>3. CASE Reload(t)
  <2>1. BusyTabs' /\ (~shared' => OneTab' /\ OneKey' /\ SyncedNotAhead')
    BY <1>3 DEF Reload, LeaveCall
  <2>2. ASSUME ~shared', NEW u \in Tabs PROVE GateKnows(u)'
    BY <1>3, <2>2 DEF Reload, LeaveCall, FirstSealed
  <2>3. ASSUME ~shared', NEW u \in Tabs PROVE EpochKnown(u)'
    BY <1>3, <2>3 DEF Reload, LeaveCall
  <2> QED
    BY <2>1, <2>2, <2>3
<1>4. CASE ReadGateSnapshot(t)
  <2>1. BusyTabs' /\ (~shared' => OneTab' /\ OneKey' /\ SyncedNotAhead')
    BY <1>4 DEF ReadGateSnapshot
  <2>2. ASSUME ~shared', NEW u \in Tabs PROVE GateKnows(u)'
    BY <1>4, <2>2 DEF ReadGateSnapshot, FirstSealed
  <2>3. ASSUME ~shared', NEW u \in Tabs PROVE EpochKnown(u)'
    BY <1>4, <2>3 DEF ReadGateSnapshot
  <2> QED
    BY <2>1, <2>2, <2>3
<1>5. CASE ResolveGate(t)
  <2>1. PICK k \in SessionKey(t) :
          /\ key' = [key EXCEPT ![t] = k]
          /\ gate' = [gate EXCEPT ![t] = VaultGate(k, acked[t], sample[t])]
    BY <1>5 DEF ResolveGate
  <2>2. VaultGate(k, acked[t], sample[t]) \in {"import", "open", "ceremony"}
    BY DEF VaultGate
  <2>3. pc[t] = "idle" /\ gate[t] = "gating"
    BY <1>5 DEF ResolveGate
  <2>4. BusyTabs' /\ (~shared' => OneTab' /\ OneKey' /\ SyncedNotAhead')
    BY <1>5, <2>1, <2>2, <2>3 DEF ResolveGate
  <2>5. ASSUME ~shared' PROVE \A u \in Tabs : EpochKnown(u)'
    BY <1>5, <2>5 DEF ResolveGate
  <2>6. ASSUME ~shared', VaultGate(k, acked[t], sample[t]) # "import"
        PROVE  \A i \in DOMAIN boxes : boxes[i] = k
    <3>1. sample[t] = FirstSealed /\ (sample[t] = NoKey \/ k = sample[t]) /\ ~shared
      BY <1>5, <2>3, <2>6 DEF VaultGate, ResolveGate
    <3> QED
      BY <3>1, FirstSealedIsFirst
  <2>7. ASSUME ~shared', NEW u \in Tabs PROVE GateKnows(u)'
    <3>1. CASE u = t
      BY <1>5, <2>1, <2>2, <2>3, <2>6, <2>7, <3>1 DEF ResolveGate, FirstSealed
    <3>2. CASE u # t
      BY <1>5, <2>1, <2>7, <3>2 DEF ResolveGate, FirstSealed
    <3> QED
      BY <3>1, <3>2
  <2> QED
    BY <2>4, <2>5, <2>7
<1>6. CASE ConfirmCeremony(t)
  <2>1. /\ gate[t] = "ceremony" /\ pc[t] = "idle"
        /\ gate' = [gate EXCEPT ![t] = "open"]
        /\ UNCHANGED <<boxes, epoch, synced, key, sample, pc, held, seen, shared>>
    BY <1>6 DEF ConfirmCeremony
  <2>2. BusyTabs' /\ (~shared' => OneTab' /\ OneKey' /\ SyncedNotAhead')
    BY <2>1
  <2>3. ASSUME ~shared', NEW u \in Tabs PROVE GateKnows(u)' /\ EpochKnown(u)'
    BY <2>1, <2>3 DEF FirstSealed
  <2> QED
    BY <2>2, <2>3
<1>7. CASE Unlock(t)
  <2>1. key' = [key EXCEPT ![t] = sample[t]] /\ gate[t] = "import" /\ pc[t] = "idle"
    BY <1>7 DEF Unlock
  <2>2. ASSUME ~shared PROVE \A i \in DOMAIN boxes : boxes[i] = sample[t]
    BY <2>1, <2>2, FirstSealedIsFirst
  <2>3. BusyTabs' /\ (~shared' => OneTab' /\ OneKey' /\ SyncedNotAhead')
    BY <1>7, <2>1 DEF Unlock
  <2>4. ASSUME ~shared', NEW u \in Tabs PROVE GateKnows(u)' /\ EpochKnown(u)'
    BY <1>7, <2>1, <2>2, <2>4 DEF Unlock, FirstSealed
  <2> QED
    BY <2>3, <2>4
<1> QED
  BY <1>1, <1>2, <1>3, <1>4, <1>5, <1>6, <1>7 DEF Page

LEMMA AloneDashboard ==
    ASSUME AloneInv, SavedInv', NEW t \in Tabs, Dashboard(t)
    PROVE  AloneInv'
<1>1. CASE SealAccount(t)
  BY <1>1 DEF SealAccount, FirstSealed
<1>2. CASE SaveAccount(t)
  <2>1. gate[t] = "open" /\ pc[t] = "save" /\ held[t] \in Keys
    BY <1>2 DEF SaveAccount
  <2>2. BusyTabs' /\ (~shared' => OneTab' /\ SyncedNotAhead')
    BY <1>2, <2>1 DEF SaveAccount
  <2>3. ASSUME ~shared'
        PROVE  \A i \in DOMAIN boxes' : boxes'[i] = key[t]
    <3>1. SealedUnder(key[t]) /\ held[t] = key[t]
      BY <1>2, <2>1, <2>3 DEF SaveAccount
    <3> QED
      <4>1. boxes' = Append(boxes, held[t]) /\ boxes \in Seq(Keys)
        BY <1>2 DEF SaveAccount
      <4>2. \A i \in DOMAIN boxes' :
               \/ i \in DOMAIN boxes /\ boxes'[i] = boxes[i]
               \/ boxes'[i] = held[t]
        BY <2>1, <4>1, AppendedBoxes
      <4>3. \A i \in DOMAIN boxes : boxes[i] = key[t]
        BY <3>1
      <4> QED
        BY <3>1, <4>2, <4>3
  <2>4. ASSUME ~shared', NEW u \in Tabs PROVE GateKnows(u)' /\ EpochKnown(u)'
    <3>1. CASE u = t
      BY <1>2, <2>1, <2>3, <2>4, <3>1 DEF SaveAccount
    <3>2. CASE u # t
      <4>1. gate[u] = "closed" /\ pc[u] = "idle"
        BY <1>2, <2>1, <2>4, <3>2 DEF SaveAccount
      <4> QED
        BY <1>2, <3>2, <4>1 DEF SaveAccount
    <3> QED
      BY <3>1, <3>2
  <2> QED
    BY <2>2, <2>3, <2>4
<1>3. CASE DeleteAccount(t)
  <2>1. gate[t] = "open" /\ pc[t] = "idle"
    BY <1>3 DEF DeleteAccount
  <2>2. BusyTabs' /\ (~shared' => OneTab' /\ SyncedNotAhead')
    BY <1>3, <2>1 DEF DeleteAccount
  <2>3. ASSUME ~shared'
        PROVE  \A i \in DOMAIN boxes' : boxes'[i] = key[t]
    <3>1. SealedUnder(key[t])
      BY <1>3, <2>1, <2>3 DEF DeleteAccount
    <3> QED
      BY <1>3, <3>1, RemovedBoxes DEF DeleteAccount
  <2>4. ASSUME ~shared', NEW u \in Tabs PROVE GateKnows(u)' /\ EpochKnown(u)'
    <3>1. CASE u = t
      BY <1>3, <2>1, <2>3, <2>4, <3>1 DEF DeleteAccount
    <3>2. CASE u # t
      <4>1. gate[u] = "closed" /\ pc[u] = "idle"
        BY <1>3, <2>1, <2>4, <3>2 DEF DeleteAccount
      <4> QED
        BY <1>3, <3>2, <4>1 DEF DeleteAccount
    <3> QED
      BY <3>1, <3>2
  <2> QED
    BY <2>2, <2>3, <2>4
<1>4. CASE \E r \in Repos : EnableRepo(t, r) \/ DisableRepo(t, r)
  <2>1. PICK r \in Repos : EnableRepo(t, r) \/ DisableRepo(t, r)
    BY <1>4
  <2>2. CASE EnableRepo(t, r)
    BY <2>2 DEF EnableRepo, FirstSealed
  <2>3. CASE DisableRepo(t, r)
    BY <2>3 DEF DisableRepo, FirstSealed
  <2> QED
    BY <2>1, <2>2, <2>3
<1>5. CASE PushVaultSecrets(t)
  BY <1>5 DEF PushVaultSecrets, FirstSealed
<1>6. CASE PutSecret(t)
  BY <1>6 DEF PutSecret, FirstSealed
<1>7. CASE ReadVaultEpoch(t)
  BY <1>7 DEF ReadVaultEpoch, FirstSealed
<1>8. CASE MarkSynced(t)
  <2>1. BusyTabs' /\ (~shared' => OneTab' /\ OneKey')
    BY <1>8 DEF MarkSynced, Enabled
  <2>2. ASSUME ~shared' PROVE SyncedNotAhead'
    BY <1>8, <2>2 DEF MarkSynced, WriteSyncedEpoch, Enabled
  <2>3. ASSUME ~shared', NEW u \in Tabs PROVE GateKnows(u)'
    BY <1>8, <2>3 DEF MarkSynced, Enabled, FirstSealed
  <2>4. ASSUME ~shared', NEW u \in Tabs PROVE EpochKnown(u)'
    BY <1>8, <2>4 DEF MarkSynced, Enabled
  <2> QED
    BY <2>1, <2>2, <2>3, <2>4
<1>9. CASE MarkAgain(t)
  <2>1. BusyTabs' /\ (~shared' => OneTab' /\ OneKey')
    BY <1>9 DEF MarkAgain, Enabled
  <2>2. ASSUME ~shared' PROVE SyncedNotAhead'
    BY <1>9, <2>2 DEF MarkAgain, WriteSyncedEpoch, Enabled
  <2>3. ASSUME ~shared', NEW u \in Tabs PROVE GateKnows(u)'
    BY <1>9, <2>3 DEF MarkAgain, Enabled, FirstSealed
  <2>4. ASSUME ~shared', NEW u \in Tabs PROVE EpochKnown(u)'
    BY <1>9, <2>4 DEF MarkAgain, Enabled
  <2> QED
    BY <2>1, <2>2, <2>3, <2>4
<1>10. CASE CallFails(t)
  BY <1>10 DEF CallFails, FirstSealed
<1> QED
  BY <1>1, <1>2, <1>3, <1>4, <1>5, <1>6, <1>7, <1>8, <1>9, <1>10 DEF Dashboard

LEMMA AloneRotate ==
    ASSUME AloneInv, SavedInv', NEW t \in Tabs, Rotate(t)
    PROVE  AloneInv'
<1>1. CASE PreviewRotate(t)
  BY <1>1 DEF PreviewRotate, FirstSealed
<1>2. CASE CancelPreview(t)
  BY <1>2 DEF CancelPreview, FirstSealed
<1>3. CASE StageKey(t)
  BY <1>3 DEF StageKey, FirstSealed
<1>4. CASE ConfirmRotate(t)
  BY <1>4 DEF ConfirmRotate, FirstSealed
<1>5. CASE RecheckAndReadEpoch(t)
  <2>1. BusyTabs' /\ (~shared' => OneTab' /\ OneKey')
    BY <1>5 DEF RecheckAndReadEpoch
  <2>2. ASSUME ~shared' PROVE SyncedNotAhead'
    BY <1>5, <2>2 DEF RecheckAndReadEpoch
  <2>3. ASSUME ~shared', NEW u \in Tabs PROVE GateKnows(u)'
    BY <1>5, <2>3 DEF RecheckAndReadEpoch, FirstSealed
  <2>4. ASSUME ~shared', NEW u \in Tabs PROVE EpochKnown(u)'
    BY <1>5, <2>4 DEF RecheckAndReadEpoch
  <2> QED
    BY <2>1, <2>2, <2>3, <2>4
<1>6. CASE RotateVault(t)
  <2>1. pc[t] = "wipe" /\ gate[t] \in {"import", "open"} /\ DOMAIN boxes' = {}
    BY <1>6 DEF RotateVault
  <2>2. BusyTabs' /\ (~shared' => OneTab' /\ OneKey' /\ SyncedNotAhead')
    BY <1>6, <2>1 DEF RotateVault
  <2>3. ASSUME ~shared', NEW u \in Tabs PROVE GateKnows(u)' /\ EpochKnown(u)'
    <3>1. CASE u = t
      BY <1>6, <2>1, <3>1 DEF RotateVault
    <3>2. CASE u # t
      <4>1. gate[u] = "closed" /\ pc[u] = "idle"
        BY <1>6, <2>1, <2>3, <3>2 DEF RotateVault
      <4> QED
        BY <1>6, <3>2, <4>1 DEF RotateVault
    <3> QED
      BY <3>1, <3>2
  <2> QED
    BY <2>2, <2>3
<1>7. CASE CommitStagedKey(t)
  <2>1. BusyTabs' /\ (~shared' => OneTab' /\ OneKey')
    <3>1. gate[t] # "closed" /\ gate' = [gate EXCEPT ![t] = "loading"]
      BY <1>7 DEF CommitStagedKey
    <3>2. ~shared' => OneTab' /\ OneKey'
      BY <1>7, <3>1 DEF CommitStagedKey
    <3>3. BusyTabs'
      BY <1>7, <3>1 DEF CommitStagedKey
    <3> QED
      BY <3>2, <3>3
  <2>2. ASSUME ~shared' PROVE SyncedNotAhead'
    BY <1>7, <2>2 DEF CommitStagedKey
  <2>3. ASSUME ~shared', NEW u \in Tabs PROVE GateKnows(u)'
    BY <1>7, <2>3 DEF CommitStagedKey, FirstSealed
  <2>4. ASSUME ~shared', NEW u \in Tabs PROVE EpochKnown(u)'
    BY <1>7, <2>4 DEF CommitStagedKey
  <2> QED
    BY <2>1, <2>2, <2>3, <2>4
<1>8. CASE DiscardStagedKey(t)
  BY <1>8 DEF DiscardStagedKey, FirstSealed
<1> QED
  BY <1>1, <1>2, <1>3, <1>4, <1>5, <1>6, <1>7, <1>8 DEF Rotate

\* With one tab, a request that goes adrift leaves no page at work.
LEMMA LatePage ==
    ASSUME AloneInv, LateKnows \/ shared, NEW t \in Tabs, Page(t), ~shared'
    PROVE  LateKnows'
<1>1. CASE OpenTab(t)
  BY <1>1 DEF OpenTab, LateKnows
<1>2. CASE CloseTab(t) \/ Reload(t)
  <2>1. /\ gate[t] # "closed" /\ ~shared /\ LeaveCall(t)
        /\ gate' = [gate EXCEPT ![t] = "closed"] \/ gate' = [gate EXCEPT ![t] = "loading"]
        /\ UNCHANGED <<boxes, epoch>>
    BY <1>2 DEF CloseTab, Reload
  <2>2. \A u \in Tabs : gate'[u] \in {"closed", "loading"}
    BY <2>1
  <2>3. CASE adrift' = adrift
    BY <2>1, <2>2, <2>3 DEF LateKnows
  <2>4. CASE adrift' # adrift
    <3>1. adrift'.step = pc[t] /\ adrift'.held = held[t] /\ adrift'.seen = seen[t]
      BY <2>1, <2>4 DEF LeaveCall
    <3>2. /\ pc[t] = "save" => gate[t] = "open" /\ SealedUnder(held[t])
          /\ pc[t] = "wipe" => seen[t] = epoch
          /\ pc[t] \in {"mark", "markAgain"} => seen[t] <= epoch
      BY <2>1
    <3> QED
      BY <2>1, <2>2, <3>1, <3>2 DEF LateKnows
  <2> QED
    BY <2>3, <2>4
<1>3. CASE ReadGateSnapshot(t)
  BY <1>3, NoCallIsCall DEF ReadGateSnapshot, LateKnows
<1>4. CASE ResolveGate(t) \/ ConfirmCeremony(t) \/ Unlock(t)
  <2>1. adrift = NoCall /\ adrift' = adrift
    BY <1>4 DEF ResolveGate, ConfirmCeremony, Unlock, LateKnows
  <2> QED
    BY <2>1, NoCallIsCall DEF LateKnows
<1> QED
  BY <1>1, <1>2, <1>3, <1>4 DEF Page

\* A page that works has no request adrift beside it.
LEMMA LateCalls ==
    ASSUME AloneInv, LateKnows \/ shared, NEW t \in Tabs, Dashboard(t) \/ Rotate(t), ~shared'
    PROVE  LateKnows'
<1>1. adrift' = adrift /\ shared' = shared
  BY DEF Dashboard, SealAccount, SaveAccount, DeleteAccount, EnableRepo, DisableRepo,
         PushVaultSecrets, PutSecret, ReadVaultEpoch, MarkSynced, MarkAgain, CallFails,
         Rotate, PreviewRotate, CancelPreview, StageKey, ConfirmRotate,
         RecheckAndReadEpoch, RotateVault, CommitStagedKey, DiscardStagedKey
<1>2. gate[t] \in {"import", "open"}
  BY DEF Dashboard, SealAccount, SaveAccount, DeleteAccount, EnableRepo, DisableRepo,
         PushVaultSecrets, PutSecret, ReadVaultEpoch, MarkSynced, MarkAgain, CallFails,
         Rotate, PreviewRotate, CancelPreview, StageKey, ConfirmRotate,
         RecheckAndReadEpoch, RotateVault, CommitStagedKey, DiscardStagedKey
<1>3. adrift = NoCall
  BY <1>1, <1>2 DEF LateKnows
<1> QED
  BY <1>1, <1>3, NoCallIsCall DEF LateKnows

\* A request that is served late finds the vault as its page left it.
LEMMA AloneLate ==
    ASSUME AloneInv, LateKnows \/ shared, SavedInv', LateCall
    PROVE  AloneInv' /\ (LateKnows \/ shared)'
<1>0. /\ UNCHANGED <<gate, sample, key, pc, held, seen, shared>>
      /\ adrift.seen \in Nat /\ adrift.held \in Key
      /\ adrift.step \in Served \cup {"idle"}
      /\ adrift.target \in Repos \cup {NoRow}
  BY DEF LateCall, Calls
<1>1. BusyTabs'
  BY <1>0
<1>2. SUFFICES ASSUME ~shared
               PROVE  /\ OneKey' /\ SyncedNotAhead' /\ LateKnows'
                      /\ \A t \in Tabs : GateKnows(t)' /\ EpochKnown(t)'
  BY <1>0, <1>1
<1>3. LateKnows /\ adrift # NoCall
  BY <1>2, NoCallIsCall DEF LateCall, LateSave, LatePut, LateRecheck, LateWipe, LateMark, LateFails
<1>4. \A t \in Tabs : gate[t] \in {"closed", "loading"} /\ pc[t] = "idle"
  BY <1>3 DEF LateKnows
<1>5. \A t \in Tabs : GateKnows(t)' /\ EpochKnown(t)'
  BY <1>0, <1>4
<1>6. CASE LateSave
  <2>1. SealedUnder(adrift.held) /\ adrift.held \in Keys
    BY <1>3, <1>6 DEF LateSave, LateKnows
  <2>2. OneKey'
    BY <1>6, <2>1, AppendedBoxes DEF LateSave
  <2>3. SyncedNotAhead' /\ LateKnows'
    BY <1>2, <1>6, NoCallIsCall DEF LateSave, LateKnows
  <2> QED
    BY <1>5, <2>2, <2>3
<1>7. CASE LatePut \/ LateFails
  <2>1. UNCHANGED <<boxes, epoch, synced>> /\ adrift' = NoCall
    BY <1>7 DEF LatePut, LateFails
  <2> QED
    BY <1>2, <1>5, <2>1, NoCallIsCall DEF LateKnows
<1>8. CASE LateRecheck
  <2>1. adrift'.step = "wipe" /\ adrift'.seen = epoch /\ UNCHANGED <<boxes, epoch, synced>>
    BY <1>8 DEF LateRecheck, Calls
  <2> QED
    BY <1>0, <1>2, <1>4, <1>5, <2>1 DEF LateKnows
<1>9. CASE LateWipe
  <2>1. DOMAIN boxes' = {} /\ epoch' = epoch + 1 /\ synced' = synced /\ adrift' = NoCall
    BY <1>3, <1>9 DEF LateWipe, LateKnows
  <2> QED
    BY <1>2, <1>5, <2>1, NoCallIsCall DEF LateKnows
<1>10. CASE LateMark
  <2>1. adrift.seen <= epoch /\ UNCHANGED <<boxes, epoch>>
    BY <1>3, <1>10 DEF LateMark, LateKnows
  <2>2. SyncedNotAhead'
    BY <1>0, <1>2, <1>10, <2>1 DEF LateMark, WriteSyncedEpoch, Enabled
  <2>3. adrift'.step \in {"markAgain", "idle"} /\ (adrift'.step = "markAgain" => adrift'.seen = adrift.seen)
    BY <1>10, NoCallIsCall DEF LateMark, Calls
  <2>4. LateKnows'
    BY <1>0, <1>4, <2>1, <2>3 DEF LateKnows
  <2> QED
    BY <1>2, <1>5, <2>1, <2>2, <2>4
<1> QED
  BY <1>6, <1>7, <1>8, <1>9, <1>10 DEF LateCall

VaultInv == AloneInv /\ (LateKnows \/ shared)

LEMMA AloneInitially == Init => VaultInv
<1> SUFFICES ASSUME Init PROVE VaultInv
  OBVIOUS
<1>1. SavedInv /\ DOMAIN boxes = {} /\ adrift = NoCall
  BY SavedInitially DEF Init
<1> QED
  BY <1>1, NoCallIsCall DEF Init, VaultInv, LateKnows

LEMMA AloneStep == VaultInv /\ [Next]_vars => VaultInv'
<1> SUFFICES ASSUME VaultInv, [Next]_vars PROVE VaultInv'
  OBVIOUS
<1>1. AloneInv /\ (LateKnows \/ shared) /\ SavedInv'
  BY SavedStep DEF VaultInv
<1>2. CASE UNCHANGED vars
  BY <1>1, <1>2 DEF vars, FirstSealed, VaultInv, LateKnows
<1>3. ASSUME NEW t \in Tabs, Page(t) \/ Dashboard(t) \/ Rotate(t) PROVE VaultInv'
  <2>1. AloneInv'
    BY <1>1, <1>3, AlonePage, AloneDashboard, AloneRotate
  <2>2. ~shared' => LateKnows'
    BY <1>1, <1>3, LatePage, LateCalls
  <2> QED
    BY <2>1, <2>2 DEF VaultInv
<1>4. CASE LateCall
  BY <1>1, <1>4, AloneLate DEF VaultInv
<1> QED
  BY <1>2, <1>3, <1>4 DEF Next

LEMMA AloneAlways == Spec => []VaultInv
  BY AloneInitially, AloneStep, PTL DEF Spec

\* Only the batch of a rotation leads from its read to its commit.
LEMMA OnlyRotateVaultCommits ==
    ASSUME SavedInv, NEW t \in Tabs, Next, pc[t] = "wipe", pc'[t] = "commit"
    PROVE  RotateVault(t)
<1>1. PICK u \in Tabs : Page(u) \/ Dashboard(u) \/ Rotate(u)
  BY DEF Next, LateCall
<1>2. ~Page(u)
  BY DEF Page, OpenTab, CloseTab, Reload, ReadGateSnapshot, ResolveGate,
         ConfirmCeremony, Unlock, LeaveCall
<1>3. ~Dashboard(u)
  BY DEF Dashboard, SealAccount, SaveAccount, DeleteAccount, EnableRepo, DisableRepo,
         PushVaultSecrets, PutSecret, ReadVaultEpoch, MarkSynced, MarkAgain, CallFails
<1>4. Rotate(u) => RotateVault(u) /\ u = t
  BY DEF Rotate, PreviewRotate, CancelPreview, StageKey, ConfirmRotate,
         RecheckAndReadEpoch, RotateVault, CommitStagedKey, DiscardStagedKey
<1> QED
  BY <1>1, <1>2, <1>3, <1>4

\* A user with one tab at a time has all accounts sealed under one key.
THEOREM OneVaultKeyAlways == Spec => []OneVaultKey
<1>1. VaultInv => OneVaultKey
  BY DEF OneVaultKey, VaultInv
<1> QED
  BY <1>1, AloneAlways, PTL

\* With one tab at a time, a rotation leaves no repo that counts as synced.
THEOREM RotationMarksStaleAlways == Spec => RotationMarksStale
<1> DEFINE Marks == ~shared /\ Wipes => \A r \in Enabled : NeedsResync(r)'
<1>1. ASSUME VaultInv, [Next]_vars PROVE Marks
  <2> SUFFICES ASSUME ~shared, Wipes, NEW r \in Enabled
               PROVE  NeedsResync(r)'
    OBVIOUS
  <2>1. AloneInv /\ LateKnows /\ synced[r] \in Nat /\ synced[r] <= epoch /\ epoch \in Nat
    BY <1>1 DEF VaultInv, Enabled
  <2>2. epoch' = epoch + 1 /\ synced' = synced
    <3>1. CASE \E t \in Tabs : pc[t] = "wipe" /\ pc'[t] = "commit"
      <4>1. PICK t \in Tabs : pc[t] = "wipe" /\ pc'[t] = "commit"
        BY <3>1
      <4>2. Next
        BY <1>1, <4>1 DEF vars
      <4>3. RotateVault(t)
        BY <2>1, <4>1, <4>2, OnlyRotateVaultCommits
      <4> QED
        BY <2>1, <4>1, <4>3 DEF RotateVault
    <3>2. CASE adrift.step = "wipe" /\ boxes' = <<>> /\ boxes # <<>>
      <4>1. \A t \in Tabs : gate[t] \in {"closed", "loading"} /\ pc[t] = "idle"
        BY <2>1, <3>2, NoCallIsCall DEF LateKnows
      <4>2. Next
        BY <1>1, <3>2 DEF vars
      <4>3. LateCall
        BY <3>2, <4>1, <4>2 DEF Next, Page, OpenTab, CloseTab, Reload, ReadGateSnapshot,
           ResolveGate, ConfirmCeremony, Unlock, Dashboard, SealAccount, SaveAccount,
           DeleteAccount, EnableRepo, DisableRepo, PushVaultSecrets, PutSecret,
           ReadVaultEpoch, MarkSynced, MarkAgain, CallFails, Rotate, PreviewRotate,
           CancelPreview, StageKey, ConfirmRotate, RecheckAndReadEpoch, RotateVault,
           CommitStagedKey, DiscardStagedKey
      <4>4. LateWipe
        BY <3>2, <4>3 DEF LateCall, LateSave, LatePut, LateRecheck, LateMark, LateFails
      <4> QED
        BY <2>1, <3>2, <4>4 DEF LateWipe, LateKnows
    <3> QED
      BY <3>1, <3>2 DEF Wipes
  <2> QED
    BY <2>1, <2>2 DEF NeedsResync
<1>2. VaultInv /\ [Next]_vars => [Marks]_vars
  BY <1>1
<1> QED
  BY <1>2, AloneAlways, PTL DEF Spec, RotationMarksStale
=============================================================================
