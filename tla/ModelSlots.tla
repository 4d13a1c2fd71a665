----------------------------- MODULE ModelSlots -----------------------------
(***************************************************************************)
(* The model slots of one user and the model list of one of her repos: the *)
(* tables of the vault store (packages/core/src/vault/store), the pages of *)
(* the Dashboard that write them, and the Runtime pack a Home run gets.    *)
(*                                                                         *)
(* D1 has no transactions here: a request is a sequence of statements, and *)
(* requests of several pages, and the reads of a pack, interleave at every *)
(* one.  What a request asks for comes from a page that shows what it      *)
(* fetched last: a request is made of the tables as they are, and its      *)
(* first statement runs at any time later.  What a page forbids while one  *)
(* of its own requests is pending, another page allows.                    *)
(***************************************************************************)
EXTENDS Integers, SequencesExt

CONSTANTS
    Accounts,   \* vault accounts; an id is never used again
    Slots,      \* bound: slot ids, integers in the order of their text
    Requests    \* bound: requests that take several statements

ASSUME SlotsAssumption == Slots \subseteq Nat /\ IsFiniteSet(Slots)

VARIABLES
    accounts,   \* vault_accounts
    slots,      \* model_slots: slot id -> [account, index]
    list,       \* repo_model_list of the repo: slot id -> [index, of], where of
                \* is the whole list the row was written with
    meta,       \* repo_model_list_meta has a row for the repo
    enabled,    \* enabled_repos has a row for the repo
    op,         \* per request what it is for
    pc,         \* per request its next statement
    pack,       \* the Runtime pack being built
    spent,      \* accounts ever saved
    dropped,    \* slots ever deleted
    emptied,    \* how the list got to have no rows: "", "torn" or "deleted"
    allowed     \* slots the repo's list has let through since the pack began

tables == <<accounts, slots, list, meta, enabled>>
requests == <<op, pc>>
ghosts == <<spent, dropped, emptied, allowed>>
vars == <<tables, requests, pack, ghosts>>

NoRows == [i \in {} |-> 0]
Row == [account : Accounts, index : Nat]
Without(rows, ids) == Restrict(rows, DOMAIN rows \ ids)
With(rows, more) ==
    [i \in DOMAIN rows \cup DOMAIN more |-> IF i \in DOMAIN more THEN more[i] ELSE rows[i]]
SlotsOf(some) == {i \in DOMAIN slots : slots[i].account \in some}

Before(by, i, j) ==
    \/ by[i].index < by[j].index
    \/ by[i].index = by[j].index /\ i < j

\* The ids of a table in its order: every one has its rank.
InOrder(by) ==
    LET Rank(i) == Cardinality({j \in DOMAIN by : Before(by, j, i)})
    IN  [k \in 1..Cardinality(DOMAIN by) |->
            CHOOSE i \in DOMAIN by : Rank(i) = k - 1]

\* Mutant.  An explicit list without rows counts as no list.
MergeIgnoringEmpty(rows, hasList, overrides) ==
    IF hasList /\ overrides # NoRows THEN overrides ELSE rows

\* The table that says which slots come, and in what order: the repo's own
\* list when it has one, all slots otherwise.
MergeSlotOrder(rows, hasList, overrides) ==
    IF hasList THEN overrides ELSE rows

SlotsForRepoView(rows, hasList, overrides) ==
    LET by == MergeSlotOrder(rows, hasList, overrides)
    IN  Restrict(by, DOMAIN by \cap DOMAIN rows)

\* What a page leaves that saved some slots, one after the other.
Saved(some) ==
    {rows \in UNION {[ids -> [account : some, index : 0..Cardinality(ids) - 1]] :
                       ids \in SUBSET Slots} :
        \A i, j \in DOMAIN rows : i # j => rows[i].index # rows[j].index}

SlotsForConsumer(by, known) == InOrder(Restrict(by, DOMAIN by \cap known))

NoOp == [kind |-> "none"]
NoPack == [at |-> "idle"]

Init ==
    /\ accounts \in SUBSET Accounts /\ spent = accounts
    /\ slots \in Saved(accounts) /\ list = NoRows /\ meta = FALSE /\ enabled = TRUE
    /\ op = [r \in Requests |-> NoOp] /\ pc = [r \in Requests |-> "free"]
    /\ pack = NoPack
    /\ dropped = {} /\ emptied = "" /\ allowed = {}

-----------------------------------------------------------------------------
(* Requests: what the pages send *)

Send(r, args, first) ==
    /\ pc[r] = "free"
    /\ op' = [op EXCEPT ![r] = args]
    /\ pc' = [pc EXCEPT ![r] = first]
    /\ UNCHANGED <<tables, pack, spent>>

\* Slot ids are minted before their row exists, and never again.
Minted == {op[r].id : r \in {q \in Requests : op[q].kind = "save"}}

\* The form adds a slot behind those the page shows.
SubmitForm(r, a) ==
    \E i \in Slots \ (DOMAIN slots \cup dropped \cup Minted) :
        Send(r, [kind |-> "save", id |-> i,
                 row |-> [account |-> a, index |-> Cardinality(DOMAIN slots)]],
             "account")

\* The check box saves the slot as the page shows it.
SetSimilar(r, i) ==
    Send(r, [kind |-> "similar", id |-> i, row |-> slots[i]], "account")

\* Dragging a slot sends the ids of all of them.
MoveSlot(r, ids) ==
    /\ Len(ids) > 1
    /\ Send(r, [kind |-> "order", ids |-> ids, todo |-> DOMAIN ids], "slots")

Brains == InOrder(SlotsForRepoView(slots, meta, list))

MoveBrain(r, ids) ==
    /\ Len(ids) > 1
    /\ Send(r, [kind |-> "set", ids |-> ids], "repo")

AddBrain(r, i) ==
    /\ i \notin ToSet(Brains)
    /\ Send(r, [kind |-> "set", ids |-> Append(Brains, i)], "repo")

ClearOverride(r) == Send(r, [kind |-> "clear"], "repo")

DisableRepo(r) == Send(r, [kind |-> "disable"], "repo")

-----------------------------------------------------------------------------
(* Operations of one statement *)

EnableRepo ==
    /\ ~enabled /\ enabled' = TRUE
    /\ UNCHANGED <<accounts, slots, list, meta, requests, pack, spent>>

SaveAccount(a) ==
    /\ a \notin spent
    /\ accounts' = accounts \cup {a} /\ spent' = spent \cup {a}
    /\ UNCHANGED <<slots, list, meta, enabled, requests, pack>>

\* The rows that reference a deleted one go with it.
DropSlots(ids) ==
    /\ slots' = Without(slots, ids)
    /\ list' = Without(list, ids)

DeleteModelSlot(i) ==
    /\ i \in DOMAIN slots
    /\ DropSlots({i})
    /\ UNCHANGED <<accounts, meta, enabled, requests, pack, spent>>

DeleteAccount(a) ==
    /\ a \in accounts /\ accounts' = accounts \ {a}
    /\ DropSlots(SlotsOf({a}))
    /\ UNCHANGED <<meta, enabled, requests, pack, spent>>

\* One batch: the accounts, what references them, and the lists.
RotateVault ==
    /\ accounts' = {} /\ meta' = FALSE
    /\ DropSlots(SlotsOf(accounts))
    /\ UNCHANGED <<enabled, requests, pack, spent>>

-----------------------------------------------------------------------------
(* Requests, statement by statement *)

Goto(r, at) ==
    /\ pc' = [pc EXCEPT ![r] = at]
    /\ op' = IF at = "over" THEN [op EXCEPT ![r] = NoOp] ELSE op
At(r, kinds, at) == op[r].kind \in kinds /\ pc[r] = at
Saves == {"save", "similar"}
Lists == {"set", "clear", "disable"}

RequireAccount(r) ==
    /\ At(r, Saves, "account")
    /\ Goto(r, IF op[r].row.account \in accounts THEN "existing" ELSE "over")
    /\ UNCHANGED <<tables, pack, spent>>

ExistingSlot(r) ==
    /\ At(r, Saves, "existing")
    /\ Goto(r, IF op[r].id \in DOMAIN slots THEN "update" ELSE "insert")
    /\ UNCHANGED <<tables, pack, spent>>

\* An update of a row that is gone changes nothing and succeeds.
UpdateSlot(r) ==
    /\ At(r, Saves, "update")
    /\ slots' = [i \in DOMAIN slots |->
                    IF i = op[r].id THEN op[r].row ELSE slots[i]]
    /\ Goto(r, "over")
    /\ UNCHANGED <<accounts, list, meta, enabled, pack, spent>>

\* The primary key and the reference to the account may refuse it.
InsertSlot(r) ==
    /\ At(r, Saves, "insert")
    /\ IF op[r].row.account \in accounts /\ op[r].id \notin DOMAIN slots
       THEN slots' = With(slots, [i \in {op[r].id} |-> op[r].row]) /\ Goto(r, "over")
       ELSE UNCHANGED slots /\ Goto(r, "over")
    /\ UNCHANGED <<accounts, list, meta, enabled, pack, spent>>

\* setDefaultSlotOrder: as many ids as slots, and all of them known.
ValidateOrder(r) ==
    /\ At(r, {"order"}, "slots")
    /\ Goto(r, IF /\ Len(op[r].ids) = Cardinality(DOMAIN slots)
                  /\ ToSet(op[r].ids) \subseteq DOMAIN slots
               THEN "assign" ELSE "over")
    /\ UNCHANGED <<tables, pack, spent>>

\* One update per slot, all sent at once.
AssignIndex(r, k) ==
    /\ At(r, {"order"}, "assign") /\ k \in op[r].todo
    /\ slots' = [i \in DOMAIN slots |->
                    IF i = op[r].ids[k] THEN [slots[i] EXCEPT !.index = k - 1]
                    ELSE slots[i]]
    /\ IF op[r].todo = {k} THEN Goto(r, "over")
       ELSE op' = [op EXCEPT ![r].todo = @ \ {k}] /\ UNCHANGED pc
    /\ UNCHANGED <<accounts, list, meta, enabled, pack, spent>>

\* repoFromEnabled
FindEnabled(r) ==
    /\ At(r, Lists, "repo")
    /\ Goto(r, IF ~enabled THEN "over"
               ELSE IF op[r].kind = "set" THEN "validate" ELSE "rows")
    /\ UNCHANGED <<tables, pack, spent>>

ValidateList(r) ==
    /\ At(r, {"set"}, "validate")
    /\ Goto(r, IF ToSet(op[r].ids) \subseteq DOMAIN slots THEN "meta" ELSE "over")
    /\ UNCHANGED <<tables, pack, spent>>

UpsertMeta(r) ==
    /\ At(r, {"set"}, "meta")
    /\ meta' = TRUE
    /\ Goto(r, "rows")
    /\ UNCHANGED <<accounts, slots, list, enabled, pack, spent>>

DeleteRows(r) ==
    /\ At(r, Lists, "rows")
    /\ list' = NoRows
    /\ Goto(r, IF op[r].kind = "set" THEN "insert" ELSE "unset")
    /\ UNCHANGED <<accounts, slots, meta, enabled, pack, spent>>

RowsOf(r) ==
    [i \in ToSet(op[r].ids) |->
        [index |-> (CHOOSE k \in DOMAIN op[r].ids : op[r].ids[k] = i) - 1, of |-> ToSet(op[r].ids)]]

\* Mutant.  A row that is there already stays, and the others are added.
InsertMissing(r) ==
    /\ At(r, {"set"}, "insert")
    /\ IF ToSet(op[r].ids) \subseteq DOMAIN slots
       THEN list' = With(RowsOf(r), list) /\ Goto(r, "over")
       ELSE UNCHANGED list /\ Goto(r, "over")
    /\ UNCHANGED <<accounts, slots, meta, enabled, pack, spent>>

\* One insert of all rows: a slot that is gone or a row that is there already
\* refuses the whole.
InsertRows(r) ==
    /\ At(r, {"set"}, "insert")
    /\ IF /\ ToSet(op[r].ids) \subseteq DOMAIN slots
          /\ ToSet(op[r].ids) \cap DOMAIN list = {}
       THEN list' = With(list, RowsOf(r)) /\ Goto(r, "over")
       ELSE UNCHANGED list /\ Goto(r, "over")
    /\ UNCHANGED <<accounts, slots, meta, enabled, pack, spent>>

\* Mutant.  Clearing a list leaves its meta row.
KeepMeta(r) ==
    /\ At(r, {"clear", "disable"}, "unset")
    /\ Goto(r, IF op[r].kind = "clear" THEN "over" ELSE "row")
    /\ UNCHANGED <<tables, pack, spent>>

DeleteMeta(r) ==
    /\ At(r, {"clear", "disable"}, "unset")
    /\ meta' = FALSE
    /\ Goto(r, IF op[r].kind = "clear" THEN "over" ELSE "row")
    /\ UNCHANGED <<accounts, slots, list, enabled, pack, spent>>

DeleteEnabledRow(r) ==
    /\ At(r, {"disable"}, "row")
    /\ enabled' = FALSE
    /\ Goto(r, "over")
    /\ UNCHANGED <<accounts, slots, list, meta, pack, spent>>

\* A statement fails, and the request with it.
RequestFails(r) ==
    /\ pc[r] \notin {"free", "over"}
    /\ Goto(r, "over")
    /\ UNCHANGED <<tables, pack, spent>>

-----------------------------------------------------------------------------
(* buildHomeRuntimePack, read by read *)

\* The slots known when the pack began; nothing else is in it.
PackSlots ==
    /\ pack.at \in {"idle", "done"}
    /\ pack' = [at |-> "enabled", owner |-> [i \in DOMAIN slots |-> slots[i].account]]
    /\ UNCHANGED <<tables, requests, spent>>

PackEnabled ==
    /\ pack.at = "enabled"
    /\ pack' = IF enabled THEN [pack EXCEPT !.at = "list"] ELSE NoPack
    /\ UNCHANGED <<tables, requests, spent>>

PackRepoSlots ==
    /\ pack.at = "list"
    /\ pack' = [at |-> "meta", owner |-> pack.owner, rows |-> slots]
    /\ UNCHANGED <<tables, requests, spent>>

\* orderedSlotsOrInvalid: an empty queue is refused.
Ordered(hasList, overrides) ==
    LET queue == SlotsForConsumer(SlotsForRepoView(pack.rows, hasList, overrides),
                                  DOMAIN pack.owner)
    IN  IF queue = <<>> THEN NoPack
        ELSE [at |-> "accounts", queue |-> queue, owner |-> pack.owner]

PackMeta ==
    /\ pack.at = "meta"
    /\ pack' = IF meta THEN [pack EXCEPT !.at = "rows"] ELSE Ordered(FALSE, NoRows)
    /\ UNCHANGED <<tables, requests, spent>>

PackRows ==
    /\ pack.at = "rows"
    /\ pack' = Ordered(TRUE, list)
    /\ UNCHANGED <<tables, requests, spent>>

\* Mutant.  Only the login of the first slot is packed.
FirstCredential(listed) == listed \cap {pack.owner[pack.queue[1]]}

CredentialVaultForSlots(listed) ==
    listed \cap {pack.owner[i] : i \in ToSet(pack.queue)}

PackAccounts ==
    /\ pack.at = "accounts"
    /\ pack' = [at |-> "sealed", queue |-> pack.queue, owner |-> pack.owner,
                listed |-> accounts, todo |-> accounts]
    /\ UNCHANGED <<tables, requests, spent>>

\* An account that went in between fails the whole pack.
PackSealed(a) ==
    /\ pack.at = "sealed" /\ a \in pack.todo
    /\ pack' = IF a \in accounts THEN [pack EXCEPT !.todo = @ \ {a}] ELSE NoPack
    /\ UNCHANGED <<tables, requests, spent>>

PackDone ==
    /\ pack.at = "sealed" /\ pack.todo = {}
    /\ pack' = [at |-> "done", queue |-> pack.queue, owner |-> pack.owner,
                vault |-> CredentialVaultForSlots(pack.listed)]
    /\ UNCHANGED <<tables, requests, spent>>

-----------------------------------------------------------------------------

PageStep ==
    \E r \in Requests :
        \/ \E a \in accounts : SubmitForm(r, a)
        \/ \E i \in DOMAIN slots : SetSimilar(r, i) \/ AddBrain(r, i)
        \/ \E ids \in SetToSeqs(DOMAIN slots) : MoveSlot(r, ids)
        \/ \E ids \in SetToSeqs(ToSet(Brains)) : MoveBrain(r, ids)
        \/ ClearOverride(r)
        \/ DisableRepo(r)

RequestStep ==
    \E r \in Requests :
        \/ RequireAccount(r) \/ ExistingSlot(r) \/ UpdateSlot(r) \/ InsertSlot(r)
        \/ ValidateOrder(r)
        \/ \E k \in 1..Cardinality(Slots) : AssignIndex(r, k)
        \/ FindEnabled(r) \/ ValidateList(r) \/ UpsertMeta(r) \/ DeleteRows(r)
        \/ InsertRows(r) \/ DeleteMeta(r) \/ DeleteEnabledRow(r)
        \/ RequestFails(r)

DirectStep ==
    \/ \E a \in Accounts : SaveAccount(a) \/ DeleteAccount(a)
    \/ \E i \in Slots : DeleteModelSlot(i)
    \/ RotateVault
    \/ EnableRepo

PackStep ==
    \/ PackSlots \/ PackEnabled \/ PackRepoSlots \/ PackMeta \/ PackRows
    \/ PackAccounts \/ PackDone
    \/ \E a \in Accounts : PackSealed(a)

Allowed == IF meta THEN DOMAIN list ELSE DOMAIN slots

\* A request between two of its writes.
Torn(r) ==
    \/ At(r, {"set"}, "rows") \/ At(r, {"set"}, "insert")
    \/ At(r, {"clear", "disable"}, "unset")

Remember ==
    /\ dropped' = dropped \cup (DOMAIN slots \ DOMAIN slots')
    /\ emptied' = IF list' # NoRows \/ ~meta' THEN ""
                  ELSE IF \E r \in Requests : Torn(r) /\ pc'[r] = "over" THEN "torn"
                  ELSE IF list # NoRows /\ slots' # slots THEN "deleted"
                  ELSE emptied
    /\ allowed' = IF pack'.at = "idle" THEN {}
                  ELSE IF pack' # pack /\ pack'.at = "enabled" THEN Allowed'
                  ELSE IF pack.at = "done" THEN allowed
                  ELSE allowed \cup Allowed'

Next == (PageStep \/ RequestStep \/ DirectStep \/ PackStep) /\ Remember

Spec == Init /\ [][Next]_vars

-----------------------------------------------------------------------------
(* Properties *)

PCs == {"free", "over", "account", "existing", "update", "insert", "slots", "assign",
                 "repo", "validate", "meta", "rows", "unset", "row"}

\* Every variable has its type, and no row outlives the one it references.
TypeOK ==
    /\ accounts \subseteq spent /\ spent \subseteq Accounts
    /\ DOMAIN slots \subseteq Slots
    /\ \A i \in DOMAIN slots : slots[i] \in Row /\ slots[i].account \in accounts
    /\ DOMAIN list \subseteq DOMAIN slots
    /\ \A i \in DOMAIN list : list[i] \in [index : Nat, of : SUBSET Slots]
    /\ meta \in BOOLEAN /\ enabled \in BOOLEAN
    /\ pc \in [Requests -> PCs]
    /\ dropped \subseteq Slots /\ allowed \subseteq Slots

\* However two requests for the repo's list interleave, they leave no mixture
\* of their lists, but where the lists share no slot, or only one that was
\* deleted on the way: the one that comes second is refused as a whole.
NoMixedList ==
    \A i, j \in DOMAIN list :
        list[i].of # list[j].of => list[i].of \cap list[j].of \subseteq dropped

\* A repo has a list without slots, which stops its reviews, only when a
\* request is between two statements or failed there, or when the last of its
\* slots was deleted.
EmptyListHasCause ==
    meta /\ list = NoRows =>
        \/ \E r \in Requests : Torn(r)
        \/ emptied \in {"torn", "deleted"}

\* The login of every slot of a Runtime pack is in the pack too, unless it was
\* deleted while the pack was built.
PackIsComplete ==
    pack.at = "done" =>
        \A i \in ToSet(pack.queue) :
            pack.owner[i] \in pack.vault \cup (spent \ accounts)

\* No Runtime pack has a slot that the repo's list kept out all the time it was
\* built, unless the slot was deleted meanwhile.
PackIsAllowed ==
    pack.at = "done" => ToSet(pack.queue) \subseteq allowed \cup dropped
=============================================================================
