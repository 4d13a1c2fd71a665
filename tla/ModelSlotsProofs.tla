-------------------------- MODULE ModelSlotsProofs --------------------------
(***************************************************************************)
(* Theorems about ModelSlots, for any accounts, any finite set of slot ids *)
(* and any number of requests.                                             *)
(*                                                                         *)
(* The tables keep their references, an account never comes back, and a    *)
(* slot that went is in dropped: what the properties say of a list or of a *)
(* pack follows from these whatever the requests and the reads do between. *)
(***************************************************************************)
EXTENDS ModelSlots, SequenceTheorems, FiniteSetTheorems, TLAPS

-----------------------------------------------------------------------------
(* The inductive invariant *)

IsTable(rows, Type) ==
    /\ DOMAIN rows \subseteq Slots
    /\ rows \in [DOMAIN rows -> Type]

ListRow == [index : Nat, of : SUBSET Slots]

TablesInv ==
    /\ accounts \subseteq spent /\ spent \subseteq Accounts
    /\ IsTable(slots, Row)
    /\ \A i \in DOMAIN slots : slots[i].account \in accounts
    /\ IsTable(list, ListRow) /\ DOMAIN list \subseteq DOMAIN slots
    /\ meta \in BOOLEAN /\ enabled \in BOOLEAN

OpType ==
    {NoOp} \cup [kind : Saves, id : Slots, row : Row]
           \cup [kind : {"order"}, ids : Seq(Slots), todo : SUBSET Nat]
           \cup [kind : {"set"}, ids : Seq(Slots)]
           \cup [kind : {"clear", "disable"}]

RequestsInv ==
    /\ op \in [Requests -> OpType]
    /\ pc \in [Requests -> PCs]

RowTables == UNION {[ids -> Row] : ids \in SUBSET Slots}
Owners == UNION {[ids -> Accounts] : ids \in SUBSET Slots}

PackType ==
    {NoPack} \cup [at : {"enabled", "list"}, owner : Owners]
             \cup [at : {"meta", "rows"}, owner : Owners, rows : RowTables]
             \cup [at : {"accounts"}, queue : Seq(Slots), owner : Owners]
             \cup [at : {"sealed"}, queue : Seq(Slots), owner : Owners,
                   listed : SUBSET Accounts, todo : SUBSET Accounts]
             \cup [at : {"done"}, queue : Seq(Slots), owner : Owners,
                   vault : SUBSET Accounts]

GhostsInv ==
    /\ dropped \subseteq Slots /\ allowed \subseteq Slots
    /\ emptied \in {"", "torn", "deleted"}

TypeInv == TablesInv /\ RequestsInv /\ pack \in PackType /\ GhostsInv

\* A request that saves a slot saves it with the account it has: the id of a
\* new slot is its own, and a slot that was there keeps its account for ever.
SavesInv ==
    /\ \A r \in Requests : op[r].kind \in Saves =>
        /\ op[r].kind = "save" => op[r].id \notin DOMAIN slots \cup dropped
        /\ op[r].kind = "similar" => op[r].id \in DOMAIN slots \cup dropped
        /\ op[r].id \in DOMAIN slots => slots[op[r].id].account = op[r].row.account
    /\ \A r, q \in Requests :
        (op[r].kind \in Saves /\ op[q].kind \in Saves /\ op[r].id = op[q].id) =>
        /\ op[r].row.account = op[q].row.account
        /\ op[r].kind = "save" => r = q

\* What was written with a row is still there, or was deleted.
ListInv ==
    /\ NoMixedList
    /\ \A i \in DOMAIN list : list[i].of \subseteq DOMAIN list \cup dropped

Queued == {"accounts", "sealed", "done"}

\* The slots a pack has read are there or deleted, their accounts were saved
\* once, and an account it did not list is gone.
PackInv ==
    /\ pack.at # "idle" => \A i \in DOMAIN pack.owner : pack.owner[i] \in spent
    /\ pack.at \in {"meta", "rows"} => DOMAIN pack.rows \subseteq DOMAIN slots \cup dropped
    /\ pack.at \in Queued => ToSet(pack.queue) \subseteq DOMAIN pack.owner
    /\ pack.at \in Queued => ToSet(pack.queue) \subseteq allowed \cup dropped
    /\ pack.at = "sealed" =>
        \A i \in ToSet(pack.queue) : pack.owner[i] \in pack.listed \cup (spent \ accounts)
    /\ PackIsComplete

\* While a pack is built, what the repo's list lets through is noted.
AllowedInv == pack.at \notin {"idle", "done"} => Allowed \subseteq allowed

-----------------------------------------------------------------------------
(* The order of a table *)

Indexed(by) ==
    /\ IsFiniteSet(DOMAIN by) /\ DOMAIN by \subseteq Nat
    /\ \A i \in DOMAIN by : by[i].index \in Nat

\* Of two slots one comes before the other, and never both.
LEMMA BeforeIsStrict ==
    ASSUME NEW by, Indexed(by)
    PROVE  \A i, j, k \in DOMAIN by :
                /\ ~Before(by, i, i)
                /\ Before(by, i, j) /\ Before(by, j, k) => Before(by, i, k)
                /\ i # j => Before(by, i, j) \/ Before(by, j, i)
<1>1. ASSUME NEW i \in DOMAIN by, NEW j \in DOMAIN by, NEW k \in DOMAIN by
      PROVE  /\ ~Before(by, i, i)
             /\ Before(by, i, j) /\ Before(by, j, k) => Before(by, i, k)
             /\ i # j => Before(by, i, j) \/ Before(by, j, i)
  <2>1. /\ i \in Nat /\ j \in Nat /\ k \in Nat
        /\ by[i].index \in Nat /\ by[j].index \in Nat /\ by[k].index \in Nat
    BY <1>1 DEF Indexed
  <2>. QED BY <2>1 DEF Before
<1>. QED BY <1>1

\* The sequence of a table has every slot of the table, each once, and one
\* that comes before another stands before it: mergeSlotOrder sorts, and
\* neither slotsForRepoView nor slotsForConsumer loses a slot both tables have.
THEOREM InOrderSorts ==
    ASSUME NEW by, Indexed(by)
    PROVE  /\ InOrder(by) \in Seq(DOMAIN by)
           /\ ToSet(InOrder(by)) = DOMAIN by
           /\ \A m, n \in DOMAIN InOrder(by) :
                m < n => Before(by, InOrder(by)[m], InOrder(by)[n])
<1> DEFINE D == DOMAIN by
           N == Cardinality(D)
           Less(i) == {j \in D : Before(by, j, i)}
           rank == [i \in D |-> Cardinality(Less(i))]
<1>1. IsFiniteSet(D) /\ N \in Nat
  BY FS_CardinalityType DEF Indexed
<1>2. ASSUME NEW i \in D
      PROVE  IsFiniteSet(Less(i)) /\ Cardinality(Less(i)) \in 0..(N - 1)
  <2>1. Less(i) \in SUBSET (D \ {i})
    BY BeforeIsStrict
  <2>2. IsFiniteSet(D \ {i}) /\ Cardinality(D \ {i}) = N - 1
    BY <1>1, <1>2, FS_RemoveElement
  <2> HIDE DEF Less
  <2>3. IsFiniteSet(Less(i)) /\ Cardinality(Less(i)) <= N - 1
    BY <2>1, <2>2, FS_Subset
  <2>. QED BY <2>3, <1>1, FS_CardinalityType
<1>3. ASSUME NEW i \in D, NEW j \in D, Before(by, i, j)
      PROVE  Cardinality(Less(i)) < Cardinality(Less(j))
  <2>1. Less(i) \in SUBSET Less(j)
    BY <1>3, BeforeIsStrict
  <2>2. i \in Less(j) /\ i \notin Less(i)
    BY <1>3, BeforeIsStrict
  <2> HIDE DEF Less
  <2>3. /\ IsFiniteSet(Less(j)) /\ Cardinality(Less(i)) \in Nat
        /\ Cardinality(Less(j)) \in Nat
    BY <1>2, <1>1
  <2>4. Cardinality(Less(i)) <= Cardinality(Less(j))
    BY <2>1, <2>3, FS_Subset
  <2>5. Cardinality(Less(i)) # Cardinality(Less(j))
    BY <2>1, <2>2, <2>3, FS_Subset
  <2>. QED BY <2>3, <2>4, <2>5
<1>4. ASSUME NEW i \in D, NEW j \in D, Cardinality(Less(i)) = Cardinality(Less(j))
      PROVE  i = j
  <2> HIDE DEF Less
  <2>. QED BY <1>1, <1>2, <1>3, <1>4, BeforeIsStrict
<1> HIDE DEF Less
<1>5. rank \in Injection(D, 0..(N - 1))
  BY <1>2, <1>4 DEF Injection, IsInjective
<1>6. rank \in Surjection(D, 0..(N - 1))
  <2>1. IsFiniteSet(0..(N - 1)) /\ Cardinality(0..(N - 1)) = N
    BY <1>1, FS_Interval
  <2> HIDE DEF rank
  <2>. QED BY <1>5, <2>1, FS_Injection
<1>7. ASSUME NEW k \in 1..N
      PROVE  \E i \in D : Cardinality(Less(i)) = k - 1
  <2>1. k - 1 \in 0..(N - 1)
    BY <1>1
  <2>. QED BY <2>1, <1>6 DEF Surjection
<1>8. InOrder(by) = [k \in 1..N |-> CHOOSE i \in D : Cardinality(Less(i)) = k - 1]
  BY DEF InOrder, Less
<1>9. ASSUME NEW k \in 1..N
      PROVE  InOrder(by)[k] \in D /\ Cardinality(Less(InOrder(by)[k])) = k - 1
  BY <1>7, <1>8
<1>10. InOrder(by) \in Seq(D) /\ DOMAIN InOrder(by) = 1..N
  <2>1. InOrder(by) \in [1..N -> D]
    BY <1>8, <1>9
  <2>. QED BY <2>1, <1>1, SeqDef
<1>11. ToSet(InOrder(by)) = D
  <2>1. ASSUME NEW i \in D PROVE \E k \in 1..N : InOrder(by)[k] = i
    <3> DEFINE k == Cardinality(Less(i)) + 1
    <3>1. k \in 1..N /\ k - 1 = Cardinality(Less(i))
      BY <1>1, <1>2
    <3> HIDE DEF k
    <3>. QED BY <3>1, <1>9, <1>4
  <2>. QED BY <2>1, <1>9, <1>10 DEF ToSet
<1>12. ASSUME NEW m \in 1..N, NEW n \in 1..N, m < n
       PROVE  Before(by, InOrder(by)[m], InOrder(by)[n])
  <2>1. /\ InOrder(by)[m] \in D /\ Cardinality(Less(InOrder(by)[m])) = m - 1
        /\ InOrder(by)[n] \in D /\ Cardinality(Less(InOrder(by)[n])) = n - 1
    BY <1>9
  <2>2. ~Before(by, InOrder(by)[n], InOrder(by)[m])
    BY <1>3, <1>1, <1>12, <2>1
  <2>3. InOrder(by)[m] # InOrder(by)[n]
    BY <2>1, <1>1, <1>12
  <2>. QED BY <2>1, <2>2, <2>3, BeforeIsStrict
<1>. QED BY <1>10, <1>11, <1>12

LEMMA NoRowsIsTable == IsTable(NoRows, ListRow)
BY DEF IsTable, NoRows

\* What is left of a table of slots or of a list can be put in order.
LEMMA RestrictedIsIndexed ==
    ASSUME NEW by, NEW Type, IsTable(by, Type), Type \in {Row, ListRow},
           NEW ids, ids \subseteq DOMAIN by
    PROVE  Indexed(Restrict(by, ids)) /\ DOMAIN Restrict(by, ids) = ids
<1>1. DOMAIN Restrict(by, ids) = ids /\ \A i \in ids : Restrict(by, ids)[i] = by[i]
  BY DEF Restrict
<1>2. ids \subseteq Nat /\ IsFiniteSet(ids)
  BY SlotsAssumption, FS_Subset DEF IsTable
<1>3. \A i \in ids : by[i] \in Type
  BY DEF IsTable
<1>4. \A row \in Type : row.index \in Nat
  <2>1. CASE Type = Row BY <2>1 DEF Row
  <2>2. CASE Type = ListRow BY <2>2 DEF ListRow
  <2>. QED BY <2>1, <2>2
<1>. QED BY <1>1, <1>2, <1>3, <1>4 DEF Indexed

LEMMA ViewIsTable ==
    ASSUME NEW rows, IsTable(rows, Row), NEW overrides, IsTable(overrides, ListRow),
           NEW hasList
    PROVE  \E view :
               /\ view = SlotsForRepoView(rows, hasList, overrides)
               /\ DOMAIN view = DOMAIN MergeSlotOrder(rows, hasList, overrides) \cap DOMAIN rows
               /\ Indexed(view) /\ DOMAIN view \subseteq Slots
               /\ \A known : Indexed(Restrict(view, DOMAIN view \cap known))
<1> DEFINE by == MergeSlotOrder(rows, hasList, overrides)
           view == SlotsForRepoView(rows, hasList, overrides)
           kept == DOMAIN by \cap DOMAIN rows
<1>1. PICK Type \in {Row, ListRow} : IsTable(by, Type)
  BY DEF MergeSlotOrder
<1>2. view = Restrict(by, kept)
  BY DEF SlotsForRepoView
<1> HIDE DEF by, view
<1>3. Indexed(view) /\ DOMAIN view = kept
  BY <1>1, <1>2, RestrictedIsIndexed
<1>4. IsTable(view, Type)
  BY <1>1, <1>2 DEF IsTable, Restrict
<1>5. ASSUME NEW known PROVE Indexed(Restrict(view, DOMAIN view \cap known))
  BY <1>1, <1>4, RestrictedIsIndexed
<1>6. kept \subseteq Slots
  BY DEF IsTable
<1>. QED BY <1>3, <1>5, <1>6 DEF by, view

\* The queue a pack gets has the slots that are in the table of the order, in
\* the slots the repo was shown, and known to the pack.
LEMMA QueueHasKnownSlots ==
    ASSUME NEW rows, IsTable(rows, Row), NEW overrides, IsTable(overrides, ListRow),
           NEW hasList, NEW known
    PROVE  LET queue == SlotsForConsumer(SlotsForRepoView(rows, hasList, overrides), known)
               by == MergeSlotOrder(rows, hasList, overrides)
           IN  /\ queue \in Seq(Slots)
               /\ ToSet(queue) = DOMAIN by \cap DOMAIN rows \cap known
<1> DEFINE by == MergeSlotOrder(rows, hasList, overrides)
<1>0. PICK view :
        /\ view = SlotsForRepoView(rows, hasList, overrides)
        /\ DOMAIN view = DOMAIN by \cap DOMAIN rows
        /\ Indexed(view) /\ DOMAIN view \subseteq Slots
        /\ \A some : Indexed(Restrict(view, DOMAIN view \cap some))
  BY ViewIsTable
<1> DEFINE left == Restrict(view, DOMAIN view \cap known)
<1>1. DOMAIN view = DOMAIN by \cap DOMAIN rows /\ DOMAIN view \subseteq Slots /\ Indexed(left)
  BY <1>0
<1>2. DOMAIN left = DOMAIN view \cap known
  BY DEF Restrict
<1>3. SlotsForConsumer(view, known) = InOrder(left)
  BY DEF SlotsForConsumer
<1> HIDE DEF by, left
<1>4. InOrder(left) \in Seq(DOMAIN left) /\ ToSet(InOrder(left)) = DOMAIN left
  BY <1>1, InOrderSorts
<1>5. InOrder(left) \in Seq(Slots)
  BY <1>1, <1>2, <1>4, SeqDef
<1>. QED BY <1>0, <1>1, <1>2, <1>3, <1>4, <1>5 DEF by

LEMMA BrainsType ==
    ASSUME TypeInv
    PROVE  Brains \in Seq(Slots) /\ ToSet(Brains) \subseteq DOMAIN slots
<1>0. IsTable(slots, Row) /\ IsTable(list, ListRow)
  BY DEF TypeInv, TablesInv
<1>1. PICK view :
        /\ view = SlotsForRepoView(slots, meta, list)
        /\ DOMAIN view = DOMAIN MergeSlotOrder(slots, meta, list) \cap DOMAIN slots
        /\ Indexed(view) /\ DOMAIN view \subseteq Slots
        /\ \A some : Indexed(Restrict(view, DOMAIN view \cap some))
  BY <1>0, ViewIsTable
<1>2. InOrder(view) \in Seq(DOMAIN view) /\ ToSet(InOrder(view)) = DOMAIN view
  BY <1>1, InOrderSorts
<1>3. InOrder(view) \in Seq(Slots)
  BY <1>1, <1>2, SeqDef
<1>. QED BY <1>1, <1>2, <1>3 DEF Brains

\* The ids a page sends are a sequence of slots.
LEMMA PermutationType ==
    ASSUME NEW ids \in SUBSET Slots, NEW seq \in SetToSeqs(ids)
    PROVE  seq \in Seq(Slots)
<1>1. IsFiniteSet(ids) /\ Cardinality(ids) \in Nat
  BY SlotsAssumption, FS_Subset, FS_CardinalityType
<1>2. seq \in [1..Cardinality(ids) -> Slots]
  BY DEF SetToSeqs
<1>. QED BY <1>1, <1>2, SeqDef

-----------------------------------------------------------------------------
(* The kinds of steps *)

PageAction(r) ==
    \/ \E a \in accounts : SubmitForm(r, a)
    \/ \E i \in DOMAIN slots : SetSimilar(r, i) \/ AddBrain(r, i)
    \/ \E ids \in SetToSeqs(DOMAIN slots) : MoveSlot(r, ids)
    \/ \E ids \in SetToSeqs(ToSet(Brains)) : MoveBrain(r, ids)
    \/ ClearOverride(r)
    \/ DisableRepo(r)

RequestAction(r) ==
    \/ RequireAccount(r) \/ ExistingSlot(r) \/ UpdateSlot(r) \/ InsertSlot(r)
    \/ ValidateOrder(r)
    \/ \E k \in 1..Cardinality(Slots) : AssignIndex(r, k)
    \/ FindEnabled(r) \/ ValidateList(r) \/ UpsertMeta(r) \/ DeleteRows(r)
    \/ InsertRows(r) \/ DeleteMeta(r) \/ DeleteEnabledRow(r)
    \/ RequestFails(r)

\* What happens to the accounts and the slots: nothing, a slot gets another
\* row of the same account, one is added, or some go with what refers to them.
Rewritten ==
    /\ DOMAIN slots' = DOMAIN slots /\ slots' \in [DOMAIN slots -> Row]
    /\ \A i \in DOMAIN slots : slots'[i].account = slots[i].account
    /\ UNCHANGED <<accounts, spent, list, meta, enabled>>

Inserted(r) ==
    /\ op[r].kind \in Saves /\ op[r].id \notin DOMAIN slots
    /\ op[r].row.account \in accounts
    /\ slots' = With(slots, [i \in {op[r].id} |-> op[r].row])
    /\ op' = [op EXCEPT ![r] = NoOp]
    /\ UNCHANGED <<accounts, spent, list, meta, enabled>>

Dropped ==
    /\ \E ids \in SUBSET Slots : DropSlots(ids)
    /\ accounts' \subseteq accounts
    /\ \A i \in DOMAIN slots' : slots[i].account \in accounts'
    /\ meta' \in {meta, FALSE}
    /\ UNCHANGED <<spent, enabled, requests>>

AccountSaved == \E a \in Accounts : SaveAccount(a)

\* ... or the repo's list and its row are written.
ListWritten ==
    /\ \/ list' = NoRows
       \/ \E r \in Requests :
            /\ op[r] \in [kind : {"set"}, ids : Seq(Slots)]
            /\ ToSet(op[r].ids) \subseteq DOMAIN slots
            /\ ToSet(op[r].ids) \cap DOMAIN list = {}
            /\ list' = With(list, RowsOf(r))
       \/ UNCHANGED list
    /\ meta' \in BOOLEAN /\ enabled' \in BOOLEAN
    /\ UNCHANGED <<accounts, slots, spent>>

Quiet == UNCHANGED <<tables, spent>>

\* A request that has a kind that saves has an id and a row, and so on.
LEMMA OpShapes ==
    ASSUME RequestsInv, NEW r \in Requests
    PROVE  /\ op[r].kind \in Saves => op[r] \in [kind : Saves, id : Slots, row : Row]
           /\ op[r].kind = "order" =>
                op[r] \in [kind : {"order"}, ids : Seq(Slots), todo : SUBSET Nat]
           /\ op[r].kind = "set" => op[r] \in [kind : {"set"}, ids : Seq(Slots)]
BY DEF RequestsInv, OpType, NoOp, Saves

LEMMA StepsOfNext ==
    ASSUME Next
    PROVE  /\ Remember
           /\ \/ \E r \in Requests : PageAction(r) \/ RequestAction(r)
              \/ DirectStep \/ PackStep
BY DEF Next, PageStep, RequestStep, PageAction, RequestAction

LEMMA PageIsQuiet ==
    ASSUME NEW r \in Requests, PageAction(r)
    PROVE  Quiet /\ UNCHANGED pack
BY DEF PageAction, SubmitForm, SetSimilar, AddBrain, MoveSlot, MoveBrain, ClearOverride,
       DisableRepo, Send, Quiet, tables

LEMMA PackIsQuiet ==
    ASSUME PackStep
    PROVE  Quiet /\ UNCHANGED requests
BY DEF PackStep, PackSlots, PackEnabled, PackRepoSlots, PackMeta, PackRows, PackAccounts,
       PackDone, PackSealed, Quiet, tables, requests

LEMMA RequestLeavesPack ==
    ASSUME NEW r \in Requests, RequestAction(r)
    PROVE  UNCHANGED pack
BY DEF RequestAction, RequireAccount, ExistingSlot, UpdateSlot, InsertSlot, ValidateOrder,
       AssignIndex, FindEnabled, ValidateList, UpsertMeta, DeleteRows, InsertRows,
       DeleteMeta, DeleteEnabledRow, RequestFails

LEMMA RequestKinds ==
    ASSUME TypeInv, SavesInv, NEW r \in Requests, RequestAction(r)
    PROVE  Quiet \/ Rewritten \/ Inserted(r) \/ ListWritten
<1> USE DEF tables
<1>1. CASE RequireAccount(r) \/ ExistingSlot(r) \/ ValidateOrder(r) \/ FindEnabled(r)
           \/ ValidateList(r) \/ RequestFails(r)
  BY <1>1 DEF RequireAccount, ExistingSlot, ValidateOrder, FindEnabled, ValidateList,
              RequestFails, Quiet
<1>2. CASE UpdateSlot(r)
  <2>1. op[r].kind \in Saves
    BY <1>2 DEF UpdateSlot, At
  <2>2. op[r].row \in Row
    BY <2>1, OpShapes DEF TypeInv
  <2>3. op[r].id \in DOMAIN slots => slots[op[r].id].account = op[r].row.account
    BY <2>1 DEF SavesInv
  <2>4. slots \in [DOMAIN slots -> Row]
    BY DEF TypeInv, TablesInv, IsTable
  <2>. QED BY <1>2, <2>2, <2>3, <2>4 DEF UpdateSlot, Rewritten
<1>3. CASE InsertSlot(r)
  BY <1>3 DEF InsertSlot, Inserted, Quiet, At, Goto
<1>4. ASSUME NEW k \in 1..Cardinality(Slots), AssignIndex(r, k)
      PROVE  Rewritten
  <2>1. Cardinality(Slots) \in Nat
    BY SlotsAssumption, FS_CardinalityType
  <2>2. k - 1 \in Nat
    BY <1>4, <2>1
  <2>3. slots \in [DOMAIN slots -> Row]
    BY DEF TypeInv, TablesInv, IsTable
  <2>4. slots' = [i \in DOMAIN slots |->
                    IF i = op[r].ids[k] THEN [slots[i] EXCEPT !.index = k - 1] ELSE slots[i]]
    BY <1>4 DEF AssignIndex
  <2>5. ASSUME NEW i \in DOMAIN slots
        PROVE  slots'[i] \in Row /\ slots'[i].account = slots[i].account
    BY <2>2, <2>3, <2>4 DEF Row
  <2>. QED BY <1>4, <2>4, <2>5 DEF AssignIndex, Rewritten
<1>5. CASE InsertRows(r)
  <2>1. op[r].kind = "set"
    BY <1>5 DEF InsertRows, At
  <2>2. op[r] \in [kind : {"set"}, ids : Seq(Slots)]
    BY <2>1, OpShapes DEF TypeInv
  <2>. QED BY <1>5, <2>2 DEF InsertRows, ListWritten, TypeInv, TablesInv
<1>6. CASE UpsertMeta(r) \/ DeleteRows(r) \/ DeleteMeta(r) \/ DeleteEnabledRow(r)
  BY <1>6 DEF UpsertMeta, DeleteRows, DeleteMeta, DeleteEnabledRow, ListWritten, TypeInv,
              TablesInv
<1>. QED BY <1>1, <1>2, <1>3, <1>4, <1>5, <1>6 DEF RequestAction

LEMMA DirectDrops ==
    ASSUME TypeInv, DirectStep
    PROVE  /\ Dropped \/ AccountSaved \/ EnableRepo
           /\ UNCHANGED <<requests, pack>>
<1> USE DEF requests
<1>1. ASSUME NEW a \in Accounts, SaveAccount(a) PROVE AccountSaved /\ UNCHANGED <<requests, pack>>
  BY <1>1 DEF SaveAccount, AccountSaved
<1>2. ASSUME NEW a \in Accounts, DeleteAccount(a) PROVE Dropped /\ UNCHANGED <<requests, pack>>
  <2>1. SlotsOf({a}) \in SUBSET Slots
    BY DEF SlotsOf, TypeInv, TablesInv, IsTable
  <2>2. \A i \in DOMAIN slots' : i \in DOMAIN slots /\ slots[i].account # a
    BY <1>2 DEF DeleteAccount, DropSlots, Without, Restrict, SlotsOf
  <2>3. \A i \in DOMAIN slots' : slots[i].account \in accounts'
    BY <1>2, <2>2 DEF DeleteAccount, TypeInv, TablesInv
  <2>4. accounts' \subseteq accounts /\ UNCHANGED <<meta, spent, enabled, requests, pack>>
        /\ DropSlots(SlotsOf({a}))
    BY <1>2 DEF DeleteAccount
  <2>. QED BY <2>1, <2>3, <2>4 DEF Dropped
<1>3. ASSUME NEW i \in Slots, DeleteModelSlot(i) PROVE Dropped /\ UNCHANGED <<requests, pack>>
  <2>1. DOMAIN slots' \subseteq DOMAIN slots
    BY <1>3 DEF DeleteModelSlot, DropSlots, Without, Restrict
  <2>2. \A j \in DOMAIN slots' : slots[j].account \in accounts'
    BY <1>3, <2>1 DEF DeleteModelSlot, TypeInv, TablesInv
  <2>3. UNCHANGED <<accounts, meta, spent, enabled, requests, pack>> /\ DropSlots({i})
    BY <1>3 DEF DeleteModelSlot
  <2>. QED BY <2>2, <2>3, <1>3 DEF Dropped
<1>4. CASE RotateVault
  <2>1. SlotsOf(accounts) \in SUBSET Slots /\ SlotsOf(accounts) = DOMAIN slots
    BY DEF SlotsOf, TypeInv, TablesInv, IsTable
  <2>2. DOMAIN slots' = {}
    BY <1>4, <2>1 DEF RotateVault, DropSlots, Without, Restrict
  <2>3. /\ accounts' = {} /\ meta' = FALSE /\ UNCHANGED <<spent, enabled, requests, pack>>
        /\ DropSlots(SlotsOf(accounts))
    BY <1>4 DEF RotateVault
  <2>. QED BY <2>1, <2>2, <2>3 DEF Dropped
<1>5. CASE EnableRepo
  BY <1>5 DEF EnableRepo
<1>. QED BY <1>1, <1>2, <1>3, <1>4, <1>5 DEF DirectStep

LEMMA DirectKinds ==
    ASSUME TypeInv, DirectStep
    PROVE  /\ Dropped \/ AccountSaved \/ ListWritten
           /\ UNCHANGED <<requests, pack>>
BY DirectDrops DEF EnableRepo, ListWritten, TypeInv, TablesInv

\* How a step changes the tables, whoever takes it.
LEMMA TableKinds ==
    ASSUME TypeInv, SavesInv, Next
    PROVE  \/ Quiet \/ Rewritten \/ Dropped \/ AccountSaved \/ ListWritten
           \/ \E r \in Requests : Inserted(r)
BY StepsOfNext, PageIsQuiet, PackIsQuiet, RequestKinds, DirectKinds

\* A statement of a request changes no other request, and the request ends or
\* stays what it is, but that an order has one slot less to write.
LEMMA RequestMoves ==
    ASSUME TypeInv, NEW r \in Requests, RequestAction(r)
    PROVE  \E next \in OpType, at \in PCs :
             /\ op' = [op EXCEPT ![r] = next] /\ pc' = [pc EXCEPT ![r] = at]
             /\ next = op[r] \/ next.kind \notin Saves
             /\ next = op[r] \/ (next = NoOp /\ at = "over") \/ op[r].kind = "order"
<1>0. /\ op \in [Requests -> OpType] /\ pc \in [Requests -> PCs]
      /\ NoOp \in OpType /\ NoOp.kind \notin Saves
  BY DEF TypeInv, RequestsInv, OpType, NoOp, Saves
<1>1. ASSUME NEW at \in PCs, Goto(r, at)
      PROVE  \E next \in OpType :
               /\ op' = [op EXCEPT ![r] = next] /\ pc' = [pc EXCEPT ![r] = at]
               /\ next = op[r] \/ next.kind \notin Saves
               /\ next = op[r] \/ (next = NoOp /\ at = "over")
  <2>1. CASE at = "over"
    BY <1>0, <1>1, <2>1 DEF Goto
  <2>2. CASE at # "over"
    <3>1. op' = [op EXCEPT ![r] = op[r]] /\ op[r] \in OpType
      BY <1>0, <1>1, <2>2 DEF Goto
    <3>2. pc' = [pc EXCEPT ![r] = at]
      BY <1>1 DEF Goto
    <3>. QED BY <3>1, <3>2
  <2>. QED BY <2>1, <2>2
<1>2. CASE \E at \in PCs : Goto(r, at)
  BY <1>1, <1>2
<1>3. ASSUME NEW k \in 1..Cardinality(Slots), AssignIndex(r, k), op[r].todo # {k}
      PROVE  \E next \in OpType :
               /\ op' = [op EXCEPT ![r] = next] /\ pc' = [pc EXCEPT ![r] = pc[r]]
               /\ next.kind \notin Saves /\ op[r].kind = "order"
  <2>1. op[r].kind = "order"
    BY <1>3 DEF AssignIndex, At
  <2>2. op[r] \in [kind : {"order"}, ids : Seq(Slots), todo : SUBSET Nat]
    BY <2>1, OpShapes DEF TypeInv
  <2> DEFINE next == [op[r] EXCEPT !.todo = @ \ {k}]
  <2>3. next \in [kind : {"order"}, ids : Seq(Slots), todo : SUBSET Nat]
    BY <2>2
  <2>4. next \in OpType /\ next.kind \notin Saves
    BY <2>3 DEF OpType, Saves
  <2>5. op' = [op EXCEPT ![r] = next] /\ pc' = [pc EXCEPT ![r] = pc[r]]
    BY <1>0, <1>3 DEF AssignIndex
  <2>. QED BY <2>1, <2>4, <2>5
<1>4. CASE \E k \in 1..Cardinality(Slots) : AssignIndex(r, k)
  <2>1. PICK k \in 1..Cardinality(Slots) : AssignIndex(r, k)
    BY <1>4
  <2>2. CASE op[r].todo = {k}
    <3>1. Goto(r, "over") /\ "over" \in PCs
      BY <2>1, <2>2 DEF AssignIndex, PCs
    <3>. QED BY <3>1, <1>2
  <2>3. CASE op[r].todo # {k}
    <3>1. pc[r] \in PCs
      BY <1>0
    <3>. QED BY <3>1, <2>1, <2>3, <1>3
  <2>. QED BY <2>2, <2>3
<1>5. CASE RequireAccount(r) \/ ExistingSlot(r) \/ UpdateSlot(r) \/ InsertSlot(r)
           \/ ValidateOrder(r) \/ FindEnabled(r) \/ ValidateList(r) \/ UpsertMeta(r)
           \/ DeleteRows(r) \/ InsertRows(r) \/ DeleteMeta(r) \/ DeleteEnabledRow(r)
           \/ RequestFails(r)
  <2>1. \E at \in PCs : Goto(r, at)
    BY <1>5 DEF RequireAccount, ExistingSlot, UpdateSlot, InsertSlot, ValidateOrder,
                FindEnabled, ValidateList, UpsertMeta, DeleteRows, InsertRows, DeleteMeta,
                DeleteEnabledRow, RequestFails, PCs
  <2>. QED BY <2>1, <1>2
<1>. QED BY <1>4, <1>5 DEF RequestAction

\* A page sends a request for slots it shows, or for a new one.
LEMMA PageSends ==
    ASSUME TypeInv, NEW r \in Requests, PageAction(r)
    PROVE  \E args \in OpType, first \in PCs :
             /\ op' = [op EXCEPT ![r] = args] /\ pc' = [pc EXCEPT ![r] = first]
             /\ pc[r] = "free"
             /\ args.kind = "save" => args.id \notin DOMAIN slots \cup dropped \cup Minted
             /\ args.kind = "similar" => args.id \in DOMAIN slots /\ args.row = slots[args.id]
<1> DEFINE Sent(args) ==
             /\ args \in OpType
             /\ args.kind = "save" => args.id \notin DOMAIN slots \cup dropped \cup Minted
             /\ args.kind = "similar" => args.id \in DOMAIN slots /\ args.row = slots[args.id]
<1>0. /\ slots \in [DOMAIN slots -> Row] /\ DOMAIN slots \in SUBSET Slots
      /\ accounts \subseteq Accounts
  BY DEF TypeInv, TablesInv, IsTable
<1>1. ASSUME NEW a \in accounts, SubmitForm(r, a)
      PROVE  \E args, first : Send(r, args, first) /\ Sent(args) /\ first \in PCs
  <2>1. PICK i \in Slots \ (DOMAIN slots \cup dropped \cup Minted) :
          Send(r, [kind |-> "save", id |-> i,
                   row |-> [account |-> a, index |-> Cardinality(DOMAIN slots)]], "account")
    BY <1>1 DEF SubmitForm
  <2>2. Cardinality(DOMAIN slots) \in Nat
    BY <1>0, SlotsAssumption, FS_Subset, FS_CardinalityType
  <2> DEFINE args == [kind |-> "save", id |-> i,
                      row |-> [account |-> a, index |-> Cardinality(DOMAIN slots)]]
  <2>3. args \in [kind : Saves, id : Slots, row : Row]
    BY <1>0, <1>1, <2>1, <2>2 DEF Saves, Row
  <2>4. Sent(args)
    BY <2>1, <2>3 DEF OpType
  <2>. QED BY <2>1, <2>4 DEF PCs
<1>2. ASSUME NEW i \in DOMAIN slots, SetSimilar(r, i)
      PROVE  \E args, first : Send(r, args, first) /\ Sent(args) /\ first \in PCs
  <2> DEFINE args == [kind |-> "similar", id |-> i, row |-> slots[i]]
  <2>1. args \in [kind : Saves, id : Slots, row : Row]
    BY <1>0, <1>2 DEF Saves
  <2>2. Sent(args)
    BY <2>1, <1>2 DEF OpType
  <2>. QED BY <1>2, <2>2 DEF SetSimilar, PCs
<1>3. ASSUME NEW ids \in Seq(Slots)
      PROVE  Sent([kind |-> "set", ids |-> ids])
             /\ Sent([kind |-> "order", ids |-> ids, todo |-> DOMAIN ids])
  <2>1. DOMAIN ids \in SUBSET Nat
    BY LenProperties
  <2>. QED BY <1>3, <2>1 DEF OpType
<1>4. Sent([kind |-> "clear"]) /\ Sent([kind |-> "disable"])
  BY DEF OpType
<1>5. ASSUME NEW i \in DOMAIN slots, AddBrain(r, i)
      PROVE  \E args, first : Send(r, args, first) /\ Sent(args) /\ first \in PCs
  <2>1. Append(Brains, i) \in Seq(Slots)
    BY <1>0, <1>5, BrainsType, AppendProperties
  <2>. QED BY <1>3, <1>5, <2>1 DEF AddBrain, PCs
<1>6. ASSUME NEW ids \in SetToSeqs(DOMAIN slots), MoveSlot(r, ids)
      PROVE  \E args, first : Send(r, args, first) /\ Sent(args) /\ first \in PCs
  <2>1. ids \in Seq(Slots)
    BY <1>0, <1>6, PermutationType
  <2>. QED BY <1>3, <1>6, <2>1 DEF MoveSlot, PCs
<1>7. ASSUME NEW ids \in SetToSeqs(ToSet(Brains)), MoveBrain(r, ids)
      PROVE  \E args, first : Send(r, args, first) /\ Sent(args) /\ first \in PCs
  <2>1. ids \in Seq(Slots)
    BY <1>0, <1>7, BrainsType, PermutationType
  <2>. QED BY <1>3, <1>7, <2>1 DEF MoveBrain, PCs
<1> HIDE DEF Sent
<1>8. \E args, first : Send(r, args, first) /\ Sent(args) /\ first \in PCs
  <2>1. CASE ClearOverride(r) \/ DisableRepo(r)
    <3>1. CASE ClearOverride(r)
      BY <3>1, <1>4 DEF ClearOverride, PCs
    <3>2. CASE DisableRepo(r)
      BY <3>2, <1>4 DEF DisableRepo, PCs
    <3>. QED BY <2>1, <3>1, <3>2
  <2>. QED BY <2>1, <1>1, <1>2, <1>5, <1>6, <1>7 DEF PageAction
<1>. QED BY <1>8 DEF Send, Sent

-----------------------------------------------------------------------------
(* The tables keep their references, and requests their accounts *)

LEMMA InitHolds ==
    ASSUME Init
    PROVE  TypeInv /\ SavesInv /\ ListInv /\ PackInv /\ AllowedInv /\ EmptyListHasCause
<1>1. /\ DOMAIN slots \in SUBSET Slots /\ slots \in [DOMAIN slots -> Row]
      /\ \A i \in DOMAIN slots : slots[i].account \in accounts
  <2>1. PICK ids \in SUBSET Slots :
            slots \in [ids -> [account : accounts, index : 0..Cardinality(ids) - 1]]
    BY DEF Init, Saved
  <2>2. Cardinality(ids) \in Nat
    BY <2>1, SlotsAssumption, FS_Subset, FS_CardinalityType
  <2>3. [account : accounts, index : 0..Cardinality(ids) - 1] \subseteq Row
    <3>1. accounts \subseteq Accounts
      BY DEF Init
    <3> HIDE DEF Init
    <3>2. 0..Cardinality(ids) - 1 \subseteq Nat
      BY <2>2
    <3>. QED BY <3>1, <3>2 DEF Row
  <2>4. slots \in [ids -> Row] /\ \A i \in ids : slots[i].account \in accounts
    BY <2>1, <2>3
  <2>. QED BY <2>4
<1>2. list = NoRows /\ DOMAIN list = {} /\ IsTable(list, ListRow)
  BY NoRowsIsTable DEF Init, NoRows
<1>3. TablesInv
  BY <1>1, <1>2 DEF Init, TablesInv, IsTable
<1>4. RequestsInv
  BY DEF Init, RequestsInv, OpType, PCs
<1>5. pack \in PackType /\ GhostsInv /\ pack.at = "idle"
  BY DEF Init, PackType, GhostsInv, NoPack
<1>6. SavesInv
  BY DEF Init, SavesInv, NoOp, Saves
<1>7. ListInv /\ EmptyListHasCause
  BY <1>2 DEF ListInv, NoMixedList, EmptyListHasCause, Init
<1>. QED BY <1>3, <1>4, <1>5, <1>6, <1>7
         DEF TypeInv, PackInv, Queued, PackIsComplete, AllowedInv

LEMMA TablesStep ==
    ASSUME TypeInv, SavesInv, Next
    PROVE  TablesInv'
<1> USE DEF tables
<1>0. TablesInv
  BY DEF TypeInv
<1>1. CASE Quiet
  BY <1>0, <1>1 DEF Quiet, TablesInv, IsTable
<1>2. CASE Rewritten
  BY <1>0, <1>2 DEF Rewritten, TablesInv, IsTable
<1>3. CASE Dropped
  <2>1. PICK ids \in SUBSET Slots : DropSlots(ids)
    BY <1>3 DEF Dropped
  <2>2. /\ slots' = [i \in DOMAIN slots \ ids |-> slots[i]]
        /\ list' = [i \in DOMAIN list \ ids |-> list[i]]
    BY <2>1 DEF DropSlots, Without, Restrict
  <2>3. accounts' \subseteq accounts /\ spent' = spent /\ enabled' = enabled
        /\ meta' \in {meta, FALSE}
    BY <1>3 DEF Dropped
  <2>4. \A i \in DOMAIN slots' : slots'[i].account \in accounts'
    BY <1>3, <2>2 DEF Dropped
  <2>5. IsTable(slots', Row) /\ IsTable(list', ListRow) /\ DOMAIN list' \subseteq DOMAIN slots'
    BY <1>0, <2>2 DEF TablesInv, IsTable
  <2>. QED BY <1>0, <2>3, <2>4, <2>5 DEF TablesInv
<1>4. CASE AccountSaved
  BY <1>0, <1>4 DEF AccountSaved, SaveAccount, TablesInv, IsTable
<1>5. CASE ListWritten
  <2>1. CASE list' = NoRows
    BY <1>0, <1>5, <2>1, NoRowsIsTable DEF ListWritten, TablesInv, IsTable, NoRows
  <2>2. ASSUME NEW r \in Requests, op[r] \in [kind : {"set"}, ids : Seq(Slots)],
               ToSet(op[r].ids) \subseteq DOMAIN slots, list' = With(list, RowsOf(r))
        PROVE  IsTable(list', ListRow) /\ DOMAIN list' \subseteq DOMAIN slots
    <3> DEFINE ids == op[r].ids
    <3>1. DOMAIN ids = 1..Len(ids) /\ Len(ids) \in Nat /\ ToSet(ids) \in SUBSET Slots
      BY <2>2, LenProperties, ElementOfSeq DEF ToSet
    <3>2. ASSUME NEW i \in ToSet(ids)
          PROVE  RowsOf(r)[i] \in ListRow
      <4>1. \E k \in DOMAIN ids : ids[k] = i
        BY <3>2 DEF ToSet
      <4>2. (CHOOSE k \in DOMAIN ids : ids[k] = i) - 1 \in Nat
        BY <4>1, <3>1
      <4>. QED BY <3>1, <3>2, <4>2 DEF RowsOf, ListRow
    <3>3. DOMAIN RowsOf(r) = ToSet(ids)
      BY DEF RowsOf
    <3>4. /\ DOMAIN list' = DOMAIN list \cup ToSet(ids)
          /\ list' = [i \in DOMAIN list' |->
                        IF i \in ToSet(ids) THEN RowsOf(r)[i] ELSE list[i]]
      BY <2>2, <3>3 DEF With
    <3>5. ToSet(ids) \subseteq DOMAIN slots
      BY <2>2
    <3>6. DOMAIN list' \subseteq DOMAIN slots /\ DOMAIN list' \subseteq Slots
      BY <1>0, <3>1, <3>4, <3>5 DEF TablesInv, IsTable
    <3>7. ASSUME NEW i \in DOMAIN list' PROVE list'[i] \in ListRow
      <4> HIDE DEF ids
      <4>. QED BY <1>0, <3>2, <3>4, <3>7 DEF TablesInv, IsTable
    <3>8. list' = [i \in DOMAIN list' |-> list'[i]]
      BY <3>4
    <3>9. list' \in [DOMAIN list' -> ListRow]
      BY <3>7, <3>8
    <3>. QED BY <3>6, <3>9 DEF IsTable
  <2>3. IsTable(list', ListRow) /\ DOMAIN list' \subseteq DOMAIN slots
    BY <1>0, <1>5, <2>1, <2>2, NoRowsIsTable DEF ListWritten, TablesInv, IsTable, NoRows
  <2>. QED BY <1>0, <1>5, <2>3 DEF ListWritten, TablesInv, IsTable
<1>6. ASSUME NEW r \in Requests, Inserted(r) PROVE TablesInv'
  <2> DEFINE i == op[r].id
  <2>1. op[r] \in [kind : Saves, id : Slots, row : Row]
    BY <1>6, OpShapes DEF Inserted, TypeInv
  <2>2. /\ DOMAIN slots' = DOMAIN slots \cup {i}
        /\ slots' = [j \in DOMAIN slots' |-> IF j = i THEN op[r].row ELSE slots[j]]
    BY <1>6 DEF Inserted, With
  <2>3. IsTable(slots', Row) /\ \A j \in DOMAIN slots' : slots'[j].account \in accounts
    BY <1>0, <1>6, <2>1, <2>2 DEF TablesInv, IsTable, Inserted
  <2>. QED BY <1>0, <1>6, <2>2, <2>3 DEF Inserted, TablesInv, IsTable
<1>. QED BY <1>1, <1>2, <1>3, <1>4, <1>5, <1>6, TableKinds

LEMMA RequestsStep ==
    ASSUME TypeInv, Next
    PROVE  RequestsInv'
<1>0. op \in [Requests -> OpType] /\ pc \in [Requests -> PCs]
  BY DEF TypeInv, RequestsInv
<1>1. ASSUME NEW r \in Requests, NEW next \in OpType, NEW at \in PCs,
             op' = [op EXCEPT ![r] = next], pc' = [pc EXCEPT ![r] = at]
      PROVE  RequestsInv'
  BY <1>0, <1>1 DEF RequestsInv
<1>2. ASSUME NEW r \in Requests, PageAction(r) PROVE RequestsInv'
  BY <1>1, <1>2, PageSends
<1>3. ASSUME NEW r \in Requests, RequestAction(r) PROVE RequestsInv'
  BY <1>1, <1>3, RequestMoves
<1>4. CASE UNCHANGED requests
  BY <1>0, <1>4 DEF requests, RequestsInv
<1>. QED BY <1>2, <1>3, <1>4, StepsOfNext, DirectKinds, PackIsQuiet

LEMMA PackShapes ==
    ASSUME pack \in PackType
    PROVE  /\ pack.at \in {"idle", "enabled", "list", "meta", "rows", "accounts", "sealed", "done"}
           /\ pack.at \in {"enabled", "list"} =>
                pack \in [at : {"enabled", "list"}, owner : Owners]
           /\ pack.at \in {"meta", "rows"} =>
                pack \in [at : {"meta", "rows"}, owner : Owners, rows : RowTables]
           /\ pack.at = "accounts" =>
                pack \in [at : {"accounts"}, queue : Seq(Slots), owner : Owners]
           /\ pack.at = "sealed" =>
                pack \in [at : {"sealed"}, queue : Seq(Slots), owner : Owners,
                          listed : SUBSET Accounts, todo : SUBSET Accounts]
           /\ pack.at = "done" =>
                pack \in [at : {"done"}, queue : Seq(Slots), owner : Owners,
                          vault : SUBSET Accounts]
BY DEF PackType, NoPack

LEMMA RowTablesAreTables == \A rows \in RowTables : IsTable(rows, Row)
BY DEF RowTables, IsTable

\* A queue is put together of what the pack knows and the repo was shown.
LEMMA OrderedPack ==
    ASSUME pack \in PackType, pack.at \in {"meta", "rows"},
           NEW hasList \in BOOLEAN, NEW overrides, IsTable(overrides, ListRow)
    PROVE  \/ Ordered(hasList, overrides) = NoPack
           \/ /\ Ordered(hasList, overrides)
                    \in [at : {"accounts"}, queue : Seq(Slots), owner : Owners]
              /\ Ordered(hasList, overrides).owner = pack.owner
              /\ ToSet(Ordered(hasList, overrides).queue) =
                    DOMAIN MergeSlotOrder(pack.rows, hasList, overrides)
                        \cap DOMAIN pack.rows \cap DOMAIN pack.owner
<1>1. pack \in [at : {"meta", "rows"}, owner : Owners, rows : RowTables]
  BY PackShapes
<1>2. IsTable(pack.rows, Row)
  BY <1>1, RowTablesAreTables
<1> DEFINE view == SlotsForRepoView(pack.rows, hasList, overrides)
           queue == SlotsForConsumer(view, DOMAIN pack.owner)
<1>3. /\ queue \in Seq(Slots)
      /\ ToSet(queue) = DOMAIN MergeSlotOrder(pack.rows, hasList, overrides)
                            \cap DOMAIN pack.rows \cap DOMAIN pack.owner
  BY <1>2, QueueHasKnownSlots
<1>4. Ordered(hasList, overrides) =
        IF queue = <<>> THEN NoPack
        ELSE [at |-> "accounts", queue |-> queue, owner |-> pack.owner]
  BY DEF Ordered
<1> HIDE DEF queue
<1>. QED BY <1>1, <1>3, <1>4

LEMMA PackTypeStep ==
    ASSUME TypeInv, Next
    PROVE  pack' \in PackType
<1>0. pack \in PackType /\ NoPack \in PackType /\ TablesInv
  BY DEF TypeInv, PackType
<1>1. CASE UNCHANGED pack
  BY <1>0, <1>1
<1>2. CASE PackSlots
  <2>1. [i \in DOMAIN slots |-> slots[i].account] \in Owners
    BY <1>0 DEF TablesInv, IsTable, Owners, Row
  <2>. QED BY <1>2, <2>1 DEF PackSlots, PackType
<1>3. CASE PackEnabled
  <2>1. pack \in [at : {"enabled", "list"}, owner : Owners]
    BY <1>0, <1>3, PackShapes DEF PackEnabled
  <2>2. [pack EXCEPT !.at = "list"] \in [at : {"enabled", "list"}, owner : Owners]
    BY <2>1
  <2>. QED BY <1>0, <1>3, <2>2 DEF PackEnabled, PackType
<1>4. CASE PackRepoSlots
  <2>1. pack.owner \in Owners
    BY <1>0, <1>4, PackShapes DEF PackRepoSlots
  <2>2. slots \in RowTables
    BY <1>0 DEF TablesInv, IsTable, RowTables
  <2>. QED BY <1>4, <2>1, <2>2 DEF PackRepoSlots, PackType
<1>5. CASE PackMeta
  <2>1. CASE meta
    <3>1. pack \in [at : {"meta", "rows"}, owner : Owners, rows : RowTables]
      BY <1>0, <1>5, PackShapes DEF PackMeta
    <3>2. [pack EXCEPT !.at = "rows"] \in [at : {"meta", "rows"}, owner : Owners, rows : RowTables]
      BY <3>1
    <3>. QED BY <1>5, <2>1, <3>2 DEF PackMeta, PackType
  <2>2. CASE ~meta
    <3>1. pack' = Ordered(FALSE, NoRows) /\ pack.at \in {"meta", "rows"}
      BY <1>5, <2>2 DEF PackMeta
    <3>. QED BY <1>0, <3>1, OrderedPack, NoRowsIsTable DEF PackType
  <2>. QED BY <2>1, <2>2
<1>6. CASE PackRows
  <2>1. pack' = Ordered(TRUE, list) /\ pack.at \in {"meta", "rows"} /\ IsTable(list, ListRow)
    BY <1>0, <1>6 DEF PackRows, TablesInv
  <2>. QED BY <1>0, <2>1, OrderedPack DEF PackType
<1>7. CASE PackAccounts
  <2>1. pack \in [at : {"accounts"}, queue : Seq(Slots), owner : Owners]
    BY <1>0, <1>7, PackShapes DEF PackAccounts
  <2>2. accounts \in SUBSET Accounts
    BY <1>0 DEF TablesInv
  <2>. QED BY <1>7, <2>1, <2>2 DEF PackAccounts, PackType
<1>8. ASSUME NEW a \in Accounts, PackSealed(a) PROVE pack' \in PackType
  <2>1. pack \in [at : {"sealed"}, queue : Seq(Slots), owner : Owners,
                  listed : SUBSET Accounts, todo : SUBSET Accounts]
    BY <1>0, <1>8, PackShapes DEF PackSealed
  <2>2. [pack EXCEPT !.todo = @ \ {a}]
            \in [at : {"sealed"}, queue : Seq(Slots), owner : Owners,
                 listed : SUBSET Accounts, todo : SUBSET Accounts]
    BY <2>1
  <2>. QED BY <1>0, <1>8, <2>2 DEF PackSealed, PackType
<1>9. CASE PackDone
  <2>1. pack \in [at : {"sealed"}, queue : Seq(Slots), owner : Owners,
                  listed : SUBSET Accounts, todo : SUBSET Accounts]
    BY <1>0, <1>9, PackShapes DEF PackDone
  <2>2. CredentialVaultForSlots(pack.listed) \in SUBSET Accounts
    BY <2>1 DEF CredentialVaultForSlots
  <2>. QED BY <1>9, <2>1, <2>2 DEF PackDone, PackType
<1>. QED BY <1>1, <1>2, <1>3, <1>4, <1>5, <1>6, <1>7, <1>8, <1>9, StepsOfNext, PageIsQuiet,
            RequestLeavesPack, DirectKinds DEF PackStep

LEMMA GhostsStep ==
    ASSUME TypeInv, SavesInv, Next
    PROVE  GhostsInv'
<1>1. GhostsInv /\ Remember /\ TablesInv'
  BY StepsOfNext, TablesStep DEF TypeInv
<1>2. Allowed' \subseteq Slots
  BY <1>1 DEF Allowed, TablesInv, IsTable
<1>3. dropped' \subseteq Slots
  BY <1>1 DEF Remember, GhostsInv, TypeInv, TablesInv, IsTable
<1>4. allowed' \subseteq Slots
  BY <1>1, <1>2 DEF Remember, GhostsInv
<1>5. emptied' \in {"", "torn", "deleted"}
  BY <1>1 DEF Remember, GhostsInv
<1>. QED BY <1>3, <1>4, <1>5 DEF GhostsInv

LEMMA TypeStep ==
    ASSUME TypeInv, SavesInv, Next
    PROVE  TypeInv'
BY TablesStep, RequestsStep, PackTypeStep, GhostsStep DEF TypeInv

LEMMA SavesStep ==
    ASSUME TypeInv, SavesInv, Next
    PROVE  SavesInv'
<1> DEFINE Kept == \A q \in Requests : op'[q] = op[q] \/ op'[q].kind \notin Saves
<1>0. op \in [Requests -> OpType] /\ Remember
  BY StepsOfNext DEF TypeInv, RequestsInv
<1>1. dropped' = dropped \cup (DOMAIN slots \ DOMAIN slots')
  BY <1>0 DEF Remember
<1>2. CASE Kept /\ DOMAIN slots' \subseteq DOMAIN slots
           /\ \A i \in DOMAIN slots' : slots'[i].account = slots[i].account
  BY <1>1, <1>2 DEF SavesInv
<1>3. ASSUME NEW r \in Requests, RequestAction(r) PROVE Kept
  <2>1. PICK next \in OpType : op' = [op EXCEPT ![r] = next]
                               /\ (next = op[r] \/ next.kind \notin Saves)
    BY <1>3, RequestMoves
  <2>. QED BY <1>0, <2>1
<1>4. ASSUME NEW r \in Requests, PageAction(r) PROVE SavesInv'
  <2>1. UNCHANGED slots /\ dropped' = dropped
    BY <1>1, <1>4, PageIsQuiet DEF Quiet, tables
  <2>2. PICK args \in OpType :
          /\ op' = [op EXCEPT ![r] = args]
          /\ args.kind = "save" => args.id \notin DOMAIN slots \cup dropped \cup Minted
          /\ args.kind = "similar" => args.id \in DOMAIN slots /\ args.row = slots[args.id]
    BY <1>4, PageSends
  <2>3. op'[r] = args /\ \A q \in Requests \ {r} : op'[q] = op[q]
    BY <1>0, <2>2
  <2>4. \A q \in Requests : op[q].kind = "save" => op[q].id \in Minted
    BY DEF Minted
  <2>5. ASSUME NEW q \in Requests \ {r}, op[q].kind \in Saves, args.kind \in Saves,
               op[q].id = args.id
        PROVE  args.kind = "similar" /\ op[q].kind = "similar"
               /\ op[q].row.account = args.row.account
    <3>1. op[q].kind = "save" => op[q].id \notin DOMAIN slots \cup dropped
      BY <2>5 DEF SavesInv
    <3>2. op[q].kind = "similar" => op[q].id \in DOMAIN slots \cup dropped
      BY <2>5 DEF SavesInv
    <3>3. op[q].id \in DOMAIN slots => slots[op[q].id].account = op[q].row.account
      BY <2>5 DEF SavesInv
    <3>. QED BY <2>2, <2>4, <2>5, <3>1, <3>2, <3>3 DEF Saves
  <2>. QED BY <2>1, <2>2, <2>3, <2>5 DEF SavesInv, Saves
<1>5. ASSUME NEW r \in Requests, Inserted(r) PROVE SavesInv'
  <2> DEFINE i == op[r].id
  <2>1. op'[r] = NoOp /\ \A q \in Requests \ {r} : op'[q] = op[q]
    BY <1>0, <1>5 DEF Inserted
  <2>2. /\ DOMAIN slots' = DOMAIN slots \cup {i} /\ dropped' = dropped
        /\ slots'[i].account = op[r].row.account
        /\ \A j \in DOMAIN slots : slots'[j].account = slots[j].account
    BY <1>1, <1>5 DEF Inserted, With
  <2>3. ASSUME NEW q \in Requests \ {r}, op[q].kind \in Saves, op[q].id = i
        PROVE  op[q].kind = "similar" /\ op[q].row.account = op[r].row.account
    BY <1>5, <2>3 DEF SavesInv, Inserted, Saves
  <2>4. op[r].kind \in Saves /\ NoOp.kind \notin Saves
    BY <1>5 DEF Inserted, NoOp, Saves
  <2> HIDE DEF i, NoOp
  <2>. QED BY <2>1, <2>2, <2>3, <2>4 DEF SavesInv
<1>6. ASSUME Quiet \/ Rewritten \/ Dropped \/ AccountSaved \/ ListWritten
      PROVE  DOMAIN slots' \subseteq DOMAIN slots
             /\ \A i \in DOMAIN slots' : slots'[i].account = slots[i].account
  BY <1>6 DEF Quiet, Rewritten, Dropped, AccountSaved, SaveAccount, ListWritten, DropSlots,
              Without, Restrict, tables
<1>7. CASE UNCHANGED requests
  <2>1. Kept
    BY <1>7 DEF requests
  <2>. QED BY <2>1, <1>2, <1>5, <1>6, TableKinds
<1>8. ASSUME NEW r \in Requests, RequestAction(r) PROVE SavesInv'
  BY <1>2, <1>3, <1>5, <1>6, <1>8, TableKinds
<1>. QED BY <1>4, <1>7, <1>8, StepsOfNext, DirectKinds, PackIsQuiet

-----------------------------------------------------------------------------
(* What the tables and the ghosts keep over a step *)

\* A slot that is gone is known to be, and an account never comes back.
LEMMA NothingReturns ==
    ASSUME TypeInv, SavesInv, Next
    PROVE  /\ dropped \subseteq dropped' /\ DOMAIN slots \subseteq DOMAIN slots' \cup dropped'
           /\ spent \subseteq spent' /\ accounts' \cap spent \subseteq accounts
<1>1. dropped' = dropped \cup (DOMAIN slots \ DOMAIN slots')
  BY StepsOfNext DEF Remember
<1>2. spent \subseteq spent' /\ accounts' \cap spent \subseteq accounts
  BY TableKinds DEF Quiet, Rewritten, Dropped, AccountSaved, SaveAccount, ListWritten,
                    Inserted, tables, TypeInv, TablesInv
<1>. QED BY <1>1, <1>2

LEMMA ListStep ==
    ASSUME TypeInv, SavesInv, ListInv, Next
    PROVE  ListInv'
<1> DEFINE Mixed(i, j) == list[i].of # list[j].of => list[i].of \cap list[j].of \subseteq dropped
<1>0. /\ \A i, j \in DOMAIN list : Mixed(i, j)
      /\ \A i \in DOMAIN list : list[i].of \subseteq DOMAIN list \cup dropped
      /\ DOMAIN list \subseteq DOMAIN slots
  BY DEF ListInv, NoMixedList, TypeInv, TablesInv
<1>1. dropped \subseteq dropped' /\ DOMAIN slots \subseteq DOMAIN slots' \cup dropped'
  BY NothingReturns
<1>2. CASE UNCHANGED list
  BY <1>0, <1>1, <1>2 DEF ListInv, NoMixedList
<1>3. CASE Dropped
  <2>1. PICK ids \in SUBSET Slots :
            /\ slots' = [i \in DOMAIN slots \ ids |-> slots[i]]
            /\ list' = [i \in DOMAIN list \ ids |-> list[i]]
    BY <1>3 DEF Dropped, DropSlots, Without, Restrict
  <2>2. DOMAIN list \subseteq DOMAIN list' \cup dropped'
    BY <1>0, <1>1, <2>1
  <2>. QED BY <1>0, <1>1, <2>1, <2>2 DEF ListInv, NoMixedList
<1>4. CASE list' = NoRows
  BY <1>4 DEF ListInv, NoMixedList, NoRows
<1>5. ASSUME NEW r \in Requests, ToSet(op[r].ids) \cap DOMAIN list = {},
             list' = With(list, RowsOf(r))
      PROVE  ListInv'
  <2> DEFINE ids == ToSet(op[r].ids)
  <2>1. /\ DOMAIN list' = DOMAIN list \cup ids
        /\ \A i \in DOMAIN list' :
             /\ i \in ids => list'[i].of = ids
             /\ i \notin ids => i \in DOMAIN list /\ list'[i].of = list[i].of
    BY <1>5 DEF With, RowsOf
  <2>2. \A i \in DOMAIN list : list[i].of \cap ids \subseteq dropped
    BY <1>0, <1>5
  <2> HIDE DEF ids
  <2>3. \A i \in DOMAIN list' : list'[i].of \subseteq DOMAIN list' \cup dropped'
    BY <1>0, <1>1, <2>1
  <2>4. ASSUME NEW i \in DOMAIN list', NEW j \in DOMAIN list', list'[i].of # list'[j].of
        PROVE  list'[i].of \cap list'[j].of \subseteq dropped'
    <3>1. CASE i \in ids
      BY <1>1, <2>1, <2>2, <2>4, <3>1
    <3>2. CASE j \in ids
      BY <1>1, <2>1, <2>2, <2>4, <3>2
    <3>3. CASE i \notin ids /\ j \notin ids
      BY <1>0, <1>1, <2>1, <2>4, <3>3
    <3>. QED BY <3>1, <3>2, <3>3
  <2>. QED BY <2>3, <2>4 DEF ListInv, NoMixedList
<1>. QED BY <1>2, <1>3, <1>4, <1>5, TableKinds
         DEF Quiet, Rewritten, AccountSaved, SaveAccount, ListWritten, Inserted, tables

\* A request that is torn stays so until its own next statement.
LEMMA TornStays ==
    ASSUME TypeInv, Next, NEW r \in Requests, Torn(r)
    PROVE  Torn(r)' \/ pc'[r] = "over" \/ list' # NoRows \/ ~meta'
<1>0. /\ op \in [Requests -> OpType] /\ pc \in [Requests -> PCs]
      /\ pc[r] \in {"rows", "insert", "unset"} /\ op[r].kind \in {"set", "clear", "disable"}
  BY DEF TypeInv, RequestsInv, Torn, At
<1>1. CASE op'[r] = op[r] /\ pc'[r] = pc[r]
  BY <1>1 DEF Torn, At
<1>2. ASSUME NEW q \in Requests, RequestAction(q)
      PROVE  Torn(r)' \/ pc'[r] = "over" \/ list' # NoRows \/ ~meta'
  <2>1. CASE q # r
    <3>1. op'[r] = op[r] /\ pc'[r] = pc[r]
      BY <1>0, <1>2, <2>1, RequestMoves
    <3>. QED BY <3>1, <1>1
  <2>2. CASE q = r
    <3>1. CASE DeleteRows(r)
      BY <1>0, <3>1 DEF DeleteRows, Goto, At, Lists, Torn
    <3>2. CASE InsertRows(r) \/ RequestFails(r)
      BY <1>0, <3>2 DEF InsertRows, RequestFails, Goto
    <3>3. CASE DeleteMeta(r)
      BY <3>3 DEF DeleteMeta
    <3>4. ~(\/ RequireAccount(r) \/ ExistingSlot(r) \/ UpdateSlot(r) \/ InsertSlot(r)
            \/ ValidateOrder(r) \/ FindEnabled(r) \/ ValidateList(r) \/ UpsertMeta(r)
            \/ DeleteEnabledRow(r))
      BY <1>0 DEF RequireAccount, ExistingSlot, UpdateSlot, InsertSlot, ValidateOrder,
                  FindEnabled, ValidateList, UpsertMeta, DeleteEnabledRow, At, Saves
    <3>5. \A k \in 1..Cardinality(Slots) : ~AssignIndex(r, k)
      BY <1>0 DEF AssignIndex, At
    <3>. QED BY <1>2, <2>2, <3>1, <3>2, <3>3, <3>4, <3>5 DEF RequestAction
  <2>. QED BY <2>1, <2>2
<1>3. ASSUME NEW q \in Requests, PageAction(q)
      PROVE  Torn(r)' \/ pc'[r] = "over" \/ list' # NoRows \/ ~meta'
  <2>1. PICK args \in OpType, first \in PCs :
          op' = [op EXCEPT ![q] = args] /\ pc' = [pc EXCEPT ![q] = first] /\ pc[q] = "free"
    BY <1>3, PageSends
  <2>2. q # r
    BY <1>0, <2>1
  <2>3. op'[r] = op[r] /\ pc'[r] = pc[r]
    BY <1>0, <2>1, <2>2
  <2>. QED BY <2>3, <1>1
<1>4. CASE UNCHANGED requests
  BY <1>1, <1>4 DEF requests
<1>. QED BY <1>2, <1>3, <1>4, StepsOfNext, DirectKinds, PackIsQuiet

LEMMA EmptyListStep ==
    ASSUME TypeInv, SavesInv, EmptyListHasCause, Next
    PROVE  EmptyListHasCause'
<1> SUFFICES ASSUME meta', list' = NoRows, emptied' \notin {"torn", "deleted"}
             PROVE  \E r \in Requests : Torn(r)'
  BY DEF EmptyListHasCause
<1>0. /\ list \in [DOMAIN list -> ListRow] /\ DOMAIN list \subseteq DOMAIN slots
      /\ op \in [Requests -> OpType] /\ pc \in [Requests -> PCs]
      /\ meta \in BOOLEAN /\ meta' \in BOOLEAN
  BY TablesStep DEF TypeInv, TablesInv, IsTable, RequestsInv
<1>1. /\ ~\E r \in Requests : Torn(r) /\ pc'[r] = "over"
      /\ list # NoRows => slots' = slots
      /\ emptied' = emptied
  BY StepsOfNext, <1>0 DEF Remember
<1>2. CASE meta /\ list = NoRows
  <2>1. PICK r \in Requests : Torn(r)
    BY <1>1, <1>2 DEF EmptyListHasCause
  <2>. QED BY <1>1, <2>1, TornStays
<1>3. CASE ~(meta /\ list = NoRows)
  <2>1. UNCHANGED <<meta, list>> => FALSE
    BY <1>3
  <2>2. ASSUME NEW r \in Requests, RequestAction(r) PROVE Torn(r)'
    <3>1. CASE UpsertMeta(r)
      BY <1>0, <3>1 DEF UpsertMeta, Goto, At, Torn
    <3>2. CASE DeleteRows(r)
      BY <1>0, <3>2 DEF DeleteRows, Goto, At, Lists, Torn
    <3>3. CASE DeleteMeta(r)
      BY <3>3 DEF DeleteMeta
    <3>4. CASE InsertRows(r)
      <4>1. list' = list \/ list' = With(list, RowsOf(r))
        BY <3>4 DEF InsertRows
      <4>2. list' # list
        BY <2>1, <3>4 DEF InsertRows
      <4>3. DOMAIN list' = DOMAIN list \cup DOMAIN RowsOf(r)
        BY <4>1, <4>2 DEF With
      <4>4. DOMAIN list' = {}
        BY DEF NoRows
      <4>5. list = NoRows
        BY <1>0, <4>3, <4>4 DEF NoRows
      <4>. QED BY <4>2, <4>5
    <3>. QED BY <2>1, <2>2, <3>1, <3>2, <3>3, <3>4
             DEF RequestAction, RequireAccount, ExistingSlot, UpdateSlot, InsertSlot,
                 ValidateOrder, AssignIndex, FindEnabled, ValidateList, DeleteEnabledRow,
                 RequestFails, tables
  <2>3. DirectStep => FALSE
    <3>1. CASE Dropped
      <4>1. PICK ids \in SUBSET Slots :
                /\ slots' = [i \in DOMAIN slots \ ids |-> slots[i]]
                /\ list' = [i \in DOMAIN list \ ids |-> list[i]]
        BY <3>1 DEF Dropped, DropSlots, Without, Restrict
      <4>2. meta
        BY <1>0, <3>1 DEF Dropped
      <4>3. slots' = slots
        BY <1>1, <1>3, <4>2
      <4>4. DOMAIN list \cap ids = {}
        BY <1>0, <4>1, <4>3
      <4>5. list' = list
        BY <1>0, <4>1, <4>4
      <4>. QED BY <1>3, <4>2, <4>5
    <3>2. CASE EnableRepo
      BY <2>1, <3>2 DEF EnableRepo
    <3>3. CASE AccountSaved
      BY <2>1, <3>3 DEF AccountSaved, SaveAccount
    <3>. QED BY <3>1, <3>2, <3>3, DirectDrops
  <2>. QED BY <2>1, <2>2, <2>3, StepsOfNext, PageIsQuiet, PackIsQuiet DEF Quiet, tables
<1>. QED BY <1>2, <1>3

-----------------------------------------------------------------------------
(* The Runtime pack *)

\* What a pack got to know stays true while the tables change.
LEMMA PackKept ==
    ASSUME TypeInv, SavesInv, PackInv, Next, UNCHANGED pack
    PROVE  PackInv'
<1>1. /\ dropped \subseteq dropped' /\ DOMAIN slots \subseteq DOMAIN slots' \cup dropped'
      /\ spent \subseteq spent' /\ accounts' \cap spent \subseteq accounts
  BY NothingReturns
<1>2. pack.at \in Queued => allowed \subseteq allowed'
  BY StepsOfNext DEF Remember, Queued
<1>3. /\ pack.at # "idle" => \A i \in DOMAIN pack.owner : pack.owner[i] \in spent'
      /\ pack.at \in {"meta", "rows"} => DOMAIN pack.rows \subseteq DOMAIN slots' \cup dropped'
      /\ pack.at \in Queued => ToSet(pack.queue) \subseteq allowed' \cup dropped'
  BY <1>1, <1>2 DEF PackInv
<1>4. pack.at = "sealed" =>
        \A i \in ToSet(pack.queue) : pack.owner[i] \in pack.listed \cup (spent' \ accounts')
  BY <1>1, <1>3 DEF PackInv, Queued
<1>5. pack.at = "done" =>
        \A i \in ToSet(pack.queue) : pack.owner[i] \in pack.vault \cup (spent' \ accounts')
  BY <1>1, <1>3 DEF PackInv, PackIsComplete, Queued
<1>. QED BY <1>3, <1>4, <1>5 DEF PackInv, PackIsComplete, ToSet

\* A queue that is made of the list or of the slots is let through by them.
LEMMA QueueIsAllowed ==
    ASSUME TypeInv, PackInv, AllowedInv, pack.at \in {"meta", "rows"},
           NEW hasList \in BOOLEAN, NEW overrides, IsTable(overrides, ListRow),
           hasList => overrides = list, ~hasList => ~meta
    PROVE  \/ Ordered(hasList, overrides) = NoPack
           \/ /\ Ordered(hasList, overrides).at = "accounts"
              /\ Ordered(hasList, overrides).owner = pack.owner
              /\ ToSet(Ordered(hasList, overrides).queue)
                    \subseteq DOMAIN pack.owner \cap (allowed \cup dropped)
<1>0. /\ DOMAIN list \subseteq DOMAIN slots /\ Allowed \subseteq allowed
      /\ DOMAIN pack.rows \subseteq DOMAIN slots \cup dropped
  BY DEF TypeInv, TablesInv, AllowedInv, PackInv
<1>1. DOMAIN list \subseteq allowed
  BY <1>0 DEF Allowed
<1>2. DOMAIN MergeSlotOrder(pack.rows, hasList, overrides) \cap DOMAIN pack.rows
            \subseteq allowed \cup dropped
  <2>1. CASE hasList
    BY <1>1, <2>1 DEF MergeSlotOrder
  <2>2. CASE ~hasList
    BY <1>0, <2>2 DEF MergeSlotOrder, Allowed
  <2>. QED BY <2>1, <2>2
<1>3. pack \in PackType
  BY DEF TypeInv
<1>. QED BY <1>2, <1>3, OrderedPack

LEMMA PackInvStep ==
    ASSUME TypeInv, SavesInv, PackInv, AllowedInv, Next
    PROVE  PackInv'
<1> USE DEF Queued
<1>0. TablesInv /\ pack \in PackType
  BY DEF TypeInv
<1>1. ASSUME PackStep
      PROVE  UNCHANGED <<slots, accounts, spent>> /\ dropped \subseteq dropped'
  BY <1>1, PackIsQuiet, NothingReturns DEF Quiet, tables
<1>2. /\ pack.at \in {"accounts", "sealed"} /\ pack'.at # "idle" /\ pack'.at # "enabled"
            => allowed \subseteq allowed'
      /\ pack.at \in {"meta", "rows"} /\ pack'.at = "accounts" => allowed \subseteq allowed'
  BY StepsOfNext DEF Remember
<1>3. CASE UNCHANGED pack
  BY <1>3, PackKept
<1>4. CASE pack' = NoPack
  BY <1>4 DEF PackInv, PackIsComplete, NoPack
<1>5. CASE PackSlots
  <2>1. pack'.at = "enabled" /\ pack'.owner = [i \in DOMAIN slots |-> slots[i].account]
    BY <1>5 DEF PackSlots
  <2>. QED BY <1>0, <1>1, <1>5, <2>1 DEF PackStep, PackInv, PackIsComplete, TablesInv
<1>6. CASE PackEnabled /\ pack' # NoPack
  <2>1. pack \in [at : {"enabled", "list"}, owner : Owners]
    BY <1>0, <1>6, PackShapes DEF PackEnabled
  <2>2. pack'.at = "list" /\ pack'.owner = pack.owner /\ pack.at # "idle"
    BY <1>6, <2>1 DEF PackEnabled
  <2>. QED BY <1>1, <1>6, <2>2 DEF PackStep, PackInv, PackIsComplete
<1>7. CASE PackRepoSlots
  <2>1. pack'.at = "meta" /\ pack'.owner = pack.owner /\ pack'.rows = slots /\ pack.at # "idle"
    BY <1>7 DEF PackRepoSlots
  <2>. QED BY <1>1, <1>7, <2>1 DEF PackStep, PackInv, PackIsComplete
<1>8. ASSUME NEW hasList \in BOOLEAN, NEW overrides, IsTable(overrides, ListRow),
             hasList => overrides = list, ~hasList => ~meta,
             pack.at \in {"meta", "rows"}, PackStep, pack' = Ordered(hasList, overrides)
      PROVE  PackInv'
  <2>1. CASE pack' # NoPack
    <3>1. /\ pack'.at = "accounts" /\ pack'.owner = pack.owner
          /\ ToSet(pack'.queue) \subseteq DOMAIN pack.owner \cap (allowed \cup dropped)
      BY <1>8, <2>1, QueueIsAllowed
    <3>. QED BY <1>1, <1>2, <1>8, <3>1 DEF PackInv, PackIsComplete, ToSet
  <2>. QED BY <2>1, <1>4
<1>9. CASE PackMeta
  <2>1. CASE meta
    <3>1. pack \in [at : {"meta", "rows"}, owner : Owners, rows : RowTables]
      BY <1>0, <1>9, PackShapes DEF PackMeta
    <3>2. pack'.at = "rows" /\ pack'.owner = pack.owner /\ pack'.rows = pack.rows
          /\ pack.at = "meta"
      BY <1>9, <2>1, <3>1 DEF PackMeta
    <3>. QED BY <1>1, <1>9, <3>2 DEF PackStep, PackInv, PackIsComplete
  <2>2. CASE ~meta
    <3>1. pack' = Ordered(FALSE, NoRows) /\ pack.at \in {"meta", "rows"} /\ PackStep
      BY <1>9, <2>2 DEF PackMeta, PackStep
    <3>. QED BY <1>8, <2>2, <3>1, NoRowsIsTable
  <2>. QED BY <2>1, <2>2
<1>10. CASE PackRows
  <2>1. pack' = Ordered(TRUE, list) /\ pack.at \in {"meta", "rows"} /\ PackStep
        /\ IsTable(list, ListRow)
    BY <1>0, <1>10 DEF PackRows, PackStep, TablesInv
  <2>. QED BY <1>8, <2>1
<1>11. CASE PackAccounts
  <2>1. /\ pack'.at = "sealed" /\ pack'.owner = pack.owner /\ pack'.queue = pack.queue
        /\ pack'.listed = accounts /\ pack.at = "accounts"
    BY <1>11 DEF PackAccounts
  <2>2. \A i \in ToSet(pack.queue) : pack.owner[i] \in spent
    BY <2>1 DEF PackInv
  <2>. QED BY <1>1, <1>2, <1>11, <2>1, <2>2 DEF PackStep, PackInv, PackIsComplete, ToSet
<1>12. ASSUME NEW a \in Accounts, PackSealed(a), pack' # NoPack PROVE PackInv'
  <2>1. pack \in [at : {"sealed"}, queue : Seq(Slots), owner : Owners,
                  listed : SUBSET Accounts, todo : SUBSET Accounts]
    BY <1>0, <1>12, PackShapes DEF PackSealed
  <2>2. /\ pack'.at = "sealed" /\ pack'.owner = pack.owner /\ pack'.queue = pack.queue
        /\ pack'.listed = pack.listed /\ pack.at = "sealed"
    BY <1>12, <2>1 DEF PackSealed
  <2>3. PackStep
    BY <1>12 DEF PackStep
  <2>. QED BY <1>1, <1>2, <2>2, <2>3 DEF PackInv, PackIsComplete, ToSet
<1>13. CASE PackDone
  <2>1. /\ pack'.at = "done" /\ pack'.owner = pack.owner /\ pack'.queue = pack.queue
        /\ pack.at = "sealed"
        /\ pack'.vault = pack.listed \cap {pack.owner[i] : i \in ToSet(pack.queue)}
    BY <1>13 DEF PackDone, CredentialVaultForSlots
  <2>. QED BY <1>1, <1>2, <1>13, <2>1 DEF PackStep, PackInv, PackIsComplete, ToSet
<1>14. CASE PackStep
  <2>1. PackEnabled /\ pack' = NoPack => PackInv'
    BY <1>4
  <2>. QED BY <1>4, <1>5, <1>6, <1>7, <1>9, <1>10, <1>11, <1>12, <1>13, <1>14 DEF PackStep
<1>. QED BY <1>3, <1>14, StepsOfNext, PageIsQuiet, RequestLeavesPack, DirectKinds

LEMMA AllowedStep ==
    ASSUME TypeInv, Next, AllowedInv
    PROVE  AllowedInv'
<1>1. pack.at = "done" => pack' = pack \/ pack'.at = "enabled"
  <2>1. PackStep /\ pack.at = "done" => PackSlots
    BY DEF PackStep, PackSlots, PackEnabled, PackRepoSlots, PackMeta, PackRows, PackAccounts,
           PackDone, PackSealed
  <2>2. PackSlots => pack'.at = "enabled"
    BY DEF PackSlots
  <2>. QED BY <2>1, <2>2, StepsOfNext, PageIsQuiet, RequestLeavesPack, DirectKinds
<1>. QED BY <1>1, StepsOfNext DEF AllowedInv, Remember

-----------------------------------------------------------------------------
(* The theorems *)

IInv == TypeInv /\ SavesInv /\ ListInv /\ PackInv /\ AllowedInv /\ EmptyListHasCause

LEMMA StepHolds == IInv /\ [Next]_vars => IInv'
<1> SUFFICES ASSUME IInv, [Next]_vars PROVE IInv'
  OBVIOUS
<1>1. CASE Next
  BY <1>1, TypeStep, SavesStep, ListStep, PackInvStep, AllowedStep, EmptyListStep DEF IInv
<1>2. CASE UNCHANGED vars
  <2> USE <1>2 DEF vars, tables, requests, ghosts
  <2>1. TypeInv'
    BY DEF IInv, TypeInv, TablesInv, IsTable, RequestsInv, GhostsInv
  <2>2. SavesInv'
    BY DEF IInv, SavesInv
  <2>3. ListInv'
    BY DEF IInv, ListInv, NoMixedList
  <2>4. PackInv'
    BY DEF IInv, PackInv, PackIsComplete, Queued, ToSet
  <2>5. AllowedInv'
    BY DEF IInv, AllowedInv, Allowed
  <2>6. EmptyListHasCause'
    BY DEF IInv, EmptyListHasCause, Torn, At
  <2>. QED BY <2>1, <2>2, <2>3, <2>4, <2>5, <2>6 DEF IInv
<1>. QED BY <1>1, <1>2

\* The tables, the requests and the pack keep their types, a request saves a
\* slot with the account it has, the rows of a list are those of whole lists,
\* and a pack knows where its slots and logins come from.
THEOREM Invariant == Spec => []IInv
<1>1. Init => IInv
  BY InitHolds DEF IInv
<1>. QED BY <1>1, StepHolds, PTL DEF Spec

\* Every variable has its type, and no slot outlives its account nor a row of
\* the repo's list its slot, whatever saves, deletes and rotations overlap.
THEOREM TypeCorrect == Spec => []TypeOK
<1>1. IInv => TypeOK
  BY DEF IInv, TypeInv, TablesInv, IsTable, RequestsInv, GhostsInv, TypeOK, ListRow
<1>. QED BY <1>1, Invariant, PTL

\* Two requests that write the repo's list at the same time (setRepoModelList)
\* leave no mixture of their lists, but what a deleted slot explains.
THEOREM ListsDoNotMix == Spec => []NoMixedList
<1>1. IInv => NoMixedList
  BY DEF IInv, ListInv
<1>. QED BY <1>1, Invariant, PTL

\* A list without slots, which stops the repo's reviews, is that of a request
\* between two statements or torn by one, or its last slot was deleted.
THEOREM EmptyListIsExplained == Spec => []EmptyListHasCause
<1>1. IInv => EmptyListHasCause
  BY DEF IInv
<1>. QED BY <1>1, Invariant, PTL

\* The login of every slot of a Runtime pack is in it, unless it was deleted
\* while buildHomeRuntimePack read table after table.
THEOREM PackHasItsLogins == Spec => []PackIsComplete
<1>1. IInv => PackIsComplete
  BY DEF IInv, PackInv
<1>. QED BY <1>1, Invariant, PTL

\* A Runtime pack has no slot that the repo's list kept out all the time it
\* was built, unless the slot was deleted meanwhile.
THEOREM PackObeysTheList == Spec => []PackIsAllowed
<1>1. IInv => PackIsAllowed
  BY DEF IInv, PackInv, PackIsAllowed, Queued
<1>. QED BY <1>1, Invariant, PTL
=============================================================================
