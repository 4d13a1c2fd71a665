------------------------ MODULE WakeAdmissionProofs ------------------------
(***************************************************************************)
(* Theorems about WakeAdmission, for any users, authors, branches and      *)
(* globs, and for any columns an older release may have left.              *)
(*                                                                         *)
(* The columns of a row that parses mean what their user asked for last,   *)
(* each but for those an old page wrote back (MeansRow).  What a wake      *)
(* decides is then compared with what was asked, gate by gate.             *)
(***************************************************************************)
EXTENDS WakeAdmission, TLAPS

-----------------------------------------------------------------------------
(* The invariant *)

\* Settings m agree with r in all but some pieces.
Agrees(m, r, but) ==
    /\ m.mode = r.mode /\ m.cadence = r.cadence
    /\ "authorScope" \notin but => m.authors.scope = r.authors.scope
    /\ "authorSkip" \notin but => m.authors.skip = r.authors.skip
    /\ "branchScope" \notin but => m.branches.scope = r.branches.scope
    /\ "branchList" \notin but => m.branches.listed = r.branches.listed
    /\ "branchSkip" \notin but => m.branches.skip = r.branches.skip

MeansRow(u) ==
    /\ rows[u] = NoRow => meant[u] = NoPage
    /\ rows[u] # NoRow /\ PoliciesParse(rows[u]) =>
         meant[u] \in Asked /\ Agrees(meant[u], RouteSettings(rows[u]), restored[u])

IInv == TypeOK /\ \A u \in Users : MeansRow(u)

Authored == [scope : AuthorScopes, skip : SUBSET Logins]
Branched == [scope : BranchScopes, listed : SUBSET Patterns, skip : SUBSET Patterns]
Defaults == [mode : Modes, authors : AuthorScopes, branches : BranchScopes, cadence : Cadences]

-----------------------------------------------------------------------------
(* What columns mean *)

\* The alias of an older release is read as the scope it stood for.
LEMMA ScopesParse ==
    ASSUME NEW text, text \in AuthorScopes \cup DOMAIN Aliases
    PROVE  /\ ParseAutoAuthorScope(text) \in AuthorScopes
           /\ text \in AuthorScopes => ParseAutoAuthorScope(text) = text
BY DEF ParseAutoAuthorScope, Aliases, AuthorScopes

\* No row is taken for a row that is not there.
LEMMA ColumnsAreRows ==
    ASSUME NEW row \in Columns PROVE PoliciesParse(row) => row # NoRow
<1>1. NoRow.mode = ""
  BY DEF NoRow
<1>2. PoliciesParse(row) => row.mode # ""
  BY DEF PoliciesParse, Modes
<1> QED
  BY <1>1, <1>2

LEMMA AskedIsPage == ASSUME NEW m \in Asked PROVE m # NoPage
<1>1. NoPage.mode = ""
  BY DEF NoPage
<1>2. m.mode # ""
  BY DEF Asked, Modes
<1> QED
  BY <1>1, <1>2

LEMMA TextsWritten ==
    Modes \cup Cadences \cup AuthorScopes \cup BranchScopes \subseteq Texts
BY DEF Texts

\* The columns of a row that can be read are something that can be asked for;
\* what cannot be read of it counts as the default.
LEMMA RouteSettingsType ==
    ASSUME NEW row \in Columns, PoliciesParse(row)
    PROVE  RouteSettings(row) \in Asked
<1>1. row.mode \in Modes /\ row.cadence \in Cadences
  BY DEF PoliciesParse
<1>2. AuthorsParse(row) => ParseAutoAuthors(row) \in Authored
  BY ScopesParse DEF AuthorsParse, ParseAutoAuthors, Columns, Authored
<1>3. BranchesParse(row) => ParseAutoBranches(row) \in Branched
  BY DEF BranchesParse, ParseAutoBranches, Columns, Branched
<1>4. DefaultAuthors \in Authored /\ DefaultBranches \in Branched
  BY DEF DefaultAuthors, DefaultBranches, Authored, Branched, AuthorScopes, BranchScopes
<1> QED
  BY <1>1, <1>2, <1>3, <1>4 DEF RouteSettings, Asked, Authored, Branched

\* The Dashboard shows of a row what a wake takes from it.
LEMMA ShownIsRouted ==
    ASSUME NEW row \in Columns, Shows(row)
    PROVE  ParseEnabledRepo(row) = RouteSettings(row) /\ ParseEnabledRepo(row) \in Asked
<1>1. PoliciesParse(row) /\ AuthorsParse(row) /\ BranchesParse(row)
  BY DEF Shows
<1>2. ParseEnabledRepo(row) = RouteSettings(row)
  BY <1>1 DEF ParseEnabledRepo, RouteSettings
<1> QED
  BY <1>1, <1>2, RouteSettingsType

\* A row made of defaults means the defaults.
LEMMA FromDefaults ==
    ASSUME NEW d \in Defaults
    PROVE  /\ RowFromDefaults(d) \in Columns /\ PoliciesParse(RowFromDefaults(d))
           /\ RouteSettings(RowFromDefaults(d)) =
                 [mode |-> d.mode, cadence |-> d.cadence,
                  authors |-> [DefaultAuthors EXCEPT !.scope = d.authors],
                  branches |-> [DefaultBranches EXCEPT !.scope = d.branches]]
<1> DEFINE row == RowFromDefaults(d)
<1>1. /\ row.mode = d.mode /\ row.cadence = d.cadence /\ row.authors = d.authors
      /\ row.authorSkip = {} /\ row.branches = d.branches
      /\ row.branchList = {} /\ row.branchSkip = {}
  BY DEF RowFromDefaults
<1>2. /\ d.mode \in Modes /\ d.cadence \in Cadences
      /\ d.authors \in AuthorScopes /\ d.branches \in BranchScopes
  BY DEF Defaults
<1>3. row \in Columns
  BY <1>2, TextsWritten DEF RowFromDefaults, Columns
<1> HIDE DEF row
<1>4. PoliciesParse(row) /\ AuthorsParse(row) /\ BranchesParse(row)
  BY <1>1, <1>2 DEF PoliciesParse, AuthorsParse, BranchesParse
<1>5. ParseAutoAuthors(row) = [DefaultAuthors EXCEPT !.scope = d.authors]
  <2>1. ParseAutoAuthorScope(row.authors) = d.authors
    BY <1>1, <1>2, ScopesParse
  <2> QED
    BY <1>1, <2>1 DEF ParseAutoAuthors, DefaultAuthors
<1>6. ParseAutoBranches(row) = [DefaultBranches EXCEPT !.scope = d.branches]
  BY <1>1 DEF ParseAutoBranches, DefaultBranches
<1> QED
  BY <1>1, <1>3, <1>4, <1>5, <1>6 DEF RouteSettings, row

-----------------------------------------------------------------------------
(* Saving *)

\* What is written back of the pieces that go along with a change.
LEMMA BackOrSame ==
    ASSUME NEW u, NEW sent, NEW piece \in sent, piece \notin WrittenBack(u, sent)
    PROVE  PieceOf(page[u], piece) = PieceOf(ParseEnabledRepo(rows[u]), piece)
BY DEF WrittenBack

\* A save that stores what it asks for, or says what it wrote back, keeps the
\* invariant.
LEMMA SaveKeepsInv ==
    ASSUME IInv, wake = NoWake, NEW u \in Users, NEW row \in Columns, NEW asked \in Asked,
           NEW touched, NEW sent \in SUBSET (AuthorPieces \cup BranchPieces),
           PoliciesParse(row),
           Agrees(asked, RouteSettings(row), (restored[u] \ touched) \cup WrittenBack(u, sent)),
           UpdateEnabledRepo(u, row, asked, touched, sent)
    PROVE  IInv'
<1> DEFINE back == (restored[u] \ touched) \cup WrittenBack(u, sent)
<1>1. /\ saves' \in Nat
      /\ rows' = [rows EXCEPT ![u] = row] /\ meant' = [meant EXCEPT ![u] = asked]
      /\ restored' = [restored EXCEPT ![u] = back]
      /\ UNCHANGED <<holder, wake, defaults, page>>
  BY DEF UpdateEnabledRepo, IInv, TypeOK
<1>2. back \in SUBSET (AuthorPieces \cup BranchPieces)
  <2>1. WrittenBack(u, sent) \subseteq sent
    BY DEF WrittenBack
  <2>2. restored[u] \in SUBSET (AuthorPieces \cup BranchPieces)
    BY DEF IInv, TypeOK
  <2> QED
    BY <2>1, <2>2
<1>3. Agrees(asked, RouteSettings(row), back)
  OBVIOUS
<1> HIDE DEF back
<1>4. TypeOK'
  BY <1>1, <1>2 DEF IInv, TypeOK
<1>5. ASSUME NEW v \in Users PROVE MeansRow(v)'
  <2>1. CASE v = u
    <3>1. rows'[v] = row /\ meant'[v] = asked /\ restored'[v] = back
      BY <1>1, <2>1 DEF IInv, TypeOK
    <3>2. row # NoRow
      BY ColumnsAreRows
    <3> QED
      BY <1>3, <3>1, <3>2 DEF MeansRow
  <2>2. CASE v # u
    <3>1. rows'[v] = rows[v] /\ meant'[v] = meant[v] /\ restored'[v] = restored[v]
      BY <1>1, <2>2 DEF IInv, TypeOK
    <3> QED
      BY <3>1 DEF IInv, MeansRow
  <2> QED
    BY <2>1, <2>2
<1> QED
  BY <1>4, <1>5 DEF IInv

\* The row of a user whose page may save, and what she asked for so far.
LEMMA RowOfSaver ==
    ASSUME IInv, NEW u \in Users, Shows(rows[u])
    PROVE  /\ rows[u] \in Columns /\ PoliciesParse(rows[u])
           /\ AuthorsParse(rows[u]) /\ BranchesParse(rows[u])
           /\ meant[u] \in Asked /\ RouteSettings(rows[u]) \in Asked
           /\ ParseEnabledRepo(rows[u]) = RouteSettings(rows[u])
           /\ Agrees(meant[u], RouteSettings(rows[u]), restored[u])
<1>1. rows[u] \in Columns /\ PoliciesParse(rows[u]) /\ AuthorsParse(rows[u])
      /\ BranchesParse(rows[u])
  BY DEF Shows, IInv, TypeOK
<1>2. meant[u] \in Asked /\ Agrees(meant[u], RouteSettings(rows[u]), restored[u])
  BY <1>1, ColumnsAreRows DEF IInv, MeansRow
<1> QED
  BY <1>1, <1>2, RouteSettingsType, ShownIsRouted

LEMMA SavePolicies ==
    ASSUME IInv, wake = NoWake, NEW u \in Users,
           \/ \E x \in Modes : SetRepoWakeMode(u, x)
           \/ \E x \in Cadences : SetRepoAutoReviewCadence(u, x)
    PROVE  IInv'
<1>0. WrittenBack(u, {}) = {}
  BY DEF WrittenBack
<1>1. ASSUME NEW x \in Modes, SetRepoWakeMode(u, x) PROVE IInv'
  <2> DEFINE row == [rows[u] EXCEPT !.mode = x]
             asked == [meant[u] EXCEPT !.mode = x]
  <2>1. Shows(rows[u]) /\ UpdateEnabledRepo(u, row, asked, {}, {})
    BY <1>1 DEF SetRepoWakeMode, UpdateEnabledRepo
  <2>2. /\ rows[u] \in Columns /\ PoliciesParse(rows[u]) /\ meant[u] \in Asked
        /\ Agrees(meant[u], RouteSettings(rows[u]), restored[u])
    BY <2>1, RowOfSaver
  <2>3. row \in Columns /\ asked \in Asked
    BY <2>2, TextsWritten DEF Columns, Asked
  <2>4. PoliciesParse(row) /\ RouteSettings(row) = [RouteSettings(rows[u]) EXCEPT !.mode = x]
    BY <2>2 DEF PoliciesParse, RouteSettings, AuthorsParse, BranchesParse,
                ParseAutoAuthors, ParseAutoBranches, Columns
  <2>5. Agrees(asked, RouteSettings(row), restored[u])
    <3> DEFINE old == RouteSettings(rows[u])
    <3>1. old.mode = rows[u].mode /\ DOMAIN old = {"mode", "cadence", "authors", "branches"}
      BY DEF RouteSettings
    <3> HIDE DEF old
    <3> QED
      BY <2>2, <2>4, <3>1 DEF Agrees, Asked, old
  <2> HIDE DEF row, asked
  <2> QED
    BY <1>0, <2>1, <2>3, <2>4, <2>5, SaveKeepsInv
<1>2. ASSUME NEW x \in Cadences, SetRepoAutoReviewCadence(u, x) PROVE IInv'
  <2> DEFINE row == [rows[u] EXCEPT !.cadence = x]
             asked == [meant[u] EXCEPT !.cadence = x]
  <2>1. Shows(rows[u]) /\ UpdateEnabledRepo(u, row, asked, {}, {})
    BY <1>2 DEF SetRepoAutoReviewCadence, UpdateEnabledRepo
  <2>2. /\ rows[u] \in Columns /\ PoliciesParse(rows[u]) /\ meant[u] \in Asked
        /\ Agrees(meant[u], RouteSettings(rows[u]), restored[u])
    BY <2>1, RowOfSaver
  <2>3. row \in Columns /\ asked \in Asked
    BY <2>2, TextsWritten DEF Columns, Asked
  <2>4. PoliciesParse(row) /\ RouteSettings(row) = [RouteSettings(rows[u]) EXCEPT !.cadence = x]
    BY <2>2 DEF PoliciesParse, RouteSettings, AuthorsParse, BranchesParse,
                ParseAutoAuthors, ParseAutoBranches, Columns
  <2>5. Agrees(asked, RouteSettings(row), restored[u])
    <3> DEFINE old == RouteSettings(rows[u])
    <3>1. old.mode = rows[u].mode /\ DOMAIN old = {"mode", "cadence", "authors", "branches"}
      BY DEF RouteSettings
    <3> HIDE DEF old
    <3> QED
      BY <2>2, <2>4, <3>1 DEF Agrees, Asked, old
  <2> HIDE DEF row, asked
  <2> QED
    BY <1>0, <2>1, <2>3, <2>4, <2>5, SaveKeepsInv
<1> QED
  BY <1>1, <1>2

\* Settings of the authors are saved from a page: those touched as asked, the
\* others as shown.
LEMMA SaveAuthors ==
    ASSUME AdmissionAssumption, IInv, wake = NoWake, NEW u \in Users,
           NEW autoAuthors \in Authored, NEW asked \in Authored,
           NEW touched \in SUBSET AuthorPieces,
           IF "authorScope" \in touched THEN autoAuthors.scope = asked.scope
           ELSE autoAuthors.scope = page[u].authors.scope /\ asked.scope = meant[u].authors.scope,
           IF "authorSkip" \in touched THEN autoAuthors.skip = asked.skip
           ELSE autoAuthors.skip = page[u].authors.skip /\ asked.skip = meant[u].authors.skip,
           SetRepoAutoAuthors(u, autoAuthors, asked, touched)
    PROVE  IInv'
<1> DEFINE row == [rows[u] EXCEPT !.authors = autoAuthors.scope, !.authorSkip = autoAuthors.skip]
           all == [meant[u] EXCEPT !.authors = asked]
           sent == AuthorPieces \ touched
           back == (restored[u] \ touched) \cup WrittenBack(u, sent)
           old == RouteSettings(rows[u])
<1>1. Shows(rows[u]) /\ UpdateEnabledRepo(u, row, all, touched, sent)
  BY DEF SetRepoAutoAuthors, UpdateEnabledRepo
<1>2. /\ rows[u] \in Columns /\ PoliciesParse(rows[u]) /\ BranchesParse(rows[u])
      /\ meant[u] \in Asked /\ Agrees(meant[u], old, restored[u]) /\ old \in Asked
      /\ ParseEnabledRepo(rows[u]) = old
  BY <1>1, RowOfSaver
<1>3. autoAuthors.scope \in AuthorScopes /\ autoAuthors.skip \in SUBSET Logins
  BY DEF Authored
<1>4. row \in Columns /\ all \in Asked
  BY <1>2, <1>3, TextsWritten DEF Columns, Asked, Authored
<1>5. /\ row.mode = rows[u].mode /\ row.cadence = rows[u].cadence
      /\ row.authors = autoAuthors.scope /\ row.authorSkip = autoAuthors.skip
      /\ row.branches = rows[u].branches /\ row.branchList = rows[u].branchList
      /\ row.branchSkip = rows[u].branchSkip
  BY <1>2 DEF Columns
<1>6. /\ all.mode = meant[u].mode /\ all.cadence = meant[u].cadence
      /\ all.authors = asked /\ all.branches = meant[u].branches
  BY <1>2 DEF Asked
<1>7. "authorScope" \notin back =>
         /\ "authorScope" \in touched \/ autoAuthors.scope = old.authors.scope
         /\ "authorScope" \in touched \/ "authorScope" \notin restored[u]
  BY <1>2, BackOrSame DEF PieceOf, AuthorPieces
<1>8. "authorSkip" \notin back =>
         /\ "authorSkip" \in touched \/ autoAuthors.skip = old.authors.skip
         /\ "authorSkip" \in touched \/ "authorSkip" \notin restored[u]
  BY <1>2, BackOrSame DEF PieceOf, AuthorPieces
<1>9. \A p \in BranchPieces : p \notin back => p \notin restored[u]
  BY DEF AuthorPieces, BranchPieces
<1>10. old.mode = rows[u].mode /\ old.cadence = rows[u].cadence
  BY DEF RouteSettings
<1>11. old.branches = ParseAutoBranches(rows[u])
  BY <1>2 DEF RouteSettings
<1> HIDE DEF row, all, old, back, sent
<1>12. PoliciesParse(row) /\ BranchesParse(row)
  BY <1>2, <1>5 DEF PoliciesParse, BranchesParse
<1>13. AuthorsParse(row)
  BY <1>3, <1>5 DEF AuthorsParse, AdmissionAssumption
<1>14. ParseAutoAuthors(row) = autoAuthors
  <2>1. ParseAutoAuthorScope(row.authors) = autoAuthors.scope
    BY <1>3, <1>5, ScopesParse
  <2> QED
    BY <1>5, <2>1 DEF ParseAutoAuthors, Authored
<1>15. ParseAutoBranches(row) = ParseAutoBranches(rows[u])
  BY <1>5 DEF ParseAutoBranches
<1> DEFINE new == RouteSettings(row)
<1>16. /\ new.mode = row.mode /\ new.cadence = row.cadence
       /\ new.authors = autoAuthors /\ new.branches = ParseAutoBranches(rows[u])
  BY <1>12, <1>13, <1>14, <1>15 DEF RouteSettings
<1> HIDE DEF new
<1>17. Agrees(all, new, back)
  BY <1>2, <1>5, <1>6, <1>7, <1>8, <1>9, <1>10, <1>11, <1>16 DEF Agrees, BranchPieces
<1>18. sent \in SUBSET (AuthorPieces \cup BranchPieces)
  BY DEF sent
<1> QED
  BY <1>1, <1>4, <1>12, <1>17, <1>18, SaveKeepsInv DEF new, back

LEMMA SaveBranches ==
    ASSUME AdmissionAssumption, IInv, wake = NoWake, NEW u \in Users,
           NEW autoBranches \in Branched, NEW asked \in Branched,
           NEW touched \in SUBSET BranchPieces,
           IF "branchScope" \in touched THEN autoBranches.scope = asked.scope
           ELSE /\ autoBranches.scope = page[u].branches.scope
                /\ asked.scope = meant[u].branches.scope,
           IF "branchList" \in touched THEN autoBranches.listed = asked.listed
           ELSE /\ autoBranches.listed = page[u].branches.listed
                /\ asked.listed = meant[u].branches.listed,
           IF "branchSkip" \in touched THEN autoBranches.skip = asked.skip
           ELSE /\ autoBranches.skip = page[u].branches.skip
                /\ asked.skip = meant[u].branches.skip,
           SetRepoAutoBranches(u, autoBranches, asked, touched)
    PROVE  IInv'
<1> DEFINE row == [rows[u] EXCEPT !.branches = autoBranches.scope,
                                  !.branchList = autoBranches.listed,
                                  !.branchSkip = autoBranches.skip]
           all == [meant[u] EXCEPT !.branches = asked]
           sent == BranchPieces \ touched
           back == (restored[u] \ touched) \cup WrittenBack(u, sent)
           old == RouteSettings(rows[u])
<1>1. Shows(rows[u]) /\ UpdateEnabledRepo(u, row, all, touched, sent)
  BY DEF SetRepoAutoBranches, UpdateEnabledRepo
<1>2. /\ rows[u] \in Columns /\ PoliciesParse(rows[u]) /\ AuthorsParse(rows[u])
      /\ meant[u] \in Asked /\ Agrees(meant[u], old, restored[u]) /\ old \in Asked
      /\ ParseEnabledRepo(rows[u]) = old
  BY <1>1, RowOfSaver
<1>3. /\ autoBranches.scope \in BranchScopes /\ autoBranches.listed \in SUBSET Patterns
      /\ autoBranches.skip \in SUBSET Patterns
  BY DEF Branched
<1>4. row \in Columns /\ all \in Asked
  BY <1>2, <1>3, TextsWritten DEF Columns, Asked, Branched
<1>5. /\ row.mode = rows[u].mode /\ row.cadence = rows[u].cadence
      /\ row.authors = rows[u].authors /\ row.authorSkip = rows[u].authorSkip
      /\ row.branches = autoBranches.scope /\ row.branchList = autoBranches.listed
      /\ row.branchSkip = autoBranches.skip
  BY <1>2 DEF Columns
<1>6. /\ all.mode = meant[u].mode /\ all.cadence = meant[u].cadence
      /\ all.authors = meant[u].authors /\ all.branches = asked
  BY <1>2 DEF Asked
<1>7. "branchScope" \notin back =>
         /\ "branchScope" \in touched \/ autoBranches.scope = old.branches.scope
         /\ "branchScope" \in touched \/ "branchScope" \notin restored[u]
  BY <1>2, BackOrSame DEF PieceOf, BranchPieces
<1>8. "branchList" \notin back =>
         /\ "branchList" \in touched \/ autoBranches.listed = old.branches.listed
         /\ "branchList" \in touched \/ "branchList" \notin restored[u]
  BY <1>2, BackOrSame DEF PieceOf, BranchPieces
<1>9. "branchSkip" \notin back =>
         /\ "branchSkip" \in touched \/ autoBranches.skip = old.branches.skip
         /\ "branchSkip" \in touched \/ "branchSkip" \notin restored[u]
  BY <1>2, BackOrSame DEF PieceOf, BranchPieces
<1>10. \A p \in AuthorPieces : p \notin back => p \notin restored[u]
  BY DEF AuthorPieces, BranchPieces
<1>11. old.mode = rows[u].mode /\ old.cadence = rows[u].cadence
  BY DEF RouteSettings
<1>12. old.authors = ParseAutoAuthors(rows[u])
  BY <1>2 DEF RouteSettings
<1> HIDE DEF row, all, old, back, sent
<1>13. PoliciesParse(row) /\ AuthorsParse(row)
  BY <1>2, <1>5 DEF PoliciesParse, AuthorsParse
<1>14. BranchesParse(row)
  BY <1>3, <1>5 DEF BranchesParse, AdmissionAssumption
<1>15. ParseAutoBranches(row) = autoBranches
  BY <1>5 DEF ParseAutoBranches, Branched
<1>16. ParseAutoAuthors(row) = ParseAutoAuthors(rows[u])
  BY <1>5 DEF ParseAutoAuthors
<1> DEFINE new == RouteSettings(row)
<1>17. /\ new.mode = row.mode /\ new.cadence = row.cadence
       /\ new.authors = ParseAutoAuthors(rows[u]) /\ new.branches = autoBranches
  BY <1>13, <1>14, <1>15, <1>16 DEF RouteSettings
<1> HIDE DEF new
<1>18. Agrees(all, new, back)
  BY <1>2, <1>5, <1>6, <1>7, <1>8, <1>9, <1>10, <1>11, <1>12, <1>17 DEF Agrees, AuthorPieces
<1>19. sent \in SUBSET (AuthorPieces \cup BranchPieces)
  BY DEF sent
<1> QED
  BY <1>1, <1>4, <1>13, <1>18, <1>19, SaveKeepsInv DEF new, back

\* Every save of a settings page, old or not.
LEMMA PageKeepsInv ==
    ASSUME AdmissionAssumption, IInv, wake = NoWake, PageStep
    PROVE  IInv'
<1>1. PICK u \in Savers :
        \/ ListEnabledRepos(u)
        \/ \E x \in Modes : SetRepoWakeMode(u, x)
        \/ \E x \in Cadences : SetRepoAutoReviewCadence(u, x)
        \/ \E x \in AuthorScopes : PickAuthorScope(u, x)
        \/ \E x \in SkipLists : SaveSkipLogins(u, x)
        \/ \E x \in BranchScopes : PickBranchScope(u, x)
        \/ \E x \in SUBSET Patterns : SaveListedBranches(u, x) \/ SaveSkipBranches(u, x)
        \/ PatchDefaults(u)
  BY DEF PageStep
<1>2. u \in Users /\ TypeOK
  BY DEF AdmissionAssumption, IInv
<1>3. page[u] # NoPage =>
         /\ page[u] \in Asked /\ page[u].authors \in Authored /\ page[u].branches \in Branched
  BY <1>2 DEF TypeOK, Asked, Authored, Branched
<1>4. CASE ListEnabledRepos(u)
  <2>1. rows[u] \in Columns
    BY <1>2, <1>4 DEF ListEnabledRepos, Shows, TypeOK
  <2>2. ParseEnabledRepo(rows[u]) \in Asked
    BY <1>4, <2>1, ShownIsRouted DEF ListEnabledRepos
  <2> QED
    BY <1>2, <1>4, <2>2 DEF ListEnabledRepos, IInv, TypeOK, MeansRow
<1>5. CASE \/ \E x \in Modes : SetRepoWakeMode(u, x)
           \/ \E x \in Cadences : SetRepoAutoReviewCadence(u, x)
  BY <1>2, <1>5, SavePolicies
<1>6. ASSUME NEW x \in AuthorScopes, PickAuthorScope(u, x) PROVE IInv'
  <2> DEFINE sent == [page[u].authors EXCEPT !.scope = x]
             asked == [meant[u].authors EXCEPT !.scope = x]
  <2>1. SetRepoAutoAuthors(u, sent, asked, {"authorScope"}) /\ page[u] # NoPage
    BY <1>6 DEF PickAuthorScope
  <2>2. meant[u].authors \in Authored
    BY <1>2, <2>1, RowOfSaver DEF SetRepoAutoAuthors, UpdateEnabledRepo, Asked, Authored
  <2>3. /\ sent \in Authored /\ asked \in Authored /\ sent.scope = x /\ asked.scope = x
        /\ sent.skip = page[u].authors.skip /\ asked.skip = meant[u].authors.skip
    BY <1>3, <2>1, <2>2 DEF Authored
  <2> HIDE DEF sent, asked
  <2> QED
    BY <1>2, <2>1, <2>3, SaveAuthors DEF AuthorPieces
<1>7. ASSUME NEW x \in SkipLists, SaveSkipLogins(u, x) PROVE IInv'
  <2> DEFINE sent == [page[u].authors EXCEPT !.skip = x]
             asked == [meant[u].authors EXCEPT !.skip = x]
  <2>1. SetRepoAutoAuthors(u, sent, asked, {"authorSkip"}) /\ page[u] # NoPage
    BY <1>7 DEF SaveSkipLogins
  <2>2. meant[u].authors \in Authored
    BY <1>2, <2>1, RowOfSaver DEF SetRepoAutoAuthors, UpdateEnabledRepo, Asked, Authored
  <2>3. /\ sent \in Authored /\ asked \in Authored /\ sent.skip = x /\ asked.skip = x
        /\ sent.scope = page[u].authors.scope /\ asked.scope = meant[u].authors.scope
    BY <1>3, <2>1, <2>2 DEF Authored, SkipLists
  <2> HIDE DEF sent, asked
  <2> QED
    BY <1>2, <2>1, <2>3, SaveAuthors DEF AuthorPieces
<1>8. ASSUME NEW x \in BranchScopes, PickBranchScope(u, x) PROVE IInv'
  <2>1. CASE /\ x = "listed"
             /\ SetRepoAutoBranches(u, [page[u].branches EXCEPT !.scope = x],
                                    [meant[u].branches EXCEPT !.scope = x], {"branchScope"})
    <3> DEFINE sent == [page[u].branches EXCEPT !.scope = x]
               asked == [meant[u].branches EXCEPT !.scope = x]
    <3>1. meant[u].branches \in Branched /\ page[u] # NoPage
      BY <1>2, <1>8, <2>1, RowOfSaver
         DEF SetRepoAutoBranches, UpdateEnabledRepo, PickBranchScope, Asked, Branched
    <3>2. /\ sent \in Branched /\ asked \in Branched /\ sent.scope = x /\ asked.scope = x
          /\ sent.listed = page[u].branches.listed /\ asked.listed = meant[u].branches.listed
          /\ sent.skip = page[u].branches.skip /\ asked.skip = meant[u].branches.skip
      BY <1>3, <3>1 DEF Branched
    <3>3. SetRepoAutoBranches(u, sent, asked, {"branchScope"})
      BY <2>1
    <3> HIDE DEF sent, asked
    <3> QED
      BY <1>2, <3>2, <3>3, SaveBranches DEF BranchPieces
  <2>2. CASE SetRepoAutoBranches(u, [page[u].branches EXCEPT !.scope = x, !.listed = {}],
                                 [meant[u].branches EXCEPT !.scope = x, !.listed = {}],
                                 {"branchScope", "branchList"})
    <3> DEFINE sent == [page[u].branches EXCEPT !.scope = x, !.listed = {}]
               asked == [meant[u].branches EXCEPT !.scope = x, !.listed = {}]
    <3>1. meant[u].branches \in Branched /\ page[u] # NoPage
      BY <1>2, <1>8, <2>2, RowOfSaver
         DEF SetRepoAutoBranches, UpdateEnabledRepo, PickBranchScope, Asked, Branched
    <3>2. /\ sent \in Branched /\ asked \in Branched /\ sent.scope = x /\ asked.scope = x
          /\ sent.listed = {} /\ asked.listed = {}
          /\ sent.skip = page[u].branches.skip /\ asked.skip = meant[u].branches.skip
      BY <1>3, <3>1 DEF Branched
    <3>3. SetRepoAutoBranches(u, sent, asked, {"branchScope", "branchList"})
      BY <2>2
    <3> HIDE DEF sent, asked
    <3> QED
      BY <1>2, <3>2, <3>3, SaveBranches DEF BranchPieces
  <2> QED
    BY <1>8, <2>1, <2>2 DEF PickBranchScope
<1>9. ASSUME NEW x \in SUBSET Patterns, SaveListedBranches(u, x) PROVE IInv'
  <2> DEFINE sent == [page[u].branches EXCEPT !.scope = "listed", !.listed = x]
             asked == [meant[u].branches EXCEPT !.scope = "listed", !.listed = x]
  <2>1. SetRepoAutoBranches(u, sent, asked, {"branchScope", "branchList"}) /\ page[u] # NoPage
    BY <1>9 DEF SaveListedBranches
  <2>2. meant[u].branches \in Branched
    BY <1>2, <2>1, RowOfSaver DEF SetRepoAutoBranches, UpdateEnabledRepo, Asked, Branched
  <2>3. /\ sent \in Branched /\ asked \in Branched
        /\ sent.scope = "listed" /\ asked.scope = "listed" /\ sent.listed = x /\ asked.listed = x
        /\ sent.skip = page[u].branches.skip /\ asked.skip = meant[u].branches.skip
    BY <1>3, <2>1, <2>2 DEF Branched, BranchScopes
  <2> HIDE DEF sent, asked
  <2> QED
    BY <1>2, <2>1, <2>3, SaveBranches DEF BranchPieces
<1>10. ASSUME NEW x \in SUBSET Patterns, SaveSkipBranches(u, x) PROVE IInv'
  <2> DEFINE sent == [page[u].branches EXCEPT !.skip = x]
             asked == [meant[u].branches EXCEPT !.skip = x]
  <2>1. SetRepoAutoBranches(u, sent, asked, {"branchSkip"}) /\ page[u] # NoPage
    BY <1>10 DEF SaveSkipBranches
  <2>2. meant[u].branches \in Branched
    BY <1>2, <2>1, RowOfSaver DEF SetRepoAutoBranches, UpdateEnabledRepo, Asked, Branched
  <2>3. /\ sent \in Branched /\ asked \in Branched /\ sent.skip = x /\ asked.skip = x
        /\ sent.scope = page[u].branches.scope /\ asked.scope = meant[u].branches.scope
        /\ sent.listed = page[u].branches.listed /\ asked.listed = meant[u].branches.listed
    BY <1>3, <2>1, <2>2 DEF Branched
  <2> HIDE DEF sent, asked
  <2> QED
    BY <1>2, <2>1, <2>3, SaveBranches DEF BranchPieces
<1>11. CASE PatchDefaults(u)
  <2>1. \E d \in Defaults : SetRepoSettingDefaults(u, d)
    <3>0. defaults[u] \in Defaults
      BY <1>2 DEF TypeOK, Defaults
    <3>1. CASE \E x \in Modes : SetRepoSettingDefaults(u, [defaults[u] EXCEPT !.mode = x])
      <4>1. \A x \in Modes : [defaults[u] EXCEPT !.mode = x] \in Defaults
        BY <3>0 DEF Defaults
      <4> QED
        BY <3>1, <4>1
    <3>2. CASE \E x \in AuthorScopes :
                 SetRepoSettingDefaults(u, [defaults[u] EXCEPT !.authors = x])
      <4>1. \A x \in AuthorScopes : [defaults[u] EXCEPT !.authors = x] \in Defaults
        BY <3>0 DEF Defaults
      <4> QED
        BY <3>2, <4>1
    <3>3. CASE \E x \in BranchScopes :
                 SetRepoSettingDefaults(u, [defaults[u] EXCEPT !.branches = x])
      <4>1. \A x \in BranchScopes : [defaults[u] EXCEPT !.branches = x] \in Defaults
        BY <3>0 DEF Defaults
      <4> QED
        BY <3>3, <4>1
    <3>4. CASE \E x \in Cadences : SetRepoSettingDefaults(u, [defaults[u] EXCEPT !.cadence = x])
      <4>1. \A x \in Cadences : [defaults[u] EXCEPT !.cadence = x] \in Defaults
        BY <3>0 DEF Defaults
      <4> QED
        BY <3>4, <4>1
    <3> QED
      BY <1>11, <3>1, <3>2, <3>3, <3>4 DEF PatchDefaults
  <2>2. PICK d \in Defaults : SetRepoSettingDefaults(u, d)
    BY <2>1
  <2> QED
    BY <1>2, <2>2 DEF SetRepoSettingDefaults, IInv, TypeOK, MeansRow, Defaults
<1> QED
  BY <1>1, <1>4, <1>5, <1>6, <1>7, <1>8, <1>9, <1>10, <1>11

\* The claim moves, rows come and go.
LEMMA ClaimKeepsInv ==
    ASSUME AdmissionAssumption, IInv, wake = NoWake, ClaimStep
    PROVE  IInv'
<1>0. TypeOK
  BY DEF IInv
<1>1. CASE ReleaseRoute \/ \E u \in Users : ClaimRoute(u)
  BY <1>0, <1>1 DEF ReleaseRoute, ClaimRoute, settings, IInv, TypeOK, MeansRow
<1>2. ASSUME NEW u \in Users, EnableRepo(u) PROVE IInv'
  <2> DEFINE row == RowFromDefaults(defaults[u])
             asked == RouteSettings(row)
  <2>1. defaults[u] \in Defaults
    BY <1>0 DEF TypeOK, Defaults
  <2>2. row \in Columns /\ PoliciesParse(row) /\ asked \in Asked
    BY <2>1, FromDefaults, RouteSettingsType
  <2>3. /\ rows' = [rows EXCEPT ![u] = row] /\ meant' = [meant EXCEPT ![u] = asked]
        /\ restored' = [restored EXCEPT ![u] = {}]
        /\ UNCHANGED <<holder, wake, defaults, page, saves>>
    BY <1>2, <2>1, FromDefaults DEF EnableRepo
  <2>4. TypeOK'
    <3> HIDE DEF row, asked
    <3> QED
      BY <1>0, <2>2, <2>3 DEF TypeOK
  <2>5. ASSUME NEW v \in Users PROVE MeansRow(v)'
    <3>1. CASE v = u
      <4>1. rows'[v] = row /\ meant'[v] = asked
        BY <1>0, <2>3, <3>1 DEF TypeOK
      <4>2. row # NoRow
        BY <2>2, ColumnsAreRows
      <4> QED
        BY <2>2, <4>1, <4>2 DEF MeansRow, Agrees
    <3>2. CASE v # u
      <4>1. rows'[v] = rows[v] /\ meant'[v] = meant[v] /\ restored'[v] = restored[v]
        BY <1>0, <2>3, <3>2 DEF TypeOK
      <4> QED
        BY <4>1 DEF IInv, MeansRow
    <3> QED
      BY <3>1, <3>2
  <2> QED
    BY <2>4, <2>5 DEF IInv
<1>3. ASSUME NEW u \in Users, DisableRepo(u) PROVE IInv'
  <2>1. TypeOK'
    BY <1>0, <1>3 DEF DisableRepo, TypeOK
  <2>2. ASSUME NEW v \in Users PROVE MeansRow(v)'
    <3>1. CASE v = u
      BY <1>0, <1>3, <3>1 DEF DisableRepo, TypeOK, MeansRow
    <3>2. CASE v # u
      <4>1. rows'[v] = rows[v] /\ meant'[v] = meant[v] /\ restored'[v] = restored[v]
        BY <1>0, <1>3, <3>2 DEF DisableRepo, TypeOK
      <4> QED
        BY <4>1 DEF IInv, MeansRow
    <3> QED
      BY <3>1, <3>2
  <2> QED
    BY <2>1, <2>2 DEF IInv
<1> QED
  BY <1>1, <1>2, <1>3 DEF ClaimStep

-----------------------------------------------------------------------------
(* Deciding *)

\* An event of a webhook, and the wake that it has become.
Handled(e, outcome, calls, known, underWay) ==
    LET r == Routed(e)
    IN  wake' = [event |-> e, user |-> holder, home |-> r.home, meant |-> r.meant,
                 restored |-> r.restored, row |-> RowOfRoute, route |-> r.route,
                 outcome |-> outcome, calls |-> calls, known |-> known, underWay |-> underWay]

\* The ways a webhook ends, each with the reason it had.
Reasoned(e, outcome, calls, known, underWay) ==
    \/ ~Supported(e) /\ outcome = "ignored"
    \/ RowOfRoute = NoRow /\ outcome = "ignored"
    \/ outcome = "unavailable" /\ Supported(e)
         /\ (calls = "failed" \/ ~PoliciesParse(RowOfRoute))
    \/ /\ Supported(e) /\ PoliciesParse(RowOfRoute) /\ calls = "answered"
       /\ known \in DefaultMayBeKnown(Routed(e)) /\ underWay \in MayBeUnderWay(Routed(e))
       /\ \/ DecideWake(Routed(e), known, underWay) = "dispatch" /\ outcome \in Admitted
          \/ DecideWake(Routed(e), known, underWay) # "dispatch"
                /\ outcome = DecideWake(Routed(e), known, underWay)

Outcomes == Admitted \cup {"ignored", "duplicate", "unavailable"}

LEMMA RouteParses == ASSUME NEW e PROVE Routed(e).route # NoPage => PoliciesParse(RowOfRoute)
BY DEF Routed

LEMMA WebhookHandled ==
    ASSUME HandleGithubWake
    PROVE  \E e \in PullEvents \cup CommentEvents, known, underWay \in BOOLEAN,
              outcome \in Outcomes, calls \in {"answered", "failed"} :
                 /\ Handled(e, outcome, calls, known, underWay)
                 /\ Reasoned(e, outcome, calls, known, underWay)
<1>1. PICK e \in PullEvents \cup CommentEvents :
        \/ Ignore(e) \/ NoRoute(e) \/ RouteFails(e)
        \/ \E known, underWay \in BOOLEAN : ProcessPlannedWake(e, known, underWay)
  BY DEF HandleGithubWake
<1>2. ASSUME NEW known, NEW underWay, NEW outcome, NEW calls,
             Ends(Routed(e), outcome, calls, known, underWay)
      PROVE  Handled(e, outcome, calls, known, underWay)
  BY <1>2 DEF Ends, Routed, Handled
<1>3. CASE Ignore(e) \/ NoRoute(e)
  <2>1. /\ Ends(Routed(e), "ignored", "answered", TRUE, FALSE)
        /\ Reasoned(e, "ignored", "answered", TRUE, FALSE)
    BY <1>3 DEF Ignore, NoRoute, Reasoned
  <2> QED
    BY <1>2, <2>1 DEF Outcomes
<1>4. CASE RouteFails(e)
  <2>1. PICK calls \in {"answered", "failed"} :
          /\ Ends(Routed(e), "unavailable", calls, TRUE, FALSE)
          /\ Reasoned(e, "unavailable", calls, TRUE, FALSE)
    BY <1>4 DEF RouteFails, Reasoned
  <2> QED
    BY <1>2, <2>1 DEF Outcomes
<1>5. ASSUME NEW known \in BOOLEAN, NEW underWay \in BOOLEAN,
             ProcessPlannedWake(e, known, underWay)
      PROVE  \E outcome \in Outcomes, calls \in {"answered", "failed"} :
                 /\ Handled(e, outcome, calls, known, underWay)
                 /\ Reasoned(e, outcome, calls, known, underWay)
  <2> DEFINE decision == DecideWake(Routed(e), known, underWay)
  <2>1. decision \in {"dispatch", "ignored", "duplicate"}
    BY DEF DecideWake
  <2>2. /\ Supported(e) /\ PoliciesParse(RowOfRoute)
        /\ known \in DefaultMayBeKnown(Routed(e)) /\ underWay \in MayBeUnderWay(Routed(e))
    BY <1>5, RouteParses DEF ProcessPlannedWake
  <2>3. CASE decision # "dispatch"
    <3>1. Ends(Routed(e), decision, "answered", known, underWay)
      BY <1>5, <2>3 DEF ProcessPlannedWake
    <3>2. Reasoned(e, decision, "answered", known, underWay)
      BY <2>2, <2>3 DEF Reasoned
    <3> QED
      BY <1>2, <2>1, <2>3, <3>1, <3>2 DEF Outcomes
  <2>4. CASE decision = "dispatch"
    <3>1. CASE Ends(Routed(e), "unavailable", "failed", known, underWay)
      <4>1. Reasoned(e, "unavailable", "failed", known, underWay)
        BY <2>2 DEF Reasoned
      <4> QED
        BY <1>2, <3>1, <4>1 DEF Outcomes
    <3>2. ASSUME NEW outcome \in Admitted,
                 Ends(Routed(e), outcome, "answered", known, underWay)
          PROVE  \E o \in Outcomes : /\ Handled(e, o, "answered", known, underWay)
                                     /\ Reasoned(e, o, "answered", known, underWay)
      <4>1. Reasoned(e, outcome, "answered", known, underWay)
        BY <2>2, <2>4 DEF Reasoned
      <4> QED
        BY <1>2, <3>2, <4>1 DEF Outcomes
    <3> QED
      BY <1>5, <2>4, <3>1, <3>2 DEF ProcessPlannedWake
  <2> QED
    BY <2>3, <2>4
<1> QED
  BY <1>1, <1>3, <1>4, <1>5

\* The gate lets pass the authors that the settings name ...
LEMMA GateOfAuthors ==
    ASSUME AdmissionAssumption, NEW m \in Asked, NEW user, NEW author \in Authors \cup {Nameless}
    PROVE  AutoWakeAllowsAuthor(m.authors, author, user) <=>
             /\ author \in Authors /\ author.login \notin m.authors.skip
             /\ AuthorInScope(m, author, user)
<1>1. m.authors.scope \in AuthorScopes
  BY DEF Asked
<1>2. AuthorInScope(m, author, user) <=>
        \/ m.authors.scope = "everyone"
        \/ m.authors.scope = "you" /\ author.user = user
        \/ m.authors.scope = "friends" /\ author.association \in Friends
  <2>1. CASE m.authors.scope = "you"
    BY <2>1 DEF AuthorInScope
  <2>2. CASE m.authors.scope = "friends"
    BY <2>2 DEF AuthorInScope
  <2>3. CASE m.authors.scope = "everyone"
    BY <2>3 DEF AuthorInScope
  <2> QED
    BY <1>1, <2>1, <2>2, <2>3 DEF AuthorScopes
<1>3. author \in Authors <=> author # Nameless
  BY DEF AdmissionAssumption
<1> QED
  BY <1>2, <1>3 DEF AutoWakeAllowsAuthor

\* ... and the branches; the default branch only when it is known.
LEMMA GateOfBranches ==
    ASSUME AdmissionAssumption, NEW m \in Asked, NEW base \in Branches, NEW known \in BOOLEAN
    PROVE  /\ AutoWakeAllowsBranch(m.branches, base, known) =>
                 base \in BranchesInScope(m) /\ ~BranchMatchesAny(m.branches.skip, base)
           /\ known /\ base \in BranchesInScope(m) /\ ~BranchMatchesAny(m.branches.skip, base)
              => AutoWakeAllowsBranch(m.branches, base, known)
<1>1. m.branches.scope \in BranchScopes
  BY DEF Asked
<1>2. base \in BranchesInScope(m) <=>
        \/ m.branches.scope = "all"
        \/ m.branches.scope = "default" /\ base = DefaultBranch
        \/ m.branches.scope = "listed" /\ BranchMatchesAny(m.branches.listed, base)
  <2>1. CASE m.branches.scope = "all"
    BY <2>1 DEF BranchesInScope, BranchMatchesAny
  <2>2. CASE m.branches.scope = "default"
    BY <2>2 DEF BranchesInScope, BranchMatchesAny
  <2>3. CASE m.branches.scope = "listed"
    BY <2>3 DEF BranchesInScope, BranchMatchesAny
  <2> QED
    BY <1>1, <2>1, <2>2, <2>3 DEF BranchScopes
<1> QED
  BY <1>2 DEF AutoWakeAllowsBranch

\* What a wake reads of the row is what the holder asked for, each piece but
\* for those an old page wrote back.
LEMMA RouteIsMeant ==
    ASSUME IInv, NEW e, PoliciesParse(RowOfRoute)
    PROVE  /\ holder \in Users /\ Routed(e).meant \in Asked /\ Routed(e).route \in Asked
           /\ Agrees(Routed(e).meant, Routed(e).route, Routed(e).restored)
<1>1. Routed(e).route = RouteSettings(RowOfRoute)
  BY DEF Routed
<1>2. RowOfRoute # NoRow
  <2>1. NoRow.mode = ""
    BY DEF NoRow
  <2>2. RowOfRoute.mode # ""
    BY DEF PoliciesParse, Modes
  <2> QED
    BY <2>1, <2>2
<1>3. holder \in Users /\ holder # Nobody /\ RowOfRoute = rows[holder]
  BY <1>2 DEF RowOfRoute, IInv, TypeOK
<1>4. RowOfRoute \in Columns
  BY <1>2, <1>3 DEF IInv, TypeOK
<1>5. Routed(e).route \in Asked
  BY <1>1, <1>4, RouteSettingsType
<1>6. /\ meant[holder] \in Asked
      /\ Agrees(meant[holder], RouteSettings(rows[holder]), restored[holder])
  BY <1>2, <1>3 DEF IInv, MeansRow
<1>7. Routed(e).meant = meant[holder] /\ Routed(e).restored = restored[holder]
  BY <1>3 DEF Routed
<1> QED
  BY <1>1, <1>3, <1>5, <1>6, <1>7

\* The gates of a review; a poke passes with a Home and a phrase.
Passes(w, known, underWay) ==
    /\ w.home /\ PlanOf(w.event) # "no_match"
    /\ IsPull(w.event) =>
         /\ ~Draft(w.event) /\ w.route.mode # "mention-only"
         /\ AutoWakeAllowsAuthor(w.route.authors, w.event.author, w.user)
         /\ ~CadenceBlocks(w.route, underWay)
         /\ AutoWakeAllowsBranch(w.route.branches, w.event.base, known)

LEMMA DispatchPasses ==
    ASSUME NEW w, NEW known, NEW underWay
    PROVE  DecideWake(w, known, underWay) = "dispatch" <=> Passes(w, known, underWay)
<1>1. PlanOf(w.event) = "review" <=> IsPull(w.event)
  BY DEF PlanOf
<1>2. CASE ~w.home \/ PlanOf(w.event) = "no_match"
  BY <1>2 DEF DecideWake, Passes
<1>3. CASE w.home /\ PlanOf(w.event) # "no_match" /\ ~IsPull(w.event)
  BY <1>1, <1>3 DEF DecideWake, Passes
<1>4. CASE w.home /\ PlanOf(w.event) # "no_match" /\ IsPull(w.event)
  BY <1>1, <1>4 DEF DecideWake, Passes
<1> QED
  BY <1>2, <1>3, <1>4

LEMMA RoutedFields ==
    ASSUME NEW e
    PROVE  /\ Routed(e).event = e /\ Routed(e).user = holder
           /\ Routed(e).home = (holder \in Homes)
BY DEF Routed

LEMMA PullEventFields ==
    ASSUME NEW e \in PullEvents \cup CommentEvents
    PROVE  IsPull(e) => /\ e.author \in Authors \cup {Nameless} /\ e.base \in Branches
                        /\ e.draft \in BOOLEAN /\ e.bot \in BOOLEAN
                        /\ e.action \in {"opened", "ready_for_review", "edited"}
                        /\ e.action = "ready_for_review" => ~e.draft
<1>1. CASE e \in PullEvents
  BY <1>1 DEF PullEvents
<1>2. CASE e \in CommentEvents
  <2>1. e.name \in {"issue_comment", "pull_request_review_comment"}
    BY <1>2 DEF CommentEvents
  <2> QED
    BY <2>1 DEF IsPull
<1> QED
  BY <1>1, <1>2

\* A review that is accepted is one the holder of the claim wanted.
LEMMA AcceptedIsWanted ==
    ASSUME AdmissionAssumption, IInv, NEW e \in PullEvents \cup CommentEvents,
           NEW known \in BOOLEAN, NEW underWay \in BOOLEAN, NEW outcome, NEW calls,
           Handled(e, outcome, calls, known, underWay),
           Reasoned(e, outcome, calls, known, underWay)
    PROVE  ReviewsAreWanted'
<1> DEFINE m == Routed(e).meant
           r == Routed(e).route
           but == Routed(e).restored
<1>1. /\ wake'.event = e /\ wake'.user = holder /\ wake'.meant = m /\ wake'.restored = but
      /\ wake'.outcome = outcome
  BY DEF Handled
<1>2. SUFFICES ASSUME outcome = "accepted"
               PROVE  wake'.user \in Homes /\ (IsPull(wake'.event) => Wants(wake', but))
  BY <1>1 DEF ReviewsAreWanted
<1>3. PoliciesParse(RowOfRoute) /\ Passes(Routed(e), known, underWay)
  <2>1. DecideWake(Routed(e), known, underWay) \in {"dispatch", "ignored", "duplicate"}
    BY DEF DecideWake
  <2>2. PoliciesParse(RowOfRoute) /\ DecideWake(Routed(e), known, underWay) = "dispatch"
    BY <1>2, <2>1 DEF Reasoned
  <2> QED
    BY <2>2, DispatchPasses
<1>4. holder \in Homes
  BY <1>3, RoutedFields DEF Passes
<1>5. m \in Asked /\ r \in Asked /\ Agrees(m, r, but)
  BY <1>3, RouteIsMeant
<1>6. ASSUME IsPull(e) PROVE Wants(wake', but)
  <2>1. /\ ~Draft(e) /\ r.mode # "mention-only"
        /\ AutoWakeAllowsAuthor(r.authors, e.author, holder)
        /\ AutoWakeAllowsBranch(r.branches, e.base, known)
    BY <1>3, <1>6, RoutedFields DEF Passes
  <2> HIDE DEF m, r, but
  <2>2. m # NoPage /\ m.mode = "auto"
    BY <1>5, <2>1, AskedIsPage DEF Asked, Modes, Agrees
  <2>3. ~e.draft
    BY <1>6, <2>1, PullEventFields DEF Draft
  <2>4. /\ e.author \in Authors /\ e.author.login \notin r.authors.skip
        /\ AuthorInScope(r, e.author, holder)
    BY <1>5, <1>6, <2>1, PullEventFields, GateOfAuthors
  <2>5. /\ e.base \in BranchesInScope(r)
        /\ ~BranchMatchesAny(r.branches.skip, e.base)
    BY <1>5, <1>6, <2>1, PullEventFields, GateOfBranches
  <2>6. "authorScope" \notin but => AuthorInScope(m, e.author, holder)
    BY <1>5, <2>4 DEF Agrees, AuthorInScope
  <2>7. "authorSkip" \notin but => e.author.login \notin m.authors.skip
    BY <1>5, <2>4 DEF Agrees
  <2>8. but \cap {"branchScope", "branchList"} = {} => e.base \in BranchesInScope(m)
    <3> HAVE but \cap {"branchScope", "branchList"} = {}
    <3>1. m.branches.scope = r.branches.scope /\ m.branches.listed = r.branches.listed
      BY <1>5 DEF Agrees
    <3> QED
      BY <2>5, <3>1 DEF BranchesInScope
  <2>9. "branchSkip" \notin but => e.base \notin UNION {Matches[p] : p \in m.branches.skip}
    <3> HAVE "branchSkip" \notin but
    <3>1. m.branches.skip = r.branches.skip
      BY <1>5 DEF Agrees
    <3> QED
      BY <2>5, <3>1 DEF BranchMatchesAny
  <2> QED
    BY <1>1, <2>2, <2>3, <2>4, <2>6, <2>7, <2>8, <2>9 DEF Wants
<1> QED
  BY <1>1, <1>4, <1>6

\* A webhook of a repo that is claimed, enabled and at home, which was asked
\* for, is admitted, unless a call or the row fails it.
LEMMA WantedIsAdmitted ==
    ASSUME AdmissionAssumption, IInv, NEW e \in PullEvents \cup CommentEvents,
           NEW known \in BOOLEAN, NEW underWay \in BOOLEAN, NEW outcome,
           NEW calls \in {"answered", "failed"},
           Handled(e, outcome, calls, known, underWay),
           Reasoned(e, outcome, calls, known, underWay)
    PROVE  NoneIsPassedOver'
<1> DEFINE m == Routed(e).meant
           r == Routed(e).route
           but == Routed(e).restored
<1>1. /\ wake'.event = e /\ wake'.user = holder /\ wake'.meant = m /\ wake'.restored = but
      /\ wake'.home = (holder \in Homes) /\ wake'.outcome = outcome /\ wake'.calls = calls
      /\ wake'.known = known /\ wake'.underWay = underWay
      /\ wake'.row = RowOfRoute /\ wake'.route = r
  BY RoutedFields DEF Handled
<1>2. SUFFICES
        ASSUME RowOfRoute # NoRow, holder \in Homes, ~e.bot,
               IF IsPull(e)
               THEN /\ e.action # "edited" /\ known
                    /\ r # NoPage => /\ Wants(wake', {}) /\ but = {}
                                     /\ m.cadence = "once-per-pr" => ~underWay
               ELSE e.action = "created" /\ e.onPull /\ e.phrase # "none"
        PROVE  IF calls = "answered" /\ r # NoPage THEN outcome \in Admitted
               ELSE outcome = "unavailable"
  BY <1>1 DEF NoneIsPassedOver, Answered
<1>3. Supported(e)
  BY <1>2, PullEventFields DEF Supported, PullActions
<1>4. PoliciesParse(RowOfRoute) <=> r # NoPage
  <2>1. CASE PoliciesParse(RowOfRoute)
    BY <2>1, RouteIsMeant, AskedIsPage
  <2> QED
    BY <2>1, RouteParses
<1>5. CASE outcome = "unavailable"
  BY <1>2, <1>3, <1>4, <1>5 DEF Reasoned, DecideWake
<1>6. CASE outcome # "unavailable"
  <2>1. /\ PoliciesParse(RowOfRoute) /\ calls = "answered"
        /\ \/ DecideWake(Routed(e), known, underWay) = "dispatch" /\ outcome \in Admitted
           \/ DecideWake(Routed(e), known, underWay) # "dispatch"
    BY <1>2, <1>3, <1>6 DEF Reasoned
  <2>2. r \in Asked /\ m \in Asked /\ Agrees(m, r, but)
    BY <2>1, RouteIsMeant
  <2>3. PlanOf(e) # "no_match"
    BY <1>2 DEF PlanOf
  <2>4. ASSUME IsPull(e)
        PROVE  /\ ~Draft(e) /\ r.mode # "mention-only"
               /\ AutoWakeAllowsAuthor(r.authors, e.author, holder)
               /\ ~CadenceBlocks(r, underWay)
               /\ AutoWakeAllowsBranch(r.branches, e.base, known)
    <3>1. Wants(wake', {}) /\ but = {} /\ known /\ (m.cadence = "once-per-pr" => ~underWay)
      BY <1>2, <1>4, <2>1, <2>4
    <3> HIDE DEF m, r, but
    <3>2. /\ m.mode = r.mode /\ m.cadence = r.cadence /\ m.authors.scope = r.authors.scope
          /\ m.authors.skip = r.authors.skip /\ m.branches.scope = r.branches.scope
          /\ m.branches.listed = r.branches.listed /\ m.branches.skip = r.branches.skip
      BY <2>2, <3>1 DEF Agrees
    <3>3. /\ m.mode = "auto" /\ ~e.draft
          /\ e.author \in Authors /\ AuthorInScope(m, e.author, holder)
          /\ e.author.login \notin m.authors.skip
          /\ e.base \in BranchesInScope(m)
          /\ e.base \notin UNION {Matches[p] : p \in m.branches.skip}
      BY <1>1, <3>1 DEF Wants
    <3>4. ~Draft(e) /\ r.mode # "mention-only" /\ ~CadenceBlocks(r, underWay)
      BY <3>1, <3>2, <3>3 DEF Draft, CadenceBlocks
    <3>5. e.author \in Authors \cup {Nameless} /\ e.base \in Branches
      BY <2>4, PullEventFields
    <3>6. AuthorInScope(r, e.author, holder) /\ BranchesInScope(r) = BranchesInScope(m)
      BY <3>2, <3>3 DEF AuthorInScope, BranchesInScope
    <3>7. AutoWakeAllowsAuthor(r.authors, e.author, holder)
      BY <2>2, <3>2, <3>3, <3>5, <3>6, GateOfAuthors
    <3>8. ~BranchMatchesAny(r.branches.skip, e.base)
      BY <3>2, <3>3 DEF BranchMatchesAny
    <3>9. known /\ e.base \in BranchesInScope(r)
      BY <3>1, <3>3, <3>6
    <3>10. AutoWakeAllowsBranch(r.branches, e.base, known)
      <4>1. known /\ e.base \in BranchesInScope(r) /\ ~BranchMatchesAny(r.branches.skip, e.base)
        BY <3>8, <3>9
      <4>2. r \in Asked
        BY <2>2
      <4>3. e.base \in Branches
        BY <3>5
      <4> HIDE DEF r
      <4> QED
        BY <4>1, <4>2, <4>3, GateOfBranches
    <3> QED
      BY <3>4, <3>7, <3>10
  <2>5. Passes(Routed(e), known, underWay)
    BY <1>2, <2>3, <2>4, RoutedFields DEF Passes
  <2> QED
    BY <1>4, <2>1, <2>5, DispatchPasses
<1> QED
  BY <1>5, <1>6

-----------------------------------------------------------------------------
(* Every step *)

GatesAgree == ReviewsAreWanted /\ NoneIsPassedOver

LEMMA InitInv == ASSUME AdmissionAssumption, Init PROVE IInv /\ GatesAgree
<1>1. NoWake.outcome = ""
  BY DEF NoWake
<1>2. ReviewsAreWanted /\ NoneIsPassedOver
  BY <1>1 DEF Init, ReviewsAreWanted, NoneIsPassedOver
<1>3. ProductDefaults \in Defaults
  BY DEF ProductDefaults, Defaults, Modes, AuthorScopes, BranchScopes, Cadences
<1>4. rows \in [Users -> Columns \cup {NoRow}]
  BY DEF Init, AdmissionAssumption
<1>5. ASSUME NEW u \in Users
      PROVE  /\ rows[u] = NoRow => meant[u] = NoPage
             /\ rows[u] # NoRow /\ PoliciesParse(rows[u]) =>
                  meant[u] = RouteSettings(rows[u]) /\ meant[u] \in Asked
             /\ meant[u] \in Asked \cup {NoPage}
  <2>1. meant[u] = IF rows[u] = NoRow \/ ~PoliciesParse(rows[u]) THEN NoPage
                   ELSE RouteSettings(rows[u])
    BY DEF Init
  <2> QED
    BY <1>4, <2>1, RouteSettingsType
<1>6. meant \in [Users -> Asked \cup {NoPage}]
  <2>1. meant = [u \in Users |-> meant[u]]
    BY DEF Init
  <2> QED
    BY <1>5, <2>1
<1>7. TypeOK
  BY <1>3, <1>4, <1>6 DEF Init, TypeOK, Defaults
<1> QED
  BY <1>2, <1>5, <1>7 DEF IInv, MeansRow, Agrees, GatesAgree

LEMMA StepInv ==
    ASSUME AdmissionAssumption, IInv, GatesAgree, [Next]_vars
    PROVE  IInv' /\ GatesAgree'
<1>1. CASE UNCHANGED wake /\ wake = NoWake /\ (ClaimStep \/ PageStep)
  <2>1. IInv'
    BY <1>1, ClaimKeepsInv, PageKeepsInv
  <2>2. GatesAgree'
    BY <1>1 DEF GatesAgree, ReviewsAreWanted, NoneIsPassedOver
  <2> QED
    BY <2>1, <2>2
<1>2. CASE HandleGithubWake
  <2>1. PICK e \in PullEvents \cup CommentEvents, known \in BOOLEAN, underWay \in BOOLEAN,
             outcome \in Outcomes, calls \in {"answered", "failed"} :
                 /\ Handled(e, outcome, calls, known, underWay)
                 /\ Reasoned(e, outcome, calls, known, underWay)
    BY <1>2, WebhookHandled
  <2>2. GatesAgree'
    BY <2>1, AcceptedIsWanted, WantedIsAdmitted DEF GatesAgree
  <2>3. wake'.outcome \in Outcomes
    BY <2>1 DEF Handled
  <2>4. UNCHANGED <<holder, rows, defaults, page, saves, meant, restored>>
    BY <1>2 DEF HandleGithubWake, settings
  <2>5. TypeOK'
    BY <2>3, <2>4 DEF IInv, TypeOK, Outcomes
  <2>6. \A u \in Users : MeansRow(u)'
    BY <2>4 DEF IInv, MeansRow
  <2> QED
    BY <2>2, <2>5, <2>6 DEF IInv
<1>3. CASE RecordReceipt
  <2>1. NoWake.outcome = "" /\ wake' = NoWake
    BY <1>3 DEF NoWake, RecordReceipt
  <2>2. GatesAgree'
    BY <2>1 DEF GatesAgree, ReviewsAreWanted, NoneIsPassedOver
  <2>3. UNCHANGED <<holder, rows, defaults, page, saves, meant, restored>>
    BY <1>3 DEF RecordReceipt, settings
  <2>4. TypeOK'
    BY <2>1, <2>3 DEF IInv, TypeOK
  <2>5. \A u \in Users : MeansRow(u)'
    BY <2>3 DEF IInv, MeansRow
  <2> QED
    BY <2>2, <2>4, <2>5 DEF IInv
<1>4. CASE UNCHANGED vars
  <2>1. UNCHANGED <<holder, wake, rows, defaults, page, saves, meant, restored>>
    BY <1>4 DEF vars, settings
  <2> QED
    BY <2>1 DEF IInv, TypeOK, MeansRow, GatesAgree, ReviewsAreWanted, NoneIsPassedOver
<1>5. (ClaimStep \/ PageStep) /\ wake = NoWake => UNCHANGED wake
  <2>1. ClaimStep => UNCHANGED wake
    BY DEF ClaimStep, ReleaseRoute, ClaimRoute, EnableRepo, DisableRepo
  <2>2. ASSUME NEW u \in Savers,
               \/ \E x \in Modes : SetRepoWakeMode(u, x)
               \/ \E x \in Cadences : SetRepoAutoReviewCadence(u, x)
        PROVE  UNCHANGED wake
    BY <2>2 DEF SetRepoWakeMode, SetRepoAutoReviewCadence, UpdateEnabledRepo
  <2>3. ASSUME NEW u \in Savers,
               \/ \E x \in AuthorScopes : PickAuthorScope(u, x)
               \/ \E x \in SkipLists : SaveSkipLogins(u, x)
        PROVE  UNCHANGED wake
    BY <2>3 DEF PickAuthorScope, SaveSkipLogins, SetRepoAutoAuthors, UpdateEnabledRepo
  <2>4. ASSUME NEW u \in Savers,
               \/ \E x \in BranchScopes : PickBranchScope(u, x)
               \/ \E x \in SUBSET Patterns : SaveListedBranches(u, x) \/ SaveSkipBranches(u, x)
        PROVE  UNCHANGED wake
    BY <2>4 DEF PickBranchScope, SaveListedBranches, SaveSkipBranches, SetRepoAutoBranches,
                UpdateEnabledRepo
  <2>5. ASSUME NEW u \in Savers, ListEnabledRepos(u) \/ PatchDefaults(u)
        PROVE  UNCHANGED wake
    BY <2>5 DEF ListEnabledRepos, PatchDefaults, SetRepoSettingDefaults
  <2>6. PageStep => UNCHANGED wake
    BY <2>2, <2>3, <2>4, <2>5 DEF PageStep
  <2> QED
    BY <2>1, <2>6
<1> QED
  BY <1>1, <1>2, <1>3, <1>4, <1>5 DEF Next

\* In every reachable state the columns of each user's row that a wake can
\* read mean the settings she asked for last, but for those an old page wrote
\* back, and every gate so far agreed.
THEOREM Invariant == Spec => [](IInv /\ GatesAgree)
<1>1. Init => IInv /\ GatesAgree
  BY AdmissionAssumption, InitInv
<1>2. IInv /\ GatesAgree /\ [Next]_vars => (IInv /\ GatesAgree)'
  BY AdmissionAssumption, StepInv
<1> QED
  BY <1>1, <1>2, PTL DEF Spec

\* Whatever is saved, from whatever page, a row keeps columns of this release
\* or an older one, and a page shows something that can be asked for.
THEOREM TypeCorrect == Spec => []TypeOK
<1>1. IInv /\ GatesAgree => TypeOK
  BY DEF IInv
<1> QED
  BY <1>1, Invariant, PTL

\* An automatic review is accepted only into a Home, and only when the settings
\* its holder asked for want it: her mode, this author, this base branch.  A
\* setting that an old page wrote back otherwise holds nothing off.
THEOREM ReviewsAreWantedAlways == Spec => []ReviewsAreWanted
<1>1. IInv /\ GatesAgree => ReviewsAreWanted
  BY DEF GatesAgree
<1> QED
  BY <1>1, Invariant, PTL

\* A poke in a comment on a claimed, enabled and hosted repo, and a review that
\* was asked for, are never ignored, unless a review of the pull request is
\* under way or the default branch is not known; they are unavailable where a
\* call fails or a column does not parse, and admitted everywhere else.
THEOREM NoneIsPassedOverAlways == Spec => []NoneIsPassedOver
<1>1. IInv /\ GatesAgree => NoneIsPassedOver
  BY DEF GatesAgree
<1> QED
  BY <1>1, Invariant, PTL
=============================================================================
