----------------------------- MODULE ModelChoice -----------------------------
(***************************************************************************)
(* Which model a queue entry runs (packages/action/src/similar-model.ts).  *)
(* A vendor retires a model id; the catalog of the Runtime pack then lists *)
(* no such id, and the entry runs its newest kin, refuses, or runs the     *)
(* stored id all the same.  ReviewRun walks the catalog, entry by entry;   *)
(* here is what it compares.                                               *)
(*                                                                         *)
(* A model id is its place among all id strings in the order JavaScript    *)
(* compares them in, and the sequence of its maximal runs of letters and   *)
(* digits, [kind |-> "word", text] or [kind |-> "number", value, digits].  *)
(***************************************************************************)
EXTENDS Integers, Sequences, FiniteSets

Tokens == [kind : {"word"}, text : STRING]
          \cup [kind : {"number"}, value : Nat, digits : Nat]
Word(text) == [kind |-> "word", text |-> text]
Number(value, digits) == [kind |-> "number", value |-> value, digits |-> digits]

ModelIds == [order : Nat, tokens : Seq(Tokens)]

NoiseWords == {"dated", "exp", "experimental", "latest", "models", "preview"}

\* A run of six digits or more is a date stamp, not a version.
IsFamilyWord(token) == token.kind = "word" /\ token.text \notin NoiseWords
IsVersionPart(token) == token.kind = "number" /\ token.digits < 6

VersionParts(id) == {i \in 1..Len(id) : IsVersionPart(id[i])}

Positions(id, w) == {i \in 1..Len(id) : IsFamilyWord(id[i]) /\ id[i].text = w}

FamilyWords(id) == {id[i].text : i \in {j \in 1..Len(id) : IsFamilyWord(id[j])}}

\* The sorted word lists are equal, and not empty.
SameFamily(a, b) ==
    /\ FamilyWords(a) # {}
    /\ \A w \in FamilyWords(a) \cup FamilyWords(b) :
           Cardinality(Positions(a, w)) = Cardinality(Positions(b, w))

\* The k-th part of the version; a missing one counts as zero.
Part(id, k) ==
    LET nth == {i \in VersionParts(id) :
                    Cardinality({j \in VersionParts(id) : j < i}) = k - 1}
    IN  IF nth = {} THEN 0 ELSE id[CHOOSE i \in nth : TRUE].value

\* The first part that differs decides; a part that is missing never does in
\* its id's favour, so the parts of a are enough.
Newer(a, b) ==
    \E k \in 1..Len(a) :
        /\ Part(a, k) > Part(b, k)
        /\ \A j \in 1..(k - 1) : Part(a, j) = Part(b, j)

\* compareVersion finds no difference: 4 and 4.0 are one version.
SameVersion(a, b) ==
    \A k \in 1..Len(a) \cup 1..Len(b) : Part(a, k) = Part(b, k)

\* Mutant.  The id strings are left out.
BeatsByVersion(candidate, best) == Newer(candidate.tokens, best.tokens)

\* Of two ids of one version the later string is taken.
Beats(candidate, best) ==
    \/ Newer(candidate.tokens, best.tokens)
    \/ /\ SameVersion(candidate.tokens, best.tokens)
       /\ candidate.order > best.order

\* A catalog is [listed |-> BOOLEAN, models |-> a sequence of ids]; one that
\* the pack does not carry is not listed.
Lists(catalog, id) == \E i \in DOMAIN catalog.models : catalog.models[i].order = id.order

\* An id without a word or without a version has no kin.
MayHaveKin(id) == FamilyWords(id.tokens) # {} /\ VersionParts(id.tokens) # {}

Verdict(kind, model) == [kind |-> kind, model |-> model]
Scan(seen, best) == [kind |-> "scan", seen |-> seen, best |-> best]
==============================================================================
