----------------------------- MODULE MCReviewRun -----------------------------
EXTENDS ReviewRun

Model(order, word, v) == [order |-> order, tokens |-> <<Word(word), Number(v, 1)>>]
Opus(order, v) == Model(order, "opus", v)
Dated(id, order, day) == [order |-> order, tokens |-> Append(id.tokens, Number(day, 8))]
Grok == Model(1, "grok", 4)

\* The first entry may run another model, the second may not.
MCQueue == <<[model |-> Opus(4, 3), similarModel |-> TRUE],
             [model |-> Grok, similarModel |-> FALSE]>>

MCSolo == <<MCQueue[1]>>

NotListed == [listed |-> FALSE, models |-> <<>>]

\* Opus 3 was retired.  Its kin are older and newer, out of order, and two of
\* them of one version; another catalog has no Opus and no Grok 4, but Grok 3.
MCCatalogs == {NotListed,
               [listed |-> TRUE,
                models |-> <<Opus(3, 2), Opus(6, 5), Dated(Opus(6, 5), 7, 20260101),
                             Opus(5, 4), Model(2, "haiku", 9), Grok>>],
               [listed |-> TRUE, models |-> <<Model(0, "grok", 3)>>]}

\* One finding that every diff shows, and one that the first diff shows.
Anywhere == [safe |-> TRUE, ignored |-> FALSE, noop |-> FALSE,
             shown |-> Commits, held |-> Commits]
EarlyOnly == [Anywhere EXCEPT !.shown = {1}]
MCUnlisted == {NotListed}

MCReports == {{Anywhere}, {Anywhere, EarlyOnly}}
==============================================================================
