\* Two presses of Login, three engines: cancels, reloads, late answers,
\* second venues, and updaters that React leaves to the next render.
CONSTANTS
    Engines <- OneOfEach
    Starts = 2
    MaxNow = 6
    MaxInterval = 2
    TTL = 2
    Lifetime = 2
SPECIFICATION FairSpec
INVARIANTS CodeSpentOnce OneVenueAtATime DraftIsWanted EndedIsOver LoginIsDriven
PROPERTIES LoginSettles
