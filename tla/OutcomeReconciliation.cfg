\* A dispatcher that may die once and retry, two recoverers and two compensators
\* that may be killed anywhere.
CONSTANTS
    N = 2
    Keys = {k1, k2}
    Calls = {c1}
    Faults = {"lost", "unread"}
    MaxEdits = 0
    MaxRestarts = 1
    Dispatcher = d
    Recoverers = {r1, r2}
    Compensators = {m1, m2}
    ContextKey = k1
    None = None
SPECIFICATION JournalSpec
SYMMETRY Interchangeable
INVARIANTS JournalTypeOK JournalTellsTheTruth CompensationIsComplete
PROPERTIES JournalNeverForks
