SPECIFICATION JournalSpec
CONSTANTS
    N = 2
    Keys = {k1, k2}
    Calls = {c1}
    Faults = {}
    MaxEdits = 0
    MaxRestarts = 1
    Dispatcher = d
    Recoverers = {r1}
    Compensators = {m1}
    ContextKey = k1
    None = None
INVARIANTS NotDispatchedMeansUntouched
