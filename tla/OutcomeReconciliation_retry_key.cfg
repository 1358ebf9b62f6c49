SPECIFICATION JournalSpec
CONSTANTS
    N = 2
    Keys = {k1, k2}
    Calls = {c1}
    Faults = {"refused", "lost", "unread"}
    MaxEdits = 0
    MaxRestarts = 0
    Dispatcher = d
    Recoverers = {r1}
    Compensators = {m1}
    ContextKey = k1
    None = None
PROPERTIES RetryKeyIsNew
