\* Any request may fail, one restart, one edit by somebody else.
CONSTANTS
    N = 3
    Keys = {k1, k2}
    Calls = {c1}
    Faults = {"refused", "lost", "unread"}
    MaxEdits = 1
    MaxRestarts = 1
SPECIFICATION Spec
INVARIANTS TypeOK EarlierEditSurvives ApprovalUsedOnce
PROPERTIES ReceiptMeansApplied RollbackRestores FailedApplyIsReported
