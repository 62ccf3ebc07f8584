SPECIFICATION FairSpec
CONSTANTS
    draft = draft
    hook = hook
    w1 = w1
    w2 = w2
    Jobs = {draft, hook}
    Drafts = {draft}
    Workers = {w1, w2}
    MaxAttempts = 2
    MaxFaults = 1
    None = None
INVARIANTS RunningIsOwned RetryCeiling NoticesTruthful
PROPERTIES StartsWhenDue KeepsContract JobsEnd
CHECK_DEADLOCK FALSE
