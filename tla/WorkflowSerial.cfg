SPECIFICATION Spec
CONSTANTS
    t1 = t1
    t2 = t2
    s1 = s1
    s2 = s2
    c1 = c1
    c2 = c2
    None = None
    Contents = {c1, c2}
    Transitions <- Publish
    Tasks = {t1, t2}
    Sessions = {s1}
    Ops = {"submit", "decide", "revise", "edit", "overwrite", "resave", "rollback", "archive"}
    Asked = {"published", "draft", "empty"}
    MaxHistory = 5
    MaxFaults = 1
SYMMETRY TaskSymmetry
PROPERTIES SnapshotsTaken DecidedOnce LiveKeptByWorkflow
CHECK_DEADLOCK FALSE
