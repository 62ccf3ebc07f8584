SPECIFICATION FairSpec
CONSTANTS
    t1 = t1
    t2 = t2
    s1 = s1
    s2 = s2
    c1 = c1
    c2 = c2
    None = None
    Contents = {c1, c2}
    Transitions <- Publish
    Tasks = {t1, t2}
    Sessions = {s1, s2}
    Ops = {"submit", "decide", "edit", "overwrite", "archive"}
    Asked = {"published"}
    MaxHistory = 4
    MaxFaults = 0
PROPERTIES PublishedByApproval ApprovalTakesEffect
CHECK_DEADLOCK FALSE
