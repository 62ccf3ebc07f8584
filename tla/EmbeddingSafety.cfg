SPECIFICATION FairIndexSpec
CONSTANTS
    post = post
    old = old
    new = new
    empty = empty
    p1 = p1
    p2 = p2
    p3 = p3
    h1 = h1
    h2 = h2
    h3 = h3
    h4 = h4
    Items = {post}
    Texts = {old, empty}
    Blank = empty
    Processes = {p1, p2, p3}
    Keyless = {p3}
    Handlers = {h1, h2, h3, h4}
    Scheduled = {h3}
    Home <- TwoOneAndOne
    Silent = TRUE
    MaxWrites = 3
    MaxFaults = 1
    Nothing = Nothing
INVARIANTS IndexFollows
PROPERTIES SyncsEnd
CHECK_DEADLOCK FALSE
