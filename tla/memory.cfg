SPECIFICATION PairSpec
CONSTANTS
    p1 = p1
    p2 = p2
    t1 = t1
    t2 = t2
    t3 = t3
    v1 = v1
    topic = topic
    final = final
    s1 = s1
    s2 = s2
    Missing = Missing
    Nodes = {1, 2}
    SessionOf <- Sessions
    Values = {v1}
    Tags = {topic, final}
    TagSets <- Few
    Queries <- Various
    Snapshots <- OneSnapshot
    Processes = {p1, p2}
    Threads = {t1, t2, t3}
    ProcessOf <- TwoAndOne
    MaxOps = 5
    MaxErrors = 1
    MaxCrashes = 1
SYMMETRY Symmetry
CHECK_DEADLOCK FALSE
INVARIANTS
    IndexIsStored
    Mirror
    RecallFindsSettled
    RecallIsBest
    RecallIsRequired
