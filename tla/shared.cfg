SPECIFICATION Spec
CONSTANTS
    r1 = r1
    r2 = r2
    s1 = s1
    s2 = s2
    d0 = d0
    d1 = d1
    d2 = d2
    f1 = f1
    f2 = f2
    NoDraft = NoDraft
    Torn = Torn
    NoFeedback = NoFeedback
    Runs <- TwoRuns
    Sessions = {s1}
    SessionOf <- SameSession
    Related <- NoneRelated
    Drafts = {d0, d1}
    Feedbacks = {NoFeedback, f1}
    Synthesize <- LanguageModel
    RecallLimit = 3
    MaxCalls = 3
    MaxCrashes = 1
    MaxThrows = 0
CHECK_DEADLOCK FALSE
INVARIANTS
    NotifyBound
PROPERTIES
    KeepsPromise
