SPECIFICATION FairSpec
CONSTANTS
    r1 = r1
    r2 = r2
    s1 = s1
    s2 = s2
    d0 = d0
    d1 = d1
    d2 = d2
    f1 = f1
    f2 = f2
    NoDraft = NoDraft
    Torn = Torn
    NoFeedback = NoFeedback
    Runs <- OneRun
    Sessions = {s1}
    SessionOf <- OneSession
    Related <- NoneRelated
    Drafts = {d0, d1, d2}
    Feedbacks = {NoFeedback, f1}
    Synthesize <- OfflineOne
    RecallLimit = 3
    MaxCalls = 5
    MaxCrashes = 2
    MaxThrows = 1
CHECK_DEADLOCK FALSE
INVARIANTS
    TypeOK
    HumanGate
    RejectionIsSilent
    ReplayRegeneratesDraft
    FeedbackReachesDraft
    PublishedIsRecorded
    PublishedFileIsWhole
PROPERTIES
    CallReturns
    RejectedIsReviewedAgain
