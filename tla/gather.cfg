SPECIFICATION FairSpec
CONSTANTS
    Runs = {"r1"}
    Domains = {"web", "code"}
    Urls = {"u1", "u2"}
    Titles = {"T"}
    Texts = {"", "short", "long"}
    Cut <- Truncated
    OfflineText <- OfflineTexts
    Providers = {"tavily", "brave", "wikipedia", "offline"}
    MaxCrashes = 1
CHECK_DEADLOCK FALSE
INVARIANTS
    GatheredIsStored
PROPERTIES
    TextStays
    AnalysisReached
