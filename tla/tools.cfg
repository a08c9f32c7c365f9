SPECIFICATION FairSpec
CONSTANTS
    Policies <- SomePolicies
    Channels = {"console", "webhook", "slack", "email", "pigeon"}
    MaxAttempts = 3
CHECK_DEADLOCK FALSE
INVARIANTS
    EffectsAreAuthorised
    DeliveredWasAccepted
PROPERTIES
    PublishEnds
