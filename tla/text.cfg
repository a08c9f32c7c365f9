SPECIFICATION TextSpec
CONSTANTS
    Words = {llm, safety, recent, the}
    Ignored = {the}
    MaxTags = 2
    MaxLength = 4
    SkipTags = {"head", "nav"}
    BlockTags = {"p"}
    MaxFed = 7
CHECK_DEADLOCK FALSE
INVARIANTS
    TagsAreFirstWords
    RelatedOverlap
    VisibleIsKept
    TitleIsCaptured
    ParagraphsAreKept
