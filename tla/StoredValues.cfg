SPECIFICATION Spec
CONSTANTS
    ByteBits = 4
    WordBytes = 2
    FletcherBatch = 2
    HashSize = 4
    SzIdBits = 3
    SzRos = 2
    SzSegment = 3
    SzMaxBlocks = 4
    BloscBlock = 16
    BloscMinSplit = 4
    BloscMaxSplits = 3
    BloscLeast = 4
    Ways <- SomeWays
    Declared <- AllDeclared
    Samples <- SampleValues
    Inputs <- InputValues
    Mistakes <- Mistaken
    Used = 5
    MaxWrites = 1
    Allowed = {3}
INVARIANTS
    TypeOK
    ReadsExact
    DamageNoticed
CHECK_DEADLOCK FALSE
