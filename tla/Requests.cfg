SPECIFICATION RequestsSpec
CONSTANTS
    File <- MCFile
    MaxRetries = 1
    MaxLength = 2
    SortedKeys <- MCKeys
    Gets <- MCGets
    Preheats <- MCPreheats
    Deletes <- MCDeletes
    ImagePreheats <- MCImagePreheats
    ImageDeletes <- MCImageDeletes
    Stats <- MCStats
    Indexes <- MCIndexes
    LocalPlatform = "linux/amd64"
    Unprintable = {"line break"}
    Answers = {404, 408, 429, 503}
INVARIANT HoldsWhatIsAsked
INVARIANT RetriedAsDocumented
INVARIANT AppendsOnceOrNothing
PROPERTY StatTellsWhatIsHeld
PROPERTY EveryCallReturns
