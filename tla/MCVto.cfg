SPECIFICATION VtoSpec
CONSTANTS
    WriterSize = 1
    BatchSize = 2
    ReadLimit = 1
    MaxSessions = 2
    MaxChunks <- ChunksRead
    MaxMishaps = 1
CHECK_DEADLOCK FALSE
INVARIANT Consistent
INVARIANT StreamsKept
