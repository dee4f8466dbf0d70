\* Two tracked spans and one that is not, two threads, two jobs.
CONSTANTS
    Spans = {s1, s2, s3}
    Tracked = {s1, s2}
    MaxWorkers = 2
    MaxRetries = 2
    Jobs = 2
SPECIFICATION LiveSpec
INVARIANTS
    UploadsSettle
PROPERTIES
    LaterCallsPass
    ShutdownReturns
\* The last job is over.
CHECK_DEADLOCK FALSE
