\* More items than workers: the pool may die before the producer is finished.
CONSTANTS
    NItems = 3
    Workers = {w1, w2}
    None = None
SPECIFICATION FairSpec
INVARIANTS
    ResultsComplete
PROPERTIES
    EndsUnlessWedged
    Refines
\* The call returns or wedges, after which nothing happens.
CHECK_DEADLOCK FALSE
