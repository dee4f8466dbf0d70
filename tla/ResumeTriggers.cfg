\* Lists of up to two values, of every class, as a job and as a local run.
CONSTANTS
    Offered <- MCOffered
    MaxSiblings = 2
SPECIFICATION LiveSpec
INVARIANTS
    Covered
    ReadsFit
PROPERTIES
    WokenUp
\* The run has ended, or the work it waits for never does.
CHECK_DEADLOCK FALSE
