\* Two dispatches over one slot and two shutdowns; the provider may never
\* answer.  Liveness, so no symmetry.
CONSTANTS
    Calls = {c1, c2}
    Shutdowns = {s1, s2}
    MaxInflight = 1
    Stop = Stop
SPECIFICATION LiveSpec
INVARIANTS
    Accounted
    ShutdownDivides
PROPERTY
    LoopCloses
\* All calls return and the loop's thread ends.
CHECK_DEADLOCK FALSE
