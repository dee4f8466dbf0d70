\* Two events, a queue of two, a flush, a reset and the exit.
CONSTANTS
    Events = {e1, e2}
    Flushers = {f}
    Resets = {r}
    Exits = {x}
    QueueLimit = 2
    Periodic = TRUE
    Nobody = Nobody
SPECIFICATION FlushSpec
INVARIANTS
    QueueCovered
PROPERTIES
    NothingWaits
\* All calls return.
CHECK_DEADLOCK FALSE
