\* Three calls, in batches of any size, and a connection lost twice.
CONSTANTS
    Calls = {c1, c2, c3}
    MaxOutages = 2
SPECIFICATION VoiceSpec
INVARIANTS
    EveryCallAnswered
    OverForOneReason
PROPERTIES
    RunEnds
\* The session is over.
CHECK_DEADLOCK FALSE
