\* Two frames in two files; a debugger that may repeat its answers or give
\* none; a hit may be lost.
CONSTANTS
    Program <- TwoFiles
    FileOf <- TwoFrames
    Tracked <- MainOnly
    Endings = {"completed", "error"}
    Edits = 1
    Losses = 1
SPECIFICATION DebugSpec
INVARIANTS
    PausedRight
PROPERTIES
    StopsEnd
    SessionEnds
\* The session ends.
CHECK_DEADLOCK FALSE
