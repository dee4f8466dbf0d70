\* Each answer sent up to twice, a cancelled wait, a lost link.
CONSTANTS
    t1 = t1
    t2 = t2
    Tools = {t1, t2}
    Rounds <- MCRounds
    MaxCopies = 2
    MaxCancels = 1
    MaxDrops = 1
    None = None
    Waiting = Waiting
SPECIFICATION LiveSpec
INVARIANTS
    RightAnswer
    RightRound
PROPERTY
    WaitEnds
\* The turn ends, and a failed connection stops it.
CHECK_DEADLOCK FALSE
