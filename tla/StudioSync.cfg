\* Two developers, a file at the root and one in the evaluations folder.
CONSTANTS
    Workspaces = {w1, w2}
    Files = {a, e}
    InFolder = {e}
    Prefixed = {e}
    Binary = {}
    Meta = Meta
    MaxEdits = 2
    MaxCommands = 3
SPECIFICATION LiveSpec
PROPERTIES
    NoSilentLoss
    VersionGrows
    Undisturbed
    CommandEnds
\* The bounds are used up.
CHECK_DEADLOCK FALSE
