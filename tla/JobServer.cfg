\* Four requests over both channels.
CONSTANTS
    Jobs = {http, ipc, bare, lost}
    Ipc = {ipc, bare}
    Misplaced = {lost}
    Homeless = {bare}
    Fragile = {http, Server}
    Server = Server
SPECIFICATION JobSpec
INVARIANTS
    NothingLeaks
PROPERTY
    Answered
\* All requests are answered.
CHECK_DEADLOCK FALSE
