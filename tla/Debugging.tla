------------------------------ MODULE Debugging -------------------------------
(***************************************************************************)
(* DebugSession under names that stand beside those of StudioSync and of   *)
(* JobServer, for TLC and for the proofs: halted is _stopped, changes      *)
(* counts the commands that change breakpoints.                            *)
(***************************************************************************)
CONSTANTS Program, FileOf, Tracked, Endings, Edits, Losses

VARIABLES
    tpc, pos, traced, hits, stepMode, active, resume, halted, events, controller, getter, spc, pause,
    hitAt, step, wanted, resumeEvent, terminate, shown, inbox, answered, repeated, resumedBy, changes,
    losses

Debug == INSTANCE DebugSession WITH stopped <- halted, edits <- changes

ASSUME DebuggingIsAssumed == Debug!DebugAssumption

DebugSpec == Debug!LiveSpec

\* A pause shows the program as it stands, and ends by its own answer (debug.py,
\* lines 266-282, 447-455; _bridge.py, lines 679-706).
PausedRight == Debug!PausedRight

\* A stopped thread stays in no pause, a pool thread in no wait_for_event, and a
\* Quit ends the session (debug.py, lines 199-200, 363-376, 528-536).
StopsEnd == Debug!StopsEnd

\* The session ends, whatever is lost on the way (debug.py, lines 497-555).
SessionEnds == Debug!SessionEnds

===============================================================================
