--------------------------------- MODULE Jobs ---------------------------------
(***************************************************************************)
(* JobServer under names that stand beside those of StudioSync and of      *)
(* DebugSession, for TLC and for the proofs.                               *)
(***************************************************************************)
CONSTANTS Jobs, Ipc, Misplaced, Homeless, Fragile, Server

VARIABLES up, request, waiters, holder, env, cwd, original, missing, thread, outcome, reply, stopped

Job == INSTANCE JobServer

ASSUME JobsAreAssumed == Job!ServerAssumption

JobSpec == Job!LiveSpec

\* A job sees its own environment and directory and leaves nothing behind, but
\* for a directory when the way back is out of reach (_server_core.py, lines
\* 58-108).
NothingLeaks == Job!NothingLeaks

\* Every request is answered or cancelled (cli_server.py, cli_server_ipc.py).
Answered == Job!Answered

===============================================================================
