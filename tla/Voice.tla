-------------------------------- MODULE Voice ---------------------------------
(***************************************************************************)
(* VoiceSession under names that stand beside those of ChatBridge, for TLC *)
(* and for the proofs: a lost connection is an outage here.                *)
(***************************************************************************)
CONSTANTS Calls, MaxOutages

VARIABLES
    run, linked, inbox, call, done, reason, detail, ready, ended, outages, timedOut, refused

Voice == INSTANCE VoiceSession WITH MaxDrops <- MaxOutages, drops <- outages, link <- linked

ASSUME VoiceIsAssumed == Voice!VoiceAssumption

VoiceSpec == Voice!LiveSpec

\* Every call of a session the service ends over a connection that was never
\* lost has its result (_voice_bridge.py, lines 64-71, 143-222).
EveryCallAnswered == Voice!EveryCallAnswered

\* A session that returned is over, for one reason (_voice_bridge.py, lines
\* 123-163, 224-236).
OverForOneReason == Voice!OverForOneReason

\* The session returns once it is over, also while a tool hangs
\* (_voice_bridge.py, lines 123-129, 143-163).
RunEnds == Voice!RunEnds

===============================================================================
