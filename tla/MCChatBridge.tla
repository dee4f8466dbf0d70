----------------------------- MODULE MCChatBridge -----------------------------
(***************************************************************************)
(* ChatBridge for TLC: one tool that is confirmed and ended, one that only *)
(* ends.                                                                   *)
(***************************************************************************)
EXTENDS ChatBridge

CONSTANTS t1, t2
MCRounds == [t \in {t1, t2} |-> IF t = t1 THEN 2 ELSE 1]

=============================================================================
