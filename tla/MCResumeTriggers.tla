--------------------------- MODULE MCResumeTriggers ---------------------------
(***************************************************************************)
(* ResumeTriggers for TLC.                                                 *)
(***************************************************************************)
EXTENDS ResumeTriggers

\* Every class of value.
MCOffered == Values

===============================================================================
