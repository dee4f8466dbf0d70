------------------------------ MODULE Telemetry -------------------------------
(***************************************************************************)
(* TelemetryFlush under names that stand beside those of TrackDispatcher,  *)
(* for TLC and for the proofs.                                             *)
(***************************************************************************)
CONSTANTS Events, Flushers, Resets, Exits, QueueLimit, Periodic, Nobody

VARIABLES
    lifecycle, flushLock, initialized, client, built, malformed, queue, attempts, gone, pending,
    requested, worker, stop, registered, pc, held, batch, crossed

Flush == INSTANCE TelemetryFlush

ASSUME TelemetryIsAssumed == Flush!TelemetryAssumption

FlushSpec == Flush!LiveSpec

\* An event in a queue is always somebody's business, the worker's or the
\* shutdown's (telemetry/_track.py, lines 388-446).
QueueCovered == Flush!QueueCovered

\* What is queued is settled without a flush, and a shutdown returns
\* (telemetry/_track.py, lines 216-227, 389-391, 419-446).
NothingWaits == Flush!NothingWaits

===============================================================================
