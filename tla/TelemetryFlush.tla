---------------------------- MODULE TelemetryFlush ----------------------------
(***************************************************************************)
(* The Application Insights event client (telemetry/_track.py): threads    *)
(* track events into the current client's queue, a periodic worker and     *)
(* explicit calls flush it, and reset and the exit handler shut it down.   *)
(*                                                                         *)
(* Two locks: _lifecycle_lock orders tracking and shutting down,           *)
(* _flush_lock orders the calls of flush.  The library's queue also drains *)
(* itself, under neither's protection but the tracking thread's, when it   *)
(* is full.  Workers and clients are numbered in the order they are made.  *)
(*                                                                         *)
(* A definition marked `variant' is a plausible mistake in the one below   *)
(* it; no action uses it.                                                  *)
(***************************************************************************)
EXTENDS Naturals, FiniteSets

CONSTANTS
    Events,      \* calls of track_event, each in a thread of its own
    Flushers,    \* explicit calls of flush
    Resets,      \* calls of reset
    Exits,       \* the exit handler
    QueueLimit,  \* events in the queue at which it drains itself
    Periodic,    \* the periodic flush feature flag
    Nobody

Shutdowns == Resets \cup Exits
Generations == 1..Cardinality(Resets) + 1
Clients == Generations
Workers == Generations
Threads == Events \cup Flushers \cup Shutdowns \cup Workers

TelemetryAssumption ==
    /\ IsFiniteSet(Resets) /\ IsFiniteSet(Events)
    /\ QueueLimit \in Nat \ {0} /\ Periodic \in BOOLEAN
    /\ Nobody \notin Threads
    /\ Events \cap (Flushers \cup Shutdowns \cup Nat) = {} /\ Flushers \cap (Shutdowns \cup Nat) = {}
    /\ Resets \cap (Exits \cup Nat) = {} /\ Exits \cap Nat = {}

VARIABLES
    lifecycle,    \* the holder of _lifecycle_lock
    flushLock,    \* the holder of _flush_lock
    initialized,  \* _initialized
    client,       \* _client, or 0
    built,        \* clients made
    malformed,    \* those whose endpoint is no URL: their every send raises
    queue,        \* the events in each client's queue
    attempts,     \* each event's failed attempts
    gone,         \* events sent, rejected or given up
    pending,      \* _pending_events
    requested,    \* _shutdown_requested
    worker,       \* _flush_thread, or 0
    stop,         \* each worker's stop event
    registered,   \* _atexit_registered
    pc,           \* where each thread stands
    held,         \* the client a thread is draining
    batch,        \* the events it has taken
    crossed       \* history: a flush cleared pending for a client given up by a reset

locks == <<lifecycle, flushLock>>
clients == <<initialized, client, built, malformed>>
items == <<queue, attempts, gone, batch>>
control == <<requested, worker, stop, registered>>
vars == <<locks, clients, items, pending, control, pc, held, crossed>>

Init ==
    /\ lifecycle = Nobody /\ flushLock = Nobody
    /\ initialized = FALSE /\ client = 0 /\ built = 0 /\ malformed = {}
    /\ queue = [c \in Clients |-> {}] /\ attempts = [e \in Events |-> 0] /\ gone = {}
    /\ pending = FALSE /\ requested = FALSE /\ registered = FALSE
    /\ worker = 0 /\ stop = [w \in Workers |-> FALSE]
    /\ pc = [t \in Threads |-> IF t \in Workers THEN "none" ELSE "start"]
    /\ held = [t \in Threads |-> 0]
    /\ batch = [t \in Threads |-> {}]
    /\ crossed = FALSE

Free == lifecycle = Nobody
Goes(t, to) == pc' = [pc EXCEPT ![t] = to]

-------------------------------------------------------------------------------
(***************************************************************************)
(* track_event.                                                            *)
(***************************************************************************)

\* _initialize: once, and until a reset not again, whether or not there is a
\* connection string.
Initialize(e) ==
    /\ pc[e] = "start" /\ Free
    /\ Goes(e, "ready")
    /\ IF requested \/ initialized
         THEN UNCHANGED clients
         ELSE /\ initialized' = TRUE
              /\ \/ UNCHANGED <<client, built, malformed>>
                 \/ /\ built' = built + 1 /\ client' = built + 1
                    /\ malformed' \in {malformed, malformed \cup {built + 1}}
    /\ UNCHANGED <<locks, items, pending, control, held, crossed>>

\* The lock was released in between: the client may be gone, and the event is
\* then dropped.
Drop(e) ==
    /\ pc[e] = "ready" /\ Free
    /\ requested \/ client = 0
    /\ Goes(e, "tracked")
    /\ UNCHANGED <<locks, clients, items, pending, control, held, crossed>>

\* _ensure_periodic_flush_worker: whether a worker is to be started.
Alive(w) == pc[w] \notin {"none", "dead"}
Running == \E w \in Workers : w = worker /\ Alive(w)
NeedsWorker == Periodic /\ ~Running
NextWorker == CHOOSE w \in Workers : pc[w] = "none" /\ \A v \in Workers : v < w => pc[v] # "none"

\* The event enters the queue, which drains itself when it is full.
Put(e) ==
    /\ pc[e] = "ready" /\ Free
    /\ ~requested /\ client # 0
    /\ lifecycle' = e
    /\ queue' = [queue EXCEPT ![client] = @ \cup {e}]
    /\ held' = [held EXCEPT ![e] = client]
    /\ LET at == IF Cardinality(queue[client]) + 1 >= QueueLimit THEN "draining" ELSE "put"
       IN IF NeedsWorker
            THEN worker' = NextWorker /\ pc' = [pc EXCEPT ![e] = at, ![NextWorker] = "waiting"]
            ELSE UNCHANGED worker /\ Goes(e, at)
    /\ UNCHANGED <<flushLock, clients, attempts, gone, batch, pending, requested, stop, registered,
                   crossed>>

NotPending == pending                                         \* variant
NowPending == TRUE

SetPending(e) ==
    /\ pc[e] = "put"
    /\ pending' = NowPending
    /\ lifecycle' = Nobody
    /\ Goes(e, "tracked")
    /\ UNCHANGED <<flushLock, clients, items, control, held, crossed>>

\* register_atexit_flush, after each event.
Register(e) ==
    /\ pc[e] = "tracked" /\ Free
    /\ registered' = TRUE
    /\ Goes(e, "done")
    /\ UNCHANGED <<locks, clients, items, pending, requested, worker, stop, held, crossed>>

-------------------------------------------------------------------------------
(***************************************************************************)
(* flush, of a worker, an explicit call or a shutdown.                     *)
(***************************************************************************)

Returned(t) ==
    CASE t \in Workers -> "waiting" [] t \in Flushers -> "done" [] OTHER -> "flushed"

LifecycleToo(t) == flushLock = Nobody /\ lifecycle \in {Nobody, t}   \* variant
Unlocked(t) == TRUE                                           \* variant
MayFlush(t) == flushLock = Nobody

EnterFlush(t) ==
    /\ pc[t] = "flush"
    /\ MayFlush(t)
    /\ IF client = 0
         THEN Goes(t, Returned(t)) /\ UNCHANGED <<flushLock, held>>
         ELSE /\ flushLock' = t
              /\ held' = [held EXCEPT ![t] = client]
              /\ Goes(t, "captured")
    /\ UNCHANGED <<lifecycle, clients, items, pending, control, crossed>>

ClearPending(t) ==
    /\ pc[t] = "captured"
    /\ pending' = FALSE
    /\ crossed' = (crossed \/ held[t] # client)
    /\ Goes(t, "draining")
    /\ UNCHANGED <<locks, clients, items, control, held>>

\* The queue's drain, with or without _flush_lock: what it finds is taken, in
\* shares if two threads drain at once,
Take(t) ==
    /\ pc[t] = "draining" /\ batch[t] = {}
    /\ \E b \in (SUBSET queue[held[t]]) \ {{}} :
          /\ batch' = [batch EXCEPT ![t] = b]
          /\ queue' = [queue EXCEPT ![held[t]] = @ \ b]
    /\ UNCHANGED <<locks, clients, attempts, gone, pending, control, pc, held, crossed>>

\* and sent: accepted, or refused for good.
Send(t) ==
    /\ batch[t] # {} /\ held[t] \notin malformed
    /\ gone' = gone \cup batch[t]
    /\ batch' = [batch EXCEPT ![t] = {}]
    /\ UNCHANGED <<locks, clients, queue, attempts, pending, control, pc, held, crossed>>

\* A failed event goes back into the queue, up to 2 attempts.
Again(b) == {e \in b : attempts[e] + 1 < 2}

\* The send fails.
Requeue(t) ==
    /\ batch[t] # {} /\ held[t] \notin malformed
    /\ queue' = [queue EXCEPT ![held[t]] = @ \cup Again(batch[t])]
    /\ attempts' = [e \in Events |-> attempts[e] + IF e \in batch[t] THEN 1 ELSE 0]
    /\ gone' = gone \cup (batch[t] \ Again(batch[t]))
    /\ batch' = [batch EXCEPT ![t] = {}]
    /\ UNCHANGED <<locks, clients, pending, control, pc, held, crossed>>

Drained(t) ==
    /\ pc[t] = "draining" /\ batch[t] = {} /\ queue[held[t]] = {}
    /\ Goes(t, IF t \in Events THEN "put" ELSE "drained")
    /\ UNCHANGED <<locks, clients, items, pending, control, held, crossed>>

\* Events that came since are pending.
StillPending(t) == pending \/ queue[held[t]] # {}

LeaveFlush(t) ==
    /\ pc[t] = "drained"
    /\ pending' = StillPending(t)
    /\ flushLock' = Nobody
    /\ Goes(t, Returned(t))
    /\ UNCHANGED <<lifecycle, clients, items, control, held, crossed>>

\* The request cannot even be made: the batch is lost, and flush notes what is
\* left as pending; track_event only logs it.
Raise(t) ==
    /\ batch[t] # {} /\ held[t] \in malformed
    /\ gone' = gone \cup batch[t]
    /\ batch' = [batch EXCEPT ![t] = {}]
    /\ IF t \in Events
         THEN Goes(t, "tracked") /\ lifecycle' = Nobody /\ UNCHANGED <<pending, flushLock>>
         ELSE Goes(t, Returned(t)) /\ pending' = TRUE /\ flushLock' = Nobody /\ UNCHANGED lifecycle
    /\ UNCHANGED <<clients, queue, attempts, control, held, crossed>>

Drain(t) == Take(t) \/ Send(t) \/ Requeue(t) \/ Drained(t) \/ Raise(t)
Flush(t) == EnterFlush(t) \/ ClearPending(t) \/ Drain(t) \/ LeaveFlush(t)

CallFlush(f) ==
    /\ pc[f] = "start"
    /\ Goes(f, "flush")
    /\ UNCHANGED <<locks, clients, items, pending, control, held, crossed>>

-------------------------------------------------------------------------------
(***************************************************************************)
(* The worker, and _shutdown.                                              *)
(***************************************************************************)

\* The wait times out; the flag is read after it.
TimesOut(w) ==
    /\ pc[w] = "waiting" /\ ~stop[w]
    /\ Goes(w, "ticked")
    /\ UNCHANGED <<locks, clients, items, pending, control, held, crossed>>

Tick(w) ==
    /\ pc[w] = "ticked"
    /\ Goes(w, IF pending THEN "flush" ELSE "waiting")
    /\ UNCHANGED <<locks, clients, items, pending, control, held, crossed>>

Stops(w) ==
    /\ pc[w] = "waiting" /\ stop[w]
    /\ Goes(w, "dead")
    /\ UNCHANGED <<locks, clients, items, pending, control, held, crossed>>

\* It holds the lifecycle lock until it is through.
Shutdown(s) ==
    /\ pc[s] = "start" /\ Free
    /\ s \in Exits => registered
    /\ lifecycle' = s
    /\ requested' = TRUE
    /\ stop' = IF worker # 0 THEN [stop EXCEPT ![worker] = TRUE] ELSE stop
    /\ Goes(s, "joining")
    /\ UNCHANGED <<flushLock, clients, items, pending, worker, registered, held, crossed>>

Joinable == ~Running

Join(s) ==
    /\ pc[s] = "joining" /\ Joinable
    /\ Goes(s, "flush")
    /\ UNCHANGED <<locks, clients, items, pending, control, held, crossed>>

\* A reset also forgets the client and lets events in again.
Finish(s) ==
    /\ pc[s] = "flushed"
    /\ worker' = 0
    /\ IF s \in Resets
         THEN client' = 0 /\ initialized' = FALSE /\ pending' = FALSE /\ requested' = FALSE
         ELSE UNCHANGED <<client, initialized, pending, requested>>
    /\ lifecycle' = Nobody
    /\ Goes(s, "done")
    /\ UNCHANGED <<flushLock, built, malformed, items, stop, registered, held, crossed>>

-------------------------------------------------------------------------------
EventStep(e) == Drop(e) \/ Put(e) \/ SetPending(e) \/ Register(e) \/ Drain(e)
FlusherStep(f) == Flush(f)
WorkerStep(w) == TimesOut(w) \/ Tick(w) \/ Stops(w) \/ Flush(w)
ShutdownStep(s) == Join(s) \/ Flush(s) \/ Finish(s)

Next ==
    \/ \E e \in Events : Initialize(e) \/ EventStep(e)
    \/ \E f \in Flushers : CallFlush(f) \/ FlusherStep(f)
    \/ \E w \in Workers : WorkerStep(w)
    \/ \E s \in Shutdowns : Shutdown(s) \/ ShutdownStep(s)

Spec == Init /\ [][Next]_vars

\* Threads run; nobody has to track, flush, reset or exit.
LiveSpec ==
    /\ Spec
    /\ \A e \in Events : WF_vars(EventStep(e))
    /\ \A f \in Flushers : WF_vars(FlusherStep(f))
    /\ \A w \in Workers : WF_vars(WorkerStep(w))
    /\ \A s \in Shutdowns : WF_vars(ShutdownStep(s))

-------------------------------------------------------------------------------
(***************************************************************************)
(* Properties.                                                             *)
(***************************************************************************)

TypeOK ==
    /\ lifecycle \in Events \cup Shutdowns \cup {Nobody}
    /\ flushLock \in Flushers \cup Shutdowns \cup Workers \cup {Nobody}
    /\ initialized \in BOOLEAN /\ client \in Clients \cup {0} /\ built \in Clients \cup {0}
    /\ malformed \subseteq Clients
    /\ queue \in [Clients -> SUBSET Events] /\ attempts \in [Events -> 0..2] /\ gone \subseteq Events
    /\ pending \in BOOLEAN /\ requested \in BOOLEAN /\ registered \in BOOLEAN
    /\ worker \in Workers \cup {0} /\ stop \in [Workers -> BOOLEAN]
    /\ pc \in [Threads -> {"start", "ready", "put", "tracked", "done", "flush", "captured",
                           "draining", "drained", "none", "waiting", "ticked", "dead",
                           "joining", "flushed"}]
    /\ held \in [Threads -> Clients \cup {0}] /\ batch \in [Threads -> SUBSET Events]
    /\ crossed \in BOOLEAN

\* When nobody is tracking, flushing or shutting down, events in the queue are
\* marked pending, whichever flushes ran while they were put: the worker will
\* see them (lines 388, 403-418).
PendingCovers ==
    lifecycle = Nobody /\ flushLock = Nobody /\ client # 0 /\ queue[client] # {}
        => pending \/ crossed

\* What was tracked before a shutdown's flush was sent or given up when the
\* flush is over, by the shutdown or by a flush it waited for; so no event is
\* left with a client given up by a reset, or in the process that exits
\* (lines 433-446, docstrings 457 and 599).
NothingLeftBehind ==
    \A c \in Clients \ malformed :
        (c # client \/ \E s \in Shutdowns : pc[s] = "flushed") =>
            queue[c] = {} /\ \A t \in Threads : held[t] = c => batch[t] = {}

\* Together: an event in a queue is always somebody's business, the worker's or
\* the shutdown's (lines 388-446).
QueueCovered == TypeOK /\ PendingCovers /\ NothingLeftBehind

\* An event that was queued is sent, or given up after two attempts; no
\* explicit flush is needed (lines 216-227, 389-391), unless the flush of a
\* client that a reset gave up cleared the mark.
Settles == \A e \in Events : e \in UNION {queue[c] : c \in Clients} ~> e \in gone \/ crossed

\* A shutdown that holds the lifecycle lock and waits for the worker, while
\* the worker may be waiting for the flush lock, comes to its end.
ShutdownReturns == \A s \in Shutdowns : pc[s] = "joining" ~> pc[s] = "done"

\* Together: nothing that was queued waits for ever, and nobody who waits for
\* the worker does (lines 216-227, 388-446).
NothingWaits == Settles /\ ShutdownReturns

\* "Events are sent when the queue fills, on explicit/shutdown flush, or
\* periodically when the periodic flush feature is enabled" (lines 390-391).
SentPeriodically == \A e \in Events : e \in UNION {queue[c] : c \in Clients} ~> e \in gone

===============================================================================
