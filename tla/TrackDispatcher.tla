---------------------------- MODULE TrackDispatcher ----------------------------
(***************************************************************************)
(* LiveTrackEventDispatcher, _live_track_event_dispatcher.py of            *)
(* uipath-platform's governance: synchronous callers hand telemetry calls  *)
(* to an asyncio loop on a thread of its own, at most MaxInflight at a     *)
(* time, and shutdown drains them and stops the loop.                      *)
(*                                                                         *)
(* Each element of Calls is one dispatch, each of Shutdowns one shutdown,  *)
(* all on threads of their own; an action is what a thread does between    *)
(* two accesses to what it shares with the others.                         *)
(*                                                                         *)
(* A definition marked `variant' is a plausible mistake in the one below   *)
(* it; no action uses it.                                                  *)
(***************************************************************************)
EXTENDS Naturals, Sequences, FiniteSets

CONSTANTS Calls,        \* dispatch calls
          Shutdowns,    \* shutdown calls
          MaxInflight,  \* max_inflight
          Stop          \* loop.stop among the callbacks posted to the loop

ASSUME DispatcherAssumption ==
    /\ IsFiniteSet(Calls)
    /\ MaxInflight \in Nat \ {0}
    /\ Stop \notin Calls

VARIABLES
    down,       \* _shutdown_event
    slots,      \* the value of the _inflight semaphore
    futures,    \* _futures
    at,         \* where each dispatch stands
    late,       \* history: dispatches called after a shutdown returned
    future,     \* the concurrent future of each dispatch: "none", "pending", "done"
    loop,       \* "running", "stopped", "finishing" (the gather) or "closed"
    ready,      \* callbacks posted to the loop
    stopping,   \* stop ran: the current run ends
    task,       \* the loop's task for each dispatch
    doomed,     \* tasks the teardown gathers
    called,     \* history: dispatches whose provider call began
    delivered,  \* history: dispatches whose provider call ended by itself
    shut,       \* where each shutdown stands
    draining,   \* its snapshot of _futures
    waits,      \* whether it was called with wait=True
    timedOut,   \* whether its wait timed out
    early       \* history: dispatches that had returned when it found the event clear

dispatching == <<slots, futures, at, late, future>>
looping == <<loop, ready, stopping, task, doomed, called, delivered>>
shutting == <<down, shut, draining, waits, timedOut, early>>
vars == <<dispatching, looping, shutting>>

Init ==
    /\ down = FALSE
    /\ slots = MaxInflight
    /\ futures = {}
    /\ at = [c \in Calls |-> "idle"]
    /\ late = {}
    /\ future = [c \in Calls |-> "none"]
    /\ loop = "running" /\ ready = <<>> /\ stopping = FALSE
    /\ task = [c \in Calls |-> "none"]
    /\ doomed = {} /\ called = {} /\ delivered = {}
    /\ shut = [s \in Shutdowns |-> "idle"]
    /\ draining = [s \in Shutdowns |-> {}]
    /\ waits \in [Shutdowns -> BOOLEAN]
    /\ timedOut = [s \in Shutdowns |-> FALSE]
    /\ early = [s \in Shutdowns |-> {}]

-------------------------------------------------------------------------------
(***************************************************************************)
(* dispatch.                                                               *)
(***************************************************************************)

\* The shutdown check at entry.
Unchecked(c) == TRUE                                          \* variant
Accepts(c) == ~down

Dispatch(c) ==
    /\ at[c] = "idle"
    /\ at' = [at EXCEPT ![c] = IF Accepts(c) THEN "checked" ELSE "dropped"]
    /\ late' = IF \E s \in Shutdowns : shut[s] = "returned" THEN late \cup {c} ELSE late
    /\ UNCHANGED <<slots, futures, future, looping, shutting>>

\* acquire(blocking=False): without a slot the call is dropped.
SlotFree == slots > 0

Acquire(c) ==
    /\ at[c] = "checked"
    /\ IF SlotFree
         THEN at' = [at EXCEPT ![c] = "acquired"] /\ slots' = slots - 1
         ELSE at' = [at EXCEPT ![c] = "dropped"] /\ UNCHANGED slots
    /\ UNCHANGED <<futures, late, future, looping, shutting>>

\* What the except branch gives back.
KeepSlot == slots                                             \* variant
RolledBack == slots + 1

\* run_coroutine_threadsafe posts a callback; only a closed loop refuses it.
Schedule(c) ==
    /\ at[c] = "acquired"
    /\ IF loop = "closed"
         THEN /\ at' = [at EXCEPT ![c] = "dropped"]
              /\ slots' = RolledBack
              /\ UNCHANGED <<future, ready, task>>
         ELSE /\ at' = [at EXCEPT ![c] = "scheduled"]
              /\ future' = [future EXCEPT ![c] = "pending"]
              /\ ready' = Append(ready, c)
              /\ task' = [task EXCEPT ![c] = "posted"]
              /\ UNCHANGED slots
    /\ UNCHANGED <<futures, late, loop, stopping, doomed, called, delivered, shutting>>

\* The future enters _futures, under the lock.
AddFuture(c) ==
    /\ at[c] = "scheduled"
    /\ futures' = futures \cup {c}
    /\ at' = [at EXCEPT ![c] = "added"]
    /\ UNCHANGED <<slots, late, future, looping, shutting>>

\* _on_future_done: out of _futures, and the slot is free again.
OnFutureDone(c) == futures' = futures \ {c} /\ slots' = slots + 1

\* add_done_callback: called here if the future is done already.
AddDoneCallback(c) ==
    /\ at[c] = "added"
    /\ at' = [at EXCEPT ![c] = "returned"]
    /\ IF future[c] = "done" THEN OnFutureDone(c) ELSE UNCHANGED <<futures, slots>>
    /\ UNCHANGED <<late, future, looping, shutting>>

-------------------------------------------------------------------------------
(***************************************************************************)
(* The loop's thread.                                                      *)
(***************************************************************************)

Runs == loop \in {"running", "finishing"}

\* The next callback: the task of a dispatch is created, or stop.
RunCallback ==
    /\ Runs
    /\ ready # <<>>
    /\ ready' = Tail(ready)
    /\ IF Head(ready) = Stop
         THEN stopping' = TRUE /\ UNCHANGED task
         ELSE task' = [task EXCEPT ![Head(ready)] = "created"] /\ UNCHANGED stopping
    /\ UNCHANGED <<dispatching, loop, doomed, called, delivered, shutting>>

\* _run begins and awaits the provider.
StartCall(c) ==
    /\ Runs
    /\ task[c] = "created"
    /\ task' = [task EXCEPT ![c] = "calling"]
    /\ called' = called \cup {c}
    /\ UNCHANGED <<dispatching, loop, ready, stopping, doomed, delivered, shutting>>

\* The future is done: its callback runs if dispatch added it.
DoneCallback(c) == IF at[c] = "returned" THEN OnFutureDone(c) ELSE UNCHANGED <<futures, slots>>

\* The provider's call ends, or raises what _run swallows; a task the teardown
\* cancelled ends with CancelledError.
EndTask(c) ==
    /\ Runs
    /\ task[c] \in {"calling", "cancelled"}
    /\ task' = [task EXCEPT ![c] = "over"]
    /\ future' = [future EXCEPT ![c] = "done"]
    /\ delivered' = IF task[c] = "calling" THEN delivered \cup {c} ELSE delivered
    /\ DoneCallback(c)
    /\ UNCHANGED <<at, late, loop, ready, stopping, doomed, called, shutting>>

\* run_forever returns once stop ran.
RunForeverReturns ==
    /\ loop = "running" /\ stopping
    /\ loop' = "stopped"
    /\ stopping' = FALSE
    /\ UNCHANGED <<dispatching, ready, task, doomed, called, delivered, shutting>>

\* The teardown cancels the tasks there are and runs the loop until they end;
\* without any it closes the loop at once.
Unfinished == {c \in Calls : task[c] \in {"created", "calling"}}

Teardown ==
    /\ loop = "stopped"
    /\ doomed' = Unfinished
    /\ task' = [c \in Calls |-> IF c \in Unfinished THEN "cancelled" ELSE task[c]]
    /\ loop' = IF Unfinished = {} THEN "closed" ELSE "finishing"
    /\ UNCHANGED <<dispatching, ready, stopping, called, delivered, shutting>>

\* The gather ends, or a second stop interrupts it: the loop is closed, and
\* what is still posted or unfinished stays so.
Interrupted == stopping

Close ==
    /\ loop = "finishing"
    /\ Interrupted \/ \A c \in doomed : task[c] = "over"
    /\ loop' = "closed"
    /\ UNCHANGED <<dispatching, ready, stopping, task, doomed, called, delivered, shutting>>

-------------------------------------------------------------------------------
(***************************************************************************)
(* shutdown.                                                               *)
(***************************************************************************)

Returned == {c \in Calls : at[c] = "returned"}

\* The test of the event; a later call returns at once.
Shutdown(s) ==
    /\ shut[s] = "idle"
    /\ shut' = [shut EXCEPT ![s] = IF down THEN "returned" ELSE "tested"]
    /\ early' = [early EXCEPT ![s] = IF down THEN {} ELSE Returned]
    /\ UNCHANGED <<down, draining, waits, timedOut, dispatching, looping>>

\* The event is set.
SetDown(s) ==
    /\ shut[s] = "tested"
    /\ down' = TRUE
    /\ shut' = [shut EXCEPT ![s] = IF waits[s] THEN "set" ELSE "stop"]
    /\ UNCHANGED <<draining, waits, timedOut, early, dispatching, looping>>

\* What shutdown waits for.
NothingPending == {}                                          \* variant
Pending == futures

Snapshot(s) ==
    /\ shut[s] = "set"
    /\ draining' = [draining EXCEPT ![s] = Pending]
    /\ shut' = [shut EXCEPT ![s] = "draining"]
    /\ UNCHANGED <<down, waits, timedOut, early, dispatching, looping>>

\* concurrent.futures.wait: all of them are done, or the timeout.
Drained(s) ==
    /\ shut[s] = "draining"
    /\ \A c \in draining[s] : future[c] = "done"
    /\ shut' = [shut EXCEPT ![s] = "stop"]
    /\ UNCHANGED <<down, draining, waits, timedOut, early, dispatching, looping>>

\* wait=True still has a timeout.
NoTimeout == FALSE                                            \* variant
Timeout == TRUE

WaitTimesOut(s) ==
    /\ shut[s] = "draining"
    /\ Timeout
    /\ timedOut' = [timedOut EXCEPT ![s] = TRUE]
    /\ shut' = [shut EXCEPT ![s] = "stop"]
    /\ UNCHANGED <<down, draining, waits, early, dispatching, looping>>

\* call_soon_threadsafe(stop): a closed loop raises, which is ignored.
StopLoop(s) ==
    /\ shut[s] = "stop"
    /\ ready' = IF loop = "closed" THEN ready ELSE Append(ready, Stop)
    /\ shut' = [shut EXCEPT ![s] = "joining"]
    /\ UNCHANGED <<down, draining, waits, timedOut, early, dispatching, loop, stopping,
                   task, doomed, called, delivered>>

\* join(timeout=5.0): the thread ended, or not.
Join(s) ==
    /\ shut[s] = "joining"
    /\ shut' = [shut EXCEPT ![s] = "returned"]
    /\ UNCHANGED <<down, draining, waits, timedOut, early, dispatching, looping>>

-------------------------------------------------------------------------------
DispatchStep(c) ==
    Dispatch(c) \/ Acquire(c) \/ Schedule(c) \/ AddFuture(c) \/ AddDoneCallback(c)
LoopStep ==
    RunCallback \/ RunForeverReturns \/ Teardown \/ Close \/ \E c \in Calls : StartCall(c)
ShutdownStep(s) ==
    SetDown(s) \/ Snapshot(s) \/ Drained(s) \/ WaitTimesOut(s) \/ StopLoop(s) \/ Join(s)

Next ==
    \/ \E c \in Calls : DispatchStep(c) \/ EndTask(c)
    \/ LoopStep
    \/ \E s \in Shutdowns : Shutdown(s) \/ ShutdownStep(s)

Spec == Init /\ [][Next]_vars

\* Threads and the loop run; cancelled tasks end.  The provider may never
\* answer, and nothing forces a shutdown to be called.
LiveSpec ==
    /\ Spec
    /\ \A s \in Shutdowns : WF_vars(ShutdownStep(s))
    /\ WF_vars(RunCallback) /\ WF_vars(RunForeverReturns \/ Teardown \/ Close)
    /\ \A c \in Calls : WF_vars(task[c] = "cancelled" /\ EndTask(c))

-------------------------------------------------------------------------------
(***************************************************************************)
(* Properties.                                                             *)
(***************************************************************************)

TypeOK ==
    /\ down \in BOOLEAN
    /\ slots \in Nat
    /\ futures \subseteq Calls
    /\ at \in [Calls -> {"idle", "checked", "dropped", "acquired", "scheduled", "added", "returned"}]
    /\ late \subseteq Calls
    /\ future \in [Calls -> {"none", "pending", "done"}]
    /\ loop \in {"running", "stopped", "finishing", "closed"}
    /\ ready \in Seq(Calls \cup {Stop})
    /\ stopping \in BOOLEAN
    /\ task \in [Calls -> {"none", "posted", "created", "calling", "cancelled", "over"}]
    /\ doomed \subseteq Calls /\ called \subseteq Calls /\ delivered \subseteq Calls
    /\ shut \in [Shutdowns -> {"idle", "tested", "set", "draining", "stop", "joining", "returned"}]
    /\ draining \in [Shutdowns -> SUBSET Calls]
    /\ waits \in [Shutdowns -> BOOLEAN] /\ timedOut \in [Shutdowns -> BOOLEAN]
    /\ early \in [Shutdowns -> SUBSET Calls]

\* A dispatch holds a slot from acquire until its done callback ran.
Holds(c) ==
    \/ at[c] \in {"acquired", "scheduled", "added"}
    \/ at[c] = "returned" /\ future[c] = "pending"

\* Each slot is free or held by one dispatch, whichever thread runs the done
\* callback and however a dispatch fails (lines 186-212, 250-254): the
\* semaphore is neither leaked nor released twice.
SlotsAccounted == slots + Cardinality({c \in Calls : Holds(c)}) = MaxInflight

\* _futures holds the futures a shutdown has to wait for and no others: those
\* added and not done (lines 210-212, 250-254).
FuturesTracked ==
    futures = {c \in Calls : \/ at[c] = "added"
                             \/ at[c] = "returned" /\ future[c] = "pending"}

\* Together: the two records of the calls in progress, the semaphore and the set
\* of futures, agree with the calls (lines 186-212, 250-254).
Accounted == SlotsAccounted /\ FuturesTracked

\* At most MaxInflight provider calls are in progress (lines 167-168, 186-193).
Capped == Cardinality({c \in Calls : task[c] \in {"calling", "cancelled"}}) <= MaxInflight

\* A dispatch called after a shutdown returned does not reach the provider
\* (docstring, lines 163-164).
LateNotCalled == late \cap called = {}

\* When every shutdown that found the event clear waited and did not time out,
\* the loop is stopped only after the provider answered all calls dispatched
\* before (docstring, lines 257-267; 276-280).
NotCutShort ==
    /\ loop # "running"
    /\ \A s \in Shutdowns : shut[s] # "idle" => waits[s] /\ ~timedOut[s]
    =>
        \A s \in Shutdowns : early[s] \subseteq delivered

\* Together: a shutdown is a line between the calls before it, all answered, and
\* those after it, never made (docstring, lines 257-267).
ShutdownDivides == LateNotCalled /\ NotCutShort

\* Once a shutdown has begun the loop is closed, even if the provider never
\* answers (lines 276-287, 124-145).
LoopCloses == \A s \in Shutdowns : shut[s] = "tested" ~> loop = "closed"

\* A loop that is stopped or closed takes no call (docstring, lines 169-173).
StoppedLoopRefuses ==
    [][\A c \in Calls :
           loop \in {"stopped", "closed"} /\ task[c] # "posted" => task'[c] # "posted"]_vars

=============================================================================
