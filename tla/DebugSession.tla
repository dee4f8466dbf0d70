----------------------------- MODULE DebugSession -----------------------------
(***************************************************************************)
(* A remote debug session: a thread runs the user's function under         *)
(* sys.settrace and pauses at breakpoints (functions/debug.py,             *)
(* BreakpointController); the event loop drains its events, shows a pause  *)
(* to the remote debugger and resumes the thread (UiPathDebugFunctions-    *)
(* Runtime); the debugger's commands arrive at SignalRDebugBridge          *)
(* (_cli/_debug/_bridge.py).  UiPathDebugRuntime, which ties the two       *)
(* together, is of another package: after a breakpoint it emits it, waits  *)
(* for the resume and streams again, and it ends on a quit.                *)
(*                                                                         *)
(* The program is the sequence of its trace events.  All its frames are    *)
(* of the project.                                                         *)
(*                                                                         *)
(* A definition marked `variant' is a plausible mistake in the one below   *)
(* it; no action uses it.                                                  *)
(***************************************************************************)
EXTENDS Naturals, Sequences

CONSTANTS
    Program,    \* the trace events of the run: call, line or return of a frame
    FileOf,     \* the file of each frame
    Tracked,    \* the frames whose function is in the call graph
    Endings,    \* how the function may end: "completed", "error" or "exit"
    Edits,      \* bound on the commands that change breakpoints
    Losses      \* bound on the messages lost on the way to the debugger

Frames == DOMAIN FileOf
Lines == {e \in {Program[i] : i \in DOMAIN Program} : e.kind = "line"}
Breakpoints == {<<FileOf[e.frame], e.line>> : e \in Lines}
Pauses == 0..Len(Program)

DebugAssumption ==
    /\ Program \in Seq([kind : {"call", "line", "return"}, frame : Frames, line : Nat])
    /\ Tracked \subseteq Frames
    /\ Endings \subseteq {"completed", "error", "exit"} /\ Endings # {}
    /\ Edits \in Nat /\ Losses \in Nat

VARIABLES
    tpc,        \* the traced thread: "none", "running", "tracing" (in the callback),
                \* "hit" (in resume_event.wait), "woken" or "ended"
    pos,        \* trace events behind it
    traced,     \* frames with a local trace function
    hits,       \* _hit_lines
    stepMode,   \* _step_mode
    active,     \* _file_breakpoints
    resume,     \* the controller's _resume_event
    stopped,    \* _stopped
    events,     \* _events
    controller, \* whether the runtime has a controller
    getter,     \* whether a pool thread is in wait_for_event
    spc,        \* the event loop's side of the session
    pause,      \* pauses seen so far
    hitAt,      \* where the thread was at the last of them
    step,       \* DebuggerState.step_mode
    wanted,     \* DebuggerState.breakpoints
    resumeEvent,\* the bridge's _resume_event: "none", "clear" or "set"
    terminate,  \* _terminate_event
    shown,      \* the last pause the debugger was shown
    inbox,      \* its Resume commands on the way, by the pause they answer
    answered,   \* the last pause it answered
    repeated,   \* whether it repeated an answer
    resumedBy,  \* history: the pause answered by the Resume that set the event
    edits, losses

thread == <<tpc, pos, traced, hits, stepMode, active>>
session == <<controller, getter, spc, pause, hitAt>>
bridge == <<step, wanted, resumeEvent, terminate, resumedBy, edits>>
debugger == <<shown, inbox, answered, repeated, losses>>
vars == <<thread, resume, stopped, events, session, bridge, debugger>>

Init ==
    /\ tpc = "none" /\ pos = 0 /\ traced = {} /\ hits = [f \in Frames |-> {}]
    /\ stepMode = FALSE /\ active = {} /\ resume = FALSE /\ stopped = FALSE /\ events = <<>>
    /\ controller = FALSE /\ getter = FALSE /\ spc = "ready" /\ pause = 0 /\ hitAt = 0
    /\ step \in BOOLEAN /\ wanted \in SUBSET Breakpoints
    /\ resumeEvent = "none" /\ terminate = FALSE /\ resumedBy = 0 /\ edits = 0
    /\ shown = 0 /\ inbox = <<>> /\ answered = 0 /\ repeated = FALSE /\ losses = 0

-------------------------------------------------------------------------------
(***************************************************************************)
(* The traced thread.                                                      *)
(***************************************************************************)

At == Program[pos + 1]
Location == <<FileOf[At.frame], At.line>>

\* The frame gets a local trace function.
Follows(f) ==
    \/ stepMode
    \/ \E b \in active : b[1] = FileOf[f]
    \/ \E g \in Tracked : FileOf[g] = FileOf[f]

\* A state event for the call and the return of a tracked function.
StateEvent == IF At.frame \in Tracked THEN Append(events, [type |-> "state"]) ELSE events

\* The interpreter reaches the next trace event; the callback finds the thread
\* stopped, or goes on.
Callback ==
    /\ tpc = "running"
    /\ pos < Len(Program)
    /\ IF stopped
         THEN pos' = pos + 1 /\ UNCHANGED tpc
         ELSE tpc' = "tracing" /\ UNCHANGED pos
    /\ UNCHANGED <<traced, hits, stepMode, active, resume, stopped, events, session, bridge, debugger>>

Proceeds == tpc' = "running" /\ pos' = pos + 1

TraceCall ==
    /\ tpc = "tracing" /\ At.kind = "call"
    /\ events' = StateEvent
    /\ hits' = [hits EXCEPT ![At.frame] = {}]
    /\ traced' = IF Follows(At.frame) THEN traced \cup {At.frame} ELSE traced
    /\ Proceeds
    /\ UNCHANGED <<stepMode, active, resume, stopped, session, bridge, debugger>>

TraceReturn ==
    /\ tpc = "tracing" /\ At.kind = "return"
    /\ IF At.frame \in traced
         THEN /\ events' = StateEvent
              /\ hits' = [hits EXCEPT ![At.frame] = {}]
              /\ traced' = traced \ {At.frame}
         ELSE UNCHANGED <<events, hits, traced>>
    /\ Proceeds
    /\ UNCHANGED <<stepMode, active, resume, stopped, session, bridge, debugger>>

\* A line breaks the first time its frame reaches it.
Breaks ==
    /\ At.frame \in traced
    /\ stepMode \/ Location \in active
    /\ At.line \notin hits[At.frame]

TraceLine ==
    /\ tpc = "tracing" /\ At.kind = "line" /\ ~Breaks
    /\ Proceeds
    /\ UNCHANGED <<traced, hits, stepMode, active, resume, stopped, events, session, bridge, debugger>>

\* The pause begins: the event is queued and the thread waits.
TraceBreak ==
    /\ tpc = "tracing" /\ At.kind = "line" /\ Breaks
    /\ hits' = [hits EXCEPT ![At.frame] = @ \cup {At.line}]
    /\ events' = Append(events, [type |-> "breakpoint", at |-> pos])
    /\ tpc' = "hit"
    /\ UNCHANGED <<pos, traced, stepMode, active, resume, stopped, session, bridge, debugger>>

Wake ==
    /\ tpc = "hit" /\ resume
    /\ tpc' = "woken"
    /\ UNCHANGED <<pos, traced, hits, stepMode, active, resume, stopped, events, session, bridge, debugger>>

\* What clear() leaves of the event.
KeepSet == resume                                             \* variant
Cleared == FALSE

Clear ==
    /\ tpc = "woken"
    /\ resume' = Cleared
    /\ Proceeds
    /\ UNCHANGED <<traced, hits, stepMode, active, stopped, events, session, bridge, debugger>>

\* The result or the Exception is queued; another BaseException is not caught.
SilentOnceStopped(e) == IF stopped THEN <<>> ELSE <<[type |-> e]>>       \* variant
OnlyResults(e) == IF e = "completed" THEN <<[type |-> e]>> ELSE <<>>    \* variant
Report(e) == IF e = "exit" THEN <<>> ELSE <<[type |-> e]>>

End ==
    /\ tpc = "running" /\ pos = Len(Program)
    /\ \E e \in Endings : events' = events \o Report(e)
    /\ tpc' = "ended"
    /\ UNCHANGED <<pos, traced, hits, stepMode, active, resume, stopped, session, bridge, debugger>>

ThreadStep ==
    Callback \/ TraceCall \/ TraceReturn \/ TraceLine \/ TraceBreak \/ Wake \/ Clear \/ End

-------------------------------------------------------------------------------
(***************************************************************************)
(* stream, on the event loop.                                              *)
(***************************************************************************)

\* get_breakpoints: in step mode "*", which names no line.
Given == IF step THEN {} ELSE wanted

\* The first stream starts the thread, unless there is nothing to observe.
StartStream ==
    /\ spc = "ready" /\ ~controller
    /\ IF step \/ Given # {} \/ Tracked # {}
         THEN /\ stepMode' = step /\ active' = Given
              /\ tpc' = "running" /\ controller' = TRUE
              /\ spc' = "draining" /\ getter' = TRUE
         ELSE spc' = "ended" /\ UNCHANGED <<stepMode, active, tpc, controller, getter>>
    /\ UNCHANGED <<pos, traced, hits, resume, stopped, events, pause, hitAt, bridge, debugger>>

\* A later one gives the breakpoints,
UpdateBreakpoints ==
    /\ spc = "ready" /\ controller
    /\ stepMode' = step /\ active' = Given
    /\ spc' = "updated"
    /\ UNCHANGED <<tpc, pos, traced, hits, resume, stopped, events, controller, getter, pause, hitAt,
                   bridge, debugger>>

\* and resumes the thread.
Resume ==
    /\ spc = "updated"
    /\ resume' = TRUE
    /\ spc' = "draining" /\ getter' = TRUE
    /\ UNCHANGED <<thread, stopped, events, controller, pause, hitAt, bridge, debugger>>

\* The pool thread's get returns, and the event is yielded.
DrainState ==
    /\ spc = "draining" /\ events # <<>> /\ Head(events).type = "state"
    /\ events' = Tail(events)
    /\ UNCHANGED <<thread, resume, stopped, session, bridge, debugger>>

DrainBreakpoint ==
    /\ spc = "draining" /\ events # <<>> /\ Head(events).type = "breakpoint"
    /\ events' = Tail(events) /\ getter' = FALSE
    /\ pause' = pause + 1 /\ hitAt' = Head(events).at
    /\ spc' = "hit"
    /\ UNCHANGED <<thread, resume, stopped, controller, bridge, debugger>>

DrainTerminal ==
    /\ spc = "draining" /\ events # <<>> /\ Head(events).type \in {"completed", "error"}
    /\ events' = Tail(events) /\ getter' = FALSE
    /\ controller' = FALSE
    /\ spc' = "ended"
    /\ UNCHANGED <<thread, resume, stopped, pause, hitAt, bridge, debugger>>

\* The stream is cancelled in to_thread: the pool thread stays in its get, and
\* takes the next event for nobody.
Cancel ==
    /\ spc = "draining"
    /\ spc' = "ended"
    /\ UNCHANGED <<thread, resume, stopped, events, controller, getter, pause, hitAt, bridge, debugger>>

OrphanGets ==
    /\ getter /\ spc # "draining" /\ events # <<>>
    /\ events' = Tail(events) /\ getter' = FALSE
    /\ UNCHANGED <<thread, resume, stopped, controller, spc, pause, hitAt, bridge, debugger>>

\* emit_breakpoint_hit: a failing send is logged.
EmitBreakpoint ==
    /\ spc = "hit"
    /\ \/ shown' = pause /\ UNCHANGED losses
       \/ losses < Losses /\ losses' = losses + 1 /\ UNCHANGED shown
    /\ spc' = "emitted"
    /\ UNCHANGED <<thread, resume, stopped, events, controller, getter, pause, hitAt, bridge,
                   inbox, answered, repeated>>

\* wait_for_resume makes a new event.
NewEvent == "clear"

\* What a Quit handled before the wait leaves.
OnlyWhileWaiting == FALSE                                     \* variant
KeptQuit == terminate

WaitForResume ==
    /\ spc = "emitted"
    /\ resumeEvent' = NewEvent
    /\ terminate' = KeptQuit
    /\ spc' = "waiting"
    /\ UNCHANGED <<thread, resume, stopped, events, controller, getter, pause, hitAt,
                   step, wanted, resumedBy, edits, debugger>>

\* The wait ends; a quit ends the session.
EndWait ==
    /\ spc = "waiting"
    /\ resumeEvent = "set" \/ terminate
    /\ spc' = IF terminate THEN "ended" ELSE "ready"
    /\ UNCHANGED <<thread, resume, stopped, events, controller, getter, pause, hitAt, bridge, debugger>>

\* dispose stops the controller: the flag, then the event, then the join, which
\* may time out.
Dispose ==
    /\ spc = "ended"
    /\ IF controller
         THEN stopped' = TRUE /\ spc' = "stopping"
         ELSE UNCHANGED stopped /\ spc' = "disposed"
    /\ UNCHANGED <<thread, resume, events, controller, getter, pause, hitAt, bridge, debugger>>

FlagOnly == resume                                            \* variant
Unblocked == TRUE

SetResume ==
    /\ spc = "stopping"
    /\ resume' = Unblocked
    /\ spc' = "joining"
    /\ UNCHANGED <<thread, stopped, events, controller, getter, pause, hitAt, bridge, debugger>>

Join ==
    /\ spc = "joining"
    /\ controller' = FALSE
    /\ spc' = "disposed"
    /\ UNCHANGED <<thread, resume, stopped, events, getter, pause, hitAt, bridge, debugger>>

StreamStep ==
    \/ StartStream \/ UpdateBreakpoints \/ Resume
    \/ DrainState \/ DrainBreakpoint \/ DrainTerminal
    \/ EmitBreakpoint \/ WaitForResume \/ EndWait
    \/ Dispose \/ SetResume \/ Join

-------------------------------------------------------------------------------
(***************************************************************************)
(* The debugger and the bridge's handlers.                                 *)
(***************************************************************************)

\* The debugger answers the pause it was shown, and may repeat the answer when
\* the one before was handled.
SendResume ==
    /\ shown > 0
    /\ shown # answered \/ inbox = <<>>
    /\ inbox' = Append(inbox, shown)
    /\ answered' = shown
    /\ repeated' = (repeated \/ shown = answered)
    /\ UNCHANGED <<thread, resume, stopped, events, session, bridge, shown, losses>>

\* Resume: before the first wait it is ignored; it leaves the breakpoints,
\* replaces them, or asks for steps.
HandleResume ==
    /\ inbox # <<>>
    /\ inbox' = Tail(inbox)
    /\ IF resumeEvent = "none"
         THEN UNCHANGED bridge
         ELSE /\ resumeEvent' = "set"
              /\ resumedBy' = IF resumeEvent = "set" THEN resumedBy ELSE Head(inbox)
              /\ \/ UNCHANGED <<step, wanted, edits>>
                 \/ /\ edits < Edits /\ edits' = edits + 1
                    /\ \/ step' = TRUE /\ UNCHANGED wanted
                       \/ step' = FALSE /\ wanted' \in SUBSET Breakpoints
              /\ UNCHANGED terminate
    /\ UNCHANGED <<thread, resume, stopped, events, session, shown, answered, repeated, losses>>

\* The other commands change what the next stream is given.
Edit ==
    /\ spc # "disposed"
    /\ edits < Edits /\ edits' = edits + 1
    /\ UNCHANGED <<thread, resume, stopped, events, session, resumeEvent, terminate, resumedBy, debugger>>

HandleStart == Edit /\ step' \in BOOLEAN /\ wanted' \in SUBSET Breakpoints

HandleStep == Edit /\ step' \in BOOLEAN /\ UNCHANGED wanted

HandleAddBreakpoints == Edit /\ UNCHANGED step /\ \E b \in Breakpoints : wanted' = wanted \cup {b}

\* Those named, or all of them.
HandleRemoveBreakpoints ==
    /\ Edit
    /\ UNCHANGED step
    /\ wanted' = {} \/ \E b \in Breakpoints : wanted' = wanted \ {b}

HandleQuit ==
    /\ spc # "disposed" /\ ~terminate
    /\ terminate' = TRUE
    /\ UNCHANGED <<thread, resume, stopped, events, session, step, wanted, resumeEvent, resumedBy,
                   edits, debugger>>

-------------------------------------------------------------------------------
Next ==
    \/ ThreadStep \/ StreamStep \/ Cancel \/ OrphanGets
    \/ SendResume \/ HandleResume \/ HandleQuit
    \/ HandleStart \/ HandleStep \/ HandleAddBreakpoints \/ HandleRemoveBreakpoints

Spec == Init /\ [][Next]_vars

\* The threads and the loop run; the debugger need not do anything.
LiveSpec == Spec /\ WF_vars(ThreadStep) /\ WF_vars(StreamStep) /\ WF_vars(OrphanGets)

-------------------------------------------------------------------------------
(***************************************************************************)
(* Properties.                                                             *)
(***************************************************************************)

TypeOK ==
    /\ tpc \in {"none", "running", "tracing", "hit", "woken", "ended"}
    /\ pos \in Pauses /\ traced \subseteq Frames
    /\ \A f \in Frames : hits[f] \subseteq {e.line : e \in Lines}
    /\ stepMode \in BOOLEAN /\ active \subseteq Breakpoints
    /\ resume \in BOOLEAN /\ stopped \in BOOLEAN
    /\ \A i \in DOMAIN events : events[i].type \in {"state", "breakpoint", "completed", "error"}
    /\ controller \in BOOLEAN /\ getter \in BOOLEAN
    /\ spc \in {"ready", "updated", "draining", "hit", "emitted", "waiting", "ended",
                "stopping", "joining", "disposed"}
    /\ pause \in Pauses /\ hitAt \in Pauses
    /\ step \in BOOLEAN /\ wanted \subseteq Breakpoints
    /\ resumeEvent \in {"none", "clear", "set"} /\ terminate \in BOOLEAN
    /\ shown \in Pauses /\ inbox \in Seq(Pauses) /\ answered \in Pauses /\ repeated \in BOOLEAN
    /\ resumedBy \in Pauses /\ edits \in 0..Edits /\ losses \in 0..Losses

\* From the moment a pause is taken off the queue until the thread is resumed,
\* the thread stands where the pause says: what the debugger is shown is the
\* program's state, and the breakpoints are replaced under a thread that does
\* not read them (debug.py, lines 266-282, 447-455).
Frozen ==
    spc \in {"hit", "emitted", "waiting", "updated"} \/ (spc = "ready" /\ pause > 0)
        => tpc = "hit" /\ pos = hitAt /\ ~resume /\ events = <<>>

\* The Resume that ends a wait is the answer to the pause waited for, as long as
\* the debugger repeats none (_bridge.py, lines 679-706, 760-780).
RightPause ==
    spc = "waiting" /\ resumeEvent = "set" /\ ~repeated => resumedBy = pause

\* Together: a pause shows the program as it stands, and ends by its own answer
\* (debug.py, lines 266-282, 447-455; _bridge.py, lines 679-706).
PausedRight == TypeOK /\ Frozen /\ RightPause

\* A stopped thread does not stay in a pause, wherever the stop finds it
\* (debug.py, lines 199-200, 278-282, 371-376).
NotWedged == stopped ~> tpc = "ended"

\* No pool thread is left in wait_for_event, unless the function exits (lines
\* 363-365, 528-536).
GetterFreed == spc = "disposed" ~> ~getter

\* A Quit ends the session, even one that arrives while the function runs
\* (_bridge.py, lines 679-706, 848-851).
QuitEnds == terminate ~> spc = "disposed"

\* Together: what is told to stop does, and nobody is left waiting for it
\* (debug.py, lines 278-282, 363-376; _bridge.py, lines 848-851).
StopsEnd == NotWedged /\ GetterFreed /\ QuitEnds

\* If the debugger is shown every pause and repeats its answer as long as it
\* is shown nothing else, the session ends, although a Resume handled before
\* the wait is lost (_bridge.py, lines 679-706, 760-780).
SessionEnds ==
    [](losses = 0) /\ WF_vars(SendResume) /\ WF_vars(HandleResume) => <>(spc = "disposed")

\* When the function has ended, the stream does (docstring of wait_for_event,
\* line 364: "Block until the next breakpoint hit or execution completion").
CompletionReported == tpc = "ended" /\ spc = "draining" ~> spc # "draining"

=============================================================================
