----------------------------- MODULE LiveTracking -----------------------------
(***************************************************************************)
(* Live tracking of spans (tracing/_live_tracking_processor.py): when a    *)
(* span starts and when it ends, its state is sent to the trace service by *)
(* a pool of threads, so that nothing in the program waits.  A process     *)
(* that serves several jobs makes a processor for each, hung into the one  *)
(* delegating processor of the global provider (trace_manager.py) and      *)
(* taken out of it when the job's trace manager is shut down.              *)
(*                                                                         *)
(* The service keeps the state it was sent last.  Spans of the program's   *)
(* background threads may outlive their job.                               *)
(*                                                                         *)
(* A definition marked `variant' is a plausible mistake in the one below   *)
(* it; no action uses it.                                                  *)
(***************************************************************************)
EXTENDS Naturals, Sequences, FiniteSets

CONSTANTS
    Spans,
    Tracked,      \* those that pass the span filter
    MaxWorkers,   \* threads of a pool
    MaxRetries,   \* attempts of _send_with_retries
    Jobs          \* bound: jobs the process serves

Processors == 1..Jobs
Outcomes == {"OK", "ERROR", "RUNNING"}   \* _determine_status: RUNNING for an interrupt
Stages == {"start", "end"}
Uploads == Spans \X Stages

ASSUME TrackingAssumption ==
    /\ IsFiniteSet(Spans) /\ Tracked \subseteq Spans
    /\ MaxWorkers \in Nat \ {0} /\ MaxRetries \in Nat \ {0} /\ Jobs \in Nat \ {0}

VARIABLES
    job,       \* the job that runs, or is next
    phase,     \* of its trace manager: "run", "down" (shutdown), "closed", "over"
    children,  \* the processors in the delegating one
    state,     \* each span: "new", "open", "ended"
    outcome,   \* the status it ended with
    fetched,   \* the child whose on_start or on_end is about to run for the span, or 0
    began,     \* history: the jobs whose shutdown was over when it was fetched
    queue,     \* each pool's queue
    sending,   \* the uploads each pool's threads have in hand, with their failed attempts
    closed,    \* pools that take no more work
    released,  \* processors whose HTTP client is closed
    stored,    \* the service: each span's status, "none" if unknown
    landed,    \* history: uploads the service has stored
    crossed,   \* history: spans whose end was taken in hand before their start was done with
    raised     \* history: spans whose start or end raised in the program

manager == <<job, phase, children>>
spans == <<state, outcome>>
calls == <<fetched, began>>
pools == <<queue, sending, closed, released>>
service == <<stored, landed>>
vars == <<manager, spans, calls, pools, service, crossed, raised>>

Init ==
    /\ job = 1 /\ phase = "run" /\ children = {1}
    /\ state = [s \in Spans |-> "new"] /\ outcome = [s \in Spans |-> "OK"]
    /\ fetched = [s \in Spans |-> 0] /\ began = [s \in Spans |-> 0]
    /\ queue = [p \in Processors |-> <<>>] /\ sending = [p \in Processors |-> {}]
    /\ closed = {} /\ released = {}
    /\ stored = [s \in Spans |-> "none"] /\ landed = {}
    /\ crossed = {} /\ raised = {}

-------------------------------------------------------------------------------
(***************************************************************************)
(* The program's threads.  The delegating processor walks over the list of *)
(* its children without a lock: a thread fetches a child and then calls    *)
(* it, and meanwhile the list may be emptied, and filled for the next job. *)
(* A child whose pool is closed raises in the thread the span is of.       *)
(***************************************************************************)
\* What a thread may fetch that is done with the child p, or has begun (0).  In
\* a list filled again under it the thread may be behind the new child or not.
Following(p) == {c \in children : c > p}
Reachable(p) == IF p # 0 \/ Following(p) = {} THEN Following(p) \cup {0} ELSE Following(p)

ShutDown == IF phase = "over" THEN job ELSE job - 1

Fetch(s, p) ==
    \E c \in IF s \in Tracked THEN Reachable(p) ELSE {0} :
        /\ fetched' = [fetched EXCEPT ![s] = c]
        /\ began' = [began EXCEPT ![s] = IF c = 0 THEN 0 ELSE ShutDown]

OnStart(s) ==
    /\ state[s] = "new"
    /\ state' = [state EXCEPT ![s] = "open"]
    /\ Fetch(s, 0)
    /\ UNCHANGED <<manager, outcome, pools, service, crossed, raised>>

\* A span whose start raised was never there to be ended.
OnEnd(s) ==
    /\ state[s] = "open" /\ fetched[s] = 0 /\ s \notin raised
    /\ state' = [state EXCEPT ![s] = "ended"]
    /\ \E o \in Outcomes : outcome' = [outcome EXCEPT ![s] = o]
    /\ Fetch(s, 0)
    /\ UNCHANGED <<manager, pools, service, crossed, raised>>

Stage(s) == IF state[s] = "open" THEN "start" ELSE "end"

\* The child submits to its pool, and the thread goes on to the next ...
Submit(s) ==
    /\ fetched[s] # 0 /\ fetched[s] \notin closed
    /\ queue' = [queue EXCEPT ![fetched[s]] = Append(@, <<s, Stage(s)>>)]
    /\ Fetch(s, fetched[s])
    /\ UNCHANGED <<manager, spans, sending, closed, released, service, crossed, raised>>

\* ... or the pool is closed and submit raises.
SubmitRaises(s) ==
    /\ fetched[s] \in closed
    /\ raised' = raised \cup {s}
    /\ fetched' = [fetched EXCEPT ![s] = 0] /\ began' = [began EXCEPT ![s] = 0]
    /\ UNCHANGED <<manager, spans, pools, service, crossed>>

-------------------------------------------------------------------------------
(***************************************************************************)
(* The pool's threads: _upsert and _send_with_retries.                     *)
(***************************************************************************)
InHand(p, u) == \E t \in sending[p] : t.upload = u

TakeUp(p) ==
    /\ queue[p] # <<>> /\ Cardinality(sending[p]) < MaxWorkers
    /\ LET u == Head(queue[p])
       IN /\ sending' = [sending EXCEPT ![p] = @ \cup {[upload |-> u, failed |-> 0]}]
          /\ crossed' = IF u[2] = "end" /\ \E q \in Processors : InHand(q, <<u[1], "start">>)
                          THEN crossed \cup {u[1]} ELSE crossed
    /\ queue' = [queue EXCEPT ![p] = Tail(@)]
    /\ UNCHANGED <<manager, spans, calls, closed, released, service, raised>>

\* The status the upload of a start carries does not depend on what has become
\* of the span by the time it is sent.
Status(u) == IF u[2] = "start" THEN "RUNNING" ELSE outcome[u[1]]

Land(u) ==
    /\ stored' = [stored EXCEPT ![u[1]] = Status(u)]
    /\ landed' = landed \cup {u}

\* 200: the upload is done.
Succeed(p, t) ==
    /\ t \in sending[p]
    /\ Land(t.upload)
    /\ sending' = [sending EXCEPT ![p] = @ \ {t}]
    /\ UNCHANGED <<manager, spans, calls, queue, closed, released, crossed, raised>>

\* variant: a failed upload is tried for as long as it takes
ForEver(t) == TRUE
TryAgain(t) == t.failed + 1 < MaxRetries

\* variant: an upload to be tried again goes to the end of the queue
Requeued(p, t) ==
    /\ sending' = [sending EXCEPT ![p] = @ \ {t}]
    /\ queue' = [queue EXCEPT ![p] = Append(@, t.upload)]
\* The thread keeps it and sleeps.  (The count wraps only if TryAgain lets it.)
Retried(p, t) ==
    /\ sending' = [sending EXCEPT ![p] = (@ \ {t}) \cup {[t EXCEPT !.failed = (@ + 1) % MaxRetries]}]
    /\ UNCHANGED queue

\* The attempt fails for good, or leaves attempts; the service may have stored
\* it all the same.
Fail(p, t) ==
    /\ t \in sending[p]
    /\ Land(t.upload) \/ UNCHANGED service
    /\ \/ TryAgain(t) /\ Retried(p, t)
       \/ /\ sending' = [sending EXCEPT ![p] = @ \ {t}]
          /\ UNCHANGED queue
    /\ UNCHANGED <<manager, spans, calls, closed, released, crossed, raised>>

-------------------------------------------------------------------------------
(***************************************************************************)
(* UiPathTraceManager.shutdown at the end of a job, and the next job.      *)
(***************************************************************************)
CloseExecutor ==
    /\ phase = "run"
    /\ phase' = "down"
    /\ closed' = closed \cup {job}
    /\ UNCHANGED <<job, children, spans, calls, queue, sending, released, service, crossed, raised>>

PoolDone(p) == queue[p] = <<>> /\ sending[p] = {}

\* variant: it waits for the queue only
Dequeued(p) == queue[p] = <<>>
\* executor.shutdown(wait=True) returns ...
Joined(p) == PoolDone(p)

\* ... and the exporter's client is closed.
ReleaseExporter ==
    /\ phase = "down" /\ Joined(job)
    /\ phase' = "closed"
    /\ released' = released \cup {job}
    /\ UNCHANGED <<job, children, spans, calls, queue, sending, closed, service, crossed, raised>>

\* variant: the processors of a job stay in the delegating one
Kept == children
Cleared == {}

ClearProcessors ==
    /\ phase = "closed"
    /\ children' = Cleared
    /\ phase' = "over"
    /\ UNCHANGED <<job, spans, calls, pools, service, crossed, raised>>

NextJob ==
    /\ phase = "over" /\ job < Jobs
    /\ job' = job + 1 /\ phase' = "run" /\ children' = children \cup {job + 1}
    /\ UNCHANGED <<spans, calls, pools, service, crossed, raised>>

-------------------------------------------------------------------------------
Program == \E s \in Spans : OnStart(s) \/ OnEnd(s) \/ Submit(s) \/ SubmitRaises(s)
Pool(p) == TakeUp(p) \/ (\E t \in sending[p] : Succeed(p, t) \/ Fail(p, t))
Shutdown == ReleaseExporter \/ ClearProcessors

Next == Program \/ (\E q \in Processors : Pool(q)) \/ CloseExecutor \/ Shutdown \/ NextJob
Spec == Init /\ [][Next]_vars

\* The pool's threads run, and so does a shutdown once begun.
LiveSpec == Spec /\ WF_vars(Shutdown) /\ \A p \in Processors : WF_vars(Pool(p))

-------------------------------------------------------------------------------
(***************************************************************************)
(* Properties.                                                             *)
(***************************************************************************)
TypeOK ==
    /\ job \in Processors /\ phase \in {"run", "down", "closed", "over"} /\ children \subseteq Processors
    /\ state \in [Spans -> {"new", "open", "ended"}] /\ outcome \in [Spans -> Outcomes]
    /\ fetched \in [Spans -> 0..Jobs] /\ began \in [Spans -> 0..Jobs]
    /\ queue \in [Processors -> Seq(Uploads)]
    /\ sending \in [Processors -> SUBSET [upload : Uploads, failed : 0..MaxRetries - 1]]
    /\ closed \subseteq Processors /\ released \subseteq closed
    /\ stored \in [Spans -> Outcomes \cup {"none"}] /\ landed \subseteq Uploads
    /\ crossed \subseteq Spans /\ raised \subseteq Tracked

\* Nothing is sent through a client that is closed: when the exporter is shut
\* down its pool has sent, or given up, everything it was handed
\* (_live_tracking_processor.py:86-95).
Drained == \A p \in released : PoolDone(p)

Queued(u) == \E p \in Processors : \E i \in 1..Len(queue[p]) : queue[p][i] = u
Pending(u) == Queued(u) \/ \E p \in Processors : InHand(p, u)

\* Once the end of a span has reached the service and its start is done with,
\* the service has the status it ended with, unless the two uploads were in
\* the hands of two threads at once (_live_tracking_processor.py:48-84).
FinalUnlessCrossed ==
    \A s \in Spans :
        <<s, "end">> \in landed /\ ~Pending(<<s, "start">>) /\ s \notin crossed => stored[s] = outcome[s]

\* Together: what a pool was handed is sent before it is released, and in the
\* right order (_live_tracking_processor.py:48-95).
UploadsSettle == Drained /\ FinalUnlessCrossed

\* What the processor promises without that exception: "On span end: Upsert
\* with final status (OK/ERROR)" (_live_tracking_processor.py:19).
FinalStatusStands ==
    \A s \in Spans :
        <<s, "end">> \in landed /\ ~Pending(<<s, "start">>) => stored[s] = outcome[s]

\* Tracking raises in the program only in a call of a child that a thread had
\* fetched before the shutdown of that child's job was over; a span that starts
\* or ends later is not disturbed, because the child is out of the delegating
\* processor (trace_manager.py:61-75, 173-192).
LaterCallsPass == [][\A s \in raised' \ raised : began[s] < fetched[s]]_vars

\* Not so of the code: tracking raises only while a shutdown is under way
\* ("Removes child processors from the delegating processor so they no longer
\* receive span events", trace_manager.py:176-177).  The thread that fetched the
\* child before does call it.
RaisesOnlyInShutdown == [][raised' # raised => phase \in {"down", "closed"}]_vars

\* A shutdown ends however the service behaves: every upload is given up after
\* MaxRetries attempts (_otel_exporters.py:398-420).
ShutdownReturns == \A j \in Processors : job = j /\ phase = "down" ~> job # j \/ phase = "over"

===============================================================================
