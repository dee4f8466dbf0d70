----------------------------- MODULE EvalReporting -----------------------------
(***************************************************************************)
(* An evaluation set run from the command line to the backend:             *)
(*                                                                         *)
(*  - UiPathEvalRuntime (eval/runtime/runtime.py) evaluates the items on   *)
(*    the pool, here by its abstract specification (BoundedMap), and       *)
(*    publishes an event at each stage;                                    *)
(*  - the event bus (core/events/_event_bus.py) runs one task per handler, *)
(*    awaited by the publisher (CREATE events) or not (UPDATE events);     *)
(*  - StudioWebProgressReporter (_cli/_evals/_progress_reporter.py) turns  *)
(*    the events into backend calls and keeps the ids the backend gave;    *)
(*  - the backend, which keeps set runs and evaluation runs.               *)
(*                                                                         *)
(* An agent may suspend; the process then ends, and a later process        *)
(* resumes one evaluation (--resume --eval-ids), its memory gone, the      *)
(* backend's rows kept.  A backend call may fail before or after it took   *)
(* effect; the client then sends it again up to four times                 *)
(* (_base_service.py 230-238), so that a create whose answer was lost adds *)
(* one row more.  A task may be cancelled by the 10 second timeout or by   *)
(* the end of the event loop.  Each of these costs one unit of MaxFaults.  *)
(*                                                                         *)
(* A definition marked `variant' is a plausible mistake in the one below   *)
(* it; no action uses it.                                                  *)
(***************************************************************************)
EXTENDS Naturals, Sequences, FiniteSets, Functions

CONSTANTS Evals,        \* the evaluation items of the set
          NWorkers,     \* --workers
          Verbose,      \* --verbose
          None,
          MaxFaults,    \* bound: failed calls, timeouts and escapes
          MaxResumes    \* bound: processes started after a suspension

ReportingAssumption ==
    /\ IsFiniteSet(Evals)
    /\ NWorkers \in Nat \ {0}
    /\ Verbose \in BOOLEAN
    /\ MaxFaults \in Nat
    /\ MaxResumes \in Nat
    /\ None \notin Evals \cup Nat

VARIABLES
    pc,         \* of execute and evaluate
    resume,     \* context.resume
    given,      \* context.eval_set_run_id, None when not given
    evals,      \* the items this process evaluates
    evalPc,     \* of each item's _execute_eval
    outcome,    \* how the item's last execution ended
    task,       \* the bus task of each event: its stage
    setRunId,   \* reporter: eval_set_run_ids[execution_id]
    runIds,     \* reporter: eval_run_ids, by item
    anyFailed,  \* what execute computed before UPDATE_EVAL_SET_RUN
    status,     \* the overall status execute returned
    sets,       \* backend: the status of each set run
    runs,       \* backend: the evaluation runs
    faults,     \* bound bookkeeping
    resumes     \* bound bookkeeping

proc == <<pc, resume, given, evals, evalPc, outcome, anyFailed, status>>
reporter == <<setRunId, runIds>>
backend == <<sets, runs>>
bounds == <<faults, resumes>>
vars == <<proc, task, reporter, backend, bounds>>

\* One event of each kind per set run or item, each with one handler task.
CreateSet == <<"createSet", None>>
UpdateSet == <<"updateSet", None>>
Create(e) == <<"create", e>>
Update(e) == <<"update", e>>
Events == {CreateSet, UpdateSet} \cup ({"create", "update"} \X Evals)

\* How an item that the agent was started for can end, and how any item can.
Ended == {"ok", "faulted", "raised", "evaluatorRaised", "suspended"}
Outcomes == Ended \cup {"noInput"}
Unfinished == {"queued", "fetch", "call"}
Pending(k) == task[k] \in Unfinished
Publish(ks) == task' = [k \in Events |-> IF k \in ks THEN "queued" ELSE task[k]]
Become(k, stage) == task' = [task EXCEPT ![k] = stage]
Fault == faults < MaxFaults /\ faults' = faults + 1

Init ==
    /\ pc = "start"
    /\ resume = FALSE
    /\ given \in {None, 1}
    /\ evals = Evals
    /\ evalPc = [e \in Evals |-> "idle"]
    /\ outcome = [e \in Evals |-> None]
    /\ task = [k \in Events |-> "none"]
    /\ setRunId = None
    /\ runIds = [e \in Evals |-> None]
    /\ anyFailed = FALSE
    /\ status = None
    /\ sets = IF given = None THEN <<>> ELSE <<"inProgress">>
    /\ runs = <<>>
    /\ faults = 0
    /\ resumes = 0

-------------------------------------------------------------------------------
(***************************************************************************)
(* The runtime.                                                            *)
(***************************************************************************)

\* initiate_evaluation: resuming more than one item is an error; otherwise
\* CREATE_EVAL_SET_RUN is published and awaited.
Initiate ==
    /\ pc = "start"
    /\ IF resume /\ Cardinality(evals) > 1
         THEN pc' = "failing" /\ UNCHANGED task
         ELSE pc' = "creatingSet" /\ Publish({CreateSet})
    /\ UNCHANGED <<resume, given, evals, evalPc, outcome, anyFailed, status,
                   reporter, backend, bounds>>

SetRunCreated ==
    /\ pc = "creatingSet"
    /\ ~Pending(CreateSet)
    /\ pc' = "evaluating"
    /\ UNCHANGED <<resume, given, evals, evalPc, outcome, anyFailed, status,
                   task, reporter, backend, bounds>>

\* What _execute_eval publishes before the agent runs.
CreateEvent(e) == IF resume THEN {} ELSE {Create(e)}

\* Whether the publisher waits for the handler of CREATE_EVAL_RUN.
CreateNotAwaited(e) == TRUE                                   \* variant
CreateAlwaysExpected(e) == task[Create(e)] = "done"           \* variant
CreateHandled(e) == ~Pending(Create(e))

\* The pool: a worker is busy with one item, and lost to one that escaped.
Taken == {e \in evals : evalPc[e] \in {"creating", "running", "escaped"}}
WorkerFree == Cardinality(Taken) < NWorkers
Escaped == {e \in evals : evalPc[e] = "escaped"}
Idle == {e \in evals : evalPc[e] = "idle"}

\* _execute_eval starts on a free worker; the input a model is asked to
\* generate is there when the item has an input_mocking_strategy.
StartEval(e) ==
    /\ pc = "evaluating"
    /\ e \in Idle /\ WorkerFree
    /\ evalPc' = [evalPc EXCEPT ![e] = "creating"]
    /\ Publish(CreateEvent(e))
    /\ UNCHANGED <<pc, resume, given, evals, outcome, anyFailed, status,
                   reporter, backend, bounds>>

\* The model fails to generate the input: the item ends before its
\* CREATE_EVAL_RUN, and the handler publishes the UPDATE_EVAL_RUN all the same.
InputFails(e) ==
    /\ pc = "evaluating"
    /\ e \in Idle /\ WorkerFree
    /\ evalPc' = [evalPc EXCEPT ![e] = "done"]
    /\ outcome' = [outcome EXCEPT ![e] = "noInput"]
    /\ Publish({Update(e)})
    /\ UNCHANGED <<pc, resume, given, evals, anyFailed, status, reporter,
                   backend, bounds>>

\* Span restore and save stand outside the try: a failing storage leaves
\* _execute_eval by an exception, and the worker with it.
EvalEscapes(e) ==
    /\ pc = "evaluating"
    /\ e \in Idle /\ WorkerFree
    /\ Fault
    /\ evalPc' = [evalPc EXCEPT ![e] = "escaped"]
    /\ UNCHANGED <<pc, resume, given, evals, outcome, anyFailed, status, task,
                   reporter, backend, resumes>>

RunAgent(e) ==
    /\ evalPc[e] = "creating"
    /\ CreateHandled(e)
    /\ evalPc' = [evalPc EXCEPT ![e] = "running"]
    /\ UNCHANGED <<pc, resume, given, evals, outcome, anyFailed, status, task,
                   reporter, backend, bounds>>

\* What _execute_eval publishes when the agent and the evaluators are through.
UpdateEvent(e, o) == IF o = "suspended" THEN {} ELSE {Update(e)}

\* The agent returned or raised, the evaluators ran unless it suspended.
EndEval(e, o) ==
    /\ evalPc[e] = "running"
    /\ evalPc' = [evalPc EXCEPT ![e] = "done"]
    /\ outcome' = [outcome EXCEPT ![e] = o]
    /\ Publish(UpdateEvent(e, o))
    /\ UNCHANGED <<pc, resume, given, evals, anyFailed, status, reporter,
                   backend, bounds>>

\* agent_execution_output is kept for the caller only when the agent
\* suspended or --verbose is set; execute reads statuses and errors from it.
Kept(e) == outcome[e] = "suspended" \/ Verbose
InnerStatus(e) ==
    CASE outcome[e] = "suspended" -> "SUSPENDED"
      [] outcome[e] \in {"faulted", "raised", "noInput"} -> "FAULTED"
      [] OTHER -> "SUCCESSFUL"
Statuses == {InnerStatus(e) : e \in {x \in evals : Kept(x)}}

\* Priority SUSPENDED > FAULTED > SUCCESSFUL.
OverallStatus ==
    CASE "SUSPENDED" \in Statuses -> "SUSPENDED"
      [] "FAULTED" \in Statuses -> "FAULTED"
      [] OTHER -> "SUCCESSFUL"

\* execute_parallel returned: failures and status are computed and
\* UPDATE_EVAL_SET_RUN is published without waiting.
ExecuteReturns ==
    /\ pc = "evaluating"
    /\ \A e \in evals : evalPc[e] = "done"
    /\ anyFailed' = \E e \in evals : Kept(e) /\ InnerStatus(e) = "FAULTED"
    /\ status' = OverallStatus
    /\ Publish({UpdateSet})
    /\ pc' = "waiting"
    /\ UNCHANGED <<resume, given, evals, evalPc, outcome, reporter, backend,
                   bounds>>

\* An evaluation escaped; the pool tells the caller when every item has been
\* taken (ParallelEval), the others perhaps still running.
ExecuteFails ==
    /\ pc = "evaluating"
    /\ Escaped # {} /\ Idle = {}
    /\ pc' = "failing"
    /\ UNCHANGED <<resume, given, evals, evalPc, outcome, anyFailed, status,
                   task, reporter, backend, bounds>>

\* execute's handler: publish the failure without waiting and raise.
ExecuteRaises ==
    /\ pc = "failing"
    /\ anyFailed' = TRUE
    /\ Publish({UpdateSet})
    /\ pc' = "ending"
    /\ UNCHANGED <<resume, given, evals, evalPc, outcome, status, reporter,
                   backend, bounds>>

\* The bus tasks that wait_for_all waits for.
OnlyEvalUpdates == {Update(e) : e \in Evals}                  \* variant
Awaited == Events

\* wait_for_all(timeout=10): every task is done.
WaitForAll ==
    /\ pc = "waiting"
    /\ \A k \in Awaited : ~Pending(k)
    /\ pc' = "returned"
    /\ UNCHANGED <<resume, given, evals, evalPc, outcome, anyFailed, status,
                   task, reporter, backend, bounds>>

\* wait_for_all's timeout: what is not done is cancelled.
WaitTimesOut ==
    /\ pc = "waiting"
    /\ \E k \in Events : Pending(k)
    /\ Fault
    /\ task' = [k \in Events |-> IF Pending(k) THEN "cancelled" ELSE task[k]]
    /\ pc' = "returned"
    /\ UNCHANGED <<resume, given, evals, evalPc, outcome, anyFailed, status,
                   reporter, backend, resumes>>

\* execute raised: wait_for_all is skipped, the event loop cancels the rest.
LoopEnds ==
    /\ pc = "ending"
    /\ task' = [k \in Events |-> IF Pending(k) THEN "cancelled" ELSE task[k]]
    /\ evalPc' = [e \in Evals |-> IF evalPc[e] \in {"creating", "running"}
                                  THEN "cancelled" ELSE evalPc[e]]
    /\ pc' = "raised"
    /\ UNCHANGED <<resume, given, evals, outcome, anyFailed, status, reporter,
                   backend, bounds>>

\* The serverless executor starts a new process on a suspended run, for the
\* whole set or for one item of it, with or without the set run's id.
Resume(es, id) ==
    /\ pc = "returned" /\ status = "SUSPENDED"
    /\ resumes < MaxResumes
    /\ resumes' = resumes + 1
    /\ pc' = "start"
    /\ resume' = TRUE
    /\ given' = id
    /\ evals' = es
    /\ evalPc' = [e \in Evals |-> "idle"]
    /\ task' = [k \in Events |-> "none"]
    /\ setRunId' = None
    /\ runIds' = [e \in Evals |-> None]
    /\ anyFailed' = FALSE
    /\ status' = None
    /\ UNCHANGED <<outcome, backend, faults>>

Suspended == {e \in evals : outcome[e] = "suspended"}

-------------------------------------------------------------------------------
(***************************************************************************)
(* The reporter's handlers, one bus task each.                             *)
(***************************************************************************)
NewSet == Append(sets, "inProgress")
NewRun(e, id) == Append(runs, [item |-> e, set |-> id, status |-> "inProgress"])
RowsOf(e) == {r \in DOMAIN runs : runs[r].item = e}
RunsOf(e, id) == {r \in RowsOf(e) : runs[r].set = id}
Verdict(good) == IF good THEN "completed" ELSE "failed"

\* handle_create_eval_set_run: local state first, then the backend call.
CreateSetStarts ==
    /\ task[CreateSet] = "queued"
    /\ Become(CreateSet, "call")
    /\ UNCHANGED <<proc, reporter, backend, bounds>>

\* What fetch_and_cache_eval_runs may leave in the cache: for each item the
\* last of its runs in the order of the backend's answer.
Cached(ids) ==
    \A e \in Evals : IF RunsOf(e, given) = {} THEN ids[e] = None
                     ELSE ids[e] \in RunsOf(e, given)

\* The id was given: fetch_and_cache_eval_runs fills the cache.
CreateSetFetches ==
    /\ task[CreateSet] = "call" /\ given # None
    /\ setRunId' = given
    /\ \/ /\ runIds' \in {ids \in [Evals -> DOMAIN runs \cup {None}] : Cached(ids)}
          /\ UNCHANGED bounds
       \/ Fault /\ UNCHANGED <<runIds, resumes>>
    /\ Become(CreateSet, "done")
    /\ UNCHANGED <<proc, backend>>

\* No id given: create_eval_set_run_sw.  A failed call may have taken effect;
\* it is sent again, or given up and leaves None behind.
CreateSetCalls ==
    /\ task[CreateSet] = "call" /\ given = None
    /\ \/ /\ sets' = NewSet
          /\ setRunId' = Len(NewSet)
          /\ Become(CreateSet, "done")
          /\ UNCHANGED bounds
       \/ /\ Fault
          /\ sets' \in {sets, NewSet}
          /\ \E stage \in {"call", "done"} : Become(CreateSet, stage)
          /\ UNCHANGED <<setRunId, resumes>>
    /\ UNCHANGED <<proc, runIds, runs>>

\* handle_create_eval_run: cached or without a set run, nothing to do; with a
\* given set run, look the item up at the backend first.
CreateRunStarts(e) ==
    /\ task[Create(e)] = "queued"
    /\ Become(Create(e),
              IF runIds[e] # None \/ setRunId = None THEN "done"
              ELSE IF given # None THEN "fetch" ELSE "call")
    /\ UNCHANGED <<proc, reporter, backend, bounds>>

\* get_eval_run_for_evaluation; no match and a failed call look the same.
CreateRunFetches(e) ==
    /\ task[Create(e)] = "fetch"
    /\ \/ /\ RunsOf(e, setRunId) # {}
          /\ \E r \in RunsOf(e, setRunId) : runIds' = [runIds EXCEPT ![e] = r]
          /\ Become(Create(e), "done")
          /\ UNCHANGED bounds
       \/ /\ RunsOf(e, setRunId) = {}
          /\ Become(Create(e), "call")
          /\ UNCHANGED <<runIds, bounds>>
       \/ /\ Fault
          /\ Become(Create(e), "call")
          /\ UNCHANGED <<runIds, resumes>>
    /\ UNCHANGED <<proc, setRunId, backend>>

\* create_eval_run; failing, it is sent again or given up as above.
CreateRunCalls(e) ==
    /\ task[Create(e)] = "call"
    /\ \/ /\ runs' = NewRun(e, setRunId)
          /\ runIds' = [runIds EXCEPT ![e] = Len(runs')]
          /\ Become(Create(e), "done")
          /\ UNCHANGED bounds
       \/ /\ Fault
          /\ runs' \in {runs, NewRun(e, setRunId)}
          /\ \E stage \in {"call", "done"} : Become(Create(e), stage)
          /\ UNCHANGED <<runIds, resumes>>
    /\ UNCHANGED <<proc, setRunId, sets>>

\* handle_update_eval_run: without an id in the cache nothing is sent.
UpdateRunStarts(e) ==
    /\ task[Update(e)] = "queued"
    /\ Become(Update(e), IF runIds[e] = None THEN "done" ELSE "call")
    /\ UNCHANGED <<proc, reporter, backend, bounds>>

UpdatedLatest(e) ==                                           \* variant
    [runs EXCEPT ![Len(runs)].status = Verdict(outcome[e] = "ok")]
Updated(e) == [runs EXCEPT ![runIds[e]].status = Verdict(outcome[e] = "ok")]

\* An update sent again says the same, so its repetitions are one call here.
UpdateRunCalls(e) ==
    /\ task[Update(e)] = "call"
    /\ \/ runs' = Updated(e) /\ UNCHANGED bounds
       \/ Fault /\ runs' \in {runs, Updated(e)} /\ UNCHANGED resumes
    /\ Become(Update(e), "done")
    /\ UNCHANGED <<proc, reporter, sets>>

\* handle_update_eval_set_run: a set run the user named is not ours to close.
OwnSetRun == given = None

UpdateSetStarts ==
    /\ task[UpdateSet] = "queued"
    /\ Become(UpdateSet, IF setRunId # None /\ OwnSetRun THEN "call" ELSE "done")
    /\ UNCHANGED <<proc, reporter, backend, bounds>>

Closed == [sets EXCEPT ![setRunId] = Verdict(~anyFailed)]

UpdateSetCalls ==
    /\ task[UpdateSet] = "call"
    /\ \/ sets' = Closed /\ UNCHANGED bounds
       \/ Fault /\ sets' \in {sets, Closed} /\ UNCHANGED resumes
    /\ Become(UpdateSet, "done")
    /\ UNCHANGED <<proc, reporter, runs>>

-------------------------------------------------------------------------------
HandlerStep ==
    \/ CreateSetStarts \/ CreateSetFetches \/ CreateSetCalls
    \/ UpdateSetStarts \/ UpdateSetCalls
    \/ \E e \in Evals :
         \/ CreateRunStarts(e) \/ CreateRunFetches(e) \/ CreateRunCalls(e)
         \/ UpdateRunStarts(e) \/ UpdateRunCalls(e)

RuntimeStep ==
    \/ Initiate \/ SetRunCreated \/ ExecuteReturns \/ ExecuteFails
    \/ ExecuteRaises \/ WaitForAll \/ LoopEnds
    \/ \E e \in Evals :
         \/ StartEval(e) \/ InputFails(e) \/ RunAgent(e)
         \/ \E o \in Ended : EndEval(e, o)

Next ==
    \/ HandlerStep
    \/ RuntimeStep
    \/ WaitTimesOut
    \/ \E e \in Evals : EvalEscapes(e)
    \/ \E es \in {evals} \cup {{e} : e \in Suspended}, id \in DOMAIN sets \cup {None} :
         Resume(es, id)

Spec == Init /\ [][Next]_vars

\* The event loop runs every task that can run, the HTTP client ends every
\* call, and an agent returns, raises or suspends.
FairSpec == Spec /\ WF_vars(HandlerStep) /\ WF_vars(RuntimeStep)

-------------------------------------------------------------------------------
RunType == [item : Evals, set : DOMAIN sets,
            status : {"inProgress", "completed", "failed"}]

\* The types of the run's state.
TypeOK ==
    /\ pc \in {"start", "creatingSet", "evaluating", "waiting", "failing",
               "ending", "returned", "raised"}
    /\ given \in DOMAIN sets \cup {None}
    /\ evals \subseteq Evals
    /\ evalPc \in [Evals -> {"idle", "creating", "running", "done", "escaped",
                             "cancelled"}]
    /\ outcome \in [Evals -> Outcomes \cup {None}]
    /\ task \in [Events -> {"none", "done", "cancelled"} \cup Unfinished]
    /\ setRunId \in DOMAIN sets \cup {None}
    /\ runIds \in [Evals -> DOMAIN runs \cup {None}]
    /\ status \in {None, "SUSPENDED", "FAULTED", "SUCCESSFUL"}
    /\ Range(sets) \subseteq {"inProgress", "completed", "failed"}
    /\ Range(runs) \subseteq RunType

\* When the run returns and no backend call failed, the backend has, for each
\* item, one run that says how it ended; a suspended item's is in progress.
\* It needs CREATE_EVAL_RUN to be awaited and wait_for_all to wait for every
\* task (runtime.py 648-655 and 870-884, _evaluate.py 26).  An item whose input
\* could not be generated has no run at all, unless an earlier process had made
\* it (639-653).  A resumed process that is not told the id of the set run its
\* runs are in, without failures the first one, cannot find them: excepted.
ReportedAtReturn ==
    (pc = "returned" /\ faults = 0 /\ (resume => given = 1)) =>
        \A e \in evals :
            IF outcome[e] = "noInput" /\ ~resume THEN RowsOf(e) = {}
            ELSE \E r \in RunsOf(e, setRunId) :
                    /\ RowsOf(e) = {r}
                    /\ runs[r].status = IF outcome[e] = "suspended" THEN "inProgress"
                                        ELSE Verdict(outcome[e] = "ok")

\* When the run returns and no call failed, its own set run is closed.
OwnSetRunClosed ==
    (pc = "returned" /\ faults = 0 /\ given = None) =>
        sets[setRunId] = Verdict(~anyFailed)

\* However calls fail and processes follow each other, an item has one run and
\* at most one more for each failure, and only one of them gets a verdict: a
\* resumed process does not create (runtime.py 645-655), and the runs a repeated
\* create left behind stay in progress.
OneRunPerItem ==
    \A e \in Evals :
        /\ Cardinality(RowsOf(e)) <= 1 + faults
        /\ \A r, q \in RowsOf(e) :
              runs[r].status # "inProgress" /\ runs[q].status # "inProgress" => r = q

\* Together: the backend's runs and set runs are well formed, one verdict per item, and
\* say how the items ended once the run returned (_progress_reporter.py,
\* runtime.py 572-655).
RunsAddUp == TypeOK /\ ReportedAtReturn /\ OwnSetRunClosed /\ OneRunPerItem

\* The verdict the backend holds for a run never changes once it is final; in
\* particular the run of a suspended item is not closed before a later process
\* resumed the item and it ended (runtime.py 760-763: "DO NOT update evalRun
\* status when suspended").
FinalVerdictKept ==
    [][\A r \in DOMAIN runs : runs[r].status # "inProgress" =>
          runs'[r].status = runs[r].status]_vars

\* The process ends, with a result or an exception, unless evaluations escaped
\* from every worker of the pool while items were left (_parallelization.py 56).
PoolDead == Cardinality(Escaped) = NWorkers /\ Idle # {}
Ends == pc = "start" ~> (pc \in {"returned", "raised"} \/ PoolDead)

\* "Determine overall status - propagate status from inner runtime ...
\* Priority: SUSPENDED > FAULTED > SUCCESSFUL" (runtime.py 556-558).
FaultPropagated ==
    pc = "returned" /\ (\E e \in evals : outcome[e] = "faulted") =>
        status \in {"SUSPENDED", "FAULTED"}
===============================================================================
