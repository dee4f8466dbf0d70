----------------------------- MODULE ParallelEval -----------------------------
(***************************************************************************)
(* execute_parallel (eval/runtime/_parallelization.py): one producer task  *)
(* feeds a bounded asyncio.Queue, a pool of worker tasks drains it, and    *)
(* the caller awaits the producer first and the workers after it.  One     *)
(* None marker per worker ends the pool.                                   *)
(*                                                                         *)
(* An item whose evaluation raises ends the worker that ran it: `finally'  *)
(* calls task_done but nothing catches the exception, and the caller looks *)
(* at the workers only after the producer is finished.                     *)
(*                                                                         *)
(* Items are numbered from 1 here and from 0 in the code.  A step is what  *)
(* a task does between two awaits.  A definition marked `variant' is a     *)
(* plausible mistake in the one below it; no action uses it.               *)
(***************************************************************************)
EXTENDS Naturals, Sequences, FiniteSets

CONSTANTS NItems,     \* how many evaluations the set holds
          Workers,    \* the worker tasks, range(workers) in the code
          None        \* the termination marker

ASSUME PoolAssumption ==
    /\ NItems \in Nat
    /\ IsFiniteSet(Workers)
    /\ Workers # {}
    /\ None \notin 1 .. NItems

Items == 1 .. NItems
NWorkers == Cardinality(Workers)

VARIABLES queue,       \* the asyncio.Queue, oldest entry first
          put,         \* how many queue.put calls the producer has completed
          pc,          \* of each worker: "get", "run", "exited", "raised"
          job,         \* the item a worker took last, or None
          results,     \* results_dict
          unfinished,  \* the queue's count of entries not yet task_done
          caller,      \* "producer", "gather", "returned", "raised"
          output       \* what the call returned, <<>> before that

vars == <<queue, put, pc, job, results, unfinished, caller, output>>

\* What the p-th put carries: the items in order, then the markers.
Slot(p) == IF p <= NItems THEN p ELSE None

\* The value the evaluation of an item produces.
ResultOf(i) == [of |-> i]

\* Every item and one marker per worker has been put.
ProducerDoneOneMarker == put = NItems + 1              \* variant
ProducerDone == put = NItems + NWorkers

QueueFull == Len(queue) >= NWorkers

Init ==
    /\ queue = <<>>
    /\ put = 0
    /\ pc = [w \in Workers |-> "get"]
    /\ job = [w \in Workers |-> None]
    /\ results = [i \in {} |-> ResultOf(i)]
    /\ unfinished = 0
    /\ caller = "producer"
    /\ output = <<>>

\* producer: put blocks while the queue holds `workers' entries.
Put ==
    /\ ~ProducerDone
    /\ ~QueueFull
    /\ queue' = Append(queue, Slot(put + 1))
    /\ put' = put + 1
    /\ unfinished' = unfinished + 1
    /\ UNCHANGED <<pc, job, results, caller, output>>

\* The queue after a get.
AfterGet == Tail(queue)

\* worker: queue.get returns an item, whose evaluation starts.
TakeItem(w) ==
    /\ pc[w] = "get"
    /\ queue # <<>>
    /\ Head(queue) # None
    /\ queue' = AfterGet
    /\ pc' = [pc EXCEPT ![w] = "run"]
    /\ job' = [job EXCEPT ![w] = Head(queue)]
    /\ UNCHANGED <<put, results, unfinished, caller, output>>

TaskDone == unfinished' = unfinished - 1

\* worker: queue.get returns a marker, the worker leaves its loop.
TakeMarker(w) ==
    /\ pc[w] = "get"
    /\ queue # <<>>
    /\ Head(queue) = None
    /\ queue' = AfterGet
    /\ pc' = [pc EXCEPT ![w] = "exited"]
    /\ TaskDone
    /\ UNCHANGED <<put, job, results, caller, output>>

\* Variant: results kept in the order the workers finish.
StoredInArrivalOrder(i) ==
    LET n == Cardinality(DOMAIN results) + 1
    IN  [k \in 1 .. n |-> IF k = n THEN ResultOf(i) ELSE results[k]]

\* The dictionary after results_dict[i] = result.
Stored(i) ==
    [k \in DOMAIN results \cup {i} |-> IF k = i THEN ResultOf(i) ELSE results[k]]

\* worker: the evaluation returned; store under the item's own index.
Finish(w) ==
    /\ pc[w] = "run"
    /\ results' = Stored(job[w])
    /\ TaskDone
    /\ pc' = [pc EXCEPT ![w] = "get"]
    /\ UNCHANGED <<queue, put, job, caller, output>>

\* worker: the evaluation raised; `finally' runs and the worker task ends.
Raise(w) ==
    /\ pc[w] = "run"
    /\ TaskDone
    /\ pc' = [pc EXCEPT ![w] = "raised"]
    /\ UNCHANGED <<queue, put, job, results, caller, output>>

\* caller: what `await producer_task' waits for.
AwaitedNothing == TRUE                                 \* variant
AwaitedProducer == ProducerDone

AwaitProducer ==
    /\ caller = "producer"
    /\ AwaitedProducer
    /\ caller' = "gather"
    /\ UNCHANGED <<queue, put, pc, job, results, unfinished, output>>

\* The workers have all ended without an exception.
PoolEndedFirst == \E w \in Workers : pc[w] = "exited"                 \* variant
PoolEnded == \A w \in Workers : pc[w] = "exited"

\* [results_dict[i] for i in range(len(results_dict))]; a KeyError shows as None.
ResultList ==
    [i \in 1 .. Cardinality(DOMAIN results) |->
        IF i \in DOMAIN results THEN results[i] ELSE None]

\* caller: gather saw every worker end.
GatherReturn ==
    /\ caller = "gather"
    /\ PoolEnded
    /\ caller' = "returned"
    /\ output' = ResultList
    /\ UNCHANGED <<queue, put, pc, job, results, unfinished>>

\* caller: gather propagates the first exception; other workers keep going.
GatherRaise ==
    /\ caller = "gather"
    /\ \E w \in Workers : pc[w] = "raised"
    /\ caller' = "raised"
    /\ UNCHANGED <<queue, put, pc, job, results, unfinished, output>>

WorkerStep(w) == TakeItem(w) \/ TakeMarker(w) \/ Finish(w) \/ Raise(w)
CallerStep == AwaitProducer \/ GatherReturn \/ GatherRaise

Next ==
    \/ Put
    \/ \E w \in Workers : WorkerStep(w)
    \/ CallerStep

Spec == Init /\ [][Next]_vars

\* The event loop runs every task that can make progress, and every
\* evaluation ends, by returning or by raising.
Fairness ==
    /\ WF_vars(Put)
    /\ \A w \in Workers : WF_vars(WorkerStep(w))
    /\ WF_vars(CallerStep)

FairSpec == Spec /\ Fairness

-------------------------------------------------------------------------------
Running == {w \in Workers : pc[w] = "run"}
Raised == {w \in Workers : pc[w] = "raised"}
Settled == caller \in {"returned", "raised"}

\* The types of the pool's state (_parallelization.py 11-17).
TypeOK ==
    /\ queue \in Seq(Items \cup {None})
    /\ put \in 0 .. NItems + NWorkers
    /\ pc \in [Workers -> {"get", "run", "exited", "raised"}]
    /\ job \in [Workers -> Items \cup {None}]
    /\ DOMAIN results \subseteq Items
    /\ unfinished \in Nat
    /\ caller \in {"producer", "gather", "returned", "raised"}

\* An evaluation is an awaitable and may be awaited once only: an item is
\* waiting in the queue, held by one worker, or in results_dict, and never in
\* two of these places (_parallelization.py 30-44).
EachItemOnce ==
    /\ \A v, w \in Running \cup Raised : job[v] = job[w] => v = w
    /\ \A w \in Running \cup Raised : job[w] \notin DOMAIN results
    /\ \A k \in DOMAIN queue : queue[k] \in Items =>
          /\ queue[k] \notin DOMAIN results
          /\ \A w \in Running \cup Raised : job[w] # queue[k]

\* The returned list holds the result of every item at the item's own place,
\* whatever order the workers finished in (_parallelization.py 59-60).
OutputComplete ==
    caller = "returned" => output = [i \in Items |-> ResultOf(i)]

\* Together: each evaluation is awaited once and its result ends up in its place
\* (_parallelization.py 30-60).
ResultsComplete == EachItemOnce /\ OutputComplete

\* No worker leaves on a marker while an item is still waiting, and the queue
\* never holds more than `workers' entries (_parallelization.py 12-14, 23-35).
MarkersLast ==
    /\ Len(queue) <= NWorkers
    /\ (\E w \in Workers : pc[w] = "exited") =>
          /\ put > NItems
          /\ \A k \in DOMAIN queue : queue[k] = None

\* queue.task_done is called exactly once per entry taken: the count is the
\* entries still queued and those being evaluated, so that it cannot go
\* negative, which asyncio answers with ValueError.
TaskDoneBalance == unfinished = Len(queue) + Cardinality(Running)

\* Once an item raised the call does not return a list: a caller never takes
\* a set with a failed evaluation for a complete one.
NoLostFailure == [][Raised # {} => caller' # "returned"]_vars

\* The call ends, by returning or by raising, unless every worker died while
\* the producer still had entries the queue cannot take: the caller awaits
\* the producer before it looks at the workers (_parallelization.py 55-57).
SettlesUnlessPoolDies ==
    <>(Settled \/ (Raised = Workers /\ ~ProducerDone))

\* A call that has lost its whole pool with the queue full is never answered:
\* no later step reaches the caller (_parallelization.py 22, 56).
Wedged == Raised = Workers /\ Len(queue) = NWorkers /\ ~ProducerDone
WedgedForever == [][Wedged => (Wedged' /\ caller' = "producer")]_vars

\* Together: the call ends in every case but one, and never in that.
EndsUnlessWedged == SettlesUnlessPoolDies /\ WedgedForever

Abs == INSTANCE BoundedMap WITH
    todo <- {i \in Items : i > put \/ \E k \in DOMAIN queue : queue[k] = i},
    running <- {job[w] : w \in Running},
    done <- DOMAIN results,
    failed <- {job[w] : w \in Raised},
    outcome <- IF Settled THEN caller ELSE "pending"

\* execute_parallel implements the bounded map the runtime relies on: at most
\* NWorkers evaluations at a time, each once, and a return only when all have
\* results (_parallelization.py 7-60).
Refines == Abs!Spec
===============================================================================
