# Formal models of uipath-python

`uipath-python` is a monorepo of three Python packages: `uipath-core` (events,
tracing, guardrails), `uipath-platform` (service clients, governance) and
`uipath` (the command line, the evaluation runtime, the debugger, the chat
bridges, telemetry). What can go wrong in ways a test hardly reaches is where
tasks, threads and remote parties share state, where an operation is several
requests of which any may fail or be tried again, and where a long sequence of
calls or an unusual combination of data decides. This directory holds TLA+ models
of those parts, the TLC runs that check them on small instances, and TLAPS
proofs about most of them for every instance.

Paths below are relative to `src/packages/uipath/src/uipath/` unless they
start with `platform:` (`src/packages/uipath-platform/src/uipath/platform/`)
or `core:` (`src/packages/uipath-core/src/uipath/core/`).

## 1. Inventory

### 1.1 Parts that are modelled

| Part | Code | State | Operations |
|---|---|---|---|
| Parallel evaluation pool | `eval/runtime/_parallelization.py` (and its identical copy in `_cli/_utils/`) | bounded `asyncio.Queue`, its unfinished count, `results_dict`, the worker tasks | put items and one marker per worker; get, run, `task_done`; await producer, gather |
| Evaluation runtime | `eval/runtime/runtime.py`, `_evaluate.py` | per item execution, the kept agent outputs, overall status | publish events, run agent and evaluators, suspend, resume, `wait_for_all` with a timeout |
| Progress reporter | `_cli/_evals/_progress_reporter.py` | caches of set run ids, run ids and failures | four event handlers, each of several backend calls |
| Evaluation command | `_cli/cli_eval.py` | resume flags | start, resume, end of the event loop |
| Chat bridge | `_cli/_chat/_bridge.py` | `_expected_tool_call_ids`, `_tool_resume_results`, `_tool_resume_pending`, `_connected_event` | connect, disconnect, emit interrupt, wait for resume, emit executing, answers from the socket |
| Live track dispatcher | `platform:governance/_live_track_event_dispatcher.py` | in-flight semaphore, `_futures`, shutdown event, an event loop on its own thread | dispatch, done callback, shutdown, the loop's teardown |
| Job server | `_cli/_server_core.py`, `cli_server.py`, `cli_server_ipc.py` | process environment and directory, one lock | run a command, stop a job, shut down, over two channels |
| Debug session | `functions/debug.py`, `_cli/_debug/_bridge.py` (remote) | breakpoints, step mode, resume and stop flags, event queue; the bridge's resume event and terminate flag | trace callback, stream, resume, stop; the debugger's commands |
| Telemetry client | `telemetry/_track.py` | current client and its queue, `_pending_events`, worker and its stop event, two locks | track, flush, periodic flush, reset, exit |
| Push and pull of projects | `_cli/_push/sw_file_handler.py`, `_cli/_utils/_studio_project.py`, `_project_files.py`, `_common.py`, `cli_push.py`, `cli_pull.py` | the workspace's files, its `codeVersion`, the cached project structure; the project at Studio Web | version check, compare, prepare metadata, migrate, clean up folders; download |
| Live span tracking | `tracing/_live_tracking_processor.py`, `_otel_exporters.py` (upsert), `core:tracing/trace_manager.py` | a pool of threads and its queue per job, the delegating processor's children | start and end of a span, upsert with retries, shutdown, next job |
| Voice tool-call session | `_cli/_chat/_voice_bridge.py` | `_in_flight`, `_done`, `_end_reason`, `_end_detail` | connect, tool calls, session ended, disconnect, drain, close |
| Resume triggers | `platform:resume_triggers/_protocol.py` | the triggers of a suspended run, the work behind each | create (one class of value at a time), announce, wake, read |
| Requests and retries | `platform:common/_base_service.py`, `retry.py` | the attempts of one request | send, try again, give up |
| Attachments | `platform:orchestrator/_attachments_service.py`, `_jobs_service.py` (`create_attachment`) | a record in Orchestrator, a blob, links to jobs, files in a temporary folder | upload, download, delete, open, create for a job or locally |
| Context grounding | `platform:context_grounding/_context_grounding_service.py` | an index, its ingestions, the files of its bucket | add, ingest, search, start searches, create, delete |
| Document understanding | `platform:documents/_documents_service.py` | operations of the service; what a result carries of its route | classify, extract, validate; start, and retrieve later; poll until a deadline |
| LLM gateway and throttle | `platform:chat/_llm_gateway_service.py`, `llm_throttle.py`, `_model_capabilities.py` | a semaphore and a limit global to the process, a cache of what models accept | set the limit, call, discover; one event loop after another |
| Paged lookups | `platform:common/paging.py` and the lists of buckets, folders, jobs, assets, records and the resource catalogue | position in a collection that changes meanwhile | find, list, resolve keys in chunks |
| Jobs, processes and queues | `platform:orchestrator/_jobs_service.py`, `_processes_service.py`, `_queues_service.py` | jobs, their input and inbox, transactions | invoke, stop, restart, resume, create and complete a transaction |
| Entities | `platform:entities/_entity_data_service.py` | records | insert, update, delete, singly and in batches that fail in part |
| Resource overwrites | `platform:common/_bindings.py`, `entities/_entity_resolution.py` | the overwrites of a context, the plan of an entity set | enter, leave, call decorated methods, resolve, fetch, route queries |
| Traced functions | `core:tracing/decorators.py`, `span_utils.py` | current span, a registry of parents, another framework's spans | call, yield, return, close |
| Tool-call evaluators | `eval/_helpers/evaluators_helpers.py`, `eval/evaluators/tool_call_*` | none | scores of order, count, arguments and outputs |
| Scores of a run | `eval/runtime/runtime.py`, `eval/evaluators/*classification*` | the results of each evaluation | evaluate, reduce, reduce over the dataset |
| Output evaluators | `eval/evaluators/json_similarity_evaluator.py`, `output_evaluator.py`, `line_by_line_utils.py`, `legacy_csv_exact_match_evaluator.py` | none | compare whole, by leaves, by lines, by a column |
| Guardrails | `platform:guardrails/`, `core:guardrails/` | the layers around a function | ask before, call, ask after, act; rules before and after a call |

### 1.2 How they interact

- The **evaluation command** builds the **runtime** and the **reporter** and
  joins them by the event bus (`core:events/_event_bus.py`). The runtime runs
  the items on the **pool**. It awaits the handlers of `CREATE_*` events and
  only starts those of `UPDATE_*` events; `wait_for_all` waits for these at the
  end, for at most ten seconds. The reporter is the only writer of the
  backend's rows.
- The **chat bridge** sits between the runtime's loop (a task that calls
  `emit_interrupt_event` and awaits `wait_for_resume`) and a socket whose
  handlers run on the same event loop but between any two of its awaits.
- The **dispatcher** is called from any thread. It posts coroutines to its
  loop and hears of their end by a done callback, which runs on the loop's
  thread, or on the caller's if the future is done already.
- The **job server** runs the command line's own commands in its process, one
  at a time, on a thread that cannot be cancelled.
- The **debug session** is a traced thread, an event loop that drains its queue
  from a pool thread, and a remote party whose commands arrive in between.
- The **telemetry client** is called from any thread, has a worker thread of
  its own, and is shut down by `atexit` and by `reset_event_client`.
- **Push and pull** share no lock with another developer's: workspaces interact
  only through the project at Studio Web and the version in its metadata file.
- **Live tracking** is called from any thread a span starts or ends in, by one
  delegating processor of the process, into which each job hangs its own.
- The **voice session** has four socket handlers and a task per tool call on one
  event loop; the library may reconnect while the session drains.
- **Resume triggers** are made by a process that then ends, fired by
  Orchestrator, and read by another; `EvalReporting` resumes on what they yield.
- The **service clients** keep no state of their own but share that of the
  platform: concurrent calls, of this program and of others, change it between
  any two requests of a call, and each request is tried again when it seems to
  have failed, whatever its method. All go through `BaseService.request`, which
  is `ServiceRequest` in every model.
- **Evaluators** get the results of the runtime and their spans; **guardrails**
  and **traced** wrap the program's functions, **overwrites** the clients'.

### 1.3 What is hard, and what makes each part correct

| Part | Hard behaviour | It is correct if |
|---|---|---|
| Pool | workers that die of an exception while the producer is blocked; markers through the same bounded queue; completion in any order | each item is run once; a returned list is complete and in order; a failure is never turned into a list; the call ends |
| Runtime, reporter, command | handlers interleaved over shared caches; a lost, repeated or timed-out backend call; an item whose input cannot be generated; a process that ends with a suspended item and another that resumes it | the backend holds one run per item with the right verdict, and one more only for a call that failed; a verdict is final; the set run is closed; the process ends |
| Chat bridge | answers before, during or after the wait, twice, or across a cancellation; a lost link | a wait gets an answer of its own call and round, each answer is used once, none is lost but with the link, a wait hangs only if its answer was lost |
| Dispatcher | a dispatch racing a shutdown, two shutdowns racing each other, a done callback on either thread, a provider that hangs | slots and futures are exact; what was dispatched before is drained; nothing is called after; the loop closes |
| Job server | two channels, commands that write the environment, exit or raise, directories that disappear, a request cancelled while its thread runs | no job sees what another left, unless the way back to the server's directory failed; every request is answered |
| Debug session | commands handled between any two steps of the thread and of the stream; a stop at any point; lost messages | what is shown is where the thread stands; an answer ends its own wait; quit and stop free everything |
| Telemetry | flush, put and shutdown under different locks; failed events put back | no event is forgotten while the mark is clear; a shutdown leaves nothing behind and returns |
| Push and pull | two developers' commands interleaved request by request, requests that fail half-way | nobody's work is overwritten unasked; the version grows; what is not disturbed mirrors |
| Live tracking | two uploads of a span on two threads, retries, background spans that outlive their job, a processor fetched before and called after its job's shutdown | the service ends with the final status; nothing is sent through a closed client; a shutdown returns |
| Voice session | calls, end and lost connections in any order, tools that hang | each call of a session that completes has a result; the end is one event; no task is left |
| Resume triggers | one of several siblings failing, work finished before or after the suspension, subclasses tested in the wrong order | no suspended run waits on work nobody announced; it resumes with what it asked for |
| Attachments, jobs, queues, entities | answers that are lost and requests that are repeated; a later step of a call that fails; batches that fail in part; a stop that only asks | effects are one per call unless an answer was lost; what is linked or reported is true |
| Context grounding | the index is ingested, deleted or made anew after it was looked up | what was added is ingested; the index that was looked up is the one that goes |
| Document understanding | results handed from call to call, over deadlines and several routes | a result is of an operation that ended so; a call goes to the version its input came from |
| LLM gateway | a semaphore made in one event loop and used in the next | never more requests than the limit; no call fails over another loop |
| Paged lookups | pages cut by offset from a collection that changes | what was there all along is listed once, but for what the changes explain |
| Resource overwrites | decorated methods that call one another; two ways to route an entity | what is found is used; both ways agree |
| Traced functions | generators that wait while their caller goes on; spans of another framework | the parent is the deepest span known; what is not recorded hides what is beneath it |
| Evaluators | several equally good matches, two spellings of a tool, datapoints evaluated twice or without criteria, evaluations that fail half-way | a score is what its definition says, each datapoint counts once |
| Guardrails | several guardrails, actions that replace data, data excluded or of other types | what one finds bad does not pass it |

The hazards behind this table are listed, each at its line, in `PROJECT.json`.

### 1.4 Parts that are not modelled

| Part | Code | Why |
|---|---|---|
| Event bus by itself | `core:events/_event_bus.py` | its publish and `wait_for_all` are inside `EvalReporting`, as the handlers' tasks |
| Console debug bridge | `_cli/_debug/_bridge.py` | a synchronous dialogue on standard input |
| Batch export of spans | `tracing/_otel_exporters.py` | mapping of attributes; the upsert, its retries and the manager's life are in `LiveTracking` |
| Project commands | `cli_init.py`, `cli_pack.py`, `cli_publish.py`, ... | sequential file and HTTP operations; `init` is the initial states of `StudioSync` |
| Other service clients | tasks, connections, credentials and assets, ... | one request each, built from arguments; no state, and nothing another request could come between |
| Authentication | `_cli/_auth/` | a browser round trip and a token file |
| Other evaluators, mocks | `eval/evaluators/` (LLM judges, trajectories, faithfulness), `eval/mocks/` | prompts and what a model answers |
| Governance policies | `platform:governance/`, `core:governance/` | models and protocols without state; the track dispatcher among them is modelled |
| Functions runtime, agent definitions | `functions/runtime.py`, `functions/graph_builder.py`, `agent/models/` | load and call; static analysis; data models |

About a fifth (20 %) of the implementation's lines is mapped. What is left is,
in this order: data models (agents, entities, documents, spans), building of
requests and parsing of answers, listings and retrievals of one request each,
the command line's file and HTTP commands, prompts of LLM judges and the static
call graph. None of it has an order of events that could go wrong, and a state
machine of it would restate its assignments. What is left of the parts named
`partly` in `PROJECT.json` is named there in their notes.

## 2. Plan

In order of weight; all of it is done.

1. `BoundedMap` (abstract) and `ParallelEval`, which implements it; proofs.
2. `EvalReporting`, which uses the pool as `BoundedMap` promises it and composes
   runtime, bus, reporter, command and backend.
3. `ChatBridge`; proofs.
4. `TrackDispatcher`; proofs.
5. `JobServer`, with proofs; `DebugSession`, `TelemetryFlush`.
6. `StudioSync`: two workspaces and a project; proofs.
7. `LiveTracking`; proofs.
8. `VoiceSession`; proofs.
9. `ResumeTriggers`; proofs.
10. `ServiceRequest`, and on it the clients: `AttachmentStore`, `ContextIndex`,
    `DocumentWork`, `LlmGateway`, `OrchestratorWork`, `EntityRecords`; beside
    them `PagedLookup` and `ResourceOverwrites`.
11. `TraceParents`, `ToolCallScores`, `RunScores`, `OutputMatches`, `Guardrails`.

What would come next: an abstract specification of the dispatcher (submitted,
running, done, refused); and `ResumeTriggers` composed with the resume of
`EvalReporting`.

## 3. Modules

In every model a step is what a task does between two awaits, or a thread
between two accesses to what it shares. Payloads (scores, spans, message
texts, request bodies) are left out; an answer, an event or a job is a model
value. A definition marked `variant` is a plausible mistake in the definition
below it; no action uses it. `PROJECT.json` pairs each property with one that
breaks it (where a property has several parts, other variants break the other
parts), and says under "map" which lines each definition models.

| Module | Models | State to code |
|---|---|---|
| `BoundedMap` | what `execute_parallel` promises | `todo`, `running`, `done`, `failed`, `outcome` |
| `ParallelEval` | `_parallelization.py` | `queue` is the `asyncio.Queue`; `put` counts the producer's puts; `pc`, `job` are the workers; `results` is `results_dict`; `unfinished` the queue's counter; `caller` where `execute_parallel` stands |
| `EvalReporting` | `runtime.py`, `_evaluate.py`, `_progress_reporter.py`, `cli_eval.py` | `pc`, `evalPc`, `outcome` are `execute` and `_execute_eval`; `task[event]` is the handler's task on the bus; `setRunId`, `runIds`, `anyFailed` are the reporter's caches; `sets`, `runs` the backend's rows, which outlive the process |
| `ChatBridge` | `SocketIOChatBridge` | `expected`, `results`, `pending` are the three structures; `future`, `waitsFor` the current wait; `inflight`, `sent` the web client; `lost`, `forgone`, `dropped` histories of the answers replaced, cancelled and gone with the link |
| `TrackDispatcher` | `LiveTrackEventDispatcher` | `slots` is `_inflight`, `futures` is `_futures`, `down` the event; `at` each dispatch, `task` its coroutine, `future` its concurrent future; `loop`, `ready` the loop's thread; `shut`, `draining` each shutdown |
| `JobServer` | `_server_core.py` and its two channels | `holder`, `waiters` are `_state.lock`; `env`, `cwd` the process's, `original` is `original_cwd`; `missing` the directories that may be out of reach; `thread`, `outcome` the command |
| `DebugSession` | `BreakpointController`, `UiPathDebugFunctionsRuntime`, `SignalRDebugBridge` | `tpc`, `pos` the traced thread; `resume`, `stopped`, `stepMode`, `active`, `events` the controller; `spc` the stream; `resumeEvent`, `terminate` the bridge; `inbox`, `shown` the debugger |
| `TelemetryFlush` | `_AppInsightsEventClient`, `_DiagnosticSender` | `lifecycle`, `flushLock` the locks; `client`, `queue` the client and its queue; `pending` is `_pending_events`; `worker`, `stop` the periodic worker; `pc`, `held`, `batch` each thread |
| `StudioSync` | `sw_file_handler.py`, `_studio_project.py`, `_project_files.py`, `_common.py` | `remote`, `remoteVer`, `folder` the project; `local`, `ver`, `dir` each workspace; `cmd` the command that runs there, with its cached structure (`seen`, `meta`), what it found modified (`mods`) and where it stands; `base`, `blind` histories of what the developer knows |
| `LiveTracking` | `LiveTrackingSpanProcessor`, `_DelegatingSpanProcessor`, `UiPathTraceManager.shutdown`, `upsert_span` | `children` the delegating processor's; `fetched` the child a thread is about to call, `began` a history of when; `queue`, `sending` each job's `ThreadPoolExecutor`; `stored` the trace service |
| `VoiceSession` | `VoiceToolCallSession` | `run` where `run()` stands; `call` each tool call and its task; `inbox` the socket; `done`, `reason`, `detail` the fields of the same names |
| `ResumeTriggers` | `_protocol.py` | `wanted` the values the run suspends on; `trigger` what the creator made of them; `item` the work; `saved` what Orchestrator was told; `answer` the last read |
| `ServiceRequest` | `BaseService.request`, `retry.py` | no state: what an attempt comes to (`Attempts`: applied or not, seen as an answer, a passing failure or another), and when another follows (`Retries`) |
| `AttachmentStore` | attachments, `create_attachment` | `record`, `auth`, `blob`, `links` the server's; `local` the temporary folder; `call` where each call stands |
| `ContextIndex` | `ContextGroundingService` | `index`, `accepted`, `ingested`, `bucket` the service's; `call` each call with the id it was told |
| `DocumentWork` | `DocumentsService` | `value` what the program holds, with its route; `operation` what the call started; `source` a history of what `value` is of |
| `LlmGateway` | `llm_throttle.py`, `_llm_gateway_service.py`, `_model_capabilities.py` | `limit`, `semaphore` the module's globals; `semaphores` all that were made, with their loop; `details` the cache |
| `PagedLookup` | the loops over pages | `collection` what there is; `walk` the loop's variables and what it has brought; histories of what was added and removed |
| `OrchestratorWork` | jobs, processes, queues | `work`, `input`, `trigger`, `paid` Orchestrator's; `call` each call, with its strategy or the items of its bulk; `did` a history of what each had done |
| `EntityRecords` | `EntityDataService` | `rows` the records; `call` each call, its batch and what came back; `did` a history |
| `ResourceOverwrites` | `_bindings.py`, `_entity_resolution.py` | `context` the context variable; `method` the decorated call; `plan` the resolution plan; `query` a query without one |
| `TraceParents` | `traced`, `UiPathSpanUtils`, `SpanRegistry` | `span` the spans started; `registry` the registry's parents; `current` OpenTelemetry's; `external` the other framework's; `frames`, `waiting` functions and generators |
| `ToolCallScores` | the tool-call evaluators | `made` the calls; `score` what an evaluator made of them |
| `RunScores` | reductions of a run, classification | `config` the classes, the options and which datapoint has criteria for which evaluator; `results` what each evaluation gave each evaluator; `report` the scores, the matrix, the metrics |
| `OutputMatches` | JSON similarity, exact match, lines, CSV | `compared` the pair, and what the comparison said |
| `Guardrails` | decorators, validators, actions, deterministic rules | `guarded` the function and its guardrails; `bound` the arguments each layer let through; `returned` the value on its way out; `asked` who was asked; `ruled` a guardrail of rules around a call |

A property is stated in one module, which its run checks and its theorem names:
the run may replace no definition and the proof sees only what it extends. Where
the proofs are of one model that is the model. Where one module of proofs is
about several, whose names overlap, a module in between makes an instance of
each and names the properties:

| Module | Brings | Checked by | Proofs |
|---|---|---|---|
| `ParallelEval` | | `parallel_eval` | `EvaluationProofs` |
| `Reporting` | `EvalReporting` | `eval_reporting` | `EvaluationProofs` |
| `TrackDispatcher` | | `dispatcher` | `TelemetryProofs` |
| `Telemetry` | `TelemetryFlush` | `telemetry` | `TelemetryProofs` |
| `StudioSync` | | `studio_sync` | `CommandProofs` |
| `Jobs` | `JobServer` | `job_server` | `CommandProofs` |
| `Debugging` | `DebugSession` | `debug_session`, with `MCDebugSession` | `CommandProofs` |
| `ChatBridge` | | `chat_bridge`, with `MCChatBridge` | `ChatProofs` |
| `LiveTracking` | | `live_tracking` | `LiveTrackingProofs` |
| `Voice` | `VoiceSession` | `voice_session` | `ChatProofs` |
| `ResumeTriggers` | | `resume_triggers`, with `MCResumeTriggers` | `ResumeTriggersProofs` |
| `Services` | eleven models of clients, helpers and evaluators | `services`, with `MCServices` | `ChangeProofs`, `ServicesProofs` |

An `MC` module gives an instance what a configuration cannot write: functions
and records as constants, and the two models of a run's scores and of outputs,
which `MCServices` adds to the eleven of `Services`. The proofs about those eleven
are in two modules for their length: `ChangeProofs` has the four whose calls
change what the platform keeps, and the guardrails and the throttle that calls
pass; `ServicesProofs` extends it and has the other five.

Two compositions deserve a word.
`EvalReporting` does not repeat the queue and the workers: it starts an item
when fewer than `NWorkers` are taken, which is `BoundedMap`, and `ParallelEval`
is checked and proved to implement `BoundedMap`. And `DebugSession` includes
the small loop of `UiPathDebugRuntime`, which belongs to another package, as
this repository's code expects it. The web client's answers, the remote
debugger's, and the queue of the `applicationinsights` library are external, as
are the platform's services and the storages behind the clients.

`Services` composes the clients and helpers from `AttachmentStore` to
`ToolCallScores`, and `Guardrails`; `MCServices` has `RunScores` and
`OutputMatches` beside them. They
share nothing but what a request comes to: a behaviour starts in one of them
(`service`) and stays there, the variables of the others being 0 throughout. So
one run explores all thirteen, each by itself. It checks safety only: a liveness
property over the sum takes TLC too long. Their modules state fairness and termination where it
is worth stating (`LiveSpec`, `CallsEnd`, `WalkEnds`), for a configuration of
the module alone, and no claim is made of these here.

### Things a reader may miss

- **Pool.** An item that raises ends its worker. When all workers are gone with
  the queue full and entries left, `execute_parallel` never returns: the
  caller awaits the producer first. `_execute_eval` catches what agents and
  evaluators raise, so this needs a failure outside its `try`, such as the
  storage's; `EvalEscapes` in `EvalReporting` is that failure.
- **Reporter.** A handler's two backend calls are two steps; a fault may hit
  either, before or after it took effect. A create whose answer was lost is
  sent again by the client (`_base_service.py`, 230-238) and leaves a run in
  progress that no update finds. An item whose input cannot be generated
  (`InputFails`) is updated without having been created, so it has no run. The
  rows survive; the caches do not.
- **Chat bridge.** `pending = "dead"` is the future of a cancelled wait, still
  in the dictionary: the handler tests `done()` and stores the answer instead.
  While the link is down each answer under way may go under with it
  (`LoseAnswer`), and `wait_for_resume` has no timeout: such a wait stays.
- **Dispatcher.** `finishing` is the teardown's `gather`, in which the loop
  runs again and callbacks posted late may still run.
- **Job server.** A cancelled request resets the environment under its running
  thread. Only the server's own end cancels one, so nothing follows it. A
  directory in `missing` may be out of reach and may be back: `getcwd` then may
  raise before the job (`Adrift`), and the way back after it may fail and is
  passed over (`LeftCwd`), which leaves the process where the job was.
- **Debugger.** `Cancel` is the stream's task cancelled in `run_in_executor`:
  the pool thread stays in `queue.get` (`getter`).
- **Telemetry.** `malformed` clients have an endpoint no URL can be made of, so
  that a send raises instead of failing; `crossed` is a history variable that
  says a flush of a client given up cleared the mark of its successor.
- **Push.** A workspace is `blind` while its version says nothing about what
  its developer has seen of the project: after `init`, a failed push, a broken
  pull, or a push that raced another. `overlap` marks a command during which
  somebody else's changed the project. `Ignored` uses the code's prefix test:
  without an `evaluations` folder a file such as `evaluations_common.py` at the
  root is spared as well (`Prefixed`). A binary file never compares as equal
  and cannot be pulled (`Binary`), so a pull of a project that has one always
  fails. A pull deletes nothing, so a file deleted at Studio Web comes back
  with the next push of a workspace that has it.
- **Live tracking.** The delegating processor takes its children from the list
  one by one and without a lock, so to fetch one (`Fetch`) and to submit to its
  pool (`Submit`, `SubmitRaises`) are two steps: the list may be cleared and
  filled for the next job in between. A child whose pool is closed raises in
  the thread whose span starts or ends, before the other children are called.
- **Voice.** A lost connection ends the session, but the library reconnects
  until `disconnect` is called, and the connect handler then announces the
  tools again; calls sent on that connection are `ignored`.
- **Resume triggers.** `TypeTable` and `NameTable` are the two chains of
  `isinstance` tests as tables; `FirstHit` is what a chain of `if` does. A
  validation has no row in the second and is named API. Among several inbox
  matches the code takes the first, although the comment says it raises
  (lines 998-1047); the choice is data and the model does not tell it apart.
- **Jobs and queues.** A soft stop, the default, leaves the job `stopping`: it
  runs on and may suspend before it ends; only `Kill` stops it at once. One
  attempt of `create_items` makes all its items, or none if it is to be whole,
  or else some.
- **Tool calls.** Names are compared sanitized where order, arguments and
  outputs are judged (`CallsMatch`), and counted as they are called, against
  the sanitized name expected (`Times`). `Sanitized` gives that spelling.
- **Scores of a run.** A datapoint may have no criteria for an evaluator, which
  then has no result of it, unless the evaluation fails: a failure adds a zero
  for every evaluator.

## 4. Runs

| Run | Instance | Distinct states | Properties |
|---|---|---|---|
| `parallel_eval` | 3 items, 2 workers | 407 | `ResultsComplete`, `EndsUnlessWedged`, `Refines` |
| `eval_reporting` | 2 items, 2 workers, verbose, 2 faults, 1 resume | 453 k | `RunsAddUp`, `FinalVerdictKept`, `Ends` |
| `chat_bridge` | 2 tools (2 rounds, 1 round), 2 copies of an answer, 1 cancellation, 1 lost link | 308 k | `RightAnswer`, `RightRound`, `WaitEnds` |
| `dispatcher` | 2 dispatches, 2 shutdowns, 1 slot | 764 k | `Accounted`, `ShutdownDivides`, `LoopCloses` |
| `job_server` | 4 requests: HTTP, IPC, one without a directory, one with a wrong one; directories that go out of reach | 355 k | `NothingLeaks`, `Answered` |
| `debug_session` | 9 trace events in 2 files, a function called twice, every set of breakpoints, 1 edit, 1 lost message | 280 k | `PausedRight`, `StopsEnd`, `SessionEnds` |
| `telemetry` | 2 events, queue limit 2, 1 flush, 1 reset, 1 exit, periodic | 369 k | `QueueCovered`, `NothingWaits` |
| `studio_sync` | 2 workspaces, 1 file at the root and 1 in the folder, 2 edits, 3 commands | 221 k | `NoSilentLoss`, `VersionGrows`, `Undisturbed`, `CommandEnds` |
| `live_tracking` | 2 tracked spans and 1 other, 2 threads, 2 attempts, 2 jobs | 504 k | `UploadsSettle`, `LaterCallsPass`, `ShutdownReturns` |
| `voice_session` | 3 calls in batches of any size, 2 lost connections | 117 k | `EveryCallAnswered`, `OverForOneReason`, `RunEnds` |
| `resume_triggers` | lists of up to 2 values of all 27 classes, as a job and locally | 308 k | `Covered`, `ReadsFit`, `WokenUp` |
| `services` | the thirteen models of `MCServices`, each with the instance its comment there gives | 4.4 M | `StoresKept`, `DocumentsTrue`, `GatewayKeepsLimit`, `PagesAddUp`, `ChangesKept`, `WrappersHold`, `CallsScored`, `VerdictsRight` |

A property with several parts is the conjunction of named ones, each with its
own comment in its module:

| Property | Parts |
|---|---|
| `EndsUnlessWedged` | `SettlesUnlessPoolDies`, `WedgedForever` |
| `RunsAddUp` | `TypeOK`, `ReportedAtReturn`, `OwnSetRunClosed`, `OneRunPerItem` |
| `ShutdownDivides` | `LateNotCalled`, `NotCutShort` |
| `StopsEnd` | `NotWedged`, `GetterFreed`, `QuitEnds` |
| `NothingWaits` | `Settles`, `ShutdownReturns` |
| `UploadsSettle` | `Drained`, `FinalUnlessCrossed` |
| `OverForOneReason` | `NothingLeft`, `OneOutcome` |
| `StoresKept` | `AttachmentStore`: `FewOrphans`, `LinkedIsWhole`, `DeletedOnce`; `ContextIndex`: `AddedIsIngested`, `OwnIndexDeleted`, `OnlyLaterIngestions` |
| `DocumentsTrue` | `HeldIsTrue`, `TrueVerdict`, `RouteFollows` |
| `GatewayKeepsLimit` | `Capped`, `LoopsApart`, `Stripped` |
| `PagesAddUp` | `NothingMissed`, `NothingTwice`, `RefusedForMissing` |
| `ChangesKept` | `OrchestratorWork`: `EffectsAreOwned`, `InputIsThere`, `PaidAsFound`, `OverForGood`; `EntityRecords`: `RaisedIsClean`, `ReportIsTrue`, `ChangedOnce` |
| `WrappersHold` | `OverwritesAgree` (`UsedAsFound`, `RoutedWhereFetched`, `RoutesAgree`), `TraceKept` (`YoungestIsCurrent`, `DeeperIsParent`, `SilenceHolds`), `GuardrailsHold` (`NothingBadPasses`, `NothingBadReturns`, `AskedInOrder`, `RulesOnlyExcuse`) |
| `CallsScored` | `LongestFound`, `NothingOverlooked`, `OutputsCounted`, `OrderImpliesCount` |
| `VerdictsRight` | `RunScores`: `CountedOnce`, `ReductionsAgree`, `ScoresBetween`; `OutputMatches`: `SimilarityRight`, `LinesMatchWhole` |

`PausedRight` and `QueueCovered` have their module's `TypeOK` as a conjunct; of
the other models with proofs, but for those of `Services`, `TypeOK` is a theorem
or a part of one (section 5).

### What they show

- **`parallel_eval`**: for any order of completion and any evaluations that
  raise, each item is awaited once, a returned list holds every result at its
  index, a failure is never swallowed, and the call ends but in one situation,
  which is exactly characterised: all workers dead, producer not finished.
  `Refines` says that nothing else is observable.
- **`eval_reporting`**: if no call fails, the backend ends with exactly one run
  per item that says how it ended, and a suspended item's is open; only an item
  whose input could not be generated has none. Whatever fails, an item has one
  run and at most one more for each failure, one of them at most has a verdict,
  and no final verdict changes, also across a resumed process; and the process
  ends, except when evaluations escaped from every worker while items were left.
- **`chat_bridge`**: whatever the order and number of answers, a wait returns
  an answer of its own tool, an answer ends one wait, and an answer is lost
  only to a later one of its tool, with a cancelled wait that already had it, or
  with the link. A wait gets its round's answer if the client repeats none of
  that tool. Each wait ends, unless what the client sent for its round is gone,
  and one of the tool's answers with the link or with a cancelled wait.
- **`dispatcher`**: the semaphore is neither leaked nor released twice and
  `_futures` is exact, although the done callback may run on two threads; two
  shutdowns racing each other do not cut short what was dispatched before; a
  dispatch called after a shutdown returned never reaches the provider; and a
  provider that hangs does not keep the loop from closing.
- **`job_server`**: a job sees its own variables and the server's, and afterwards
  the environment is as it was, however the job ended. One with a directory is
  in it. One without is where the server was started, and the process is back
  there after each job, unless the server's own directory was ever out of reach:
  then a job without one may run in the directory of the job before it
  (section 6). Every request is answered whatever becomes of the directories.
- **`debug_session`**: what the debugger is shown is where the thread stands
  until it is resumed; an answer ends the wait it is for unless the debugger
  repeats itself; a quit at any time ends the session; a stop leaves neither
  the thread in a pause nor a pool thread in the queue; and although a resume
  handled just before the wait is lost, a debugger that repeats its answer gets
  to the end of the program.
- **`telemetry`**: with the one exception of section 6, an event in the queue is
  marked, and is sent or given up after two attempts without an explicit
  flush; a reset or an exit leaves nothing behind and does not deadlock with
  the worker it joins.
- **`studio_sync`**: a push that was let through without a question overwrites
  or deletes only contents its developer has pushed or pulled, if the
  workspace is not blind and nobody else's command changed the project in
  between; both exceptions are needed (section 6 for the first). Each push that
  changes the project raises its version, but one that raced another or could
  not read the version. A command nobody disturbs does what it is for: the push
  mirrors the workspace, the pull brings everything, the clean-up deletes no
  file. Every command ends.
- **`live_tracking`**: the service ends with a span's final status unless the
  two uploads were in the hands of two threads at once; nothing is sent through
  a closed client; tracking raises in the program only in a call of a child that
  was fetched before its job's shutdown was over, never in one begun later; and
  a shutdown returns although the service fails.
- **`voice_session`**: over a connection that was never lost, a session the
  service ends has given it a result for every call, but for those it worded
  wrongly or the drain's timeout cut off; the reason and the detail are of one
  event; no task is left and the session returns, also if tools hang.
- **`resume_triggers`**: a suspended run has a trigger per value, with its work
  under way and, as a job, known to Orchestrator; it resumes on finished work
  only, with the raw item exactly if it asked for that; and once work is over
  it is woken, also if a sibling's work never ends.
- **`services`**, model by model:
  *attachments and indexes*: a call leaves more than one record only if an
  answer was lost; what hangs on a job has its content unless the storage
  refused it; an added file is in an ingestion unless the service refused that;
  a delete by name takes the index that was looked up, never one made anew.
  *Documents*: whatever chain of calls led to it, a result is of an operation
  that ended so, an error tells what happened, and an extraction goes to the
  version its classification came from.
  *Gateway*: the limit in force holds over any sequence of loops and limits, and
  no call meets a semaphore of a loop that is gone.
  *Pages*: an entry that was there all along is missed only if an earlier one
  went, and listed twice only if one came; keys are refused only for one that
  is not there.
  *Changes*: a job is started, the items of a call added, a transaction made or
  completed, a record changed once, and by the call that asked, unless an answer
  was lost; no job starts before its input is stored; a payload goes to the
  trigger that was looked up; a job that was killed is over when `stop` returns,
  one stopped softly was asked to stop; a batch reports of each record what
  became of it.
  *Overwrites*: a resource that was found under an overwrite is the one used;
  an entity is queried in the folder it was fetched from; services with a plan
  and without send it to the same place.
  *Tracing*: the parent is the deepest span the registry knows of, across two
  frameworks, and beneath an unrecorded function nothing is recorded unless
  the other framework's span is taken as parent.
  *Scores*: the order's score is the longest common subsequence, by sanitized
  names; matching leaves over no call an expectation could have had; what was
  called in the expected order is counted in full if it goes by sanitized names.
  A datapoint that has a result counts once in its set's metrics: one without
  criteria only if it failed. Two JSON values score 1 exactly if every expected
  leaf is there. A text that is the one expected is so in each line, which is
  right or, negated, wrong; and one that is so in each line has its lines.
  *Guardrails*: what a guardrail that blocks or redacts finds bad reaches neither
  the function nor its caller; guardrails are asked outer first going in, inner
  first coming out, each at most once a stage.

### Bounds, and why they are enough

- **Pool**: more items than workers, so that the queue fills and the pool can
  die with entries left; two workers, so that one can die and one live.
- **Reporting**: two items and two workers give every pair of handlers that
  interleave. `MaxFaults = 2` lets one fault hit a creation, which then
  leaves a second run behind, and another its update or the set's;
  `MaxResumes = 1` is the shortest history in which a later process finds an
  earlier one's rows.
- **Chat**: a repeated answer needs two copies; a confusion of rounds needs a
  tool with two; a confusion of tools needs two. Cancellations and drops are
  capped at one: each resets the bridge to a state reached without it, and one
  drop lets any of the answers under way go under.
- **Dispatcher**: one slot makes the second dispatch meet the cap; two
  shutdowns are what the unlocked test-and-set needs. Three dispatches over two
  slots with one shutdown (451 k states) agree.
- **Job server**: one job per combination of channel and directory; the jobs'
  order and their endings are free. `Fragile` is the server's directory, to
  which the way back leads, and that of one job, which is where it cannot go or
  where the process is left.
- **Debug**: a function called twice sees its frame's breakpoints consumed
  (`_hit_lines`) and restored; two files exercise the per-file test; one edit
  changes breakpoints or step mode once between any two steps.
- **Telemetry**: a queue limit of two with two events makes the queue drain
  itself, and one event below the limit waits for the worker; one reset gives
  two clients and two workers; an event gets two attempts as in the code.
- **Push and pull**: an overwrite needs two workspaces; the folder's deletion
  needs a file in it and one outside; a blind workspace that overwrites needs a
  push of each and a third command. With 3 edits and 3 commands, and with 2
  edits and 4 commands (1.3 and 1.4 million states), the properties hold too,
  and with `Prefixed` larger than `InFolder`.
- **Live tracking**: a crossing needs two threads and two uploads of a span; a
  second job shows what a span of the first does to it; two attempts are one
  retry.
- **Voice**: three calls give a batch beside a later one; a connection lost
  twice is lost again after the library made it anew.
- **Resume triggers**: every class of value is there in every pair; a third
  sibling repeats what a second does.
- **Services**: each request is tried twice, which is the least that tells a
  retry from a first attempt; two calls are what can come between one another's
  requests, and symmetric. Keys, ids and rows are as many as these attempts can
  draw, so that a call never lacks one. Six document calls are the longest chain without a
  repetition (classify, validate and retrieve, extract, validate and retrieve).
  Three LLM calls exceed both limits; two loops are one change of loop. Four
  entries in pages of one or two cross a page's edge in every way, with a
  skip limit that is reached. Two overwrites can lead to one another. Four
  spans let two generators overlap under a third function. Three tool calls
  against three expected ones are enough for two matchings of different size,
  and one name of two spellings for every mixture of the two; three evaluations
  of two datapoints, one of which may lack criteria, for a repetition beside
  another. A bulk of two items is the least that can be made in part.

### Fairness

Weak fairness of what a scheduler runs, and nothing of what a person or a
remote party does unless the property says so.

- `ParallelEval`: each task of the pool and the caller runs, and a started
  evaluation ends. The evaluation's own timeout is the agent's.
- `EvalReporting`: the event loop runs what is ready, the HTTP client's timeout
  ends each call, and the agent ends or suspends.
- `ChatBridge`: loop and socket handlers run, and the user answers each round
  once. Nothing forces a second copy, a cancellation or a lost link; a lost
  link comes back, as the socket reconnects automatically. An answer under way
  arrives once the link is there, unless it has gone under: nothing sends it
  again.
- `TrackDispatcher`: threads and loop run, a cancelled task ends. The provider
  need not answer, and no one has to call `shutdown`.
- `JobServer`: the lock is handed on in order (as `asyncio.Lock` does) and
  commands end.
- `DebugSession`: thread, stream and pool thread run. The debugger need not do
  anything; `SessionEnds` alone assumes in its own statement that it answers
  and that its messages arrive.
- `TelemetryFlush`: each thread that was started runs; a lock is free
  infinitely often and the waiting thread gets it.
- `StudioSync`: a command goes on until it ends; its requests time out and its
  developer answers the prompt. No developer has to do anything.
- `LiveTracking`: the pool's threads run and the HTTP client's timeout ends each
  attempt; the shutdown runs once it was called. No span has to end.
- `VoiceSession`: the event loop runs the handlers and `run()`, its timeouts go
  off, and a cancelled task ends. A tool need not return, nor the service end
  the session.
- `ResumeTriggers`: the run goes on making triggers, Orchestrator (or the poll)
  wakes it for one that fired, and the runtime reads each. Nothing is assumed
  of the work.
- `services`: none; it checks safety only.

`CHECK_DEADLOCK FALSE` is set in every configuration: all these programs end.

## 5. Proofs

The theorems hold for every value of the constants that satisfies the named
assumptions of the module; TLC evaluates these on each run.

**`ParallelEval`** (`PoolAssumption`: a natural number of items, a finite
non-empty set of workers, a marker that is no item). `OutputComplete` is not
inductive: it says nothing before the call returns. The invariant describes how
the pool works up to there: the queue is always the segment of the producer's
fixed schedule that was put and not taken (`QueueIsSegment`), every item of the
taken prefix is in exactly one place, a result or a worker's hands
(`TakenIsPlaced`, `OnePlace`), and a worker leaves only when the prefix covers
all items (`LeftMeansTaken`). Hence when all left, all items have results.
From it follow `OutputIsComplete`, `ItemsOnce`, `FailureIsNotLost`,
`TypeCorrect`, `MarkersAreLast` (no worker leaves while an item waits),
`TaskDoneBalanced`, and `Refinement`: every step of the pool is a step of
`BoundedMap` or a stutter.

**`ChatBridge`** (`ChatAssumption`, `SentinelAssumption`: each tool has rounds,
and `None` and `Waiting` are no answers). The invariant adds to the properties
where an answer may be and for whom (`Routing`), that it is in one place
(`Exclusive`), that copies are numbered so that a new one is nowhere yet
(`Numbered`), and that the client answers rounds the tool has (`Shown`). It
gives `WaitsGetTheirAnswers`, `AnswersAreUsedOnce`, `AnswersAreKept`,
`WaitsAreNotStranded` and `TypeCorrect`, for any number of tools, rounds,
copies, cancellations and lost links.

**`TrackDispatcher`** (`DispatcherAssumption`: finitely many calls, a positive
cap). `Accounting` ties a dispatch's stage to its future and task (`Stages`) and
says each posted callback is there once (`Posted`); from it come
`SlotsAreAccounted`, `FuturesAreTracked`, `CallsAreCapped` and `TypeCorrect`.
`LateIsNotCalled` adds that the event stays set. `DrainsAreComplete` follows the
drain through its stages: a snapshot covers what returned before and is not
done, also for the other shutdowns that found the event clear (`Covered`);
after its wait these are done (`Settled`); so they are when the loop is told to
stop, and delivered once it stopped (`Stopped`), as nothing is cancelled before
(`Undisturbed`). It holds for any number of racing shutdowns.

In `ChatBridge`, `RoundsAreRight` adds the history of the rounds (`History`): the
client answers only rounds it was shown, and a round that is over has returned
an answer; so what a wait gets later is the current round's.
`ResultsAreComplete`, `AnswersAreRight`, `CallsAreAccounted`, `ShutdownsDivide`,
`UploadsAreSettled` and `SessionsAreOver` join the parts into the properties the
runs check.

**`JobServer`** (`ServerAssumption`: which requests are IPC, misplaced or without a
directory; any number of them). While the server is
up a thread runs only between its taking the lock and its giving it back
(`HolderRuns`), so one at most runs, and the environment is the
baseline's and the holder's. The holder's `original_cwd` is the server's own
directory because that was restored before the lock was free, as long as it was
never out of reach (`Restorable`); the environment needs no such condition.
Hence `JobsAreIsolated`, for any directories that may disappear. Both parts fail
once the server is down, when a thread may outlive its request, and so the
property says `up`.

**`LiveTracking`** (`TrackingAssumption`: finitely many spans, at least one
thread, attempt and job). One pool at most has work, that of the current job
(`OneJob`), and its queue is first in, first out (`StartFirst`, `QueuedStart`):
the end of a span is taken up only after its start, and a start still in hand
when the end was taken up makes the span crossed (`StartInHand`). So what is
stored last is final (`StoredFinal`): `FinalStatusKept`, `ReleasedPoolsAreDone`.
And a child a thread is about to call was fetched before the shutdown of its job
was over, because the list is empty when it is (`Calling`): `LaterCallsAlwaysPass`.

**`VoiceSession`** (`VoiceAssumption`). Over a connection that was never lost the
inbox holds the calls in order and the end of the session behind them
(`InOrder`); so when the end is handled every call has been, and has a task or
a result (`Served`); and the session is closed only when no task is left
(`DrainEmpties`). Hence `CallsAreAnswered`, `NoTaskIsLeft` and `OutcomeIsOne`,
for any number of calls and lost connections.

**`ResumeTriggers`** (`TriggersAssumption`). First what the two tables make of
each class of value, and what a read computes from a trigger and the state of
its work; then the invariant: each trigger made so far is the one its value
asks for and has its work (`Made`), what was announced was saved (`Announced`),
and a suspended run has all of them (`Complete`). `NothingIsForgotten` and
`ReadsAreFit`, for lists of any length.

**`StudioSync`** (`SyncAssumption`). The invariant says of each workspace what
its command knows of the project as long as nobody disturbed it: the cached
structure is the project's (`Fresh`), what was compared and not found modified
is equal (`Compared`), the prepared version is above the project's
(`Prepared`), what was downloaded is there (`Fetched`), the folder is empty
(`Emptied`). The heart is `Knowing`: in a workspace that is not blind the
version is at most the project's, and equal to it only if the developer knows
every file. A push keeps that of its own workspace because it knows what it
wrote, and of the others because it raised the version, which is `Prepared`;
or else they become blind. `Agreed` carries it from the version check to the
migration. `NothingIsLostSilently`, `VersionsGrow` and `CommandsAreFaithful`
(that is, `Undisturbed`), for any number of workspaces, files and commands.

**`EvalReporting`** (`ReportingAssumption`: a finite set of items, bounds that
are numbers). The stage of the process, of each item and of each bus task go
together (`Control`, `Items`), and the ids the reporter holds lead to rows of the
process's set run (`Ids`, `First`). Only the first process makes runs, none before
its call and without failures one of each item (`Once`); each failure adds one at
most (`Few`), and the reporter is told of one at most, before it updates it
(`Making`), so a row is in progress until the one update of it (`Open`) and of
several one has a verdict (`Single`). While nothing failed every handler found
what it looked for (`Faultless`), so a run that returned has reported every
verdict. `RunsAlwaysAddUp` and `FinalVerdictAlwaysKept`.

**`TelemetryFlush`** (`TelemetryAssumption`). That what is queued is marked pending
rests on who may yet mark it (`Covered`): an event on its way to set the mark, or
a flush that has cleared it and has yet to look at what is left; with both locks
free there is neither. That a shutdown leaves nothing behind rests on the locks
(`Locked`), on the client drained under them being the current one (`Holding`),
and on the queue being empty when the drain ends (`Emptied`). `QueueAlwaysCovered`.

**`DebugSession`** (`DebugAssumption`). A breakpoint event is the last of the queue,
and of the thread that waits where it says (`Queued`), so whoever takes it finds
the thread there, and nobody wakes it until the next stream does (`Frozen`); an
answer under way while a pause is waited for is the answer to that pause unless
the debugger repeated one (`Numbered`). `AlwaysPausedRight`.

**The models of `Services`** (`ServicesAssumption`, which is `StoreAssumption`,
`IndexAssumption`, `DocumentAssumption`, `GatewayAssumption`, `PagedAssumption`,
`WorkAssumption`, `RecordsAssumption`, `OverwritesAssumption`, `TraceAssumption`,
`ScoresAssumption` and `GuardrailsAssumption`;
with it `RequestAssumption` on the retries). A behaviour stays with its service,
where each step is one of its model (`OneService`), so each has an invariant of
its own:

* `AttachmentStore`: a key that was drawn belongs to one call and is not drawn
  again, so what a creating call says of it only a deletion can undo (`Fills`); a
  key that a call has stands for a record, a file or a deletion (`Has`); a call
  that learnt nothing of its attempts has made fewer records than attempts
  (`Makes`). What the steps of other calls respect is named (`Relied`).
* `ContextIndex`: a file is in the bucket before the ingestion is asked for, so the
  one that waits will find it (`Adds`); an index that is gone does not come back
  under its id (`Served`); accepted ingestions are counted, so one under way when
  the question comes that was not when it was checked is a later one (`Asks`).
  With the former `StoresAlwaysKept`.
* `LlmGateway`: a slot of the current semaphore is free or somebody's, none is free
  while a call waits, and who waits is in its queue, once (`Slots`); it holds only
  because a semaphore of another loop is never used again (`Held`).
  `LimitAlwaysKept`.
* `ResourceOverwrites`: what is recorded of a method or a query is what it does
  under the overwrites of its time, so each property is one of the operators.
  `OverwritesAlwaysAgree`.
* `DocumentWork`: a call asks for the operation its route leads to (`Leads`), and an
  operation seen to be over stays as it was seen (`Over`). `DocumentsAlwaysTrue`.
* `OrchestratorWork`: what a call had done stays done (`WorkStands`) and is done
  once, because a job or a transaction is made where none was, a job is killed
  for good and a trigger is paid once; only to ask a job to stop is something two
  calls may both do (`WorkApart`). Each attempt does what one request asks for at
  most, for a bulk up to all of its items, so a call which learnt nothing has
  done less than it tried (`WorkCounted`).
* `EntityRecords`: a request is done up to the first record that is refused, or but
  for those that are (`DoneIs`), so its answer tells of each record; rows that
  were inserted are not free (`Inserts`). With the former `ChangesAlwaysKept`.
* `PagedLookup`: what was there all along is got, or the offset has yet to reach
  its place, and what was got is behind the offset (`Skipped`), but for removals and
  additions before it, which the properties name. A page that something comes
  after is full (`PageFull`: the places of a set are 1, 2, ... up to its size), so
  no walk stops before the last; a token does not move (`Resumed`).
  `PagesAlwaysAddUp`.
* `TraceParents`: a parent is older than its child, so the lines of a registry exist
  (`LinesExist`), and where the registry knows all between two spans it leads
  from the lower to the upper as the truth does (`LinesAgree`): the lower one is
  chosen. Frames that are over in order give back the youngest of those begun
  before them (`Nested`), and silence is handed down (`Quiet`, `Turned`).
  `TraceAlwaysKept`.
* `Guardrails`: arguments that are still bad have passed only guardrails that could
  not tell or do not replace them, those that are excluded are what was given
  (`RailPassed`), and so with the value on its way out (`RailLeft`); those who were
  asked are those due up to where the call is, in their order, and the layers
  that wrapped the value are the inner ones (`RailInTurn`). Of guardrails of
  rules, one more rule never makes one fail (`RailOneMoreRule`): a rule that makes
  the decision wait for the output is itself one of those that must be violated
  then. `GuardrailsAlwaysHold`, for any number of guardrails, parameters and rules.
* `ToolCallScores`: the table and the way back through it exist as functions, one
  diagonal after the other (`ToolTableExists`, `ToolWayExists`), and in each of its
  fields the table counts a common subsequence which the way back finds and none
  is longer (`ToolLongest`). The two greedy matchings pair no call twice and leave
  over no call that an expectation without one could have had (`ToolTakingIs`);
  for outputs, if all calls have an id or none has, no pairing counts more
  (`ToolNothingLeftIsMost`). And if the calls are the expected ones in their order by
  sanitized names, what was called goes by such names and what is expected has
  one spelling, every count is right (`ToolOrderIsCounted`): without the second
  it is not (section 6), for a call is counted by the name it has.
  `CallsAlwaysScored`; `WrappersAlwaysHold` joins overwrites, spans and guardrails.

Where an argument goes by induction, over places, pages or lines, it is the least
counterexample that is led to a contradiction (`HasMin`, from the well-foundedness
of `<`): an induction theorem with an operator as its parameter cannot be used.

Only model-checked: all liveness (`EndsUnlessWedged`, `Ends`, `WaitEnds`,
`LoopCloses`, `Answered`, `StopsEnd`, `SessionEnds`, `NothingWaits`, `CommandEnds`,
`RunEnds`, `WokenUp` and live tracking's `ShutdownReturns`), which is beyond the
proof system with its fairness; and `VerdictsRight`. Of that, `OutputMatches`
computes with RECURSIVE operators over nested data, beyond it too; `RunScores`
compares means of fractions, that is, sums by folds of any length, about which a
theorem would need an induction with an operator as its parameter, and products
of unknowns, which its solver does not decide. It is checked for all inputs
within its bounds.

## 6. Disagreements found

What a doc, a comment or a name in the repository says and the code does not do.
None has a run of its own; the property each violates is in its module, and a
configuration with it alone (as an INVARIANT if it is a state predicate) shows
the violation: over the module with the constants of its run, or over
`MCServices` with `service` restricted to the one.

The first deserves a word. A push asks before it overwrites files at Studio Web
only when the workspace's `codeVersion` is behind (`_cli/_utils/_common.py:169`),
and that number does not say what the workspace has seen: `uipath init` writes
1.0.0 (`cli_init.py:259`), the version of everybody's first push, and a push
writes the incremented version to the workspace before it sends anything
(`sw_file_handler.py:481`) and leaves it there when the migration fails. Such a
workspace counts as up to date, and its next push overwrites another
developer's files without the question of `cli_push.py:210`.

| Module, property | Instance | What the code does |
|---|---|---|
| `StudioSync`, `NeverUnasked` | 3 commands | see above; `NoSilentLoss` is the same with the exception for workspaces that are blind |
| `EvalReporting`, `FaultPropagated` | `Verbose = FALSE`, no faults, no resume | the agent's output is kept only with `--verbose` (`runtime.py:771`), and the overall status is computed from what is kept: without it a faulted agent leaves SUCCESSFUL, although line 556 says "Determine overall status - propagate status from inner runtime" |
| `JobServer`, `CwdIsolated` | as in the run | `_server_core.py:51` says "Run one command with per-job env/cwd isolation", but the way back to the server's directory may fail and is passed over (lines 103-106): the process stays in the job's directory, and the next job without one runs there |
| `ChatBridge`, `RightCall` | `MaxCopies = 2` | answers are keyed by tool call id alone (`_bridge.py:543`): a repeated confirmation is taken as the tool's end |
| `TrackDispatcher`, `StoppedLoopRefuses` | 1 call, 1 shutdown | a loop that is stopped and not yet closed takes a call without `RuntimeError` (`_live_track_event_dispatcher.py:197`): it never runs, and its slot is not rolled back |
| `DebugSession`, `CompletionReported` | `"exit" \in Endings` | `_run` catches `Exception` only (`functions/debug.py:357`): after `sys.exit` no event is queued and the stream waits for ever |
| `TelemetryFlush`, `SentPeriodically` | 2 events, 1 flush, 1 reset | a flush that read the client before a reset clears the mark of the new client's first event (`telemetry/_track.py:403`): it is not flushed periodically |
| `LiveTracking`, `FinalStatusStands` | `MaxWorkers = 2` | a RUNNING upsert in one thread may reach the service after the final one of another: the span stays running, although line 19 says "On span end: Upsert with final status (OK/ERROR)" |
| `LiveTracking`, `RaisesOnlyInShutdown` | as in the run | a thread that fetched the child before the shutdown submits to its closed pool after it, and submit raises in the program (`_live_tracking_processor.py:70`), although `core:tracing/trace_manager.py:176` says "Removes child processors from the delegating processor so they no longer receive span events" |
| `VoiceSession`, `ReadyMeansServed` | `MaxDrops = 1` | the library reconnects while the session drains, the connect handler sends TOOLS_READY, on which the service "gates tool dispatch" (line 170), and the calls it then sends are dropped |
| `ResumeTriggers`, `ReadsReport` | `WaitBatchTransform` | its payload has no `destination_path`, which the reader asserts (line 333); and the error of a failed extraction is not turned into the documented `UiPathRuntimeError` |
| `AttachmentStore`, `UploadFailureRaised` | as in the run | the status of the blob storage's answer is not looked at (`platform:orchestrator/_attachments_service.py:563`): a refused upload returns a key without content, although `_jobs_service.py:1086` says "Exception: If the upload fails." |
| `AttachmentStore`, `DownloadFailureRaised` | as in the run | nor on a download (line 294): what the storage said instead is written to the file; line 243 says it raises |
| `ContextIndex`, `ConflictNamed` | as in the run | `ingest_data` turns a conflict into `IngestionInProgressException` in a clause for `httpx.HTTPStatusError` (`_context_grounding_service.py:1718`), but `request` raises `EnrichedException`, which is none: what line 1962 documents is never raised |
| `ContextIndex`, `SearchRaises` | as in the run | `unified_search` does not look whether the index it found is being ingested (line 1596), as `search` and `unified_search_async` do, although `platform:errors/__init__.py:10` says "Raised when a search is attempted on an index during ingestion" |
| `DocumentWork`, `ValidationHasRoute` | as in the run | `start_ixp_extraction_validation` passes a tag and no extractor (`_documents_service.py:1822`): for an extraction of a version, which has no tag and which line 1795 ("The extraction response from the IXP extraction process") admits, the address names no extractor |
| `ResourceOverwrites`, `AppliedOnce` | overwrites of x by y and of y by x | `upload` is decorated and calls the decorated `retrieve` (`platform:orchestrator/_buckets_service.py:589`): the overwrites are applied twice and cancel |
| `ResourceOverwrites`, `KeyAllowsOverwrite` | an overwrite, and a call that gives its folder's key | the overwrite sets the path and leaves the key, and `header_folder` raises `ValueError` at both (`platform:common/_folder_context.py:32-35`) |
| `ResourceOverwrites`, `RoutedById` | an overwrite by id | a service without a plan takes what the overwrite's key names for the entity's name (`_entity_resolution.py:257`); a plan looks it up by id first (line 323). The former has no route for an entity that is overwritten by id |
| `ResourceOverwrites`, `EachIsRouted` | two entities of one name | the folders are kept by name (line 351): both are queried in the last one's folder |
| `TraceParents`, `AllSilent` | as in the run | beneath a function that is not recorded another framework's span may be the parent, and what hangs on it is recorded, although `decorators.py:300` says "If False, current span and all child spans are not captured" |
| `TraceParents`, `GivenBack` | as in the run | two traced generators that overlap: the first to end gives back what it found, the second then the ended span of the first, which stays current |
| `TraceParents`, `AlwaysDeeper` | as in the run | the registry compares depths only of spans it has seen; `span_utils.py:177` says "always attached to the deepest/most specific parent" |
| `ToolCallScores`, `ExactIsExact` | as in the run | without `subset` only the expected arguments are compared (`evaluators_helpers.py:514`): a call with others beside them matches, although `docs/eval/tool_call_args.md:34` says "exact arg matching required" |
| `ToolCallScores`, `ArgsCounted` | as in the run | each expectation takes the first call that fits, which may be the only one that fits a later expectation: the score depends on the order, although line 458 says "This function does not check the order of the tool calls!" |
| `ToolCallScores`, `StrictIsAll` | as in the run | strictly, the first call of the tool whose output differs makes the score 0 (line 608), also if another call matches; line 552 says "will return 0 if not all expected tool calls are matched" |
| `ToolCallScores`, `RightIsFull` | as in the run | if no call was made the score is 0 (lines 404-411), also where that is what every count asks for ("= 0"); `docs/eval/tool_call_count.md:59,65` says "Correct count match = 1.0 for that tool" |
| `ToolCallScores`, `SpellingsAgree` | as in the run | calls are counted by the name they have (`evaluators_helpers.py:108-114`), and only the expected name is sanitized (424-428), where order, arguments and outputs sanitize both (51-64): "Get Weather" called where "Get_Weather" is expected is in order (1.0) and not counted (0.0) |
| `RunScores`, `DeduplicatedAlike` | as in the run | `runtime.py:251` says "mirroring compute_evaluator_scores": the scores average the results of a datapoint, the dataset keeps the first with a justification |
| `OutputMatches`, `RightIsRight` | as in the run | equal outputs of blank lines only score 0 line by line; with `negated` (`exact_match_evaluator.py:136`) an output that differs in one line is right as a whole and wrong in the others; and a key with a path makes every line an error, although `line_by_line_utils.py:110` says "Wrap lines in the same structure as original output" |
| `Guardrails`, `TypeKept` | as in the run | a plain value that an action redacted comes back as a dict, although `platform:guardrails/decorators/_core.py:197` says "Reconstructed value of the same type as *original* where possible" |
| `Guardrails`, `SkippedIsPassed` | as in the run | rules of words and numbers skip values of other types (`core:guardrails/_evaluators.py:229`) and answer "No fields to validate" with a pass, but fields that have only such values count as violated |

Met while modelling, with no property of their own (their effects are in the
properties of their runs): an item whose input cannot be generated has its
`UPDATE_EVAL_RUN` published without a `CREATE_EVAL_RUN` (`runtime.py:639-653`
against 890-927), so the backend never hears of it; a `POST` whose answer was lost
is sent again whatever it creates (`platform:common/_base_service.py:230-238`), so
an item may get a second run, which stays in progress; a wait whose answer went
under with the link is never given up (`_chat/_bridge.py:503`); and an evaluator
without criteria for a datapoint gets a zero for it when the evaluation fails,
and no result when it does not (`runtime.py:780-782` against 899-906).

Met besides: the `RedactAction` of the documentation
around a plain
function never finds a text to redact, as its data is always a dict
(`docs/core/guardrails.md:299`); `StopJob` over IPC answers true and stops
nothing (`cli_server_ipc.py:50` against line 82); `stop()` of the breakpoint
controller lets the user's function run to its end (`functions/debug.py:95`
against line 281; `NotWedged` says that it then does end); the failed verdict
`execute` publishes right before it raises may never reach the backend
(`runtime.py:598`), which is why `RunsAddUp` speaks of runs that return; a chat
turn whose link is down when `executingToolCall` is emitted has consumed the
confirmation and ends with an error (`_bridge.py:470`); a debugger that misses
the pause's message is not told again (`_debug/_bridge.py:736`), and only a
quit ends that wait.

## 7. How to run

    tlc -config ParallelEval.cfg ParallelEval
    tlapm EvaluationProofs.tla

and likewise for the other configurations and modules of section 3; `services`
takes about three minutes on two workers, the other runs up to one,
`ChangeProofs` and `ServicesProofs` ten to fifteen minutes each, the other proofs up
to a few minutes.
