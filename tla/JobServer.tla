------------------------------- MODULE JobServer -------------------------------
(***************************************************************************)
(* `uipath server': jobs requested over HTTP (cli_server.py) and over      *)
(* uipath-ipc (cli_server_ipc.py) share one core (_server_core.py), which  *)
(* runs one command at a time on a worker thread.  The environment and the *)
(* working directory belong to the process, so the core sets both for each *)
(* job, under one lock, and restores them.                                 *)
(*                                                                         *)
(* The environment is the set of parties whose variables it holds; the     *)
(* directory is the server's or the one of a job.  A directory may be      *)
(* removed, or lose its permissions or its volume, at any time: to go      *)
(* there, or to ask where one is, may then fail.  A definition marked      *)
(* `variant' is a plausible mistake in the one below it; no action uses    *)
(* it.                                                                     *)
(***************************************************************************)
EXTENDS Naturals, Sequences, FiniteSets

CONSTANTS Jobs,      \* requests, each for one job
          Ipc,       \* those that come over uipath-ipc
          Misplaced, \* those whose working directory cannot be entered
          Homeless,  \* those without a working directory
          Fragile,   \* those whose directories may go out of reach (a bound)
          Server     \* the server as owner of variables and directory

ServerAssumption ==
    /\ Ipc \subseteq Jobs
    /\ Misplaced \subseteq Jobs
    /\ Homeless \subseteq Jobs \ Misplaced
    /\ Server \notin Jobs
    /\ Fragile \subseteq Jobs \cup {Server}

VARIABLES
    up,        \* the server accepts requests
    request,   \* of each job: "none", "waiting", "running", "replied", "cancelled"
    waiters,   \* those waiting for _state.lock
    holder,    \* who holds it: a job or Server for nobody
    env,       \* os.environ: whose variables are set
    cwd,       \* whose directory it is
    original,  \* original_cwd of the lock's holder
    missing,   \* whose directories were out of reach at some time: they may be still
    thread,    \* the worker thread of each job: "none", "running", "ended"
    outcome,   \* how the command ended: "none", "ok", "exit0", "exit" or "raised"
    reply,     \* the answer of each request
    stopped    \* jobs StopJob answered TRUE for while they ran

requests == <<up, request, waiters, holder, reply>>
process == <<env, cwd, original, missing>>
work == <<thread, outcome, stopped>>
vars == <<requests, process, work>>

Init ==
    /\ up = TRUE
    /\ request = [j \in Jobs |-> "none"]
    /\ waiters = <<>> /\ holder = Server
    /\ env = {Server} /\ cwd = Server /\ original = Server /\ missing = {}
    /\ thread = [j \in Jobs |-> "none"]
    /\ outcome = [j \in Jobs |-> "none"]
    /\ reply = [j \in Jobs |-> "none"]
    /\ stopped = {}

-------------------------------------------------------------------------------
\* handle_start and RunJob: a malformed request is refused before the core.
Refuse(j) ==
    /\ up /\ request[j] = "none"
    /\ request' = [request EXCEPT ![j] = "replied"]
    /\ reply' = [reply EXCEPT ![j] = "badRequest"]
    /\ UNCHANGED <<up, waiters, holder, process, work>>

\* A well-formed one asks for the lock.
Request(j) ==
    /\ up /\ request[j] = "none"
    /\ request' = [request EXCEPT ![j] = "waiting"]
    /\ waiters' = Append(waiters, j)
    /\ UNCHANGED <<up, holder, reply, process, work>>

\* Who may take the lock.
LockFree(j) == holder = Server /\ waiters # <<>> /\ Head(waiters) = j

\* The environment a job starts with: the baseline and its own variables.
StartEnv(j) == {Server, j}

\* The environment a job leaves behind, and where the process may then be: a
\* chdir that fails is passed over, and the process stays where it is.
LeftEnv == {Server}
KeptCwd == {cwd}                                              \* variant
LeftCwd == IF original \in missing THEN {original, cwd} ELSE {original}

\* The lock is taken, and getcwd raises: the request fails before the try.
Adrift(j) ==
    /\ cwd \in missing
    /\ request' = [request EXCEPT ![j] = "replied"]
    /\ reply' = [reply EXCEPT ![j] = "serverError"]
    /\ UNCHANGED <<holder, env, cwd, original, thread>>

\* The job's directory cannot be entered: the job fails at once (of the errors
\* not named there as one of the server), and the finally block puts things
\* back; the process has not moved.
NoPlace(j) ==
    /\ j \in Misplaced \cup (missing \ Homeless)
    /\ request' = [request EXCEPT ![j] = "replied"]
    /\ \E told \in IF j \in Ipc THEN {"failed"} ELSE {"badRequest", "serverError"} :
           reply' = [reply EXCEPT ![j] = told]
    /\ env' = LeftEnv /\ original' = cwd
    /\ UNCHANGED <<holder, cwd, thread>>

\* Environment and directory are set, and the command starts on a thread.
Enter(j) ==
    /\ j \notin Misplaced
    /\ request' = [request EXCEPT ![j] = "running"]
    /\ holder' = j
    /\ env' = StartEnv(j) /\ original' = cwd
    /\ cwd' = IF j \in Homeless THEN cwd ELSE j
    /\ thread' = [thread EXCEPT ![j] = "running"]
    /\ UNCHANGED reply

\* The next request has the lock.
Start(j) ==
    /\ request[j] = "waiting"
    /\ LockFree(j)
    /\ waiters' = Tail(waiters)
    /\ Adrift(j) \/ NoPlace(j) \/ Enter(j)
    /\ UNCHANGED <<up, missing, outcome, stopped>>

\* A directory is removed, or is out of reach for a while.
GoMissing(d) ==
    /\ d \notin missing
    /\ missing' = missing \cup {d}
    /\ UNCHANGED <<env, cwd, original, requests, work>>

\* The command sets variables or changes the directory as it runs.
JobWrites(j) ==
    /\ thread[j] = "running"
    /\ env' = env \cup {j} /\ cwd' = j
    /\ UNCHANGED <<original, missing, requests, work>>

\* The command returns, exits or raises on its thread.
JobEnds(j) ==
    /\ thread[j] = "running"
    /\ thread' = [thread EXCEPT ![j] = "ended"]
    /\ \E o \in {"ok", "exit0", "exit", "raised"} : outcome' = [outcome EXCEPT ![j] = o]
    /\ UNCHANGED <<stopped, requests, process>>

\* ExitCode, Unexpected and ClientError as the two channels tell them.
Answer(j) ==
    IF outcome[j] \in {"ok", "exit0"} THEN "ok"
    ELSE IF outcome[j] = "raised" /\ j \notin Ipc THEN "serverError" ELSE "failed"

\* async with gives the lock back however the block ends.
OnlyIfNotRaised(j) == IF outcome[j] = "raised" THEN j ELSE Server  \* variant
HolderAfter(j) == Server

\* The request's coroutine goes on: reply, restore, release.
Finish(j) ==
    /\ request[j] = "running" /\ thread[j] = "ended"
    /\ request' = [request EXCEPT ![j] = "replied"]
    /\ reply' = [reply EXCEPT ![j] = Answer(j)]
    /\ env' = LeftEnv /\ cwd' \in LeftCwd
    /\ holder' = HolderAfter(j)
    /\ UNCHANGED <<up, waiters, original, missing, work>>

\* StopJob answers True and does nothing.
StopJob(j) ==
    /\ up /\ j \in Ipc /\ request[j] = "running"
    /\ stopped' = stopped \cup {j}
    /\ UNCHANGED <<thread, outcome, requests, process>>

\* The server ends: every open request is cancelled, the running one through
\* its finally block, while its thread, which cannot be cancelled, goes on.
ShutDown ==
    /\ up
    /\ up' = FALSE
    /\ request' = [j \in Jobs |-> IF request[j] \in {"waiting", "running"} THEN "cancelled"
                                  ELSE request[j]]
    /\ waiters' = <<>> /\ holder' = Server
    /\ IF holder = Server THEN UNCHANGED <<env, cwd>> ELSE env' = LeftEnv /\ cwd' \in LeftCwd
    /\ UNCHANGED <<original, missing, reply, work>>

Next ==
    \/ \E j \in Jobs :
           Refuse(j) \/ Request(j) \/ Start(j) \/ JobWrites(j) \/ JobEnds(j) \/ Finish(j)
           \/ StopJob(j)
    \/ \E d \in Fragile : GoMissing(d)
    \/ ShutDown

Spec == Init /\ [][Next]_vars

\* The event loop runs; commands end.
LiveSpec ==
    /\ Spec
    /\ \A j \in Jobs : WF_vars(Start(j)) /\ WF_vars(Finish(j)) /\ WF_vars(JobEnds(j))

-------------------------------------------------------------------------------
TypeOK ==
    /\ up \in BOOLEAN
    /\ request \in [Jobs -> {"none", "waiting", "running", "replied", "cancelled"}]
    /\ waiters \in Seq(Jobs)
    /\ holder \in Jobs \cup {Server}
    /\ env \subseteq Jobs \cup {Server}
    /\ cwd \in Jobs \cup {Server} /\ original \in Jobs \cup {Server}
    /\ missing \subseteq Fragile
    /\ thread \in [Jobs -> {"none", "running", "ended"}]
    /\ outcome \in [Jobs -> {"none", "ok", "exit0", "exit", "raised"}]
    /\ reply \in [Jobs -> {"none", "badRequest", "ok", "failed", "serverError"}]
    /\ stopped \subseteq Jobs

\* While the server is up, a job sees the baseline and its own variables, and
\* one that has a directory is in it; between jobs the environment is as it was
\* when the server started, however the last one ended and whatever it changed
\* (_server_core.py:61-66, 107-108).  A job without a directory is where the
\* server was started, or where it went itself, and the process is back there
\* after each job, as long as the server's own directory was never out of reach:
\* if it was, the way back may fail unnoticed (_server_core.py:103-106).
NothingLeaks ==
    up => /\ \A j \in Jobs : thread[j] = "running" =>
                /\ env = {Server, j}
                /\ j \notin Homeless => cwd = j
                /\ Server \notin missing => cwd \in {Server, j}
          /\ holder = Server =>
                /\ env = {Server}
                /\ Server \notin missing => cwd = Server

\* Not so of the code: no job runs in another's directory, whatever happens to
\* the directories ("Run one command with per-job env/cwd isolation",
\* _server_core.py:51).  A way back that failed leaves the process in the last
\* job's directory, for the next job without one.
CwdIsolated ==
    up => \A j \in Jobs : thread[j] = "running" => cwd \in {Server, j}

\* Requests are served in the order they came: one that waits is never
\* overtaken, so each is answered if the commands before it end, or cancelled
\* (_server_core.py:58, 101-108).
Answered == \A j \in Jobs : request[j] = "waiting" ~> request[j] \in {"replied", "cancelled"}

=============================================================================
