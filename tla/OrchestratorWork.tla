--------------------------- MODULE OrchestratorWork ---------------------------
(***************************************************************************)
(* Work a program has Orchestrator do: jobs of other processes, which it   *)
(* starts, stops, restarts and resumes (uipath/platform/orchestrator/      *)
(* _processes_service.py, _jobs_service.py), and transactions of queues    *)
(* (_queues_service.py).  A call is a few requests, each tried again when  *)
(* it seems to have failed; meanwhile jobs suspend, end, and are resumed   *)
(* by others.                                                              *)
(*                                                                         *)
(* The synchronous and the asynchronous methods do the same.               *)
(* Orchestrator is external, and so is the upload of large input, of which *)
(* AttachmentStore has the steps.                                          *)
(*                                                                         *)
(* A definition marked `variant' is a plausible mistake in the one below   *)
(* it; no action uses it.                                                  *)
(***************************************************************************)
EXTENDS ServiceRequest, FiniteSets

CONSTANTS
    Calls,        \* calls of the program, concurrent with one another
    Ids,          \* of jobs and of transactions; bound: nothing is made once all were drawn
    Given,        \* the job that runs already
    MaxTriggers,  \* bound: how often it suspends
    MaxItems,     \* bound: of a bulk addition to a queue
    NoId

WorkAssumption ==
    /\ Given \in Ids /\ NoId \notin Ids /\ MaxTriggers \in Nat /\ MaxItems \in Nat \ {0}
    /\ "others" \notin Calls

VARIABLES
    work,     \* what became of each job and each transaction
    input,    \* where the input of a job is
    trigger,  \* the last trigger of the given job; 0 before it suspends
    paid,     \* for each of them that got a payload, the call it is of, or others
    call,     \* each call
    did       \* history: what each call had Orchestrator do, and with what

server == <<work, input, trigger, paid>>
vars == <<server, call, did>>

\* `on' is what it acts on, `key' the ones its answer names, `inbox' the trigger
\* a payload goes to; it makes `items', the whole of them or none or else some.
NoCall == [op |-> "none", pc |-> "idle", on |-> {}, key |-> {}, inbox |-> 0, input |-> "inline",
           strategy |-> "SoftStop", items |-> 1, whole |-> TRUE, tries |-> 1, blind |-> FALSE]

Init ==
    /\ work = [i \in Ids |-> IF i = Given THEN "running" ELSE "none"]
    /\ input = [i \in Ids |-> "inline"]
    /\ trigger = 0 /\ paid = [n \in {} |-> "others"]
    /\ call = [c \in Calls |-> NoCall]
    /\ did = [c \in Calls |-> {}]

At(c, pc) == call[c].pc = pc
Go(c, pc) == [call[c] EXCEPT !.pc = pc, !.tries = 1]
Becomes(c, r) == call' = [call EXCEPT ![c] = r]
Does(c, what, on) == did' = [did EXCEPT ![c] = @ \cup {<<what, on>>}]
With(f, x, y) == [z \in DOMAIN f \cup {x} |-> IF z = x THEN y ELSE f[z]]

\* n ids to draw, if so many are left.
NewIds(n) ==
    LET unused == {s \in SUBSET {i \in Ids : work[i] = "none"} : Cardinality(s) = n} IN
    IF unused = {} THEN {} ELSE {CHOOSE s \in unused : TRUE}

Active == {"running", "suspended", "stopping"}
Pending == IF work[Given] = "suspended" THEN {trigger} ELSE {}

\* The transactions the program knows: those its calls returned.
Transactions == UNION {call[c].key : c \in {d \in Calls : call[d].op = "transact" /\ At(d, "returned")}}

-------------------------------------------------------------------------------
(***************************************************************************)
(* Orchestrator: the given job suspends on a trigger, goes on when someone *)
(* else pays it, and ends.  One that was asked to stop runs on until it    *)
(* ends, and may suspend before it does.                                   *)
(***************************************************************************)
Suspend ==
    /\ work[Given] \in {"running", "stopping"} /\ trigger < MaxTriggers
    /\ work' = [work EXCEPT ![Given] = "suspended"] /\ trigger' = trigger + 1
    /\ UNCHANGED <<input, paid, call, did>>

PaidByOthers ==
    /\ work[Given] = "suspended"
    /\ work' = [work EXCEPT ![Given] = "running"] /\ paid' = With(paid, trigger, "others")
    /\ UNCHANGED <<input, trigger, call, did>>

Finish ==
    /\ work[Given] \in {"running", "stopping"}
    /\ work' = [work EXCEPT ![Given] = "ended"]
    /\ UNCHANGED <<input, trigger, paid, call, did>>

-------------------------------------------------------------------------------
(***************************************************************************)
(* Calls begin.                                                            *)
(***************************************************************************)
\* invoke: input above the limit goes to an attachment first.
BeginInvoke(c) ==
    \/ Becomes(c, [NoCall EXCEPT !.op = "invoke", !.pc = "make"])
    \/ Becomes(c, [NoCall EXCEPT !.op = "invoke", !.pc = "upload"])

\* stop, softly unless it is told otherwise, and restart go by key and look up
\* the ids.
BeginStop(c) ==
    \E on \in (SUBSET {Given, NoId}) \ {{}} :
       \/ \E strategy \in {"SoftStop", "Kill"} :
             Becomes(c, [NoCall EXCEPT !.op = "stop", !.pc = "resolve", !.on = on, !.strategy = strategy])
       \/ Cardinality(on) = 1 /\ Becomes(c, [NoCall EXCEPT !.op = "restart", !.pc = "resolve", !.on = on])

\* resume has the id of the inbox, or looks up one of the job's.
BeginResume(c) ==
    \/ Becomes(c, [NoCall EXCEPT !.op = "resume", !.pc = "find"])
    \/ \E n \in 1 .. trigger :
          Becomes(c, [NoCall EXCEPT !.op = "resume", !.pc = "deliver", !.inbox = n])

\* create_item; create_items, which commits all or nothing or else what it can;
\* create_transaction_item.
BeginQueue(c) ==
    \/ Becomes(c, [NoCall EXCEPT !.op = "add", !.pc = "make"])
    \/ \E n \in 1 .. MaxItems, whole \in BOOLEAN :
          Becomes(c, [NoCall EXCEPT !.op = "bulk", !.pc = "make", !.items = n, !.whole = whole])
    \/ Becomes(c, [NoCall EXCEPT !.op = "transact", !.pc = "transact"])

\* update_progress_of_transaction_item and complete_transaction_item.
BeginTransaction(c) ==
    \E t \in Transactions, op \in {"progress", "complete"} :
       Becomes(c, [NoCall EXCEPT !.op = op, !.pc = op, !.on = {t}])

Begin(c) ==
    /\ At(c, "idle")
    /\ BeginInvoke(c) \/ BeginStop(c) \/ BeginResume(c) \/ BeginQueue(c) \/ BeginTransaction(c)
    /\ UNCHANGED <<server, did>>

-------------------------------------------------------------------------------
(***************************************************************************)
(* Jobs.                                                                   *)
(***************************************************************************)
\* variant: the job is started whether the upload succeeded or not
StartAnyway(c) ==
    /\ At(c, "upload")
    /\ \E at \in {"file", "refused", "nowhere"} : Becomes(c, [Go(c, "make") EXCEPT !.input = at])
    /\ UNCHANGED <<server, did>>
\* The upload raises, or is done; what the storage refused counts as done.
Upload(c) ==
    /\ At(c, "upload")
    /\ \/ Becomes(c, Go(c, "raised"))
       \/ \E at \in {"file", "refused"} : Becomes(c, [Go(c, "make") EXCEPT !.input = at])
    /\ UNCHANGED <<server, did>>

\* Orchestrator restarts what is over.
Allowed(op) == op = "restart" => work[Given] \notin Active

\* How many it makes: some of the items may fail.
Sizes(c) == IF call[c].whole THEN {call[c].items} ELSE 0 .. call[c].items

\* StartJobs, RestartJob and AddQueueItem each make a new one, which the answer
\* names; BulkAddQueueItems makes several, and names none.
Make(c) ==
    /\ At(c, "make")
    /\ \E a \in Attempts, n \in Sizes(c) : \E new \in NewIds(n) :
          /\ a.applied => Allowed(call[c].op)
          /\ IF a.applied
             THEN /\ work' = [i \in Ids |-> IF i \notin new THEN work[i]
                                           ELSE IF call[c].op \in {"add", "bulk"} THEN "new" ELSE "running"]
                  /\ input' = [i \in Ids |-> IF i \in new THEN call[c].input ELSE input[i]]
                  /\ Does(c, "made", new)
             ELSE UNCHANGED <<work, input, did>>
          /\ Becomes(c, Tried(call[c], a, [Go(c, "returned") EXCEPT !.key = IF call[c].op = "bulk" THEN {} ELSE new]))
    /\ UNCHANGED <<trigger, paid>>

\* variant: those that were found are stopped
SomeFound(on) == on # {NoId}
\* _resolve_job_identifiers refuses all if one is missing.
AllFound(on) == NoId \notin on

Resolve(c) ==
    /\ At(c, "resolve")
    /\ \E a \in Attempts :
          Becomes(c, Tried(call[c], a, IF ~AllFound(call[c].on) THEN Go(c, "raised")
                                       ELSE Go(c, IF call[c].op = "stop" THEN "stop" ELSE "make")))
    /\ UNCHANGED <<server, did>>

\* StopJobs by ids: a job is killed, or asked to stop; one that ended meanwhile
\* is past both.
Stop(c) ==
    /\ At(c, "stop")
    /\ \E a \in Attempts :
          /\ IF a.applied /\ work[Given] \in Active
             THEN IF call[c].strategy = "Kill"
                  THEN work' = [work EXCEPT ![Given] = "stopped"] /\ Does(c, "stopped", {Given})
                  ELSE work' = [work EXCEPT ![Given] = "stopping"] /\ Does(c, "asked", {Given})
             ELSE UNCHANGED <<work, did>>
          /\ Becomes(c, Tried(call[c], a, Go(c, "returned")))
    /\ UNCHANGED <<input, trigger, paid>>

\* _retrieve_inbox_id: the first inbox Orchestrator lists for the job, which
\* it is not asked to order or to restrict to those that wait.
Find(c) ==
    /\ At(c, "find")
    /\ \E a \in Attempts :
          \/ trigger = 0 /\ Becomes(c, Tried(call[c], a, Go(c, "raised")))
          \/ \E n \in 1 .. trigger : Becomes(c, Tried(call[c], a, [Go(c, "deliver") EXCEPT !.inbox = n]))
    /\ UNCHANGED <<server, did>>

\* variant: to whatever the job waits for by now
Latest(c) == trigger
Inbox(c) == call[c].inbox

\* DeliverPayload, which Orchestrator refuses for one that was paid.
Deliver(c) ==
    /\ At(c, "deliver")
    /\ \E a \in Attempts :
          /\ a.applied => Inbox(c) \in Pending
          /\ IF a.applied
             THEN /\ work' = [work EXCEPT ![Given] = "running"]
                  /\ paid' = With(paid, Inbox(c), c)
                  /\ Does(c, "paid", {Inbox(c)})
             ELSE UNCHANGED <<work, paid, did>>
          /\ Becomes(c, Tried(call[c], a, Go(c, "returned")))
    /\ UNCHANGED <<input, trigger>>

-------------------------------------------------------------------------------
(***************************************************************************)
(* Transactions.  Orchestrator refuses to change one that is complete.     *)
(***************************************************************************)
\* StartTransaction takes an item of the queue, or puts one in and takes that.
Transact(c) ==
    /\ At(c, "transact")
    /\ \E a \in Attempts, t \in (UNION NewIds(1)) \cup {i \in Ids : work[i] = "new"} :
          /\ IF a.applied
             THEN work' = [work EXCEPT ![t] = "in progress"] /\ Does(c, "taken", {t})
             ELSE UNCHANGED <<work, did>>
          /\ Becomes(c, Tried(call[c], a, [Go(c, "returned") EXCEPT !.key = {t}]))
    /\ UNCHANGED <<input, trigger, paid>>

Progress(c) ==
    /\ At(c, "progress")
    /\ \E a \in Attempts :
          /\ a.applied => \A t \in call[c].on : work[t] = "in progress"
          /\ Becomes(c, Tried(call[c], a, Go(c, "returned")))
    /\ UNCHANGED <<server, did>>

Complete(c) ==
    /\ At(c, "complete")
    /\ \E a \in Attempts, t \in call[c].on :
          /\ a.applied => work[t] = "in progress"
          /\ IF a.applied
             THEN work' = [work EXCEPT ![t] = "complete"] /\ Does(c, "completed", {t})
             ELSE UNCHANGED <<work, did>>
          /\ Becomes(c, Tried(call[c], a, Go(c, "returned")))
    /\ UNCHANGED <<input, trigger, paid>>

-------------------------------------------------------------------------------
Next ==
    \/ Suspend \/ PaidByOthers \/ Finish
    \/ \E c \in Calls :
          \/ Begin(c) \/ Upload(c) \/ Make(c) \/ Resolve(c) \/ Stop(c)
          \/ Find(c) \/ Deliver(c) \/ Transact(c) \/ Progress(c) \/ Complete(c)

Spec == Init /\ [][Next]_vars

-------------------------------------------------------------------------------
\* A call that returns a job or a transaction had it made, and had nothing
\* else done unless an answer was lost, and then what one request asks for at
\* most, an attempt; one that raises and lost no answer has had nothing done;
\* and no two calls have the same thing done, but may both ask a job to stop (the
\* retried POST of invoke, restart, create_items, create_transaction_item,
\* complete_transaction_item).
EffectsAreOwned ==
    \A c \in Calls :
       /\ Cardinality(did[c]) <= IF call[c].blind THEN MaxRetryAttempts ELSE 1
       /\ \A s \in did[c] : Cardinality(s[2]) <= call[c].items
       /\ At(c, "returned") /\ call[c].key # {} => \E what \in {"made", "taken"} : <<what, call[c].key>> \in did[c]
       /\ At(c, "raised") /\ ~call[c].blind => did[c] = {}
       /\ \A d \in Calls \ {c}, s \in did[c] : s[1] # "asked" =>
             \A e \in did[d] : e[1] = s[1] => e[2] \cap s[2] = {}

\* A job is started only once its input is where it is told to look, unless
\* the storage refused it (_handle_input_arguments before _invoke_spec).
InputIsThere == \A i \in Ids : work[i] = "running" => input[i] \in {"inline", "file", "refused"}

\* A payload never goes to a trigger the job came to after it was looked up,
\* and a resume that returns has paid one, itself and alone, however often it
\* was tried (_retrieve_inbox_id, then DeliverPayload).
PaidAsFound ==
    \A c \in Calls : call[c].op = "resume" =>
       /\ \A n \in DOMAIN paid : paid[n] = c => n = call[c].inbox
       /\ At(c, "returned") => call[c].inbox \in DOMAIN paid /\ paid[call[c].inbox] = c

\* A stop with a key that is missing stops nothing; after one that returned the
\* job is over if it was to be killed, and was asked to stop or was over if not;
\* the call that returns from completing a transaction completed it (stop,
\* complete_transaction_item).
OverForGood ==
    \A c \in Calls :
       /\ call[c].op \in {"stop", "restart"} /\ NoId \in call[c].on => did[c] = {}
       /\ call[c].op = "stop" /\ At(c, "returned") =>
             \/ work[Given] \in {"stopped", "ended"}
             \/ call[c].strategy = "SoftStop" /\ <<"asked", {Given}>> \in did[c]
       /\ call[c].op = "complete" /\ At(c, "returned") =>
             \A t \in call[c].on : work[t] = "complete" /\ <<"completed", {t}>> \in did[c]

===============================================================================
