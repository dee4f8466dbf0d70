------------------------------ MODULE LlmGateway ------------------------------
(***************************************************************************)
(* The calls of a program to the LLM gateway                               *)
(* (uipath/platform/chat/_llm_gateway_service.py), the throttle they pass  *)
(* (llm_throttle.py) and the discovery of what a model accepts             *)
(* (_model_capabilities.py), both global to the process.  A process runs   *)
(* one event loop after another, as each command has an asyncio.run of its *)
(* own; calls are tasks of the loop that runs, and are cancelled with it.  *)
(*                                                                         *)
(* asyncio's semaphore and the gateway are external.                       *)
(*                                                                         *)
(* A definition marked `variant' is a plausible mistake in the one below   *)
(* it; no action uses it.                                                  *)
(***************************************************************************)
EXTENDS ServiceRequest, Sequences, FiniteSets

CONSTANTS
    Calls,      \* calls to the gateway
    Limits,     \* limits a program sets
    Default,    \* DEFAULT_LLM_CONCURRENCY
    Configs,    \* AgentHub configurations
    Rejecting,  \* for each, the models it shows that reject a temperature
    Models,
    MaxLoops,   \* bound: event loops
    None

GatewayAssumption ==
    /\ IsFiniteSet(Calls) /\ \A M \in SUBSET Models : M # None
    /\ Limits \subseteq Nat \ {0} /\ Default \in Nat \ {0} /\ MaxLoops \in Nat
    /\ Rejecting \in [Configs -> SUBSET Models]

VARIABLES
    limit,       \* _llm_concurrency_limit
    semaphore,   \* _llm_semaphore: its number, or 0 for None
    semaphores,  \* those made: their loop, their free slots and who waits
    loop,        \* the number of the last event loop
    running,     \* whether it runs
    details,     \* _model_details: what is cached for a configuration
    call,        \* each call
    unread       \* history: configurations a discovery of which failed

throttle == <<limit, semaphore, semaphores>>
vars == <<throttle, loop, running, details, call, unread>>

NoCall == [pc |-> "idle", model |-> None, config |-> None, sem |-> 0, tries |-> 1, sent |-> "nothing"]
\* How a call ends: well or not, which only a failure of the throttle's own tells.
Ended == [NoCall EXCEPT !.pc = "ended"]
LoopError == [NoCall EXCEPT !.pc = "loop error"]

Init ==
    /\ limit = Default /\ semaphore = 0 /\ semaphores = <<>>
    /\ loop = 0 /\ running = FALSE
    /\ details = [k \in Configs |-> None] /\ unread = {}
    /\ call = [c \in Calls |-> NoCall]

At(c, pc) == call[c].pc = pc

-------------------------------------------------------------------------------
(***************************************************************************)
(* The throttle.                                                           *)
(***************************************************************************)
\* set_llm_concurrency, and reset_llm_concurrency: before any call is made.
SetConcurrency ==
    /\ ~running /\ limit' \in Limits \cup {Default}
    /\ semaphore' = 0
    /\ UNCHANGED <<semaphores, loop, running, details, call, unread>>

\* variant: a semaphore for each call
AlwaysStale == TRUE
\* variant: the first loop's semaphore serves the others
StaleOnceOnly == semaphore = 0
Stale == semaphore = 0 \/ semaphores[semaphore].loop # loop

NewSemaphore == [loop |-> loop, free |-> limit, waiters |-> <<>>]

\* get_llm_semaphore and the semaphore's acquire, for call r, in one step of
\* the loop.  One that was waited for in another loop cannot be waited for.
Acquire(c, r) ==
    LET sems == IF Stale THEN Append(semaphores, NewSemaphore) ELSE semaphores
        s == IF Stale THEN Len(sems) ELSE semaphore
        mine == [r EXCEPT !.sem = s, !.tries = 1]
    IN
    /\ semaphore' = s
    /\ IF sems[s].free > 0 /\ sems[s].waiters = <<>>
       THEN /\ semaphores' = [sems EXCEPT ![s].free = @ - 1]
            /\ call' = [call EXCEPT ![c] = [mine EXCEPT !.pc = "sending"]]
       ELSE IF sems[s].loop # loop
       THEN /\ semaphores' = sems
            /\ call' = [call EXCEPT ![c] = LoopError]
       ELSE /\ semaphores' = [sems EXCEPT ![s].waiters = Append(@, c)]
            /\ call' = [call EXCEPT ![c] = [mine EXCEPT !.pc = "waiting"]]

\* The queue without its i-th entry.
Without(q, i) == SubSeq(q, 1, i - 1) \o SubSeq(q, i + 1, Len(q))

\* c ends, and its slot goes to whoever has waited longest.
Release(c) ==
    LET s == call[c].sem
        waiters == semaphores[s].waiters
    IN IF waiters = <<>>
       THEN /\ semaphores' = [semaphores EXCEPT ![s].free = @ + 1]
            /\ call' = [call EXCEPT ![c] = Ended]
       ELSE /\ semaphores' = [semaphores EXCEPT ![s].waiters = Tail(@)]
            /\ call' = [call EXCEPT ![c] = Ended, ![Head(waiters)].pc = "sending"]

-------------------------------------------------------------------------------
(***************************************************************************)
(* Discovery: what is cached for a configuration is what was read or, when *)
(* it could not be read, nothing at all.                                   *)
(***************************************************************************)
\* variant: whatever configuration it was read for
AnyKey(config) == CHOOSE k \in Configs : TRUE
Key(config) == config

\* should_skip_temperature for a call whose details are `known'.
Body(c, known) == IF known # None /\ call[c].model \in known THEN "no temperature" ELSE "temperature"

\* embeddings, and chat_completions with a reasoning model, ask for no details.
Begin(c) ==
    /\ running /\ At(c, "idle")
    /\ \/ Acquire(c, [NoCall EXCEPT !.sent = "no temperature"]) /\ UNCHANGED details
       \/ \E m \in Models, k \in Configs :
             LET r == [NoCall EXCEPT !.model = m, !.config = k] IN
             IF details[Key(k)] = None
             THEN call' = [call EXCEPT ![c] = [r EXCEPT !.pc = "discovering"]] /\ UNCHANGED <<semaphore, semaphores, details>>
             ELSE Acquire(c, [r EXCEPT !.sent = IF m \in details[Key(k)] THEN "no temperature" ELSE "temperature"]) /\ UNCHANGED details
    /\ UNCHANGED <<limit, loop, running, unread>>

\* _fetch_model_details answers in every case.  What it read is stored, over
\* what another call stored meanwhile; the call reads it back from there.
Discover(c) ==
    /\ At(c, "discovering")
    /\ LET k == call[c].config
           answered(read) == /\ details' = [details EXCEPT ![Key(k)] = read]
                             /\ Acquire(c, [call[c] EXCEPT !.sent = Body(c, read)])
       IN \/ answered(Rejecting[k]) /\ UNCHANGED unread
          \/ answered({}) /\ unread' = unread \cup {k}
    /\ UNCHANGED <<limit, loop, running>>

-------------------------------------------------------------------------------
\* variant: the slot is given back after an answer only
KeptOnRaise(c, answered) ==
    IF answered THEN Release(c) ELSE call' = [call EXCEPT ![c] = Ended] /\ UNCHANGED semaphores
\* The end of `async with', whichever way it is left.
Leave(c, answered) == Release(c)

\* The slot is held while the request is tried again.
Send(c) ==
    /\ At(c, "sending")
    /\ \E a \in Attempts :
          IF a.seen # "answer" /\ Retries(a, call[c].tries)
          THEN call' = [call EXCEPT ![c].tries = @ + 1] /\ UNCHANGED semaphores
          ELSE Leave(c, a.seen = "answer")
    /\ UNCHANGED <<limit, semaphore, loop, running, details, unread>>

Active(c) == call[c].pc \in {"discovering", "waiting", "sending"}

\* A call is cancelled, by a timeout of the program's.
Cancel(c) ==
    /\ running /\ Active(c)
    /\ \/ At(c, "sending") /\ Leave(c, FALSE)
       \/ /\ At(c, "waiting")
          /\ \E i \in DOMAIN semaphores[call[c].sem].waiters :
                /\ semaphores[call[c].sem].waiters[i] = c
                /\ semaphores' = [semaphores EXCEPT ![call[c].sem].waiters = Without(@, i)]
          /\ call' = [call EXCEPT ![c] = Ended]
       \/ At(c, "discovering") /\ call' = [call EXCEPT ![c] = Ended] /\ UNCHANGED semaphores
    /\ UNCHANGED <<limit, semaphore, loop, running, details, unread>>

\* asyncio.run: a loop begins, and ends with the calls that are left, the last
\* of which has given its slot back when it does.
LoopBegins ==
    /\ ~running /\ loop < MaxLoops
    /\ running' = TRUE /\ loop' = loop + 1
    /\ UNCHANGED <<throttle, details, call, unread>>

LoopEnds ==
    /\ running /\ \A c \in Calls : ~Active(c)
    /\ running' = FALSE
    /\ UNCHANGED <<throttle, loop, details, call, unread>>

-------------------------------------------------------------------------------
Step(c) == Discover(c) \/ Send(c)

Next ==
    \/ SetConcurrency \/ LoopBegins \/ LoopEnds
    \/ \E c \in Calls : Begin(c) \/ Step(c) \/ Cancel(c)

Spec == Init /\ [][Next]_vars

\* The loop runs its tasks; a request is answered, refused or times out.
LiveSpec == Spec /\ \A c \in Calls : WF_vars(Step(c))

-------------------------------------------------------------------------------
Sending == {c \in Calls : At(c, "sending")}

\* No more requests are on their way than the limit in force, whichever loop
\* the semaphore was made in and whatever was cancelled (get_llm_semaphore);
\* and no slot is lost: with the limit not reached nobody waits.
Capped ==
    /\ Cardinality(Sending) <= limit
    /\ \A c \in Calls : At(c, "waiting") => Cardinality(Sending) = limit

\* No call fails because the semaphore is another loop's (the docstring of
\* get_llm_semaphore: multiple asyncio.run calls).
LoopsApart == \A c \in Calls : ~At(c, "loop error")

\* A temperature goes to a model that rejects it only if a discovery for the
\* call's configuration failed (should_skip_temperature).
Stripped ==
    \A c \in Calls :
       call[c].sent = "temperature" /\ call[c].model \in Rejecting[call[c].config] => call[c].config \in unread

\* Together: the throttle holds and the temperature is stripped where it must be
\* (get_llm_semaphore, should_skip_temperature).
GatewayKeepsLimit == Capped /\ LoopsApart /\ Stripped

\* A call ends, waiting its turn or not, however many attempts the others make
\* with their slots held.
CallsEnd == \A c \in Calls : Active(c) ~> ~Active(c)

===============================================================================
