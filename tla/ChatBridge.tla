------------------------------ MODULE ChatBridge ------------------------------
(***************************************************************************)
(* Tool calls of a conversational agent: SocketIOChatBridge in             *)
(* _cli/_chat/_bridge.py, between the runtime's loop and the web client.   *)
(*                                                                         *)
(* The model calls several tools at once.  For each round of a tool (its   *)
(* confirmation, its end) the runtime registers the tool with              *)
(* emit_interrupt_event and awaits wait_for_resume; the client answers in  *)
(* any order, early or late, and may answer twice.  Three structures match *)
(* answers to waits: expected, results and pending.  A wait may be         *)
(* cancelled and taken up again.  The link may drop and come back; answers *)
(* under way meanwhile may be gone then, for Socket.IO keeps nothing for a *)
(* receiver that is away.                                                  *)
(*                                                                         *)
(* A definition marked `variant' is a plausible mistake in the one below   *)
(* it; no action uses it.                                                  *)
(***************************************************************************)
EXTENDS Naturals, Sequences

CONSTANTS Tools,       \* tool call ids of one turn
          Rounds,      \* rounds of each tool: 1, or 2 when it is confirmed and ended
          MaxCopies,   \* how often the client may send one answer
          MaxCancels,  \* bound: cancelled waits
          MaxDrops,    \* bound: losses of the link
          None, Waiting

ASSUME ChatAssumption ==
    /\ Rounds \in [Tools -> Nat \ {0}]
    /\ MaxCopies \in Nat \ {0}
    /\ MaxCancels \in Nat
    /\ MaxDrops \in Nat
    /\ None # Waiting /\ None \notin Tools

Answers == [tool : Tools, round : UNION {1..Rounds[t] : t \in Tools}, copy : 1..MaxCopies]

ASSUME SentinelAssumption == None \notin Answers /\ Waiting \notin Answers

VARIABLES
    client,      \* _client: "none", "connecting" or "set"
    connected,   \* _connected_event
    expected,    \* _expected_tool_call_ids
    results,     \* _tool_resume_results
    pending,     \* _tool_resume_pending: "live" is the current wait's future,
                 \*   "dead" the cancelled one of an earlier wait
    future,      \* the current wait's future: None, Waiting or its answer
    waitsFor,    \* the tool the current wait is for
    pc,          \* of the runtime's loop: "start", "loop", "executing", "end", "stopped"
    round,       \* rounds of each tool that are over
    sent,        \* client: how often it answered each round of each tool
    shown,       \* client: the round it may answer, by tool
    inflight,    \* answers on their way
    returned,    \* what each wait returned, with the tool and round it was for
    lost,        \* history: answers overwritten by a later one of their tool
    forgone,     \* history: answers a cancelled wait already had
    dropped,     \* history: answers that went under with the link
    drops, cancels  \* bound bookkeeping

link == <<client, connected, drops>>
resumption == <<results, pending, future, waitsFor, returned, lost, forgone>>
web == <<sent, shown, inflight, dropped>>
vars == <<link, expected, resumption, pc, round, web, cancels>>

Idle == waitsFor = None
Over(t) == round[t] = Rounds[t]

Init ==
    /\ client = "none" /\ connected = FALSE
    /\ expected = <<>>
    /\ results = [t \in Tools |-> None]
    /\ pending = [t \in Tools |-> "none"]
    /\ future = None
    /\ waitsFor = None
    /\ pc = "start"
    /\ round = [t \in Tools |-> 0]
    /\ sent = [t \in Tools |-> [r \in 1..Rounds[t] |-> 0]]
    /\ shown = [t \in Tools |-> 0]
    /\ inflight = {}
    /\ returned = {}
    /\ lost = {} /\ forgone = {} /\ dropped = {}
    /\ drops = 0 /\ cancels = 0

-------------------------------------------------------------------------------
(***************************************************************************)
(* The connection.                                                         *)
(***************************************************************************)

\* connect: a new client; the event is cleared, then awaited.
Connect ==
    /\ pc = "start" /\ client = "none"
    /\ client' = "connecting"
    /\ connected' = FALSE
    /\ UNCHANGED <<drops, expected, resumption, pc, round, web, cancels>>

\* _handle_connect, at first and after each automatic reconnection.
HandleConnect ==
    /\ client # "none" /\ ~connected
    /\ connected' = TRUE
    /\ UNCHANGED <<client, drops, expected, resumption, pc, round, web, cancels>>

\* _handle_disconnect.
HandleDisconnect ==
    /\ connected
    /\ drops < MaxDrops
    /\ connected' = FALSE
    /\ drops' = drops + 1
    /\ UNCHANGED <<client, expected, resumption, pc, round, web, cancels>>

\* connect returns when the event is set; the agent streams its message, which
\* sets the current message id and shows the client the tool calls.
ConnectReturns ==
    /\ client = "connecting" /\ connected
    /\ client' = "set"
    /\ pc' = "loop"
    /\ shown' = [t \in Tools |-> 1]
    /\ UNCHANGED <<connected, drops, expected, resumption, round, sent, inflight, dropped, cancels>>

\* connect times out or fails: _cleanup_client, RuntimeError.
ConnectFails ==
    /\ client = "connecting"
    /\ drops < MaxDrops
    /\ drops' = drops + 1
    /\ client' = "none" /\ connected' = FALSE
    /\ pc' = "stopped"
    /\ UNCHANGED <<expected, resumption, round, web, cancels>>

\* disconnect: whatever the client's own disconnect does, the bridge forgets it.
Disconnect ==
    /\ pc = "end"
    /\ client' = "none" /\ connected' = FALSE
    /\ pc' = "stopped"
    /\ UNCHANGED <<drops, expected, resumption, round, web, cancels>>

\* _require_client for an emission.
RequireClient == client # "none" /\ connected

-------------------------------------------------------------------------------
(***************************************************************************)
(* The runtime's side.                                                     *)
(***************************************************************************)

\* The rounds of t the runtime has registered and not finished.
Registered(t) == Len(SelectSeq(expected, LAMBDA u : u = t)) + (IF waitsFor = t THEN 1 ELSE 0)

\* emit_interrupt_event, before the wait for this round of the tool.
EmitInterrupt(t) ==
    /\ pc = "loop" /\ Idle
    /\ round[t] + Registered(t) < Rounds[t]
    /\ expected' = Append(expected, t)
    /\ UNCHANGED <<link, resumption, pc, round, web, cancels>>

\* The result a wait takes: its own tool's.
AnyResult(t) == LET held == {u \in Tools : results[u] # None}    \* variant
                IN IF held = {} THEN None ELSE results[CHOOSE u \in held : TRUE]
ResultFor(t) == results[t]

\* A stored result is removed when it is taken.
KeepResult(t) == results                                      \* variant
AfterTaking(t) == [results EXCEPT ![t] = None]

\* wait_for_resume up to the await: pop the next id; take a stored answer or
\* register a future under the id.
Wait ==
    /\ pc = "loop" /\ Idle
    /\ expected # <<>>
    /\ expected' = Tail(expected)
    /\ waitsFor' = Head(expected)
    /\ LET t == Head(expected)
       IN IF ResultFor(t) # None
            THEN /\ future' = ResultFor(t)
                 /\ results' = AfterTaking(t)
                 /\ UNCHANGED pending
            ELSE /\ future' = Waiting
                 /\ pending' = [pending EXCEPT ![t] = "live"]
                 /\ UNCHANGED results
    /\ UNCHANGED <<link, returned, lost, forgone, pc, round, web, cancels>>

\* wait_for_resume returns; another round of the tool means it was confirmed
\* and starts to execute, otherwise the loop goes on.
WaitReturns ==
    /\ future \in Answers
    /\ returned' = returned \cup {[tool |-> waitsFor, round |-> round[waitsFor] + 1,
                                   answer |-> future]}
    /\ round' = [round EXCEPT ![waitsFor] = @ + 1]
    /\ future' = None
    /\ IF round[waitsFor] + 1 < Rounds[waitsFor]
         THEN pc' = "executing" /\ UNCHANGED waitsFor
         ELSE pc' = "loop" /\ waitsFor' = None
    /\ UNCHANGED <<link, expected, results, pending, lost, forgone, web, cancels>>

\* emit_executing_tool_call_event: the client may now execute the tool and end
\* it; without a client it raises and the turn ends.
EmitExecuting ==
    /\ pc = "executing"
    /\ IF RequireClient
         THEN /\ shown' = [shown EXCEPT ![waitsFor] = @ + 1]
              /\ pc' = "loop"
         ELSE /\ pc' = "end"
              /\ UNCHANGED shown
    /\ waitsFor' = None
    /\ UNCHANGED <<link, expected, results, pending, future, returned, lost, forgone, round,
                   sent, inflight, dropped, cancels>>

\* The awaiting task is cancelled: a future still waiting stays in pending,
\* done; an answer it already had is gone.  The round is registered again.
CancelWait ==
    /\ pc = "loop" /\ ~Idle
    /\ cancels < MaxCancels
    /\ cancels' = cancels + 1
    /\ pending' = [pending EXCEPT ![waitsFor] = IF @ = "live" THEN "dead" ELSE @]
    /\ forgone' = IF future \in Answers THEN forgone \cup {future} ELSE forgone
    /\ future' = None
    /\ waitsFor' = None
    /\ UNCHANGED <<link, expected, results, returned, lost, pc, round, web>>

\* All rounds are over: the exchange end event and disconnect follow.
LoopEnds ==
    /\ pc = "loop" /\ Idle
    /\ \A t \in Tools : Over(t)
    /\ pc' = "end"
    /\ UNCHANGED <<link, expected, resumption, round, web, cancels>>

-------------------------------------------------------------------------------
(***************************************************************************)
(* The client's side.                                                      *)
(***************************************************************************)

\* The client answers the round it was shown, or sends that answer again.
ClientAnswers(t) ==
    /\ shown[t] > 0
    /\ LET r == shown[t]
       IN /\ sent[t][r] < MaxCopies
          /\ sent' = [sent EXCEPT ![t][r] = @ + 1]
          /\ inflight' = inflight \cup {[tool |-> t, round |-> r, copy |-> sent[t][r] + 1]}
    /\ UNCHANGED <<link, expected, resumption, pc, round, shown, dropped, cancels>>

\* An answer under way goes under while the link is down.
LoseAnswer(a) ==
    /\ a \in inflight /\ ~connected
    /\ inflight' = inflight \ {a}
    /\ dropped' = dropped \cup {a}
    /\ UNCHANGED <<link, expected, resumption, pc, round, sent, shown, cancels>>

\* _resolve_or_store_resume: an answer goes to the future waiting for its id.
NotExpected(a) ==                                             \* variant
    pending[a.tool] = "live" /\ \A i \in DOMAIN expected : expected[i] # a.tool
Resolvable(a) == pending[a.tool] = "live"

\* What becomes of the pending entry: it is popped, dead or alive.
Popped(a) == [pending EXCEPT ![a.tool] = "none"]

\* A dead future's answer is stored like an early one, over any before it.
Stored(a) == [results EXCEPT ![a.tool] = a]

\* _handle_conversation_event for a confirmation or an end.
HandleConversationEvent(a) ==
    /\ a \in inflight /\ connected
    /\ inflight' = inflight \ {a}
    /\ pending' = Popped(a)
    /\ IF Resolvable(a)
         THEN /\ future' = a
              /\ UNCHANGED <<results, lost>>
         ELSE /\ results' = Stored(a)
              /\ lost' = IF results[a.tool] # None THEN lost \cup {results[a.tool]} ELSE lost
              /\ UNCHANGED future
    /\ UNCHANGED <<link, expected, waitsFor, returned, forgone, pc, round, sent, shown,
                   dropped, cancels>>

-------------------------------------------------------------------------------
Loop == Wait \/ WaitReturns \/ EmitExecuting \/ LoopEnds
Next ==
    \/ Connect \/ HandleConnect \/ HandleDisconnect \/ ConnectReturns \/ ConnectFails
    \/ Disconnect \/ Loop \/ CancelWait
    \/ \E t \in Tools : EmitInterrupt(t) \/ ClientAnswers(t)
    \/ \E a \in inflight : HandleConversationEvent(a) \/ LoseAnswer(a)

Spec == Init /\ [][Next]_vars

\* The loop and the link's handlers run when they can; the user answers each
\* round at least once.
FirstAnswer(t) == shown[t] > 0 /\ sent[t][shown[t]] = 0 /\ ClientAnswers(t)
Fairness ==
    /\ WF_vars(Connect \/ HandleConnect \/ ConnectReturns \/ Disconnect)
    /\ WF_vars(Loop)
    /\ \A t \in Tools : WF_vars(EmitInterrupt(t)) /\ WF_vars(FirstAnswer(t))
    /\ \A t \in Tools : WF_vars(\E a \in inflight : a.tool = t /\ HandleConversationEvent(a))

LiveSpec == Spec /\ Fairness

-------------------------------------------------------------------------------
(***************************************************************************)
(* Properties.                                                             *)
(***************************************************************************)

TypeOK ==
    /\ client \in {"none", "connecting", "set"} /\ connected \in BOOLEAN
    /\ expected \in Seq(Tools)
    /\ DOMAIN sent = Tools
    /\ \A t \in Tools : sent[t] \in [1..Rounds[t] -> 0..MaxCopies]
    /\ results \in [Tools -> Answers \cup {None}]
    /\ pending \in [Tools -> {"none", "live", "dead"}]
    /\ future \in Answers \cup {None, Waiting}
    /\ waitsFor \in Tools \cup {None}
    /\ pc \in {"start", "loop", "executing", "end", "stopped"}
    /\ round \in [Tools -> Nat]
    /\ shown \in [Tools -> Nat]
    /\ inflight \subseteq Answers
    /\ returned \subseteq [tool : Tools, round : Nat, answer : Answers]
    /\ lost \subseteq Answers /\ forgone \subseteq Answers /\ dropped \subseteq Answers
    /\ drops \in Nat /\ cancels \in Nat

\* A wait returns an answer of the tool it was registered for, whatever the
\* order answers arrive in (_bridge.py:150-153, 490-506).
OwnAnswer == \A w \in returned : w.answer.tool = w.tool

\* Where an answer may be held for a wait to come.
Held(a) ==
    \/ a \in inflight
    \/ results[a.tool] = a
    \/ future = a

\* An answer resumes at most one wait, and is not kept once it did
\* (_bridge.py:492-494, 526-528).
UsedOnce ==
    /\ \A v, w \in returned : v.answer = w.answer => v = w
    /\ \A w \in returned : ~Held(w.answer)

\* An answer that was sent is on its way, held, or was returned, unless a later
\* one of the same tool replaced it, a wait that had it was cancelled, or it went
\* under with the link: in particular the answer of a cancelled wait is kept for
\* the next one (_bridge.py:529-536).
NothingLost ==
    \A t \in Tools : \A r \in 1..Rounds[t] : \A c \in 1..sent[t][r] :
        LET a == [tool |-> t, round |-> r, copy |-> c]
        IN Held(a) \/ a \in lost \cup forgone \cup dropped \/ \E w \in returned : w.answer = a

\* Together: answers and waits are matched, each answer to one wait of its tool,
\* and none disappears in the bridge (_bridge.py:490-543).
RightAnswer == OwnAnswer /\ UsedOnce /\ NothingLost

\* No wait is blocked on a future nobody can resolve, or while its answer lies
\* in results (_bridge.py:490-502).
NotStranded ==
    future = Waiting => pending[waitsFor] = "live" /\ results[waitsFor] = None

\* The client answered no round of t twice.
AnsweredOnce(t) == \A r \in 1..Rounds[t] : sent[t][r] <= 1

\* Unless the client answers a round of the tool twice, the wait for a round
\* returns that round's answer: the confirmation never stands in for the end
\* (_bridge.py:150-153, 522-543).
RightRound == \A w \in returned : AnsweredOnce(w.tool) => w.answer.round = w.round

\* The same of a client that may answer twice (_bridge.py:152: the structures
\* "coordinate matching each response to the correct wait_for_resume() call").
RightCall == \A w \in returned : w.answer.round = w.round

\* Nothing is left to answer t's current wait with: every copy of its round that
\* was sent is gone, and one of the tool's answers with the link or with a
\* cancelled wait, not only replaced by another.
Unanswerable(t) ==
    /\ \E r \in 1..Rounds[t] :
          /\ r = round[t] + 1 /\ sent[t][r] > 0
          /\ \A c \in 1..sent[t][r] :
                [tool |-> t, round |-> r, copy |-> c] \in lost \cup forgone \cup dropped
    /\ \E a \in forgone \cup dropped : a.tool = t

\* Each wait ends, by its answer or by a cancellation, unless the answers to it
\* went under with the link or with a cancelled wait that had one: then it stays,
\* for it has no timeout (_bridge.py:503).
WaitEnds ==
    \A t \in Tools : future = Waiting /\ waitsFor = t ~> future # Waiting \/ Unanswerable(t)

=============================================================================
