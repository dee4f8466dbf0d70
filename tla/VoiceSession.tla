----------------------------- MODULE VoiceSession -----------------------------
(***************************************************************************)
(* The voice tool-call session (_cli/_chat/_voice_bridge.py): one          *)
(* socket.io connection over which the conversation service sends batches  *)
(* of tool calls and gets one result for each, until it ends the session   *)
(* or the connection is lost.                                              *)
(*                                                                         *)
(* The library reads the connection in order, runs one handler at a time   *)
(* and, unless disconnect was called, connects again on its own when the   *)
(* connection is lost, which runs the connect handler again.               *)
(*                                                                         *)
(* A definition marked `variant' is a plausible mistake in the one below   *)
(* it; no action uses it.                                                  *)
(***************************************************************************)
EXTENDS Naturals, Sequences, FiniteSets

CONSTANTS
    Calls,      \* tool calls the service may send
    MaxDrops    \* bound: lost connections

VoiceAssumption == IsFiniteSet(Calls) /\ MaxDrops \in Nat

VARIABLES
    run,       \* where run() stands
    link,      \* the connection is up
    inbox,     \* what has arrived on it and is not handled
    call,      \* each tool call
    done,      \* _done
    reason,    \* _end_reason
    detail,    \* _end_detail holds what the service said
    ready,     \* the service has been sent TOOLS_READY on this connection
    ended,     \* the service has ended the session
    drops,
    timedOut,  \* history: the drain ran into its timeout
    refused    \* history: calls whose payload was not valid

session == <<run, done, reason, detail>>
service == <<ready, ended>>
history == <<timedOut, refused>>
vars == <<session, link, inbox, call, service, drops, history>>

Message == [type : {"calls"}, calls : SUBSET Calls] \cup [type : {"ended", "disconnect", "connect"}]
Reasons == {"completed", "disconnected", "ready_emit_failed"}

Init ==
    /\ run = "connecting" /\ link = FALSE /\ inbox = <<>>
    /\ call = [c \in Calls |-> "unsent"]
    /\ done = FALSE /\ reason = "none" /\ detail = FALSE
    /\ ready = FALSE /\ ended = FALSE /\ drops = 0
    /\ timedOut = FALSE /\ refused = {}

In(states) == {c \in Calls : call[c] \in states}
InFlight == In({"running", "result"})
Move(cs, to) == [c \in Calls |-> IF c \in cs THEN to ELSE call[c]]

-------------------------------------------------------------------------------
(***************************************************************************)
(* The service and the network.                                            *)
(***************************************************************************)
SendCalls(batch) ==
    /\ link /\ ready /\ ~ended /\ batch # {} /\ batch \subseteq In({"unsent"})
    /\ inbox' = Append(inbox, [type |-> "calls", calls |-> batch])
    /\ call' = Move(batch, "sent")
    /\ UNCHANGED <<session, link, service, drops, history>>

EndSession ==
    /\ link /\ ready /\ ~ended
    /\ ended' = TRUE
    /\ inbox' = Append(inbox, [type |-> "ended"])
    /\ UNCHANGED <<session, link, call, ready, drops, history>>

\* What had not been read is lost.
Lose ==
    /\ link /\ drops < MaxDrops /\ run # "connecting"
    /\ drops' = drops + 1
    /\ link' = FALSE /\ ready' = FALSE
    /\ \E n \in 0..Len(inbox) :
          /\ inbox' = Append(SubSeq(inbox, 1, n), [type |-> "disconnect"])
          /\ call' = Move(UNION {inbox[i].calls : i \in {j \in n + 1..Len(inbox) : inbox[j].type = "calls"}}, "lost")
    /\ UNCHANGED <<session, ended, history>>

Reconnect ==
    /\ ~link /\ run \in {"waiting", "draining", "cancelling"}
    /\ link' = TRUE
    /\ inbox' = Append(inbox, [type |-> "connect"])
    /\ UNCHANGED <<session, call, service, drops, history>>

\* _safe_disconnect: what had arrived is not handled any more.
Disconnect ==
    /\ link' = FALSE /\ ready' = FALSE /\ inbox' = <<>>
    /\ call' = Move(In({"sent"}), "lost")

-------------------------------------------------------------------------------
(***************************************************************************)
(* The handlers.                                                           *)
(***************************************************************************)
\* variant: the last writer wins
LastReason(r) == r
\* _end_session: the first writer wins.
FirstReason(r) == IF reason = "none" THEN r ELSE reason
Finishes(r) == reason' = FirstReason(r) /\ done' = TRUE

\* _handle_connect: the announcement is sent, or the session is over.
Announce ==
    \/ ready' = TRUE /\ UNCHANGED <<reason, done>>
    \/ Finishes("ready_emit_failed") /\ UNCHANGED ready

\* The first connection: the handler has run when connect returns, or times
\* out all the same.
Connect ==
    /\ run = "connecting" /\ ~link
    /\ link' = TRUE
    /\ Announce
    /\ UNCHANGED <<run, detail, inbox, call, ended, drops, history>>

Connected ==
    /\ run = "connecting" /\ link
    /\ run' = "waiting"
    /\ UNCHANGED <<link, inbox, call, done, reason, detail, service, drops, history>>

\* Tasks started meanwhile are left to themselves.
ConnectFails ==
    /\ run = "connecting"
    /\ run' = "raised"
    /\ Disconnect
    /\ UNCHANGED <<done, reason, detail, ended, drops, history>>

Next1(type) == inbox # <<>> /\ Head(inbox).type = type /\ inbox' = Tail(inbox)

HandleConnect ==
    /\ Next1("connect")
    /\ IF link THEN Announce ELSE Finishes("ready_emit_failed") /\ UNCHANGED ready
    /\ UNCHANGED <<run, detail, link, call, ended, drops, history>>

HandleDisconnect ==
    /\ Next1("disconnect")
    /\ Finishes("disconnected")
    /\ UNCHANGED <<run, detail, link, call, service, drops, history>>

\* A task for each call of the batch; after the end nothing is started.
HandleToolCall ==
    /\ Next1("calls")
    /\ LET batch == Head(inbox).calls
       IN \/ done /\ call' = Move(batch, "ignored") /\ UNCHANGED refused
          \/ ~done /\ call' = Move(batch, "running") /\ UNCHANGED refused
          \/ ~done /\ call' = Move(batch, "ignored") /\ refused' = refused \cup batch
    /\ UNCHANGED <<session, link, service, drops, timedOut>>


HandleSessionEnded ==
    /\ Next1("ended")
    /\ IF ~done THEN detail' = TRUE /\ Finishes("completed") ELSE UNCHANGED <<detail, reason, done>>
    /\ UNCHANGED <<run, link, call, service, drops, history>>

-------------------------------------------------------------------------------
(***************************************************************************)
(* The tasks: _execute_tool_call.                                          *)
(***************************************************************************)
\* The tool returns a result, or its failure is turned into one.
ToolReturns(c) ==
    /\ call[c] = "running"
    /\ call' = Move({c}, "result")
    /\ UNCHANGED <<session, link, inbox, service, drops, history>>

\* The result is emitted; a failure to do so is only logged.
EmitResult(c) ==
    /\ call[c] = "result"
    /\ call' = Move({c}, IF link THEN "answered" ELSE "unsendable")
    /\ UNCHANGED <<session, link, inbox, service, drops, history>>

-------------------------------------------------------------------------------
(***************************************************************************)
(* run().                                                                  *)
(***************************************************************************)
WakeUp ==
    /\ run = "waiting" /\ done
    /\ run' = "draining"
    /\ UNCHANGED <<link, inbox, call, done, reason, detail, service, drops, history>>

\* variant: the session is closed as soon as its timeout is over
LeaveRunning == "closing"
\* wait_for cancels the tasks and waits for them to end.
AfterTimeout == "cancelling"

\* variant: the drain waits for its tasks however long they take
Patient == FALSE
Impatient == InFlight # {}

DrainTimesOut ==
    /\ run = "draining" /\ Impatient
    /\ run' = AfterTimeout
    /\ timedOut' = TRUE
    /\ UNCHANGED <<link, inbox, call, done, reason, detail, service, drops, refused>>

\* CancelledError is no Exception: no result is emitted for the call.
Cancelled(c) ==
    /\ run = "cancelling" /\ c \in InFlight
    /\ call' = Move({c}, "cancelled")
    /\ UNCHANGED <<session, link, inbox, service, drops, history>>

\* variant: the session does not wait for its tasks
NoDrain == TRUE
DrainedAll == InFlight = {}

Drained ==
    /\ run \in {"draining", "cancelling"} /\ DrainedAll
    /\ run' = "closing"
    /\ UNCHANGED <<link, inbox, call, done, reason, detail, service, drops, history>>

Close ==
    /\ run = "closing"
    /\ run' = "returned"
    /\ Disconnect
    /\ UNCHANGED <<done, reason, detail, ended, drops, history>>

-------------------------------------------------------------------------------
Service == (\E batch \in SUBSET Calls : SendCalls(batch)) \/ EndSession
Network == Lose \/ Reconnect
Handlers ==
    \/ Connect \/ Connected \/ ConnectFails
    \/ HandleConnect \/ HandleDisconnect \/ HandleToolCall \/ HandleSessionEnded
Task(c) == ToolReturns(c) \/ EmitResult(c) \/ Cancelled(c)
Run == WakeUp \/ DrainTimesOut \/ Drained \/ Close

Next == Service \/ Network \/ Handlers \/ (\E c \in Calls : Task(c)) \/ Run
Spec == Init /\ [][Next]_vars

\* The event loop runs what can run, timers go off and a cancelled task ends;
\* a tool need not return, nor the service end the session.
LiveSpec == Spec /\ WF_vars(Handlers) /\ WF_vars(Run) /\ \A c \in Calls : WF_vars(EmitResult(c) \/ Cancelled(c))

-------------------------------------------------------------------------------
(***************************************************************************)
(* Properties.                                                             *)
(***************************************************************************)
CallStates == {"unsent", "sent", "lost", "ignored", "running", "result", "answered", "unsendable", "cancelled"}

TypeOK ==
    /\ run \in {"connecting", "waiting", "draining", "cancelling", "closing", "returned", "raised"}
    /\ link \in BOOLEAN /\ inbox \in Seq(Message) /\ call \in [Calls -> CallStates]
    /\ done \in BOOLEAN /\ reason \in Reasons \cup {"none"} /\ detail \in BOOLEAN
    /\ ready \in BOOLEAN /\ ended \in BOOLEAN /\ drops \in Nat
    /\ timedOut \in BOOLEAN /\ refused \subseteq Calls

\* When run has returned no task of the session is left, not even one that its
\* timeout overtook (_voice_bridge.py:123-129, 143-163).
NothingLeft == run = "returned" => InFlight = {}

\* A service that ends the session over a connection that was never lost has
\* by then, or gets before the session is closed, a result for every call it
\* sent; only calls it did not word validly and those a tool did not finish
\* within the drain's timeout have none (_voice_bridge.py:64-71, 143-222).
EveryCallAnswered ==
    run = "returned" /\ reason = "completed" /\ drops = 0 =>
        \A c \in Calls \ refused : call[c] \in {"unsent", "answered"} \/ (timedOut /\ call[c] = "cancelled")

\* The outcome of the session is of one piece: it has completed exactly if the
\* detail the service sent with the end is kept, however ends and
\* disconnections follow each other (_voice_bridge.py:137-141, 224-236).
OneOutcome == (reason = "completed" <=> detail) /\ (done <=> reason # "none")

\* Together: a session that returned is over, for one reason
\* (_voice_bridge.py:123-163, 224-236).
OverForOneReason == NothingLeft /\ OneOutcome

\* The session returns once it is over, also while a tool hangs
\* (_voice_bridge.py:123-129, 143-163).
RunEnds == done ~> run \in {"returned", "raised"}

\* Whoever is told that the tools are ready is served: "CAS gates tool dispatch
\* on this event" (_voice_bridge.py:170).
ReadyMeansServed == ready /\ link /\ ~ended => ~done

===============================================================================
