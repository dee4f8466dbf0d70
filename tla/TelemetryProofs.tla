------------------------- MODULE TelemetryProofs -------------------------
(***************************************************************************)
(* Proofs about TrackDispatcher, for any finite set of calls, any number   *)
(* of shutdowns and any cap.                                               *)
(*                                                                         *)
(* None of the properties is inductive.  The accounting of the slots rests *)
(* on how the stages of a dispatch, its future and its task go together    *)
(* (Stages), which needs every posted callback to be of a task not yet     *)
(* created, posted once (Posted).  NotCutShort rests on what a snapshot of *)
(* _futures covers (Covered), on what the stop of the loop therefore finds *)
(* done (Settled, Stopped), and on nothing being cancelled before the stop *)
(* (Undisturbed).                                                          *)
(***************************************************************************)
EXTENDS TrackDispatcher, Telemetry, FiniteSetTheorems, TLAPS

\* A dispatch, its future and its task.
Stages ==
    \A c \in Calls :
        /\ at[c] \in {"scheduled", "added", "returned"} <=> future[c] # "none"
        /\ task[c] = "none" <=> future[c] = "none"
        /\ task[c] = "over" <=> future[c] = "done"

\* The callbacks posted for dispatches, each once, of tasks not yet created.
Posted ==
    \A i \in DOMAIN ready :
        ready[i] # Stop =>
            /\ task[ready[i]] = "posted"
            /\ \A j \in DOMAIN ready : ready[j] = ready[i] => j = i

\* The event is set once a shutdown is past it or has returned.
EventSet == \A s \in Shutdowns : shut[s] \notin {"idle", "tested"} => down

\* A late dispatch is dropped, and only tasks call the provider.
LateDropped ==
    /\ \A c \in late : at[c] = "dropped"
    /\ \A c \in called : task[c] # "none"

\* While the loop runs its tasks end by themselves.
Undisturbed ==
    \A c \in Calls :
        /\ loop = "running" => task[c] # "cancelled"
        /\ loop = "running" /\ task[c] = "over" => c \in delivered

\* A snapshot of _futures covers what returned before and is not done, for the
\* shutdown that takes it and any other that found the event clear.
Early == UNION {early[s] : s \in Shutdowns}
Covered ==
    /\ Early \subseteq Returned
    /\ \A s \in Shutdowns, c \in Early :
           shut[s] = "draining" => c \in draining[s] \/ future[c] = "done"

\* Every shutdown called so far waits, and none gave up.
AllWait == \A s \in Shutdowns : shut[s] # "idle" => waits[s] /\ ~timedOut[s]

\* After its wait, what was dispatched before is done.
Settled ==
    \A s \in Shutdowns, c \in Early :
        shut[s] = "stop" /\ waits[s] /\ ~timedOut[s] => future[c] = "done"

\* So it is when the loop is told to stop, and delivered once it has stopped.
Told == stopping \/ loop # "running" \/ \E i \in DOMAIN ready : ready[i] = Stop
Stopped ==
    /\ Told => down
    /\ Told /\ AllWait => \A c \in Early : future[c] = "done"
    /\ loop # "running" /\ AllWait => Early \subseteq delivered

Accounting == TypeOK /\ Stages /\ Posted /\ SlotsAccounted /\ FuturesTracked
Draining == EventSet /\ Undisturbed /\ Covered /\ Settled /\ Stopped
IInv == Accounting /\ LateDropped /\ Draining

-------------------------------------------------------------------------------
(***************************************************************************)
(* Typing, the stages and the posted callbacks.                            *)
(***************************************************************************)

\* Posting a callback.
LEMMA Posting ==
    ASSUME NEW S, NEW q \in Seq(S), NEW x \in S
    PROVE  /\ Append(q, x) \in Seq(S)
           /\ DOMAIN Append(q, x) = DOMAIN q \cup {Len(q) + 1}
           /\ \A i \in DOMAIN q : Append(q, x)[i] = q[i] /\ i # Len(q) + 1
           /\ Append(q, x)[Len(q) + 1] = x
OBVIOUS

\* Taking the first callback.
LEMMA Taking ==
    ASSUME NEW S, NEW q \in Seq(S), q # <<>>
    PROVE  /\ Head(q) \in S /\ Tail(q) \in Seq(S)
           /\ 1 \in DOMAIN q /\ Head(q) = q[1]
           /\ \A i \in DOMAIN Tail(q) : i \in Nat /\ i + 1 \in DOMAIN q /\ i + 1 # 1
           /\ \A i \in DOMAIN Tail(q) : Tail(q)[i] = q[i + 1]
OBVIOUS

LEMMA TypingStep == TypeOK /\ [Next]_vars => TypeOK'
<1> SUFFICES ASSUME TypeOK, [Next]_vars
             PROVE  TypeOK'
    OBVIOUS
<1> USE DispatcherAssumption DEF TypeOK, dispatching, looping, shutting
<1>1. ASSUME NEW c \in Calls, DispatchStep(c)
      PROVE  TypeOK'
    <2>1. CASE Dispatch(c)
        BY <2>1 DEF Dispatch
    <2>2. CASE Acquire(c)
        BY <2>2 DEF Acquire, SlotFree
    <2>3. CASE Schedule(c)
        <3>1. Append(ready, c) \in Seq(Calls \cup {Stop})
            BY Posting
        <3>2. ready' \in Seq(Calls \cup {Stop})
            BY <2>3, <3>1 DEF Schedule
        <3>. QED  BY <2>3, <3>2 DEF Schedule, RolledBack
    <2>4. CASE AddFuture(c)
        BY <2>4 DEF AddFuture
    <2>5. CASE AddDoneCallback(c)
        BY <2>5 DEF AddDoneCallback, OnFutureDone
    <2>. QED  BY <1>1, <2>1, <2>2, <2>3, <2>4, <2>5 DEF DispatchStep
<1>2. ASSUME NEW c \in Calls, EndTask(c)
      PROVE  TypeOK'
    BY <1>2 DEF EndTask, DoneCallback, OnFutureDone
<1>3. CASE RunCallback
    <2>1. Head(ready) \in Calls \cup {Stop} /\ Tail(ready) \in Seq(Calls \cup {Stop})
        BY <1>3, Taking DEF RunCallback
    <2>2. task' \in [Calls -> {"none", "posted", "created", "calling", "cancelled", "over"}]
        BY <1>3, <2>1 DEF RunCallback
    <2>. QED  BY <1>3, <2>1, <2>2 DEF RunCallback
<1>4. ASSUME NEW c \in Calls, StartCall(c)
      PROVE  TypeOK'
    BY <1>4 DEF StartCall
<1>5. CASE RunForeverReturns
    BY <1>5 DEF RunForeverReturns
<1>6. CASE Teardown
    BY <1>6 DEF Teardown, Unfinished
<1>7. CASE Close
    BY <1>7 DEF Close
<1>8. ASSUME NEW s \in Shutdowns, Shutdown(s) \/ ShutdownStep(s)
      PROVE  TypeOK'
    <2>1. CASE Shutdown(s)
        BY <2>1 DEF Shutdown, Returned
    <2>2. CASE SetDown(s)
        BY <2>2 DEF SetDown
    <2>3. CASE Snapshot(s)
        BY <2>3 DEF Snapshot, Pending
    <2>4. CASE Drained(s) \/ WaitTimesOut(s) \/ Join(s)
        BY <2>4 DEF Drained, WaitTimesOut, Join
    <2>5. CASE StopLoop(s)
        <3>1. ready' \in Seq(Calls \cup {Stop})
            BY <2>5, Posting DEF StopLoop
        <3>. QED  BY <2>5, <3>1 DEF StopLoop
    <2>. QED  BY <1>8, <2>1, <2>2, <2>3, <2>4, <2>5 DEF ShutdownStep
<1>9. CASE UNCHANGED vars
    BY <1>9 DEF vars
<1>. QED  BY <1>1, <1>2, <1>3, <1>4, <1>5, <1>6, <1>7, <1>8, <1>9 DEF Next, LoopStep

LEMMA StagesStep == TypeOK /\ Stages /\ Posted /\ [Next]_vars => Stages'
<1> SUFFICES ASSUME TypeOK, Stages, Posted, [Next]_vars
             PROVE  Stages'
    OBVIOUS
<1> USE DEF TypeOK, Stages, dispatching, looping, shutting
<1>1. ASSUME NEW c \in Calls, DispatchStep(c)
      PROVE  Stages'
    BY <1>1 DEF DispatchStep, Dispatch, Acquire, Schedule, AddFuture, AddDoneCallback
<1>2. ASSUME NEW c \in Calls, EndTask(c)
      PROVE  Stages'
    BY <1>2 DEF EndTask
<1>3. CASE RunCallback
    <2>1. Head(ready) \in Calls => task[Head(ready)] = "posted"
        BY <1>3, Taking, DispatcherAssumption DEF RunCallback, Posted
    <2>. QED  BY <1>3, <2>1 DEF RunCallback
<1>4. ASSUME NEW c \in Calls, StartCall(c)
      PROVE  Stages'
    BY <1>4 DEF StartCall
<1>5. CASE RunForeverReturns \/ Close
    BY <1>5 DEF RunForeverReturns, Close
<1>6. CASE Teardown
    BY <1>6 DEF Teardown, Unfinished
<1>7. ASSUME NEW s \in Shutdowns, Shutdown(s) \/ ShutdownStep(s)
      PROVE  Stages'
    BY <1>7 DEF Shutdown, ShutdownStep, SetDown, Snapshot, Drained, WaitTimesOut, StopLoop, Join
<1>8. CASE UNCHANGED vars
    BY <1>8 DEF vars
<1>. QED  BY <1>1, <1>2, <1>3, <1>4, <1>5, <1>6, <1>7, <1>8 DEF Next, LoopStep

LEMMA PostedStep == TypeOK /\ Stages /\ Posted /\ [Next]_vars => Posted'
<1> SUFFICES ASSUME TypeOK, Stages, Posted, [Next]_vars
             PROVE  Posted'
    OBVIOUS
<1> USE DEF dispatching, looping, shutting
<1>1. CASE UNCHANGED <<ready, task>>
    BY <1>1 DEF Posted
<1>2. ASSUME NEW c \in Calls, Schedule(c), loop # "closed"
      PROVE  Posted'
    <2>1. task[c] = "none"
        BY <1>2 DEF Schedule, Stages
    <2>2. \A i \in DOMAIN ready : ready[i] # c
        BY <2>1, DispatcherAssumption DEF Posted
    <2>3. ready' = Append(ready, c) /\ task' = [task EXCEPT ![c] = "posted"]
        BY <1>2 DEF Schedule
    <2>4. \A i \in DOMAIN ready : ready[i] \in Calls \cup {Stop}
        BY DEF TypeOK
    <2>. QED  BY <2>2, <2>3, <2>4, Posting DEF Posted, TypeOK
<1>3. CASE RunCallback
    <2>1. /\ ready # <<>> /\ ready' = Tail(ready)
          /\ ready \in Seq(Calls \cup {Stop})
          /\ \A c \in Calls : c # Head(ready) => task'[c] = task[c]
        BY <1>3 DEF RunCallback, TypeOK
    <2>2. ASSUME NEW i \in DOMAIN Tail(ready), Tail(ready)[i] # Stop
          PROVE  /\ task'[Tail(ready)[i]] = "posted"
                 /\ \A j \in DOMAIN Tail(ready) : Tail(ready)[j] = Tail(ready)[i] => j = i
        <3>1. /\ i \in Nat /\ i + 1 \in DOMAIN ready /\ i + 1 # 1
              /\ Tail(ready)[i] = ready[i + 1]
              /\ 1 \in DOMAIN ready /\ Head(ready) = ready[1]
            BY <2>1, Taking
        <3>2. ready[i + 1] # Head(ready) /\ ready[i + 1] \in Calls
            BY <3>1, <2>1, <2>2 DEF Posted
        <3>3. task'[ready[i + 1]] = "posted"
            BY <3>1, <3>2, <2>1, <2>2 DEF Posted
        <3>4. ASSUME NEW j \in DOMAIN Tail(ready), Tail(ready)[j] = Tail(ready)[i]
              PROVE  j = i
            <4>1. j \in Nat /\ j + 1 \in DOMAIN ready /\ Tail(ready)[j] = ready[j + 1]
                BY <2>1, Taking
            <4>2. j + 1 = i + 1
                BY <4>1, <3>1, <3>4, <2>2 DEF Posted
            <4>. QED  BY <4>1, <4>2, <3>1
        <3>. QED  BY <3>1, <3>3, <3>4
    <2>. QED  BY <2>1, <2>2 DEF Posted
<1>4. ASSUME NEW c \in Calls, StartCall(c) \/ EndTask(c)
      PROVE  Posted'
    BY <1>4 DEF StartCall, EndTask, Posted, TypeOK
<1>5. CASE Teardown
    BY <1>5 DEF Teardown, Unfinished, Posted, TypeOK
<1>6. ASSUME NEW s \in Shutdowns, StopLoop(s), loop # "closed"
      PROVE  Posted'
    <2>1. ready' = Append(ready, Stop) /\ task' = task
        BY <1>6 DEF StopLoop
    <2>. QED  BY <2>1, Posting DEF Posted, TypeOK
<1>7. ASSUME NEW c \in Calls,
             Dispatch(c) \/ Acquire(c) \/ AddFuture(c) \/ AddDoneCallback(c)
                 \/ (Schedule(c) /\ loop = "closed")
      PROVE  UNCHANGED <<ready, task>>
    BY <1>7 DEF Dispatch, Acquire, AddFuture, AddDoneCallback, Schedule
<1>8. CASE RunForeverReturns \/ Close
    BY <1>8, <1>1 DEF RunForeverReturns, Close
<1>9. ASSUME NEW s \in Shutdowns,
             Shutdown(s) \/ SetDown(s) \/ Snapshot(s) \/ Drained(s) \/ WaitTimesOut(s)
                 \/ Join(s) \/ (StopLoop(s) /\ loop = "closed")
      PROVE  UNCHANGED <<ready, task>>
    BY <1>9 DEF Shutdown, SetDown, Snapshot, Drained, WaitTimesOut, Join, StopLoop
<1>10. CASE UNCHANGED vars
    BY <1>10, <1>1 DEF vars
<1>. QED
    BY <1>1, <1>2, <1>3, <1>4, <1>5, <1>6, <1>7, <1>8, <1>9, <1>10
       DEF Next, DispatchStep, LoopStep, ShutdownStep

-------------------------------------------------------------------------------
(***************************************************************************)
(* The slots and _futures.                                                 *)
(***************************************************************************)

Holding == {c \in Calls : Holds(c)}

\* A slot changes hands with the call that takes or frees it.
LEMMA SlotMoves ==
    ASSUME TypeOK, SlotsAccounted, NEW c \in Calls,
           \/ slots' = slots /\ Holding' = Holding
           \/ slots > 0 /\ slots' = slots - 1 /\ c \notin Holding /\ Holding' = Holding \cup {c}
           \/ slots' = slots + 1 /\ c \in Holding /\ Holding' = Holding \ {c}
    PROVE  SlotsAccounted'
<1>1. IsFiniteSet(Holding) /\ Cardinality(Holding) \in Nat
    BY FS_Subset, FS_CardinalityType, DispatcherAssumption DEF Holding
<1>2. /\ Cardinality(Holding \cup {c}) =
             IF c \in Holding THEN Cardinality(Holding) ELSE Cardinality(Holding) + 1
      /\ Cardinality(Holding \ {c}) =
             IF c \in Holding THEN Cardinality(Holding) - 1 ELSE Cardinality(Holding)
    BY <1>1, FS_AddElement, FS_RemoveElement
<1>3. slots + Cardinality(Holding) = MaxInflight
    BY DEF SlotsAccounted, Holding
<1>4. slots' + Cardinality(Holding') = MaxInflight
    <2>1. slots \in Nat /\ MaxInflight \in Nat
        BY DispatcherAssumption DEF TypeOK
    <2>2. CASE slots' = slots /\ Holding' = Holding
        BY <1>3, <2>2
    <2>3. CASE slots > 0 /\ slots' = slots - 1 /\ c \notin Holding /\ Holding' = Holding \cup {c}
        <3>1. Cardinality(Holding') = Cardinality(Holding) + 1
            BY <1>2, <2>3
        <3>. QED  BY <1>1, <1>3, <2>1, <2>3, <3>1
    <2>4. CASE slots' = slots + 1 /\ c \in Holding /\ Holding' = Holding \ {c}
        <3>1. Cardinality(Holding') = Cardinality(Holding) - 1
            BY <1>2, <2>4
        <3>. QED  BY <1>1, <1>3, <2>1, <2>4, <3>1
    <2>. QED  BY <2>2, <2>3, <2>4
<1>. QED  BY <1>4 DEF SlotsAccounted, Holding

LEMMA SlotsStep ==
    TypeOK /\ Stages /\ SlotsAccounted /\ FuturesTracked /\ [Next]_vars
        => SlotsAccounted' /\ FuturesTracked'
<1> SUFFICES ASSUME TypeOK, Stages, SlotsAccounted, FuturesTracked, [Next]_vars
             PROVE  SlotsAccounted' /\ FuturesTracked'
    OBVIOUS
<1> USE DEF dispatching, looping, shutting
<1>1. CASE UNCHANGED <<at, future, slots, futures>>
    BY <1>1 DEF SlotsAccounted, FuturesTracked, Holds
<1>2. ASSUME NEW c \in Calls, DispatchStep(c)
      PROVE  SlotsAccounted' /\ FuturesTracked'
    <2> USE DEF TypeOK, Holding, Holds, FuturesTracked
    <2>1. CASE Dispatch(c)
        <3>1. Holding' = Holding /\ slots' = slots
            BY <2>1 DEF Dispatch
        <3>2. FuturesTracked'
            BY <2>1 DEF Dispatch
        <3>. QED  BY <3>1, <3>2, SlotMoves
    <2>2. CASE Acquire(c)
        <3>1. CASE slots > 0
            <4>1. slots' = slots - 1 /\ c \notin Holding /\ Holding' = Holding \cup {c}
                BY <2>2, <3>1 DEF Acquire, SlotFree
            <4>2. FuturesTracked'
                BY <2>2, <3>1 DEF Acquire, SlotFree
            <4>. QED  BY <3>1, <4>1, <4>2, SlotMoves
        <3>2. CASE ~(slots > 0)
            <4>1. slots' = slots /\ Holding' = Holding
                BY <2>2, <3>2 DEF Acquire, SlotFree
            <4>2. FuturesTracked'
                BY <2>2, <3>2 DEF Acquire, SlotFree
            <4>. QED  BY <4>1, <4>2, SlotMoves
        <3>. QED  BY <3>1, <3>2
    <2>3. CASE Schedule(c)
        <3>1. CASE loop = "closed"
            <4>1. slots' = slots + 1 /\ c \in Holding /\ Holding' = Holding \ {c}
                BY <2>3, <3>1 DEF Schedule, RolledBack
            <4>2. FuturesTracked'
                BY <2>3, <3>1 DEF Schedule
            <4>. QED  BY <4>1, <4>2, SlotMoves
        <3>2. CASE loop # "closed"
            <4>1. slots' = slots /\ Holding' = Holding
                BY <2>3, <3>2 DEF Schedule
            <4>2. FuturesTracked'
                BY <2>3, <3>2 DEF Schedule
            <4>. QED  BY <4>1, <4>2, SlotMoves
        <3>. QED  BY <3>1, <3>2
    <2>4. CASE AddFuture(c)
        <3>1. slots' = slots /\ Holding' = Holding
            BY <2>4 DEF AddFuture
        <3>2. FuturesTracked'
            BY <2>4 DEF AddFuture
        <3>. QED  BY <3>1, <3>2, SlotMoves
    <2>5. CASE AddDoneCallback(c)
        <3>1. future[c] \in {"pending", "done"}
            BY <2>5 DEF AddDoneCallback, Stages
        <3>2. CASE future[c] = "done"
            <4>1. slots' = slots + 1 /\ c \in Holding /\ Holding' = Holding \ {c}
                BY <2>5, <3>2 DEF AddDoneCallback, OnFutureDone
            <4>2. FuturesTracked'
                BY <2>5, <3>2 DEF AddDoneCallback, OnFutureDone
            <4>. QED  BY <4>1, <4>2, SlotMoves
        <3>3. CASE future[c] = "pending"
            <4>1. slots' = slots /\ Holding' = Holding
                BY <2>5, <3>3 DEF AddDoneCallback
            <4>2. FuturesTracked'
                BY <2>5, <3>3 DEF AddDoneCallback
            <4>. QED  BY <4>1, <4>2, SlotMoves
        <3>. QED  BY <3>1, <3>2, <3>3
    <2>. QED  BY <1>2, <2>1, <2>2, <2>3, <2>4, <2>5 DEF DispatchStep
<1>3. ASSUME NEW c \in Calls, EndTask(c)
      PROVE  SlotsAccounted' /\ FuturesTracked'
    <2> USE DEF TypeOK, Holding, Holds, FuturesTracked
    <2>1. future[c] = "pending" /\ at[c] \in {"scheduled", "added", "returned"}
        BY <1>3 DEF EndTask, Stages
    <2>2. CASE at[c] = "returned"
        <3>1. slots' = slots + 1 /\ c \in Holding /\ Holding' = Holding \ {c}
            BY <1>3, <2>1, <2>2 DEF EndTask, DoneCallback, OnFutureDone
        <3>2. FuturesTracked'
            BY <1>3, <2>1, <2>2 DEF EndTask, DoneCallback, OnFutureDone
        <3>. QED  BY <3>1, <3>2, SlotMoves
    <2>3. CASE at[c] # "returned"
        <3>1. slots' = slots /\ Holding' = Holding
            BY <1>3, <2>1, <2>3 DEF EndTask, DoneCallback
        <3>2. FuturesTracked'
            BY <1>3, <2>1, <2>3 DEF EndTask, DoneCallback
        <3>. QED  BY <3>1, <3>2, SlotMoves
    <2>. QED  BY <2>2, <2>3
<1>4. CASE LoopStep
    BY <1>4, <1>1 DEF LoopStep, RunCallback, RunForeverReturns, Teardown, Close, StartCall
<1>5. ASSUME NEW s \in Shutdowns, Shutdown(s) \/ ShutdownStep(s)
      PROVE  SlotsAccounted' /\ FuturesTracked'
    BY <1>5, <1>1
       DEF Shutdown, ShutdownStep, SetDown, Snapshot, Drained, WaitTimesOut, StopLoop, Join
<1>6. CASE UNCHANGED vars
    BY <1>6, <1>1 DEF vars
<1>. QED  BY <1>2, <1>3, <1>4, <1>5, <1>6 DEF Next

-------------------------------------------------------------------------------
(***************************************************************************)
(* Late dispatches and the drain.                                          *)
(***************************************************************************)

LEMMA EventSetStep == TypeOK /\ EventSet /\ [Next]_vars => EventSet' /\ (down => down')
<1> SUFFICES ASSUME TypeOK, EventSet, [Next]_vars
             PROVE  EventSet' /\ (down => down')
    OBVIOUS
<1> USE DEF EventSet, TypeOK, dispatching, looping, shutting
<1>1. CASE UNCHANGED <<down, shut>>
    BY <1>1
<1>2. ASSUME NEW s \in Shutdowns, Shutdown(s) \/ ShutdownStep(s)
      PROVE  EventSet' /\ (down => down')
    BY <1>2
       DEF Shutdown, ShutdownStep, SetDown, Snapshot, Drained, WaitTimesOut, StopLoop, Join
<1>3. ASSUME NEW c \in Calls, DispatchStep(c) \/ EndTask(c)
      PROVE  UNCHANGED <<down, shut>>
    BY <1>3
       DEF DispatchStep, Dispatch, Acquire, Schedule, AddFuture, AddDoneCallback, EndTask
<1>4. CASE LoopStep
    BY <1>1, <1>4 DEF LoopStep, RunCallback, RunForeverReturns, Teardown, Close, StartCall
<1>5. CASE UNCHANGED vars
    BY <1>1, <1>5 DEF vars
<1>. QED  BY <1>1, <1>2, <1>3, <1>4, <1>5 DEF Next

LEMMA LateDroppedStep ==
    TypeOK /\ Stages /\ Posted /\ EventSet /\ LateDropped /\ [Next]_vars => LateDropped'
<1> SUFFICES ASSUME TypeOK, Stages, Posted, EventSet, LateDropped, [Next]_vars
             PROVE  LateDropped'
    OBVIOUS
<1> USE DEF LateDropped, TypeOK, dispatching, looping, shutting
<1>1. ASSUME NEW c \in Calls, DispatchStep(c)
      PROVE  LateDropped'
    <2>1. CASE Dispatch(c)
        <3>1. c \in late' \ late => at'[c] = "dropped"
            BY <2>1 DEF Dispatch, Accepts, EventSet
        <3>. QED  BY <2>1, <3>1 DEF Dispatch
    <2>2. CASE Acquire(c) \/ Schedule(c) \/ AddFuture(c) \/ AddDoneCallback(c)
        BY <2>2 DEF Acquire, Schedule, AddFuture, AddDoneCallback
    <2>. QED  BY <1>1, <2>1, <2>2 DEF DispatchStep
<1>2. ASSUME NEW c \in Calls, EndTask(c) \/ StartCall(c)
      PROVE  LateDropped'
    BY <1>2 DEF EndTask, StartCall
<1>3. CASE RunCallback
    BY <1>3 DEF RunCallback
<1>4. CASE RunForeverReturns \/ Close
    BY <1>4 DEF RunForeverReturns, Close
<1>5. CASE Teardown
    BY <1>5 DEF Teardown, Unfinished
<1>6. ASSUME NEW s \in Shutdowns, Shutdown(s) \/ ShutdownStep(s)
      PROVE  LateDropped'
    BY <1>6 DEF Shutdown, ShutdownStep, SetDown, Snapshot, Drained, WaitTimesOut, StopLoop, Join
<1>7. CASE UNCHANGED vars
    BY <1>7 DEF vars
<1>. QED  BY <1>1, <1>2, <1>3, <1>4, <1>5, <1>6, <1>7 DEF Next, LoopStep

LEMMA UndisturbedStep == TypeOK /\ Stages /\ Undisturbed /\ [Next]_vars => Undisturbed'
<1> SUFFICES ASSUME TypeOK, Stages, Undisturbed, [Next]_vars
             PROVE  Undisturbed'
    OBVIOUS
<1> USE DEF Undisturbed, TypeOK, dispatching, looping, shutting
<1>1. ASSUME NEW c \in Calls, DispatchStep(c)
      PROVE  Undisturbed'
    BY <1>1 DEF DispatchStep, Dispatch, Acquire, Schedule, AddFuture, AddDoneCallback
<1>2. ASSUME NEW c \in Calls, EndTask(c) \/ StartCall(c)
      PROVE  Undisturbed'
    BY <1>2 DEF EndTask, StartCall
<1>3. CASE RunCallback
    BY <1>3 DEF RunCallback
<1>4. CASE RunForeverReturns \/ Teardown \/ Close
    BY <1>4 DEF RunForeverReturns, Teardown, Close
<1>5. ASSUME NEW s \in Shutdowns, Shutdown(s) \/ ShutdownStep(s)
      PROVE  Undisturbed'
    BY <1>5 DEF Shutdown, ShutdownStep, SetDown, Snapshot, Drained, WaitTimesOut, StopLoop, Join
<1>6. CASE UNCHANGED vars
    BY <1>6 DEF vars
<1>. QED  BY <1>1, <1>2, <1>3, <1>4, <1>5, <1>6 DEF Next, LoopStep

\* What is done stays done, what returned stays returned, and what a snapshot
\* must cover no longer grows once the event is set.
LEMMA Lasting ==
    TypeOK /\ Stages /\ [Next]_vars =>
        /\ \A c \in Calls : future[c] = "done" => future'[c] = "done"
        /\ Returned \subseteq Returned'
        /\ Early' \subseteq Early \cup Returned
        /\ down => Early' \subseteq Early
        /\ delivered \subseteq delivered'
        /\ AllWait' => AllWait
<1> SUFFICES ASSUME TypeOK, Stages, [Next]_vars
             PROVE  /\ \A c \in Calls : future[c] = "done" => future'[c] = "done"
                    /\ Returned \subseteq Returned'
                    /\ Early' \subseteq Early \cup Returned
                    /\ down => Early' \subseteq Early
                    /\ delivered \subseteq delivered'
                    /\ AllWait' => AllWait
    OBVIOUS
<1> USE DEF TypeOK, dispatching, looping, shutting
<1>1. UNCHANGED <<early, shut, waits, timedOut>> => Early' = Early /\ AllWait' = AllWait
    BY DEF Early, AllWait
<1>2. ASSUME NEW c \in Calls, DispatchStep(c) \/ EndTask(c)
      PROVE  /\ UNCHANGED <<early, shut, waits, timedOut>>
             /\ delivered \subseteq delivered'
             /\ \A d \in Calls : at[d] = "returned" => at'[d] = "returned"
             /\ \A d \in Calls : future[d] = "done" => future'[d] = "done"
    BY <1>2
       DEF DispatchStep, Dispatch, Acquire, Schedule, AddFuture, AddDoneCallback, EndTask, Stages
<1>3. CASE LoopStep
    BY <1>1, <1>3
       DEF LoopStep, RunCallback, RunForeverReturns, Teardown, Close, StartCall, Returned
<1>4. ASSUME NEW s \in Shutdowns, Shutdown(s)
      PROVE  /\ Early' \subseteq Early \cup Returned
             /\ down => Early' \subseteq Early
             /\ AllWait' => AllWait
             /\ UNCHANGED <<at, future, delivered>>
    <2>1. /\ early[s] \subseteq Early
          /\ \A t \in Shutdowns : t # s => early'[t] = early[t]
          /\ early'[s] = IF down THEN {} ELSE Returned
        BY <1>4 DEF Shutdown, Early
    <2>2. Early' \subseteq Early \cup Returned
        BY <2>1 DEF Early
    <2>3. down => Early' \subseteq Early
        BY <2>1 DEF Early
    <2>4. AllWait' => AllWait
        BY <1>4 DEF Shutdown, AllWait
    <2>. QED  BY <1>4, <2>2, <2>3, <2>4 DEF Shutdown
<1>5. ASSUME NEW s \in Shutdowns, ShutdownStep(s)
      PROVE  /\ Early' = Early
             /\ AllWait' => AllWait
             /\ UNCHANGED <<at, future, delivered>>
    BY <1>5
       DEF ShutdownStep, SetDown, Snapshot, Drained, WaitTimesOut, StopLoop, Join, Early, AllWait
<1>6. CASE UNCHANGED vars
    BY <1>1, <1>6 DEF vars, Returned
<1>. QED  BY <1>1, <1>2, <1>3, <1>4, <1>5, <1>6 DEF Next, Returned

LEMMA CoveredStep ==
    TypeOK /\ Stages /\ FuturesTracked /\ EventSet /\ Covered /\ [Next]_vars => Covered'
<1> SUFFICES ASSUME TypeOK, Stages, FuturesTracked, EventSet, Covered, [Next]_vars
             PROVE  Covered'
    OBVIOUS
<1>1. Early \subseteq Calls /\ Early' \subseteq Calls
    BY Lasting DEF Covered, Returned
<1>2. Early' \subseteq Returned'
    BY Lasting DEF Covered
<1>3. ASSUME NEW s \in Shutdowns, NEW c \in Early', shut'[s] = "draining"
      PROVE  c \in draining'[s] \/ future'[c] = "done"
    <2>1. CASE shut[s] = "draining" /\ draining'[s] = draining[s]
        <3>1. c \in Early
            BY <2>1, Lasting DEF EventSet
        <3>. QED  BY <1>1, <2>1, <3>1, Lasting DEF Covered
    <2>2. CASE Snapshot(s)
        <3>1. draining'[s] = futures /\ c \in Early /\ future' = future
            BY <2>2, <1>3 DEF Snapshot, Pending, TypeOK, Early, dispatching
        <3>2. at[c] = "returned"
            BY <3>1 DEF Covered, Returned
        <3>3. future[c] \in {"pending", "done"}
            BY <1>1, <3>1, <3>2 DEF Stages, TypeOK
        <3>. QED  BY <1>1, <3>1, <3>2, <3>3 DEF FuturesTracked
    <2>3. (shut[s] = "draining" /\ draining'[s] = draining[s]) \/ Snapshot(s)
        <3> USE DEF TypeOK
        <3>1. ASSUME NEW t \in Shutdowns, Shutdown(t) \/ ShutdownStep(t)
              PROVE  (shut[s] = "draining" /\ draining'[s] = draining[s]) \/ Snapshot(s)
            BY <1>3, <3>1
               DEF Shutdown, ShutdownStep, SetDown, Snapshot, Drained, WaitTimesOut, StopLoop, Join
        <3>2. CASE UNCHANGED <<shut, draining>>
            BY <1>3, <3>2
        <3>3. ASSUME NEW d \in Calls, DispatchStep(d) \/ EndTask(d)
              PROVE  UNCHANGED <<shut, draining>>
            BY <3>3
               DEF DispatchStep, Dispatch, Acquire, Schedule, AddFuture, AddDoneCallback,
                   EndTask, shutting
        <3>4. CASE LoopStep
            BY <3>2, <3>4
               DEF LoopStep, RunCallback, RunForeverReturns, Teardown, Close, StartCall, shutting
        <3>5. CASE UNCHANGED vars
            BY <3>2, <3>5 DEF vars, shutting
        <3>. QED  BY <3>1, <3>2, <3>3, <3>4, <3>5 DEF Next
    <2>. QED  BY <2>1, <2>2, <2>3
<1>. QED  BY <1>2, <1>3 DEF Covered

\* The steps that bring a shutdown to the stop, and those that tell the loop.
LEMMA StopCauses ==
    ASSUME TypeOK, [Next]_vars, NEW s \in Shutdowns, shut'[s] = "stop"
    PROVE  \/ /\ shut[s] = "stop" /\ waits'[s] = waits[s]
              /\ ~timedOut'[s] => ~timedOut[s]
           \/ ~waits'[s]
           \/ Drained(s)
           \/ timedOut'[s]
<1> USE DEF TypeOK, dispatching, looping, shutting
<1>1. ASSUME NEW t \in Shutdowns, Shutdown(t) \/ ShutdownStep(t)
      PROVE  \/ /\ shut[s] = "stop" /\ waits'[s] = waits[s]
                /\ ~timedOut'[s] => ~timedOut[s]
             \/ ~waits'[s]
             \/ Drained(s)
             \/ timedOut'[s]
    BY <1>1
       DEF Shutdown, ShutdownStep, SetDown, Snapshot, Drained, WaitTimesOut, StopLoop, Join
<1>2. ASSUME NEW d \in Calls, DispatchStep(d) \/ EndTask(d)
      PROVE  UNCHANGED <<shut, waits, timedOut>>
    BY <1>2
       DEF DispatchStep, Dispatch, Acquire, Schedule, AddFuture, AddDoneCallback, EndTask
<1>3. CASE LoopStep
    BY <1>3 DEF LoopStep, RunCallback, RunForeverReturns, Teardown, Close, StartCall
<1>4. CASE UNCHANGED vars
    BY <1>4 DEF vars
<1>. QED  BY <1>1, <1>2, <1>3, <1>4 DEF Next

LEMMA SettledStep ==
    TypeOK /\ Stages /\ EventSet /\ Covered /\ Settled /\ [Next]_vars => Settled'
<1> SUFFICES ASSUME TypeOK, Stages, EventSet, Covered, Settled, [Next]_vars,
                    NEW s \in Shutdowns, NEW c \in Early',
                    shut'[s] = "stop", waits'[s], ~timedOut'[s]
             PROVE  future'[c] = "done"
    BY DEF Settled
<1>1. CASE shut[s] = "stop" /\ waits'[s] = waits[s] /\ ~timedOut[s]
    <2>1. c \in Early /\ c \in Calls
        BY <1>1, Lasting DEF EventSet, Covered, Returned
    <2>. QED  BY <1>1, <2>1, Lasting DEF Settled
<1>2. CASE Drained(s)
    <2>1. c \in Early /\ c \in Calls
        BY <1>2, Lasting DEF Drained, EventSet, Covered, Returned
    <2>2. future[c] = "done"
        BY <1>2, <2>1 DEF Drained, Covered
    <2>. QED  BY <2>1, <2>2, Lasting
<1>. QED  BY <1>1, <1>2, StopCauses

LEMMA ToldCauses ==
    ASSUME TypeOK, [Next]_vars, Told'
    PROVE  Told \/ \E s \in Shutdowns : StopLoop(s)
<1> USE DEF Told, TypeOK, dispatching, looping, shutting
<1>1. ASSUME NEW c \in Calls, Schedule(c)
      PROVE  Told
    <2>1. CASE loop = "closed"
        BY <2>1
    <2>2. CASE loop # "closed"
        <3>1. ready' = Append(ready, c)
            BY <1>1, <2>2 DEF Schedule
        <3>2. \A i \in DOMAIN ready' : ready'[i] = Stop => i \in DOMAIN ready /\ ready[i] = Stop
            BY <3>1, Posting, DispatcherAssumption
        <3>. QED  BY <1>1, <3>2 DEF Schedule
    <2>. QED  BY <2>1, <2>2
<1>2. CASE RunCallback
    <2>1. ready' = Tail(ready) /\ ready # <<>> /\ loop' = loop
        BY <1>2 DEF RunCallback
    <2>2. \A i \in DOMAIN ready' : i + 1 \in DOMAIN ready /\ ready'[i] = ready[i + 1]
        BY <2>1, Taking
    <2>3. 1 \in DOMAIN ready /\ Head(ready) = ready[1]
        BY <2>1, Taking
    <2>4. stopping' => stopping \/ Head(ready) = Stop
        BY <1>2 DEF RunCallback
    <2>. QED  BY <2>1, <2>2, <2>3, <2>4
<1>3. CASE UNCHANGED <<loop, ready, stopping>>
    BY <1>3
<1>4. CASE RunForeverReturns \/ Teardown \/ Close
    BY <1>4 DEF RunForeverReturns, Teardown, Close
<1>5. ASSUME NEW c \in Calls,
             Dispatch(c) \/ Acquire(c) \/ AddFuture(c) \/ AddDoneCallback(c)
                 \/ EndTask(c) \/ StartCall(c)
      PROVE  UNCHANGED <<loop, ready, stopping>>
    BY <1>5 DEF Dispatch, Acquire, AddFuture, AddDoneCallback, EndTask, StartCall
<1>6. ASSUME NEW s \in Shutdowns,
             Shutdown(s) \/ SetDown(s) \/ Snapshot(s) \/ Drained(s) \/ WaitTimesOut(s) \/ Join(s)
      PROVE  UNCHANGED <<loop, ready, stopping>>
    BY <1>6 DEF Shutdown, SetDown, Snapshot, Drained, WaitTimesOut, Join
<1>7. CASE UNCHANGED vars
    BY <1>7 DEF vars
<1>. QED
    BY <1>1, <1>2, <1>3, <1>4, <1>5, <1>6, <1>7
       DEF Next, DispatchStep, LoopStep, ShutdownStep

\* The loop stops running only by returning from run_forever.
LEMMA StopsOnce ==
    ASSUME TypeOK, [Next]_vars, loop' # "running"
    PROVE  loop # "running" \/ stopping
<1> USE DEF dispatching, looping, shutting
<1>1. ASSUME NEW c \in Calls, DispatchStep(c) \/ EndTask(c)
      PROVE  loop' = loop
    BY <1>1
       DEF DispatchStep, Dispatch, Acquire, Schedule, AddFuture, AddDoneCallback, EndTask
<1>2. CASE LoopStep
    BY <1>2 DEF LoopStep, RunCallback, RunForeverReturns, Teardown, Close, StartCall
<1>3. ASSUME NEW s \in Shutdowns, Shutdown(s) \/ ShutdownStep(s)
      PROVE  loop' = loop
    BY <1>3
       DEF Shutdown, ShutdownStep, SetDown, Snapshot, Drained, WaitTimesOut, StopLoop, Join
<1>4. CASE UNCHANGED vars
    BY <1>4 DEF vars
<1>. QED  BY <1>1, <1>2, <1>3, <1>4 DEF Next

LEMMA StoppedStep ==
    /\ TypeOK /\ Stages /\ EventSet /\ Undisturbed /\ Covered /\ Settled /\ Stopped
    /\ [Next]_vars
    => Stopped'
<1> SUFFICES ASSUME TypeOK, Stages, EventSet, Undisturbed, Covered, Settled, Stopped, [Next]_vars
             PROVE  Stopped'
    OBVIOUS
<1>1. Early \subseteq Calls
    BY DEF Covered, Returned
<1>2. Told' => down /\ down'
    BY ToldCauses, EventSetStep DEF Stopped, StopLoop, EventSet
<1>3. ASSUME Told', AllWait', NEW c \in Early'
      PROVE  future'[c] = "done"
    <2>1. c \in Early /\ AllWait
        BY <1>2, <1>3, Lasting
    <2>2. CASE Told
        BY <1>1, <2>1, <2>2, Lasting DEF Stopped
    <2>3. ASSUME NEW s \in Shutdowns, StopLoop(s)
          PROVE  future[c] = "done"
        BY <2>1, <2>3 DEF StopLoop, AllWait, Settled
    <2>. QED  BY <1>1, <1>3, <2>1, <2>2, <2>3, ToldCauses, Lasting
<1>4. ASSUME loop' # "running", AllWait', NEW c \in Early'
      PROVE  c \in delivered'
    <2>1. Told'
        BY <1>4 DEF Told
    <2>2. c \in Early /\ c \in Calls /\ AllWait
        BY <1>1, <1>2, <1>4, <2>1, Lasting
    <2>3. CASE loop # "running"
        BY <2>2, <2>3, Lasting DEF Stopped
    <2>4. CASE loop = "running"
        <3>1. stopping
            BY <1>4, <2>4, StopsOnce
        <3>2. future[c] = "done"
            BY <2>2, <3>1 DEF Stopped, Told
        <3>3. c \in delivered
            BY <2>2, <2>4, <3>2 DEF Stages, Undisturbed
        <3>. QED  BY <3>3, Lasting
    <2>. QED  BY <2>3, <2>4
<1>. QED  BY <1>2, <1>3, <1>4 DEF Stopped

-------------------------------------------------------------------------------
(***************************************************************************)
(* The theorems.                                                           *)
(***************************************************************************)

LEMMA Start == Init => IInv
<1> SUFFICES ASSUME Init
             PROVE  IInv
    OBVIOUS
<1> USE DispatcherAssumption DEF Init
<1>1. TypeOK
    <2>1. slots \in Nat /\ ready \in Seq(Calls \cup {Stop})
        OBVIOUS
    <2>2. /\ at \in [Calls -> {"idle", "checked", "dropped", "acquired", "scheduled", "added", "returned"}]
          /\ future \in [Calls -> {"none", "pending", "done"}]
          /\ task \in [Calls -> {"none", "posted", "created", "calling", "cancelled", "over"}]
        OBVIOUS
    <2>3. /\ shut \in [Shutdowns -> {"idle", "tested", "set", "draining", "stop", "joining", "returned"}]
          /\ draining \in [Shutdowns -> SUBSET Calls]
          /\ timedOut \in [Shutdowns -> BOOLEAN]
          /\ early \in [Shutdowns -> SUBSET Calls]
        OBVIOUS
    <2>. QED  BY <2>1, <2>2, <2>3 DEF TypeOK
<1>2. Stages /\ Posted /\ FuturesTracked
    BY DEF Stages, Posted, FuturesTracked
<1>3. SlotsAccounted
    <2>1. {c \in Calls : Holds(c)} = {}
        BY DEF Holds
    <2>2. Cardinality({c \in Calls : Holds(c)}) = 0
        BY <2>1, FS_EmptySet
    <2>3. slots + 0 = MaxInflight
        OBVIOUS
    <2>. QED  BY <2>2, <2>3 DEF SlotsAccounted
<1>4. Early = {}
    BY DEF Early
<1>5. EventSet /\ LateDropped /\ Undisturbed /\ Covered /\ Settled
    BY <1>4 DEF EventSet, LateDropped, Undisturbed, Covered, Settled
<1>6. Stopped
    BY <1>4 DEF Stopped, Told
<1>. QED  BY <1>1, <1>2, <1>3, <1>5, <1>6 DEF IInv, Accounting, Draining

\* The invariant the other theorems follow from: a dispatch's stage, its future,
\* its task and its slot agree, and the drains cover what they must
\* (_live_track_event_dispatcher.py, lines 157-287).
THEOREM Invariance == Spec => []IInv
<1>1. IInv /\ [Next]_vars => IInv'
    <2> SUFFICES ASSUME IInv, [Next]_vars
                 PROVE  IInv'
        OBVIOUS
    <2>1. Accounting'
        BY TypingStep, StagesStep, PostedStep, SlotsStep DEF IInv, Accounting
    <2>2. LateDropped'
        BY LateDroppedStep DEF IInv, Accounting, Draining
    <2>3. Draining'
        BY EventSetStep, UndisturbedStep, CoveredStep, SettledStep, StoppedStep
           DEF IInv, Accounting, Draining
    <2>. QED  BY <2>1, <2>2, <2>3 DEF IInv
<1>. QED  BY <1>1, Start, PTL DEF Spec

\* Every variable keeps its type; the semaphore is never negative.
THEOREM TypeCorrect == Spec => []TypeOK
BY Invariance, PTL DEF IInv, Accounting

\* The semaphore is neither leaked nor released twice, whichever thread runs
\* the done callback (lines 186-212, 250-254).
THEOREM SlotsAreAccounted == Spec => []SlotsAccounted
BY Invariance, PTL DEF IInv, Accounting

\* _futures is what a shutdown has to wait for (lines 210-212, 250-254).
THEOREM FuturesAreTracked == Spec => []FuturesTracked
BY Invariance, PTL DEF IInv, Accounting

\* Semaphore and futures agree with the calls in progress.
THEOREM CallsAreAccounted == Spec => []Accounted
BY Invariance, PTL DEF IInv, Accounting, Accounted

\* At most MaxInflight provider calls at a time (lines 167-168).
THEOREM CallsAreCapped == Spec => []Capped
<1>1. IInv => Capped
    <2> SUFFICES ASSUME IInv
                 PROVE  Capped
        OBVIOUS
    <2>1. {c \in Calls : task[c] \in {"calling", "cancelled"}} \subseteq Holding
        BY DEF IInv, Accounting, Stages, TypeOK, Holding, Holds
    <2>2. IsFiniteSet(Holding) /\ Cardinality(Holding) \in Nat
        BY FS_Subset, FS_CardinalityType, DispatcherAssumption DEF Holding
    <2>3. Cardinality(Holding) <= MaxInflight
        BY <2>2, DispatcherAssumption DEF IInv, Accounting, TypeOK, SlotsAccounted, Holding
    <2>4. /\ Cardinality({c \in Calls : task[c] \in {"calling", "cancelled"}})
                 <= Cardinality(Holding)
          /\ Cardinality({c \in Calls : task[c] \in {"calling", "cancelled"}}) \in Nat
        BY <2>1, <2>2, FS_Subset, FS_CardinalityType
    <2>. QED  BY <2>2, <2>3, <2>4, DispatcherAssumption DEF Capped
<1>. QED  BY <1>1, Invariance, PTL

\* A dispatch called after a shutdown returned does not reach the provider
\* (docstring, lines 163-164).
THEOREM LateIsNotCalled == Spec => []LateNotCalled
<1>1. IInv => LateNotCalled
    BY DEF IInv, Accounting, LateDropped, LateNotCalled, Stages, TypeOK
<1>. QED  BY <1>1, Invariance, PTL

\* The loop is not stopped before the provider answered what was dispatched
\* before a shutdown, if every shutdown waits and none gives up (lines 257-280).
THEOREM DrainsAreComplete == Spec => []NotCutShort
<1>1. IInv => NotCutShort
    BY DEF IInv, Draining, Stopped, NotCutShort, AllWait, Early
<1>. QED  BY <1>1, Invariance, PTL

\* A shutdown divides the calls it drains from those it refuses (lines 257-280).
THEOREM ShutdownsDivide == Spec => []ShutdownDivides
BY LateIsNotCalled, DrainsAreComplete, PTL DEF ShutdownDivides

-------------------------------------------------------------------------------
(***************************************************************************)
(* TelemetryFlush, for any threads, any number of resets and any size of   *)
(* the queue at which it drains itself.                                    *)
(*                                                                         *)
(* QueueCovered is not inductive.  That what is queued is marked pending   *)
(* rests on who may yet mark it (Covered): an event that is on its way to  *)
(* set the mark, or a flush that has cleared it and has yet to look at     *)
(* what is left; with both locks free there is neither.  That a shutdown   *)
(* leaves nothing behind rests on the locks (Locked), on the client that   *)
(* is drained under them being the current one (Holding) and on the queue  *)
(* being empty when the drain ends (Emptied).  Workers and clients are     *)
(* counted by the resets that are over (Counted).                          *)
(***************************************************************************)

\* Where a thread of each kind may stand.
StagesOf(t) ==
    CASE t \in Events -> {"start", "ready", "put", "draining", "tracked", "done"}
      [] t \in Flushers -> {"start", "flush", "captured", "draining", "drained", "done"}
      [] t \in Flush!Shutdowns -> {"start", "joining", "flush", "captured", "draining", "drained", "flushed", "done"}
      [] OTHER -> {"none", "waiting", "ticked", "flush", "captured", "draining", "drained", "dead"}
Staged == \A t \in Flush!Threads : pc[t] \in StagesOf(t)

\* Who holds which lock.
TracksOrShuts(t) ==
    \/ t \in Events /\ pc[t] \in {"put", "draining"}
    \/ t \in Flush!Shutdowns /\ pc[t] \in {"joining", "flush", "captured", "draining", "drained", "flushed"}
Flushing(t) == t \notin Events /\ pc[t] \in {"captured", "draining", "drained"}
Locked == \A t \in Flush!Threads : (lifecycle = t <=> TracksOrShuts(t)) /\ (flushLock = t <=> Flushing(t))

\* What a thread drains is a client that was made, and under the lifecycle
\* lock the current one.
FlushHolding ==
    /\ client \in {0, built} /\ (~initialized => client = 0)
    /\ \A c \in Flush!Clients : c > built => queue[c] = {} /\ c \notin malformed
    /\ \A t \in Flush!Threads :
          /\ held[t] <= built
          /\ pc[t] \in {"captured", "draining", "drained"} => held[t] # 0
          /\ TracksOrShuts(t) /\ pc[t] \in {"put", "captured", "draining", "drained"} => held[t] = client
          /\ batch[t] # {} => pc[t] = "draining"
    /\ \A t \in Events : pc[t] = "put" => client # 0

\* An event is in one place, and there has failed at most once.
OnePlace ==
    /\ \A c, d \in Flush!Clients : c # d => queue[c] \cap queue[d] = {}
    /\ \A c \in Flush!Clients, t \in Flush!Threads : queue[c] \cap batch[t] = {}
    /\ \A t, u \in Flush!Threads : t # u => batch[t] \cap batch[u] = {}
    /\ \A e \in Events :
          (\E c \in Flush!Clients : e \in queue[c]) \/ (\E t \in Flush!Threads : e \in batch[t]) =>
              attempts[e] < 2 /\ pc[e] \notin {"start", "ready"}
    /\ \A e \in Events : pc[e] \in {"start", "ready"} => attempts[e] = 0

\* A client, and a worker, for every reset that is over, and one more.
DoneResets == {r \in Resets : pc[r] = "done"}
Over == Cardinality(DoneResets)
Counted ==
    /\ built <= IF initialized THEN Over + 1 ELSE Over
    /\ \E k \in Nat :
          /\ \A w \in Flush!Workers : pc[w] # "none" <=> w <= k
          /\ k <= IF worker = 0 /\ ~requested THEN Over ELSE Over + 1

\* A worker that was told to stop is one a shutdown waits for.
Stopping ==
    /\ \A s \in Flush!Shutdowns : TracksOrShuts(s) => requested
    /\ worker # 0 => pc[worker] # "none" /\ (~requested => ~stop[worker])
    /\ \A w \in Flush!Workers : (pc[w] = "dead" => stop[w]) /\ (stop[w] => pc[w] # "none")

\* What makes up for pending not being set: an event that is about to set it,
\* or a flush that has yet to look at what is left.
Putting == \E e \in Events : pc[e] = "put" \/ (pc[e] = "draining" /\ client \notin malformed)
LooksAgain == \E t \in Flush!Threads \ Events : pc[t] \in {"draining", "drained"} /\ held[t] = client
FlushCovered ==
    client # 0 =>
        /\ queue[client] # {} =>
              pending \/ crossed \/ LooksAgain \/ Putting \/ \E e \in Events : pc[e] = "draining"
        /\ \A e \in Events :
              pc[e] = "draining" /\ client \in malformed =>
                  IF batch[e] = {} THEN queue[client] \subseteq {e} \/ pending \/ crossed \/ LooksAgain
                  ELSE queue[client] = {} \/ pending \/ crossed \/ LooksAgain

\* A shutdown that has drained leaves nothing of the current client.
Emptied ==
    \A s \in Flush!Shutdowns :
        pc[s] = "drained" => queue[client] = {} /\ \A t \in Flush!Threads : held[t] = client => batch[t] = {}

FlushIInv ==
    /\ Flush!TypeOK /\ Staged /\ Locked /\ FlushHolding /\ OnePlace /\ Counted /\ Stopping /\ FlushCovered
    /\ Flush!NothingLeftBehind /\ Emptied
-------------------------------------------------------------------------------
LEMMA FiniteAre ==
    ASSUME Flush!TelemetryAssumption
    PROVE  IsFiniteSet(Resets) /\ Flush!Cardinality(Resets) = Cardinality(Resets) /\ Cardinality(Resets) \in Nat
<1>1. IsFiniteSet(Resets)
  BY DEF Flush!TelemetryAssumption, Flush!IsFiniteSet, IsFiniteSet
<1> QED BY <1>1, FS_CardinalityType DEF Flush!Cardinality, Cardinality, Flush!IsFiniteSet, IsFiniteSet

LEMMA ThreadsAre ==
    ASSUME Flush!TelemetryAssumption
    PROVE  /\ Cardinality(Resets) \in Nat /\ Flush!Workers = 1 .. Cardinality(Resets) + 1
              /\ Flush!Clients = Flush!Workers
           /\ Flush!Threads = Events \cup Flushers \cup Flush!Shutdowns \cup Flush!Workers
              /\ Nobody \notin Flush!Threads
           /\ \A t \in Events : t \notin Flushers \cup Flush!Shutdowns \cup Flush!Workers
           /\ \A t \in Flushers : t \notin Flush!Shutdowns \cup Flush!Workers
           /\ \A t \in Flush!Shutdowns : t \notin Flush!Workers
           /\ Flush!Shutdowns = Resets \cup Exits /\ \A t \in Resets : t \notin Exits
<1>1. Cardinality(Resets) \in Nat
  BY FiniteAre
<1>2. Flush!Workers = 1 .. Cardinality(Resets) + 1 /\ Flush!Clients = Flush!Workers
  BY FiniteAre DEF Flush!Workers, Flush!Clients, Flush!Generations
<1> QED BY <1>1, <1>2 DEF Flush!TelemetryAssumption, Flush!Threads, Flush!Shutdowns

LEMMA StagesAre ==
    ASSUME Flush!TelemetryAssumption
    PROVE  /\ \A t \in Events : StagesOf(t) = {"start", "ready", "put", "draining", "tracked", "done"}
           /\ \A t \in Flushers : StagesOf(t) = {"start", "flush", "captured", "draining", "drained", "done"}
           /\ \A t \in Flush!Shutdowns :
                 StagesOf(t) = {"start", "joining", "flush", "captured", "draining", "drained", "flushed", "done"}
           /\ \A t \in Flush!Workers : StagesOf(t) =
                 {"none", "waiting", "ticked", "flush", "captured", "draining", "drained", "dead"}
  BY ThreadsAre DEF StagesOf

LEMMA TypesAre ==
    ASSUME Flush!TypeOK
    PROVE  /\ pc \in [Flush!Threads -> {"start", "ready", "put", "tracked", "done", "flush", "captured", "draining",
                                  "drained", "none", "waiting", "ticked", "dead", "joining", "flushed"}]
           /\ held \in [Flush!Threads -> Flush!Clients \cup {0}] /\ batch \in [Flush!Threads -> SUBSET Events]
           /\ queue \in [Flush!Clients -> SUBSET Events] /\ attempts \in [Events -> 0 .. 2]
           /\ stop \in [Flush!Workers -> BOOLEAN] /\ client \in Flush!Clients \cup {0}
              /\ built \in Flush!Clients \cup {0}
           /\ worker \in Flush!Workers \cup {0} /\ gone \subseteq Events /\ malformed \subseteq Flush!Clients
  BY DEF Flush!TypeOK

LEMMA SameOver ==
    ASSUME \A r \in Resets : pc'[r] = "done" <=> pc[r] = "done"
    PROVE  Over' = Over
<1>1. DoneResets' = DoneResets
  BY DEF DoneResets
<1> QED BY <1>1 DEF Over


LEMMA MoreOver ==
    ASSUME Flush!TelemetryAssumption, NEW s \in Resets, pc[s] # "done",
           \A r \in Resets : pc'[r] = "done" <=> r = s \/ pc[r] = "done"
    PROVE  Over' = Over + 1
<1>1. DoneResets' = DoneResets \cup {s} /\ s \notin DoneResets
  BY DEF DoneResets
<1>2. IsFiniteSet(DoneResets)
  BY FiniteAre, FS_Subset DEF DoneResets
<1> QED BY <1>1, <1>2, FS_AddElement DEF Over

LEMMA OverIs == ASSUME Flush!TelemetryAssumption PROVE Over \in Nat /\ Over <= Cardinality(Resets)
<1>1. DoneResets \subseteq Resets
  BY DEF DoneResets
<1> QED BY <1>1, FiniteAre, FS_Subset, FS_CardinalityType DEF Over

LEMMA ReturnedIs ==
    ASSUME Flush!TelemetryAssumption
    PROVE  /\ \A t \in Flush!Workers : Flush!Returned(t) = "waiting"
           /\ \A t \in Flushers : Flush!Returned(t) = "done"
           /\ \A t \in Flush!Shutdowns : Flush!Returned(t) = "flushed"
  BY ThreadsAre DEF Flush!Returned

\* What a thread's step to another stage leaves as it was.
LEMMA StepIs ==
    ASSUME Flush!TypeOK, NEW t \in Flush!Threads, NEW to, pc' = [pc EXCEPT ![t] = to]
    PROVE  pc'[t] = to /\ \A u \in Flush!Threads : u # t => pc'[u] = pc[u]
  BY TypesAre

\* The worker that is started when one is needed.
LEMMA WorkerIs ==
    ASSUME Flush!TelemetryAssumption, Flush!TypeOK, Counted, Stopping, ~requested, Flush!NeedsWorker
    PROVE  /\ worker = 0 /\ Flush!NextWorker \in Flush!Workers /\ pc[Flush!NextWorker] = "none"
           /\ \A v \in Flush!Workers : v < Flush!NextWorker => pc[v] # "none"
<1>1. worker = 0
  BY TypesAre, ThreadsAre DEF Stopping, Flush!NeedsWorker, Flush!Running, Flush!Alive
<1>2. PICK k \in Nat : (\A w \in Flush!Workers : pc[w] # "none" <=> w <= k) /\ k <= Over
  BY <1>1 DEF Counted
<1>3. k + 1 \in Flush!Workers /\ pc[k + 1] = "none" /\ \A v \in Flush!Workers : v < k + 1 => pc[v] # "none"
  BY <1>2, OverIs, ThreadsAre
<1> QED BY <1>1, <1>3 DEF Flush!NextWorker

LEMMA InitializeInv ==
    ASSUME Flush!TelemetryAssumption, FlushIInv, NEW e \in Events, Flush!Initialize(e)
    PROVE  FlushIInv'
<1> USE DEF FlushIInv, Flush!Initialize, Flush!locks, Flush!clients, Flush!items, Flush!control, Flush!Goes,
       Flush!Free
<1>a. lifecycle = Nobody /\ pc[e] = "start" /\ pc' = [pc EXCEPT ![e] = "ready"]
  OBVIOUS
<1>b. \/ UNCHANGED Flush!clients
      \/ UNCHANGED <<client, built, malformed>> /\ ~initialized /\ initialized' = TRUE
      \/ /\ ~initialized /\ initialized' = TRUE /\ client = 0 /\ built + 1 \in Flush!Clients
         /\ built' = built + 1 /\ client' = built + 1 /\ malformed' \subseteq malformed \cup {built + 1}
         /\ malformed \subseteq malformed'
  BY TypesAre, ThreadsAre, OverIs DEF FlushHolding, Counted
<1>c. \A t \in Flush!Threads : ~TracksOrShuts(t)
  BY <1>a, ThreadsAre DEF Locked
<1>1. Flush!TypeOK'
  <2>1. initialized' \in BOOLEAN /\ pending' \in BOOLEAN /\ requested' \in BOOLEAN /\ registered' \in BOOLEAN
        /\ crossed' \in BOOLEAN
    BY DEF Flush!TypeOK
  <2>2. stop' \in [Flush!Workers -> BOOLEAN] /\ worker' \in Flush!Workers \cup {0}
    BY DEF Flush!TypeOK
  <2>3. pc' \in [Flush!Threads -> {"start", "ready", "put", "tracked", "done", "flush", "captured", "draining",
                            "drained", "none", "waiting", "ticked", "dead", "joining", "flushed"}]
    BY TypesAre, ThreadsAre
  <2>4. client' \in Flush!Clients \cup {0} /\ built' \in Flush!Clients \cup {0}
          /\ malformed' \subseteq Flush!Clients
    BY <1>b, TypesAre
  <2> QED BY <2>1, <2>2, <2>3, <2>4, TypesAre, ThreadsAre DEF Flush!TypeOK
<1>2. Staged'
  BY TypesAre, ThreadsAre, StagesAre DEF Staged
<1>3. Locked'
  BY TypesAre, ThreadsAre, StagesAre DEF Locked, TracksOrShuts, Flushing, Staged
<1>4. FlushHolding'
  BY TypesAre, ThreadsAre DEF FlushHolding, TracksOrShuts
<1>5. OnePlace'
  BY TypesAre, ThreadsAre DEF OnePlace
<1>6. Counted'
  <2>1. Over' = Over
    BY SameOver, TypesAre, ThreadsAre
  <2>2. \A w \in Flush!Workers : pc'[w] = "none" <=> pc[w] = "none"
    BY TypesAre, ThreadsAre
  <2>3. built' <= IF initialized' THEN Over + 1 ELSE Over
    BY <1>b, OverIs, TypesAre, ThreadsAre DEF Counted
  <2> QED BY <2>1, <2>2, <2>3 DEF Counted
<1>7. Stopping'
  BY TypesAre, ThreadsAre DEF Stopping, TracksOrShuts
<1>8. FlushCovered'
  <2>1. \A u \in Events : pc[u] \notin {"draining", "put"} /\ pc'[u] \notin {"draining", "put"}
    BY <1>a, <1>c, StepIs, ThreadsAre DEF TracksOrShuts
  <2>2. UNCHANGED client => (LooksAgain <=> LooksAgain')
    BY <1>a, StepIs, ThreadsAre DEF LooksAgain
  <2>3. client' # client => queue'[client'] = {}
    <3>1. queue' = queue /\ built \in Int /\ \A c \in Flush!Clients : c > built => queue[c] = {}
      BY TypesAre, ThreadsAre DEF FlushHolding
    <3>2. client' # client => client' = built + 1 /\ built + 1 \in Flush!Clients
      BY <1>b
    <3> QED BY <3>1, <3>2
  <2> QED BY <2>1, <2>2, <2>3 DEF FlushCovered, Putting
<1>9. Flush!NothingLeftBehind'
  <2>1. \A s \in Flush!Shutdowns : pc'[s] # "flushed"
    BY <1>a, <1>c, StepIs, ThreadsAre DEF TracksOrShuts
  <2>2. \A c \in Flush!Clients : c # client' => c # client
    BY <1>b, ThreadsAre, TypesAre
  <2>3. \A c \in Flush!Clients : c \notin malformed' => c \notin malformed
    BY <1>b
  <2> QED BY <2>1, <2>2, <2>3 DEF Flush!NothingLeftBehind
<1>10. Emptied'
  BY TypesAre, ThreadsAre, StagesAre DEF Emptied, Staged, Locked, TracksOrShuts, Flushing
<1> QED BY <1>1, <1>2, <1>3, <1>4, <1>5, <1>6, <1>7, <1>8, <1>9, <1>10

LEMMA DropInv == ASSUME Flush!TelemetryAssumption, FlushIInv, NEW e \in Events, Flush!Drop(e) PROVE FlushIInv'
<1> USE
       DEF FlushIInv, Flush!Drop, Flush!locks, Flush!clients, Flush!items, Flush!control, Flush!Goes, Flush!Free
<1>1. Flush!TypeOK'
  <2>1. initialized' \in BOOLEAN /\ pending' \in BOOLEAN /\ requested' \in BOOLEAN /\ registered' \in BOOLEAN
        /\ crossed' \in BOOLEAN
    BY DEF Flush!TypeOK
  <2>2. stop' \in [Flush!Workers -> BOOLEAN] /\ worker' \in Flush!Workers \cup {0}
    BY DEF Flush!TypeOK
  <2>3. pc' \in [Flush!Threads -> {"start", "ready", "put", "tracked", "done", "flush", "captured", "draining",
                            "drained", "none", "waiting", "ticked", "dead", "joining", "flushed"}]
    BY TypesAre, ThreadsAre
  <2> QED BY <2>1, <2>2, <2>3, TypesAre, ThreadsAre DEF Flush!TypeOK
<1>2. Staged'
  BY TypesAre, ThreadsAre, StagesAre DEF Staged
<1>3. Locked'
  BY TypesAre, ThreadsAre, StagesAre DEF Locked, TracksOrShuts, Flushing, Staged
<1>4. FlushHolding'
  BY TypesAre, ThreadsAre DEF FlushHolding, TracksOrShuts
<1>5. OnePlace'
  BY TypesAre, ThreadsAre DEF OnePlace
<1>6. Counted'
  <2>1. Over' = Over
    BY SameOver, TypesAre, ThreadsAre
  <2>2. \A w \in Flush!Workers : pc'[w] = "none" <=> pc[w] = "none"
    BY TypesAre, ThreadsAre
  <2> QED BY <2>1, <2>2 DEF Counted
<1>7. Stopping'
  BY TypesAre, ThreadsAre DEF Stopping, TracksOrShuts
<1>8. FlushCovered'
  BY TypesAre, ThreadsAre DEF FlushCovered, LooksAgain, Putting
<1>9. Flush!NothingLeftBehind'
  BY TypesAre, ThreadsAre DEF Flush!NothingLeftBehind
<1>10. Emptied'
  BY TypesAre, ThreadsAre DEF Emptied
<1> QED BY <1>1, <1>2, <1>3, <1>4, <1>5, <1>6, <1>7, <1>8, <1>9, <1>10

LEMMA PutInv == ASSUME Flush!TelemetryAssumption, FlushIInv, NEW e \in Events, Flush!Put(e) PROVE FlushIInv'
<1> USE DEF FlushIInv, Flush!Put, Flush!locks, Flush!clients, Flush!items, Flush!control, Flush!Goes, Flush!Free
<1>a. /\ lifecycle = Nobody /\ lifecycle' = e /\ pc[e] = "ready" /\ ~requested /\ client \in Flush!Clients
      /\ held' = [held EXCEPT ![e] = client] /\ queue' = [queue EXCEPT ![client] = @ \cup {e}]
  BY TypesAre
<1>b. PICK to \in {"draining", "put"}, ws \in SUBSET Flush!Workers :
         /\ pc' = [u \in Flush!Threads |-> IF u = e THEN to ELSE IF u \in ws THEN "waiting" ELSE pc[u]]
         /\ \/ ws = {} /\ worker' = worker
            \/ /\ worker = 0 /\ ws = {worker'} /\ worker' \in Flush!Workers /\ pc[worker'] = "none"
               /\ \A v \in Flush!Workers : v < worker' => pc[v] # "none"
  <2> DEFINE stage == IF Flush!Cardinality(queue[client]) + 1 >= QueueLimit THEN "draining" ELSE "put"
  <2>1. CASE Flush!NeedsWorker
    <3>1. /\ worker = 0 /\ Flush!NextWorker \in Flush!Workers /\ pc[Flush!NextWorker] = "none"
          /\ \A v \in Flush!Workers : v < Flush!NextWorker => pc[v] # "none"
      BY <1>a, <2>1, WorkerIs
    <3>2. worker' = Flush!NextWorker /\ pc' = [pc EXCEPT ![e] = stage, ![Flush!NextWorker] = "waiting"]
      BY <2>1
    <3>3. pc' = [u \in Flush!Threads |-> IF u = e THEN stage 
                                                    ELSE IF u \in {Flush!NextWorker} THEN "waiting" ELSE pc[u]]
      BY <3>1, <3>2, TypesAre, ThreadsAre
    <3> HIDE DEF Flush!Put, stage
    <3>4. stage \in {"draining", "put"}
      BY DEF stage
    <3> QED BY <3>1, <3>2, <3>3, <3>4
  <2>2. CASE ~Flush!NeedsWorker
    <3>1. worker' = worker /\ pc' = [pc EXCEPT ![e] = stage]
      BY <2>2
    <3>2. pc' = [u \in Flush!Threads |-> IF u = e THEN stage ELSE IF u \in {} THEN "waiting" ELSE pc[u]]
      BY <3>1, TypesAre
    <3> HIDE DEF Flush!Put, stage
    <3>3. stage \in {"draining", "put"}
      BY DEF stage
    <3> QED BY <3>1, <3>2, <3>3
  <2> QED BY <2>1, <2>2
<1>c. /\ UNCHANGED <<flushLock, Flush!clients, attempts, gone, batch, pending, requested, stop, registered, crossed>>
      /\ \A u \in Flush!Threads : ~TracksOrShuts(u)
  BY <1>a, ThreadsAre DEF Locked
<1>d. /\ pc'[e] = to /\ e \in Flush!Threads
      /\ \A u \in Flush!Threads : u # e =>
            IF u \in ws THEN pc[u] = "none" /\ pc'[u] = "waiting" ELSE pc'[u] = pc[u]
      /\ \A u \in ws : u \in Flush!Workers /\ u # e
  BY <1>b, ThreadsAre
<1>e. /\ \A c \in Flush!Clients : queue'[c] = IF c = client THEN queue[c] \cup {e} ELSE queue[c]
      /\ \A u \in Flush!Threads : held'[u] = IF u = e THEN client ELSE held[u]
  BY <1>a, ThreadsAre, TypesAre
<1> HIDE DEF Flush!Put
<1>1. Flush!TypeOK'
  <2>1. initialized' \in BOOLEAN /\ pending' \in BOOLEAN /\ requested' \in BOOLEAN /\ registered' \in BOOLEAN
        /\ crossed' \in BOOLEAN
    BY <1>c DEF Flush!TypeOK
  <2>2. stop' \in [Flush!Workers -> BOOLEAN] /\ worker' \in Flush!Workers \cup {0}
    BY <1>b, <1>c DEF Flush!TypeOK
  <2>3. pc' \in [Flush!Threads -> {"start", "ready", "put", "tracked", "done", "flush", "captured", "draining",
                            "drained", "none", "waiting", "ticked", "dead", "joining", "flushed"}]
    BY <1>b, TypesAre, ThreadsAre
  <2>4. queue' \in [Flush!Clients -> SUBSET Events] /\ held' \in [Flush!Threads -> Flush!Clients \cup {0}]
    BY <1>a, TypesAre
  <2> QED BY <1>a, <1>c, <2>1, <2>2, <2>3, <2>4, TypesAre, ThreadsAre DEF Flush!TypeOK
<1>2. Staged'
  BY <1>d, ThreadsAre, StagesAre DEF Staged
<1>3. Locked'
  BY <1>a, <1>c, <1>d, ThreadsAre DEF Locked, TracksOrShuts, Flushing
<1>4. FlushHolding'
  BY <1>a, <1>c, <1>d, <1>e, ThreadsAre, TypesAre DEF FlushHolding, TracksOrShuts
<1>5. OnePlace'
  <2>1. /\ \A c \in Flush!Clients : e \notin queue[c]
        /\ \A u \in Flush!Threads : e \notin batch[u]
        /\ attempts[e] < 2
    BY <1>a, TypesAre DEF OnePlace
  <2> QED BY <1>a, <1>c, <1>d, <1>e, <2>1, ThreadsAre DEF OnePlace
<1>6. Counted'
  <2>1. Over' = Over
    BY SameOver, <1>a, <1>d, ThreadsAre
  <2>2. PICK k \in Nat : /\ \A w \in Flush!Workers : pc[w] # "none" <=> w <= k
                         /\ k <= IF worker = 0 /\ ~requested THEN Over ELSE Over + 1
    BY DEF Counted
  <2>3. CASE ws = {}
    <3>1. \A w \in Flush!Workers : pc'[w] # "none" <=> w <= k
      BY <1>d, <2>2, <2>3, ThreadsAre
    <3> QED BY <1>b, <1>c, <2>1, <2>2, <2>3, <3>1, OverIs DEF Counted
  <2>4. CASE ws # {}
    <3>1. worker = 0 /\ ws = {worker'} /\ worker' \in Flush!Workers /\ pc[worker'] = "none"
          /\ \A v \in Flush!Workers : v < worker' => pc[v] # "none"
      BY <1>b, <2>4
    <3>2. k + 1 \in Nat /\ \A w \in Flush!Workers : pc'[w] # "none" <=> w <= k + 1
      <4>1. \A w \in Flush!Workers : w \in Int /\ w >= 1 /\ (pc'[w] # "none" <=> w = worker' \/ pc[w] # "none")
        BY <1>b, <1>d, <2>4, <3>1, ThreadsAre
      <4>2. worker' = k + 1
        <5>1. worker' > k
          BY <2>2, <3>1, <4>1
        <5>2. worker' - 1 \in Flush!Workers => worker' - 1 <= k
          BY <2>2, <3>1, <4>1
        <5>3. worker' # 1 => worker' - 1 \in Flush!Workers
          BY <3>1, ThreadsAre
        <5> QED BY <2>2, <3>1, <4>1, <5>1, <5>2, <5>3
      <4> QED BY <2>2, <4>1, <4>2
    <3>3. k + 1 <= Over + 1 /\ worker' # 0
      BY <1>a, <2>2, <3>1, OverIs, ThreadsAre
    <3> QED BY <1>c, <2>1, <3>2, <3>3 DEF Counted
  <2> QED BY <2>3, <2>4
<1>7. Stopping'
  <2>1. \A s \in Flush!Shutdowns : ~TracksOrShuts(s)'
    BY <1>c, <1>d, ThreadsAre DEF TracksOrShuts
  <2>2. worker' # 0 => pc'[worker'] # "none" /\ ~stop[worker']
    BY <1>a, <1>b, <1>d, ThreadsAre, TypesAre DEF Stopping
  <2>3. \A w \in Flush!Workers : (pc'[w] = "dead" => stop[w]) /\ (stop[w] => pc'[w] # "none")
    BY <1>d, ThreadsAre DEF Stopping
  <2> QED BY <1>c, <2>1, <2>2, <2>3 DEF Stopping
<1>8. FlushCovered'
  <2>1. LooksAgain => LooksAgain'
    BY <1>a, <1>c, <1>d, <1>e, ThreadsAre DEF LooksAgain
  <2>2. \A u \in Events : pc[u] \notin {"draining", "put"} /\ (pc'[u] = "draining" => u = e)
    BY <1>c, <1>d, ThreadsAre DEF TracksOrShuts
  <2>3. queue[client] # {} => pending \/ crossed \/ LooksAgain
    BY <1>a, <2>2, ThreadsAre DEF FlushCovered, Putting
  <2>4. batch[e] = {} /\ queue'[client] = queue[client] \cup {e}
    BY <1>a, <1>e, ThreadsAre DEF FlushHolding
  <2>5. pc'[e] = "draining" \/ Putting'
    BY <1>d DEF Putting
  <2> QED BY <1>c, <2>1, <2>2, <2>3, <2>4, <2>5 DEF FlushCovered
<1>9. Flush!NothingLeftBehind'
  <2>1. \A s \in Flush!Shutdowns : pc'[s] # "flushed"
    BY <1>c, <1>d, ThreadsAre DEF TracksOrShuts
  <2>2. batch[e] = {}
    BY <1>a, ThreadsAre DEF FlushHolding
  <2> SUFFICES ASSUME NEW c \in Flush!Clients \ malformed, c # client
               PROVE  queue'[c] = {} /\ \A u \in Flush!Threads : held'[u] = c => batch[u] = {}
    BY <1>c, <2>1 DEF Flush!NothingLeftBehind
  <2>3. queue[c] = {} /\ \A u \in Flush!Threads : held[u] = c => batch[u] = {}
    BY DEF Flush!NothingLeftBehind
  <2> QED BY <1>e, <2>2, <2>3
<1>10. Emptied'
  <2>1. \A s \in Flush!Shutdowns : pc'[s] # "drained"
    BY <1>c, <1>d, ThreadsAre DEF TracksOrShuts
  <2> QED BY <2>1 DEF Emptied
<1> QED BY <1>1, <1>2, <1>3, <1>4, <1>5, <1>6, <1>7, <1>8, <1>9, <1>10

LEMMA SetPendingInv ==
    ASSUME Flush!TelemetryAssumption, FlushIInv, NEW e \in Events, Flush!SetPending(e)
    PROVE  FlushIInv'
<1> USE DEF FlushIInv, Flush!SetPending, Flush!locks, Flush!clients, Flush!items, Flush!control, Flush!Goes
<1>1. Flush!TypeOK'
  <2>1. initialized' \in BOOLEAN /\ pending' \in BOOLEAN /\ requested' \in BOOLEAN /\ registered' \in BOOLEAN
        /\ crossed' \in BOOLEAN
    BY DEF Flush!TypeOK, Flush!NowPending
  <2>2. stop' \in [Flush!Workers -> BOOLEAN] /\ worker' \in Flush!Workers \cup {0}
    BY DEF Flush!TypeOK
  <2>3. pc' \in [Flush!Threads -> {"start", "ready", "put", "tracked", "done", "flush", "captured", "draining",
                            "drained", "none", "waiting", "ticked", "dead", "joining", "flushed"}]
    BY TypesAre, ThreadsAre
  <2> QED BY <2>1, <2>2, <2>3, TypesAre, ThreadsAre DEF Flush!TypeOK, Flush!NowPending
<1>2. Staged'
  BY TypesAre, ThreadsAre, StagesAre DEF Staged, Flush!NowPending
<1>3. Locked'
  BY TypesAre, ThreadsAre, StagesAre DEF Locked, TracksOrShuts, Flushing, Staged, Flush!NowPending
<1>4. FlushHolding'
  BY TypesAre, ThreadsAre DEF FlushHolding, TracksOrShuts, Flush!NowPending
<1>5. OnePlace'
  BY TypesAre, ThreadsAre DEF OnePlace, Flush!NowPending
<1>6. Counted'
  <2>1. Over' = Over
    BY SameOver, TypesAre, ThreadsAre
  <2>2. \A w \in Flush!Workers : pc'[w] = "none" <=> pc[w] = "none"
    BY TypesAre, ThreadsAre DEF Flush!NowPending
  <2> QED BY <2>1, <2>2 DEF Counted
<1>7. Stopping'
  BY TypesAre, ThreadsAre DEF Stopping, TracksOrShuts, Flush!NowPending
<1>8. FlushCovered'
  BY TypesAre, ThreadsAre DEF FlushCovered, LooksAgain, Putting, Flush!NowPending
<1>9. Flush!NothingLeftBehind'
  BY TypesAre, ThreadsAre DEF Flush!NothingLeftBehind, Flush!NowPending
<1>10. Emptied'
  BY TypesAre, ThreadsAre DEF Emptied, Flush!NowPending
<1> QED BY <1>1, <1>2, <1>3, <1>4, <1>5, <1>6, <1>7, <1>8, <1>9, <1>10

LEMMA RegisterInv ==
    ASSUME Flush!TelemetryAssumption, FlushIInv, NEW e \in Events, Flush!Register(e)
    PROVE  FlushIInv'
<1> USE DEF FlushIInv, Flush!Register, Flush!locks, Flush!clients, Flush!items, Flush!control, Flush!Goes,
       Flush!Free
<1>1. Flush!TypeOK'
  <2>1. initialized' \in BOOLEAN /\ pending' \in BOOLEAN /\ requested' \in BOOLEAN /\ registered' \in BOOLEAN
        /\ crossed' \in BOOLEAN
    BY DEF Flush!TypeOK
  <2>2. stop' \in [Flush!Workers -> BOOLEAN] /\ worker' \in Flush!Workers \cup {0}
    BY DEF Flush!TypeOK
  <2>3. pc' \in [Flush!Threads -> {"start", "ready", "put", "tracked", "done", "flush", "captured", "draining",
                            "drained", "none", "waiting", "ticked", "dead", "joining", "flushed"}]
    BY TypesAre, ThreadsAre
  <2> QED BY <2>1, <2>2, <2>3, TypesAre, ThreadsAre DEF Flush!TypeOK
<1>2. Staged'
  BY TypesAre, ThreadsAre, StagesAre DEF Staged
<1>3. Locked'
  BY TypesAre, ThreadsAre, StagesAre DEF Locked, TracksOrShuts, Flushing, Staged
<1>4. FlushHolding'
  BY TypesAre, ThreadsAre DEF FlushHolding, TracksOrShuts
<1>5. OnePlace'
  BY TypesAre, ThreadsAre DEF OnePlace
<1>6. Counted'
  <2>1. Over' = Over
    BY SameOver, TypesAre, ThreadsAre
  <2>2. \A w \in Flush!Workers : pc'[w] = "none" <=> pc[w] = "none"
    BY TypesAre, ThreadsAre
  <2> QED BY <2>1, <2>2 DEF Counted
<1>7. Stopping'
  BY TypesAre, ThreadsAre DEF Stopping, TracksOrShuts
<1>8. FlushCovered'
  BY TypesAre, ThreadsAre DEF FlushCovered, LooksAgain, Putting
<1>9. Flush!NothingLeftBehind'
  BY TypesAre, ThreadsAre DEF Flush!NothingLeftBehind
<1>10. Emptied'
  BY TypesAre, ThreadsAre DEF Emptied
<1> QED BY <1>1, <1>2, <1>3, <1>4, <1>5, <1>6, <1>7, <1>8, <1>9, <1>10

LEMMA EnterFlushInv ==
    ASSUME Flush!TelemetryAssumption, FlushIInv, NEW t \in Flush!Threads \ Events, Flush!EnterFlush(t)
    PROVE  FlushIInv'
<1> USE DEF FlushIInv, Flush!EnterFlush, Flush!locks, Flush!clients, Flush!items, Flush!control, Flush!Goes
<1>a. /\ t \in Flush!Threads /\ t \in Flushers \cup Flush!Shutdowns \cup Flush!Workers
      /\ client = 0 => pc' = [pc EXCEPT ![t] = Flush!Returned(t)]
      /\ client # 0 => pc' = [pc EXCEPT ![t] = "captured"]
  BY ThreadsAre
<1>b. Flush!Returned(t) = IF t \in Flush!Workers THEN "waiting" ELSE IF t \in Flushers THEN "done" ELSE "flushed"
  BY <1>a, ReturnedIs, ThreadsAre
<1>1. Flush!TypeOK'
  <2>1. initialized' \in BOOLEAN /\ pending' \in BOOLEAN /\ requested' \in BOOLEAN /\ registered' \in BOOLEAN
        /\ crossed' \in BOOLEAN
    BY DEF Flush!TypeOK
  <2>2. stop' \in [Flush!Workers -> BOOLEAN] /\ worker' \in Flush!Workers \cup {0}
    BY DEF Flush!TypeOK
  <2>3. pc' \in [Flush!Threads -> {"start", "ready", "put", "tracked", "done", "flush", "captured", "draining",
                            "drained", "none", "waiting", "ticked", "dead", "joining", "flushed"}]
    BY <1>a, <1>b, TypesAre, ThreadsAre
  <2>4. flushLock' \in Flushers \cup Flush!Shutdowns \cup Flush!Workers \cup {Nobody}
    BY ThreadsAre DEF Flush!TypeOK
  <2>5. held' \in [Flush!Threads -> Flush!Clients \cup {0}]
    BY <1>a, TypesAre, ThreadsAre
  <2> QED BY <2>1, <2>2, <2>3, <2>4, <2>5, TypesAre, ThreadsAre DEF Flush!TypeOK
<1>2. Staged'
  BY TypesAre, ThreadsAre, StagesAre DEF Staged, Flush!Returned, Flush!MayFlush
<1>3. Locked'
  BY TypesAre, ThreadsAre, StagesAre DEF Locked, TracksOrShuts, Flushing, Staged, Flush!Returned, Flush!MayFlush
<1>4. FlushHolding'
  BY TypesAre, ThreadsAre DEF FlushHolding, TracksOrShuts, Flush!Returned, Flush!MayFlush
<1>5. OnePlace'
  BY TypesAre, ThreadsAre DEF OnePlace, Flush!Returned, Flush!MayFlush
<1>6. Counted'
  <2>1. Over' = Over
    BY SameOver, <1>a, <1>b, TypesAre, ThreadsAre
  <2>2. \A w \in Flush!Workers : pc'[w] = "none" <=> pc[w] = "none"
    BY <1>a, <1>b, TypesAre, ThreadsAre
  <2> QED BY <2>1, <2>2 DEF Counted
<1>7. Stopping'
  BY TypesAre, ThreadsAre DEF Stopping, TracksOrShuts, Flush!Returned, Flush!MayFlush
<1>8. FlushCovered'
  BY <1>a, <1>b, TypesAre, ThreadsAre, StagesAre DEF FlushCovered, LooksAgain, Putting, Staged, Locked, TracksOrShuts,
     Flushing, Flush!MayFlush
<1>9. Flush!NothingLeftBehind'
  <2>1. batch[t] = {} /\ \A u \in Flush!Threads : u # t => held'[u] = held[u]
    BY <1>a, TypesAre DEF FlushHolding
  <2>2. client # 0 => \A s \in Flush!Shutdowns : pc'[s] = "flushed" => pc[s] = "flushed"
    BY <1>a, ThreadsAre, TypesAre
  <2>3. client = 0 => held' = held /\ \A c \in Flush!Clients : c # client
    BY ThreadsAre
  <2> QED BY <2>1, <2>2, <2>3, TypesAre DEF Flush!NothingLeftBehind
<1>10. Emptied'
  BY TypesAre, ThreadsAre, StagesAre
     DEF Emptied, Staged, Locked, TracksOrShuts, Flushing, Flush!Returned, Flush!MayFlush
<1> QED BY <1>1, <1>2, <1>3, <1>4, <1>5, <1>6, <1>7, <1>8, <1>9, <1>10

LEMMA ClearPendingInv ==
    ASSUME Flush!TelemetryAssumption, FlushIInv, NEW t \in Flush!Threads \ Events, Flush!ClearPending(t)
    PROVE  FlushIInv'
<1> USE DEF FlushIInv, Flush!ClearPending, Flush!locks, Flush!clients, Flush!items, Flush!control, Flush!Goes
<1>1. Flush!TypeOK'
  <2>1. initialized' \in BOOLEAN /\ pending' \in BOOLEAN /\ requested' \in BOOLEAN /\ registered' \in BOOLEAN
        /\ crossed' \in BOOLEAN
    BY DEF Flush!TypeOK
  <2>2. stop' \in [Flush!Workers -> BOOLEAN] /\ worker' \in Flush!Workers \cup {0}
    BY DEF Flush!TypeOK
  <2>3. pc' \in [Flush!Threads -> {"start", "ready", "put", "tracked", "done", "flush", "captured", "draining",
                            "drained", "none", "waiting", "ticked", "dead", "joining", "flushed"}]
    BY TypesAre, ThreadsAre
  <2> QED BY <2>1, <2>2, <2>3, TypesAre, ThreadsAre DEF Flush!TypeOK
<1>2. Staged'
  BY TypesAre, ThreadsAre, StagesAre DEF Staged
<1>3. Locked'
  BY TypesAre, ThreadsAre, StagesAre DEF Locked, TracksOrShuts, Flushing, Staged
<1>4. FlushHolding'
  BY TypesAre, ThreadsAre DEF FlushHolding, TracksOrShuts
<1>5. OnePlace'
  BY TypesAre, ThreadsAre DEF OnePlace
<1>6. Counted'
  <2>1. Over' = Over
    BY SameOver, TypesAre, ThreadsAre
  <2>2. \A w \in Flush!Workers : pc'[w] = "none" <=> pc[w] = "none"
    BY TypesAre, ThreadsAre
  <2> QED BY <2>1, <2>2 DEF Counted
<1>7. Stopping'
  BY TypesAre, ThreadsAre DEF Stopping, TracksOrShuts
<1>8. FlushCovered'
  BY TypesAre, ThreadsAre DEF FlushCovered, LooksAgain, Putting
<1>9. Flush!NothingLeftBehind'
  BY TypesAre, ThreadsAre DEF Flush!NothingLeftBehind
<1>10. Emptied'
  BY TypesAre, ThreadsAre DEF Emptied
<1> QED BY <1>1, <1>2, <1>3, <1>4, <1>5, <1>6, <1>7, <1>8, <1>9, <1>10

LEMMA TakeInv ==
    ASSUME Flush!TelemetryAssumption, FlushIInv, NEW t \in Flush!Threads, Flush!Take(t)
    PROVE  FlushIInv'
<1> USE DEF FlushIInv, Flush!Take, Flush!locks, Flush!clients, Flush!items, Flush!control, Flush!Goes
<1>a. PICK b \in (SUBSET queue[held[t]]) \ {{}} :
         batch' = [batch EXCEPT ![t] = b] /\ queue' = [queue EXCEPT ![held[t]] = @ \ b]
  OBVIOUS
<1>b. held[t] \in Flush!Clients /\ b \subseteq queue[held[t]] /\ b # {} /\ pc[t] = "draining" /\ batch[t] = {}
  BY TypesAre DEF FlushHolding
<1>c. /\ \A c \in Flush!Clients : queue'[c] = IF c = held[t] THEN queue[c] \ b ELSE queue[c]
      /\ \A u \in Flush!Threads : batch'[u] = IF u = t THEN b ELSE batch[u]
  BY <1>a, <1>b, TypesAre
<1>1. Flush!TypeOK'
  <2>1. initialized' \in BOOLEAN /\ pending' \in BOOLEAN /\ requested' \in BOOLEAN /\ registered' \in BOOLEAN
        /\ crossed' \in BOOLEAN
    BY DEF Flush!TypeOK
  <2>2. stop' \in [Flush!Workers -> BOOLEAN] /\ worker' \in Flush!Workers \cup {0}
    BY DEF Flush!TypeOK
  <2>3. queue' \in [Flush!Clients -> SUBSET Events] /\ batch' \in [Flush!Threads -> SUBSET Events]
    BY <1>a, <1>b, TypesAre
  <2> QED BY <2>1, <2>2, <2>3, TypesAre, ThreadsAre DEF Flush!TypeOK
<1>2. Staged'
  BY TypesAre, ThreadsAre, StagesAre DEF Staged
<1>3. Locked'
  BY TypesAre, ThreadsAre, StagesAre DEF Locked, TracksOrShuts, Flushing, Staged
<1>4. FlushHolding'
  BY TypesAre, ThreadsAre DEF FlushHolding, TracksOrShuts
<1>5. OnePlace'
  BY <1>b, <1>c, TypesAre DEF OnePlace
<1>6. Counted'
  <2>1. Over' = Over
    BY SameOver, TypesAre, ThreadsAre
  <2>2. \A w \in Flush!Workers : pc'[w] = "none" <=> pc[w] = "none"
    BY TypesAre, ThreadsAre
  <2> QED BY <2>1, <2>2 DEF Counted
<1>7. Stopping'
  BY TypesAre, ThreadsAre DEF Stopping, TracksOrShuts
<1>8. FlushCovered'
  <2>1. LooksAgain' <=> LooksAgain
    BY DEF LooksAgain
  <2>2. Putting' <=> Putting
    BY DEF Putting
  <2>3. client # 0 /\ held[t] # client => queue'[client] = queue[client]
    BY <1>c, TypesAre
  <2>4. client # 0 => queue'[client] \subseteq queue[client]
    BY <1>c, TypesAre
  <2>5. t \notin Events => held[t] # client \/ LooksAgain
    BY <1>b DEF LooksAgain
  <2>6. t \in Events => held[t] = client /\ (queue[client] \subseteq {t} => queue'[client] = {})
    BY <1>b, <1>c, ThreadsAre, TypesAre DEF FlushHolding, TracksOrShuts
  <2> QED BY <1>b, <1>c, <2>1, <2>2, <2>3, <2>4, <2>5, <2>6, ThreadsAre DEF FlushCovered
<1>9. Flush!NothingLeftBehind'
  BY TypesAre, ThreadsAre DEF Flush!NothingLeftBehind
<1>10. Emptied'
  BY TypesAre, ThreadsAre DEF Emptied
<1> QED BY <1>1, <1>2, <1>3, <1>4, <1>5, <1>6, <1>7, <1>8, <1>9, <1>10

LEMMA SendInv ==
    ASSUME Flush!TelemetryAssumption, FlushIInv, NEW t \in Flush!Threads, Flush!Send(t)
    PROVE  FlushIInv'
<1> USE DEF FlushIInv, Flush!Send, Flush!locks, Flush!clients, Flush!items, Flush!control, Flush!Goes
<1>1. Flush!TypeOK'
  <2>1. initialized' \in BOOLEAN /\ pending' \in BOOLEAN /\ requested' \in BOOLEAN /\ registered' \in BOOLEAN
        /\ crossed' \in BOOLEAN
    BY DEF Flush!TypeOK
  <2>2. stop' \in [Flush!Workers -> BOOLEAN] /\ worker' \in Flush!Workers \cup {0}
    BY DEF Flush!TypeOK
  <2>3. pc' \in [Flush!Threads -> {"start", "ready", "put", "tracked", "done", "flush", "captured", "draining",
                            "drained", "none", "waiting", "ticked", "dead", "joining", "flushed"}]
    BY TypesAre, ThreadsAre
  <2> QED BY <2>1, <2>2, <2>3, TypesAre, ThreadsAre DEF Flush!TypeOK
<1>2. Staged'
  BY TypesAre, ThreadsAre, StagesAre DEF Staged
<1>3. Locked'
  BY TypesAre, ThreadsAre, StagesAre DEF Locked, TracksOrShuts, Flushing, Staged
<1>4. FlushHolding'
  BY TypesAre, ThreadsAre DEF FlushHolding, TracksOrShuts
<1>5. OnePlace'
  BY TypesAre, ThreadsAre DEF OnePlace
<1>6. Counted'
  <2>1. Over' = Over
    BY SameOver, TypesAre, ThreadsAre
  <2>2. \A w \in Flush!Workers : pc'[w] = "none" <=> pc[w] = "none"
    BY TypesAre, ThreadsAre
  <2> QED BY <2>1, <2>2 DEF Counted
<1>7. Stopping'
  BY TypesAre, ThreadsAre DEF Stopping, TracksOrShuts
<1>8. FlushCovered'
  BY TypesAre, ThreadsAre DEF FlushCovered, LooksAgain, Putting
<1>9. Flush!NothingLeftBehind'
  BY TypesAre, ThreadsAre DEF Flush!NothingLeftBehind
<1>10. Emptied'
  BY TypesAre, ThreadsAre DEF Emptied
<1> QED BY <1>1, <1>2, <1>3, <1>4, <1>5, <1>6, <1>7, <1>8, <1>9, <1>10

LEMMA RequeueInv ==
    ASSUME Flush!TelemetryAssumption, FlushIInv, NEW t \in Flush!Threads, Flush!Requeue(t)
    PROVE  FlushIInv'
<1> USE DEF FlushIInv, Flush!Requeue, Flush!locks, Flush!clients, Flush!items, Flush!control, Flush!Goes
<1>a. /\ held[t] \in Flush!Clients /\ held[t] \notin malformed /\ pc[t] = "draining" /\ batch[t] # {}
      /\ t \in Events => held[t] = client
  BY TypesAre, ThreadsAre DEF FlushHolding, TracksOrShuts
<1>b. /\ \A c \in Flush!Clients : queue'[c] = IF c = held[t] THEN queue[c] \cup Flush!Again(batch[t]) ELSE queue[c]
      /\ \A u \in Flush!Threads : batch'[u] = IF u = t THEN {} ELSE batch[u]
      /\ \A e \in Events : attempts'[e] = IF e \in batch[t] THEN attempts[e] + 1 ELSE attempts[e]
  <2>1. \A c \in Flush!Clients : queue'[c] = IF c = held[t] THEN queue[c] \cup Flush!Again(batch[t]) ELSE queue[c]
    BY <1>a, TypesAre
  <2>2. \A u \in Flush!Threads : batch'[u] = IF u = t THEN {} ELSE batch[u]
    BY TypesAre
  <2>3. \A e \in Events : attempts[e] \in Int
    BY TypesAre
  <2>4. attempts' = [e \in Events |-> attempts[e] + IF e \in batch[t] THEN 1 ELSE 0]
    OBVIOUS
  <2> QED BY <2>1, <2>2, <2>3, <2>4
<1>c. Flush!Again(batch[t]) \subseteq batch[t] /\ batch[t] \subseteq Events
      /\ \A e \in batch[t] : attempts[e] \in 0 .. 1 /\ (e \in Flush!Again(batch[t]) => attempts[e] + 1 < 2)
  BY TypesAre DEF Flush!Again, OnePlace
<1>1. Flush!TypeOK'
  <2>1. initialized' \in BOOLEAN /\ pending' \in BOOLEAN /\ requested' \in BOOLEAN /\ registered' \in BOOLEAN
        /\ crossed' \in BOOLEAN
    BY DEF Flush!TypeOK
  <2>2. stop' \in [Flush!Workers -> BOOLEAN] /\ worker' \in Flush!Workers \cup {0}
    BY DEF Flush!TypeOK
  <2>3. queue' \in [Flush!Clients -> SUBSET Events] /\ batch' \in [Flush!Threads -> SUBSET Events]
          /\ gone' \subseteq Events
    BY <1>a, <1>c, TypesAre
  <2>4. attempts' \in [Events -> 0 .. 2]
    BY <1>c, TypesAre
  <2> QED BY <2>1, <2>2, <2>3, <2>4, TypesAre, ThreadsAre DEF Flush!TypeOK
<1>2. Staged'
  BY TypesAre, ThreadsAre, StagesAre DEF Staged, Flush!Again
<1>3. Locked'
  BY TypesAre, ThreadsAre, StagesAre DEF Locked, TracksOrShuts, Flushing, Staged, Flush!Again
<1>4. FlushHolding'
  BY TypesAre, ThreadsAre DEF FlushHolding, TracksOrShuts, Flush!Again
<1>5. OnePlace'
  BY <1>a, <1>b, <1>c, TypesAre DEF OnePlace
<1>6. Counted'
  <2>1. Over' = Over
    BY SameOver, TypesAre, ThreadsAre
  <2>2. \A w \in Flush!Workers : pc'[w] = "none" <=> pc[w] = "none"
    BY TypesAre, ThreadsAre DEF Flush!Again
  <2> QED BY <2>1, <2>2 DEF Counted
<1>7. Stopping'
  BY TypesAre, ThreadsAre DEF Stopping, TracksOrShuts, Flush!Again
<1>8. FlushCovered'
  <2>1. LooksAgain' <=> LooksAgain
    BY DEF LooksAgain
  <2>2. Putting' <=> Putting
    BY DEF Putting
  <2>3. client # 0 /\ held[t] # client => queue'[client] = queue[client]
    BY <1>b, TypesAre
  <2>4. t \notin Events => held[t] # client \/ LooksAgain
    BY <1>a DEF LooksAgain
  <2>5. t \in Events => Putting /\ client \notin malformed
    BY <1>a DEF Putting
  <2>6. \A u \in Events : u # t => batch'[u] = batch[u]
    BY <1>b, ThreadsAre
  <2> QED BY <2>1, <2>2, <2>3, <2>4, <2>5, <2>6 DEF FlushCovered
<1>9. Flush!NothingLeftBehind'
  BY TypesAre, ThreadsAre DEF Flush!NothingLeftBehind, Flush!Again
<1>10. Emptied'
  BY TypesAre, ThreadsAre DEF Emptied, Flush!Again
<1> QED BY <1>1, <1>2, <1>3, <1>4, <1>5, <1>6, <1>7, <1>8, <1>9, <1>10

LEMMA DrainedInv ==
    ASSUME Flush!TelemetryAssumption, FlushIInv, NEW t \in Flush!Threads, Flush!Drained(t)
    PROVE  FlushIInv'
<1> USE DEF FlushIInv, Flush!Drained, Flush!locks, Flush!clients, Flush!items, Flush!control, Flush!Goes
<1>1. Flush!TypeOK'
  <2>1. initialized' \in BOOLEAN /\ pending' \in BOOLEAN /\ requested' \in BOOLEAN /\ registered' \in BOOLEAN
        /\ crossed' \in BOOLEAN
    BY DEF Flush!TypeOK
  <2>2. stop' \in [Flush!Workers -> BOOLEAN] /\ worker' \in Flush!Workers \cup {0}
    BY DEF Flush!TypeOK
  <2>3. pc' \in [Flush!Threads -> {"start", "ready", "put", "tracked", "done", "flush", "captured", "draining",
                            "drained", "none", "waiting", "ticked", "dead", "joining", "flushed"}]
    BY TypesAre, ThreadsAre
  <2> QED BY <2>1, <2>2, <2>3, TypesAre, ThreadsAre DEF Flush!TypeOK
<1>2. Staged'
  BY TypesAre, ThreadsAre, StagesAre DEF Staged
<1>3. Locked'
  BY TypesAre, ThreadsAre, StagesAre DEF Locked, TracksOrShuts, Flushing, Staged
<1>4. FlushHolding'
  BY TypesAre, ThreadsAre DEF FlushHolding, TracksOrShuts
<1>5. OnePlace'
  BY TypesAre, ThreadsAre DEF OnePlace
<1>6. Counted'
  <2>1. Over' = Over
    BY SameOver, TypesAre, ThreadsAre
  <2>2. \A w \in Flush!Workers : pc'[w] = "none" <=> pc[w] = "none"
    BY TypesAre, ThreadsAre
  <2> QED BY <2>1, <2>2 DEF Counted
<1>7. Stopping'
  BY TypesAre, ThreadsAre DEF Stopping, TracksOrShuts
<1>8. FlushCovered'
  BY TypesAre, ThreadsAre DEF FlushCovered, LooksAgain, Putting
<1>9. Flush!NothingLeftBehind'
  BY TypesAre, ThreadsAre DEF Flush!NothingLeftBehind
<1>10. Emptied'
  <2> SUFFICES ASSUME NEW s \in Flush!Shutdowns, pc'[s] = "drained"
               PROVE  queue[client] = {} /\ \A u \in Flush!Threads : held[u] = client => batch[u] = {}
    BY DEF Emptied
  <2>1. CASE s # t
    BY <2>1, StepIs, ThreadsAre DEF Emptied
  <2>2. CASE s = t
    <3>1. lifecycle = t /\ flushLock = t /\ held[t] = client /\ queue[held[t]] = {} /\ batch[t] = {}
      BY <2>2, ThreadsAre DEF Locked, TracksOrShuts, Flushing, FlushHolding
    <3>2. ASSUME NEW u \in Flush!Threads, u # t PROVE batch[u] = {}
      BY <2>2, <3>1, <3>2, ThreadsAre DEF FlushHolding, Locked, TracksOrShuts, Flushing
    <3> QED BY <3>1, <3>2
  <2> QED BY <2>1, <2>2
<1> QED BY <1>1, <1>2, <1>3, <1>4, <1>5, <1>6, <1>7, <1>8, <1>9, <1>10

LEMMA LeaveFlushInv ==
    ASSUME Flush!TelemetryAssumption, FlushIInv, NEW t \in Flush!Threads \ Events, Flush!LeaveFlush(t)
    PROVE  FlushIInv'
<1> USE DEF FlushIInv, Flush!LeaveFlush, Flush!locks, Flush!clients, Flush!items, Flush!control, Flush!Goes
<1>a. /\ t \in Flush!Threads /\ t \in Flushers \cup Flush!Shutdowns \cup Flush!Workers /\ flushLock = t
      /\ pc' = [pc EXCEPT ![t] = Flush!Returned(t)] /\ held[t] \in Flush!Clients
  BY ThreadsAre, TypesAre DEF Locked, Flushing, FlushHolding
<1>b. Flush!Returned(t) = IF t \in Flush!Workers THEN "waiting" ELSE IF t \in Flushers THEN "done" ELSE "flushed"
  BY <1>a, ReturnedIs, ThreadsAre
<1>1. Flush!TypeOK'
  <2>1. initialized' \in BOOLEAN /\ pending' \in BOOLEAN /\ requested' \in BOOLEAN /\ registered' \in BOOLEAN
        /\ crossed' \in BOOLEAN
    BY DEF Flush!TypeOK, Flush!StillPending
  <2>2. stop' \in [Flush!Workers -> BOOLEAN] /\ worker' \in Flush!Workers \cup {0}
    BY DEF Flush!TypeOK
  <2>3. pc' \in [Flush!Threads -> {"start", "ready", "put", "tracked", "done", "flush", "captured", "draining",
                            "drained", "none", "waiting", "ticked", "dead", "joining", "flushed"}]
    BY <1>a, <1>b, TypesAre, ThreadsAre
  <2> QED BY <2>1, <2>2, <2>3, TypesAre, ThreadsAre DEF Flush!TypeOK
<1>2. Staged'
  BY TypesAre, ThreadsAre, StagesAre DEF Staged, Flush!Returned
<1>3. Locked'
  BY TypesAre, ThreadsAre, StagesAre DEF Locked, TracksOrShuts, Flushing, Staged, Flush!Returned
<1>4. FlushHolding'
  BY TypesAre, ThreadsAre DEF FlushHolding, TracksOrShuts, Flush!Returned
<1>5. OnePlace'
  BY TypesAre, ThreadsAre DEF OnePlace, Flush!Returned
<1>6. Counted'
  <2>1. Over' = Over
    BY SameOver, <1>a, <1>b, TypesAre, ThreadsAre
  <2>2. \A w \in Flush!Workers : pc'[w] = "none" <=> pc[w] = "none"
    BY <1>a, <1>b, TypesAre, ThreadsAre
  <2> QED BY <2>1, <2>2 DEF Counted
<1>7. Stopping'
  BY TypesAre, ThreadsAre DEF Stopping, TracksOrShuts, Flush!Returned
<1>8. FlushCovered'
  <2>1. \A u \in Events : pc'[u] = pc[u]
    BY <1>a, ThreadsAre, TypesAre
  <2>2. held[t] # client => (LooksAgain => LooksAgain')
    BY <1>a, ThreadsAre, TypesAre DEF LooksAgain
  <2>3. (pending => pending') /\ (held[t] = client /\ queue[client] # {} => pending')
    BY DEF Flush!StillPending
  <2>4. Putting' <=> Putting
    BY <2>1 DEF Putting
  <2> QED BY <2>1, <2>2, <2>3, <2>4 DEF FlushCovered
<1>9. Flush!NothingLeftBehind'
  <2> SUFFICES ASSUME NEW c \in Flush!Clients \ malformed, c # client \/ \E s \in Flush!Shutdowns : pc'[s] = "flushed"
               PROVE  queue[c] = {} /\ \A u \in Flush!Threads : held[u] = c => batch[u] = {}
    BY DEF Flush!NothingLeftBehind
  <2>1. CASE c # client \/ \E s \in Flush!Shutdowns : pc[s] = "flushed"
    BY <2>1 DEF Flush!NothingLeftBehind
  <2>2. CASE c = client /\ \A s \in Flush!Shutdowns : pc[s] # "flushed"
    <3>1. t \in Flush!Shutdowns
      BY <1>a, <1>b, <2>2, ThreadsAre, TypesAre
    <3> QED BY <2>2, <3>1 DEF Emptied
  <2> QED BY <2>1, <2>2
<1>10. Emptied'
  BY TypesAre, ThreadsAre DEF Emptied, Flush!Returned
<1> QED BY <1>1, <1>2, <1>3, <1>4, <1>5, <1>6, <1>7, <1>8, <1>9, <1>10

LEMMA RaiseInv ==
    ASSUME Flush!TelemetryAssumption, FlushIInv, NEW t \in Flush!Threads, Flush!Raise(t)
    PROVE  FlushIInv'
<1> USE DEF FlushIInv, Flush!Raise, Flush!locks, Flush!clients, Flush!items, Flush!control, Flush!Goes
<1>a. /\ held[t] \in malformed /\ held[t] \in Flush!Clients /\ pc[t] = "draining" /\ batch[t] # {}
      /\ \A u \in Flush!Threads : batch'[u] = IF u = t THEN {} ELSE batch[u]
      /\ t \in Events \/ t \in Flushers \cup Flush!Shutdowns \cup Flush!Workers
      /\ TracksOrShuts(t) => held[t] = client
  BY ThreadsAre, TypesAre DEF FlushHolding
<1>b. t \notin Events =>
         Flush!Returned(t) = IF t \in Flush!Workers THEN "waiting" ELSE IF t \in Flushers THEN "done" ELSE "flushed"
  BY <1>a, ReturnedIs, ThreadsAre
<1>c. /\ t \in Events => /\ pc' = [pc EXCEPT ![t] = "tracked"] /\ lifecycle = t /\ lifecycle' = Nobody
                         /\ UNCHANGED <<pending, flushLock>> /\ t \notin Flush!Shutdowns
      /\ t \notin Events => /\ pc' = [pc EXCEPT ![t] = Flush!Returned(t)] /\ flushLock = t
         /\ flushLock' = Nobody
                            /\ UNCHANGED lifecycle /\ pending' = TRUE
  BY <1>a, ThreadsAre DEF Locked, TracksOrShuts, Flushing
<1>1. Flush!TypeOK'
  <2>1. initialized' \in BOOLEAN /\ requested' \in BOOLEAN /\ registered' \in BOOLEAN /\ crossed' \in BOOLEAN
    BY DEF Flush!TypeOK
  <2>2. pending' \in BOOLEAN
    BY <1>c DEF Flush!TypeOK
  <2>3. stop' \in [Flush!Workers -> BOOLEAN] /\ worker' \in Flush!Workers \cup {0}
    BY DEF Flush!TypeOK
  <2>4. pc' \in [Flush!Threads -> {"start", "ready", "put", "tracked", "done", "flush", "captured", "draining",
                            "drained", "none", "waiting", "ticked", "dead", "joining", "flushed"}]
    BY <1>b, <1>c, TypesAre, ThreadsAre
  <2>5. batch' \in [Flush!Threads -> SUBSET Events] /\ gone' \subseteq Events
    BY TypesAre
  <2>6. lifecycle' \in Events \cup Flush!Shutdowns \cup {Nobody}
        /\ flushLock' \in Flushers \cup Flush!Shutdowns \cup Flush!Workers \cup {Nobody}
    BY <1>c DEF Flush!TypeOK
  <2> QED BY <2>1, <2>2, <2>3, <2>4, <2>5, <2>6, TypesAre, ThreadsAre DEF Flush!TypeOK
<1>2. Staged'
  BY <1>a, <1>b, <1>c, TypesAre, ThreadsAre, StagesAre DEF Staged
<1>3. Locked'
  <2>1. CASE t \in Events
    BY <1>c, <2>1, TypesAre, ThreadsAre DEF Locked, TracksOrShuts, Flushing
  <2>2. CASE t \notin Events
    BY <1>a, <1>b, <1>c, <2>2, TypesAre, ThreadsAre DEF Locked, TracksOrShuts, Flushing
  <2> QED BY <2>1, <2>2
<1>4. FlushHolding'
  BY TypesAre, ThreadsAre DEF FlushHolding, TracksOrShuts, Flush!Returned
<1>5. OnePlace'
  BY TypesAre, ThreadsAre DEF OnePlace, Flush!Returned
<1>6. Counted'
  <2>1. Over' = Over
    BY SameOver, <1>a, <1>b, <1>c, TypesAre, ThreadsAre
  <2>2. \A w \in Flush!Workers : pc'[w] = "none" <=> pc[w] = "none"
    BY <1>a, <1>b, <1>c, TypesAre, ThreadsAre
  <2> QED BY <2>1, <2>2 DEF Counted
<1>7. Stopping'
  BY <1>a, <1>b, <1>c, TypesAre, ThreadsAre DEF Stopping, TracksOrShuts
<1>8. FlushCovered'
  <2>1. CASE t \notin Events
    <3>1. pending' = TRUE /\ (\A u \in Events : batch'[u] = batch[u])
      BY <1>a, <1>c, <2>1, ThreadsAre
    <3> QED BY <3>1 DEF FlushCovered
  <2>2. CASE t \in Events
    <3>1. /\ held[t] = client /\ client \in malformed
          /\ \A u \in Events : u # t => pc[u] \notin {"put", "draining"}
      BY <1>a, <1>c, <2>2, ThreadsAre DEF Locked, TracksOrShuts
    <3>2. queue[client] = {} \/ pending \/ crossed \/ LooksAgain
      BY <1>a, <2>2, <3>1, TypesAre, ThreadsAre DEF FlushCovered
    <3>3. (LooksAgain => LooksAgain') /\ \A u \in Events : pc'[u] # "draining"
      BY <1>c, <2>2, <3>1, ThreadsAre, TypesAre DEF LooksAgain
    <3> QED BY <1>c, <2>2, <3>2, <3>3 DEF FlushCovered
  <2> QED BY <2>1, <2>2
<1>9. Flush!NothingLeftBehind'
  <2> SUFFICES ASSUME NEW c \in Flush!Clients \ malformed, c # client \/ \E s \in Flush!Shutdowns : pc'[s] = "flushed"
               PROVE  queue[c] = {} /\ \A u \in Flush!Threads : held[u] = c => batch'[u] = {}
    BY DEF Flush!NothingLeftBehind
  <2>1. CASE c # client \/ \E s \in Flush!Shutdowns : pc[s] = "flushed"
    BY <1>a, <2>1 DEF Flush!NothingLeftBehind
  <2>2. CASE c = client /\ \A s \in Flush!Shutdowns : pc[s] # "flushed"
    <3>1. t \in Flush!Shutdowns
      BY <1>a, <1>b, <1>c, <2>2, ThreadsAre, TypesAre
    <3> QED BY <1>a, <2>2, <3>1 DEF TracksOrShuts
  <2> QED BY <2>1, <2>2
<1>10. Emptied'
  BY TypesAre, ThreadsAre DEF Emptied, Flush!Returned
<1> QED BY <1>1, <1>2, <1>3, <1>4, <1>5, <1>6, <1>7, <1>8, <1>9, <1>10

LEMMA CallFlushInv ==
    ASSUME Flush!TelemetryAssumption, FlushIInv, NEW t \in Flushers, Flush!CallFlush(t)
    PROVE  FlushIInv'
<1> USE DEF FlushIInv, Flush!CallFlush, Flush!locks, Flush!clients, Flush!items, Flush!control, Flush!Goes
<1>1. Flush!TypeOK'
  <2>1. initialized' \in BOOLEAN /\ pending' \in BOOLEAN /\ requested' \in BOOLEAN /\ registered' \in BOOLEAN
        /\ crossed' \in BOOLEAN
    BY DEF Flush!TypeOK
  <2>2. stop' \in [Flush!Workers -> BOOLEAN] /\ worker' \in Flush!Workers \cup {0}
    BY DEF Flush!TypeOK
  <2>3. pc' \in [Flush!Threads -> {"start", "ready", "put", "tracked", "done", "flush", "captured", "draining",
                            "drained", "none", "waiting", "ticked", "dead", "joining", "flushed"}]
    BY TypesAre, ThreadsAre
  <2> QED BY <2>1, <2>2, <2>3, TypesAre, ThreadsAre DEF Flush!TypeOK
<1>2. Staged'
  BY TypesAre, ThreadsAre, StagesAre DEF Staged
<1>3. Locked'
  BY TypesAre, ThreadsAre, StagesAre DEF Locked, TracksOrShuts, Flushing, Staged
<1>4. FlushHolding'
  BY TypesAre, ThreadsAre DEF FlushHolding, TracksOrShuts
<1>5. OnePlace'
  BY TypesAre, ThreadsAre DEF OnePlace
<1>6. Counted'
  <2>1. Over' = Over
    BY SameOver, TypesAre, ThreadsAre
  <2>2. \A w \in Flush!Workers : pc'[w] = "none" <=> pc[w] = "none"
    BY TypesAre, ThreadsAre
  <2> QED BY <2>1, <2>2 DEF Counted
<1>7. Stopping'
  BY TypesAre, ThreadsAre DEF Stopping, TracksOrShuts
<1>8. FlushCovered'
  BY TypesAre, ThreadsAre DEF FlushCovered, LooksAgain, Putting
<1>9. Flush!NothingLeftBehind'
  BY TypesAre, ThreadsAre DEF Flush!NothingLeftBehind
<1>10. Emptied'
  BY TypesAre, ThreadsAre DEF Emptied
<1> QED BY <1>1, <1>2, <1>3, <1>4, <1>5, <1>6, <1>7, <1>8, <1>9, <1>10

LEMMA TimesOutInv ==
    ASSUME Flush!TelemetryAssumption, FlushIInv, NEW t \in Flush!Workers, Flush!TimesOut(t)
    PROVE  FlushIInv'
<1> USE DEF FlushIInv, Flush!TimesOut, Flush!locks, Flush!clients, Flush!items, Flush!control, Flush!Goes
<1>1. Flush!TypeOK'
  <2>1. initialized' \in BOOLEAN /\ pending' \in BOOLEAN /\ requested' \in BOOLEAN /\ registered' \in BOOLEAN
        /\ crossed' \in BOOLEAN
    BY DEF Flush!TypeOK
  <2>2. stop' \in [Flush!Workers -> BOOLEAN] /\ worker' \in Flush!Workers \cup {0}
    BY DEF Flush!TypeOK
  <2>3. pc' \in [Flush!Threads -> {"start", "ready", "put", "tracked", "done", "flush", "captured", "draining",
                            "drained", "none", "waiting", "ticked", "dead", "joining", "flushed"}]
    BY TypesAre, ThreadsAre
  <2> QED BY <2>1, <2>2, <2>3, TypesAre, ThreadsAre DEF Flush!TypeOK
<1>2. Staged'
  BY TypesAre, ThreadsAre, StagesAre DEF Staged
<1>3. Locked'
  BY TypesAre, ThreadsAre, StagesAre DEF Locked, TracksOrShuts, Flushing, Staged
<1>4. FlushHolding'
  BY TypesAre, ThreadsAre DEF FlushHolding, TracksOrShuts
<1>5. OnePlace'
  BY TypesAre, ThreadsAre DEF OnePlace
<1>6. Counted'
  <2>1. Over' = Over
    BY SameOver, TypesAre, ThreadsAre
  <2>2. \A w \in Flush!Workers : pc'[w] = "none" <=> pc[w] = "none"
    BY TypesAre, ThreadsAre
  <2> QED BY <2>1, <2>2 DEF Counted
<1>7. Stopping'
  BY TypesAre, ThreadsAre DEF Stopping, TracksOrShuts
<1>8. FlushCovered'
  BY TypesAre, ThreadsAre DEF FlushCovered, LooksAgain, Putting
<1>9. Flush!NothingLeftBehind'
  BY TypesAre, ThreadsAre DEF Flush!NothingLeftBehind
<1>10. Emptied'
  BY TypesAre, ThreadsAre DEF Emptied
<1> QED BY <1>1, <1>2, <1>3, <1>4, <1>5, <1>6, <1>7, <1>8, <1>9, <1>10

LEMMA TickInv ==
    ASSUME Flush!TelemetryAssumption, FlushIInv, NEW t \in Flush!Workers, Flush!Tick(t)
    PROVE  FlushIInv'
<1> USE DEF FlushIInv, Flush!Tick, Flush!locks, Flush!clients, Flush!items, Flush!control, Flush!Goes
<1>1. Flush!TypeOK'
  <2>1. initialized' \in BOOLEAN /\ pending' \in BOOLEAN /\ requested' \in BOOLEAN /\ registered' \in BOOLEAN
        /\ crossed' \in BOOLEAN
    BY DEF Flush!TypeOK
  <2>2. stop' \in [Flush!Workers -> BOOLEAN] /\ worker' \in Flush!Workers \cup {0}
    BY DEF Flush!TypeOK
  <2>3. pc' \in [Flush!Threads -> {"start", "ready", "put", "tracked", "done", "flush", "captured", "draining",
                            "drained", "none", "waiting", "ticked", "dead", "joining", "flushed"}]
    BY TypesAre, ThreadsAre
  <2> QED BY <2>1, <2>2, <2>3, TypesAre, ThreadsAre DEF Flush!TypeOK
<1>2. Staged'
  BY TypesAre, ThreadsAre, StagesAre DEF Staged
<1>3. Locked'
  BY TypesAre, ThreadsAre, StagesAre DEF Locked, TracksOrShuts, Flushing, Staged
<1>4. FlushHolding'
  BY TypesAre, ThreadsAre DEF FlushHolding, TracksOrShuts
<1>5. OnePlace'
  BY TypesAre, ThreadsAre DEF OnePlace
<1>6. Counted'
  <2>1. Over' = Over
    BY SameOver, TypesAre, ThreadsAre
  <2>2. \A w \in Flush!Workers : pc'[w] = "none" <=> pc[w] = "none"
    BY TypesAre, ThreadsAre
  <2> QED BY <2>1, <2>2 DEF Counted
<1>7. Stopping'
  BY TypesAre, ThreadsAre DEF Stopping, TracksOrShuts
<1>8. FlushCovered'
  BY TypesAre, ThreadsAre DEF FlushCovered, LooksAgain, Putting
<1>9. Flush!NothingLeftBehind'
  BY TypesAre, ThreadsAre DEF Flush!NothingLeftBehind
<1>10. Emptied'
  BY TypesAre, ThreadsAre DEF Emptied
<1> QED BY <1>1, <1>2, <1>3, <1>4, <1>5, <1>6, <1>7, <1>8, <1>9, <1>10

LEMMA StopsInv ==
    ASSUME Flush!TelemetryAssumption, FlushIInv, NEW t \in Flush!Workers, Flush!Stops(t)
    PROVE  FlushIInv'
<1> USE DEF FlushIInv, Flush!Stops, Flush!locks, Flush!clients, Flush!items, Flush!control, Flush!Goes
<1>1. Flush!TypeOK'
  <2>1. initialized' \in BOOLEAN /\ pending' \in BOOLEAN /\ requested' \in BOOLEAN /\ registered' \in BOOLEAN
        /\ crossed' \in BOOLEAN
    BY DEF Flush!TypeOK
  <2>2. stop' \in [Flush!Workers -> BOOLEAN] /\ worker' \in Flush!Workers \cup {0}
    BY DEF Flush!TypeOK
  <2>3. pc' \in [Flush!Threads -> {"start", "ready", "put", "tracked", "done", "flush", "captured", "draining",
                            "drained", "none", "waiting", "ticked", "dead", "joining", "flushed"}]
    BY TypesAre, ThreadsAre
  <2> QED BY <2>1, <2>2, <2>3, TypesAre, ThreadsAre DEF Flush!TypeOK
<1>2. Staged'
  BY TypesAre, ThreadsAre, StagesAre DEF Staged
<1>3. Locked'
  BY TypesAre, ThreadsAre, StagesAre DEF Locked, TracksOrShuts, Flushing, Staged
<1>4. FlushHolding'
  BY TypesAre, ThreadsAre DEF FlushHolding, TracksOrShuts
<1>5. OnePlace'
  BY TypesAre, ThreadsAre DEF OnePlace
<1>6. Counted'
  <2>1. Over' = Over
    BY SameOver, TypesAre, ThreadsAre
  <2>2. \A w \in Flush!Workers : pc'[w] = "none" <=> pc[w] = "none"
    BY TypesAre, ThreadsAre
  <2> QED BY <2>1, <2>2 DEF Counted
<1>7. Stopping'
  BY TypesAre, ThreadsAre DEF Stopping, TracksOrShuts
<1>8. FlushCovered'
  BY TypesAre, ThreadsAre DEF FlushCovered, LooksAgain, Putting
<1>9. Flush!NothingLeftBehind'
  BY TypesAre, ThreadsAre DEF Flush!NothingLeftBehind
<1>10. Emptied'
  BY TypesAre, ThreadsAre DEF Emptied
<1> QED BY <1>1, <1>2, <1>3, <1>4, <1>5, <1>6, <1>7, <1>8, <1>9, <1>10

LEMMA ShutdownInv ==
    ASSUME Flush!TelemetryAssumption, FlushIInv, NEW t \in Flush!Shutdowns, Flush!Shutdown(t)
    PROVE  FlushIInv'
<1> USE DEF FlushIInv, Flush!Shutdown, Flush!locks, Flush!clients, Flush!items, Flush!control, Flush!Goes,
       Flush!Free
<1>1. Flush!TypeOK'
  <2>1. initialized' \in BOOLEAN /\ pending' \in BOOLEAN /\ requested' \in BOOLEAN /\ registered' \in BOOLEAN
        /\ crossed' \in BOOLEAN
    BY DEF Flush!TypeOK
  <2>2. stop' \in [Flush!Workers -> BOOLEAN] /\ worker' \in Flush!Workers \cup {0}
    BY DEF Flush!TypeOK
  <2>3. pc' \in [Flush!Threads -> {"start", "ready", "put", "tracked", "done", "flush", "captured", "draining",
                            "drained", "none", "waiting", "ticked", "dead", "joining", "flushed"}]
    BY TypesAre, ThreadsAre
  <2> QED BY <2>1, <2>2, <2>3, TypesAre, ThreadsAre DEF Flush!TypeOK
<1>2. Staged'
  BY TypesAre, ThreadsAre, StagesAre DEF Staged
<1>3. Locked'
  BY TypesAre, ThreadsAre, StagesAre DEF Locked, TracksOrShuts, Flushing, Staged
<1>4. FlushHolding'
  BY TypesAre, ThreadsAre DEF FlushHolding, TracksOrShuts
<1>5. OnePlace'
  BY TypesAre, ThreadsAre DEF OnePlace
<1>6. Counted'
  <2>1. Over' = Over
    BY SameOver, TypesAre, ThreadsAre
  <2>2. \A w \in Flush!Workers : pc'[w] = "none" <=> pc[w] = "none"
    BY TypesAre, ThreadsAre
  <2>3. PICK k \in Nat : (\A w \in Flush!Workers : pc[w] # "none" <=> w <= k) /\ k <= Over + 1
    BY OverIs DEF Counted
  <2> QED BY <2>1, <2>2, <2>3, OverIs DEF Counted
<1>7. Stopping'
  BY TypesAre, ThreadsAre DEF Stopping, TracksOrShuts
<1>8. FlushCovered'
  BY TypesAre, ThreadsAre DEF FlushCovered, LooksAgain, Putting
<1>9. Flush!NothingLeftBehind'
  BY TypesAre, ThreadsAre DEF Flush!NothingLeftBehind
<1>10. Emptied'
  BY TypesAre, ThreadsAre DEF Emptied
<1> QED BY <1>1, <1>2, <1>3, <1>4, <1>5, <1>6, <1>7, <1>8, <1>9, <1>10

LEMMA JoinInv ==
    ASSUME Flush!TelemetryAssumption, FlushIInv, NEW t \in Flush!Shutdowns, Flush!Join(t)
    PROVE  FlushIInv'
<1> USE DEF FlushIInv, Flush!Join, Flush!locks, Flush!clients, Flush!items, Flush!control, Flush!Goes
<1>1. Flush!TypeOK'
  <2>1. initialized' \in BOOLEAN /\ pending' \in BOOLEAN /\ requested' \in BOOLEAN /\ registered' \in BOOLEAN
        /\ crossed' \in BOOLEAN
    BY DEF Flush!TypeOK
  <2>2. stop' \in [Flush!Workers -> BOOLEAN] /\ worker' \in Flush!Workers \cup {0}
    BY DEF Flush!TypeOK
  <2>3. pc' \in [Flush!Threads -> {"start", "ready", "put", "tracked", "done", "flush", "captured", "draining",
                            "drained", "none", "waiting", "ticked", "dead", "joining", "flushed"}]
    BY TypesAre, ThreadsAre
  <2> QED BY <2>1, <2>2, <2>3, TypesAre, ThreadsAre DEF Flush!TypeOK
<1>2. Staged'
  BY TypesAre, ThreadsAre, StagesAre DEF Staged, Flush!Joinable, Flush!Running, Flush!Alive
<1>3. Locked'
  BY TypesAre, ThreadsAre, StagesAre
     DEF Locked, TracksOrShuts, Flushing, Staged, Flush!Joinable, Flush!Running, Flush!Alive
<1>4. FlushHolding'
  BY TypesAre, ThreadsAre DEF FlushHolding, TracksOrShuts, Flush!Joinable, Flush!Running, Flush!Alive
<1>5. OnePlace'
  BY TypesAre, ThreadsAre DEF OnePlace, Flush!Joinable, Flush!Running, Flush!Alive
<1>6. Counted'
  <2>1. Over' = Over
    BY SameOver, TypesAre, ThreadsAre
  <2>2. \A w \in Flush!Workers : pc'[w] = "none" <=> pc[w] = "none"
    BY TypesAre, ThreadsAre DEF Flush!Joinable, Flush!Running, Flush!Alive
  <2> QED BY <2>1, <2>2 DEF Counted
<1>7. Stopping'
  BY TypesAre, ThreadsAre DEF Stopping, TracksOrShuts, Flush!Joinable, Flush!Running, Flush!Alive
<1>8. FlushCovered'
  BY TypesAre, ThreadsAre DEF FlushCovered, LooksAgain, Putting, Flush!Joinable, Flush!Running, Flush!Alive
<1>9. Flush!NothingLeftBehind'
  BY TypesAre, ThreadsAre DEF Flush!NothingLeftBehind, Flush!Joinable, Flush!Running, Flush!Alive
<1>10. Emptied'
  BY TypesAre, ThreadsAre DEF Emptied, Flush!Joinable, Flush!Running, Flush!Alive
<1> QED BY <1>1, <1>2, <1>3, <1>4, <1>5, <1>6, <1>7, <1>8, <1>9, <1>10

LEMMA FinishInv ==
    ASSUME Flush!TelemetryAssumption, FlushIInv, NEW t \in Flush!Shutdowns, Flush!Finish(t)
    PROVE  FlushIInv'
<1> USE DEF FlushIInv, Flush!Finish, Flush!locks, Flush!clients, Flush!items, Flush!control, Flush!Goes
<1>1. Flush!TypeOK'
  <2>1. initialized' \in BOOLEAN /\ pending' \in BOOLEAN /\ requested' \in BOOLEAN /\ registered' \in BOOLEAN
        /\ crossed' \in BOOLEAN
    BY DEF Flush!TypeOK
  <2>2. stop' \in [Flush!Workers -> BOOLEAN] /\ worker' \in Flush!Workers \cup {0}
    BY DEF Flush!TypeOK
  <2>3. pc' \in [Flush!Threads -> {"start", "ready", "put", "tracked", "done", "flush", "captured", "draining",
                            "drained", "none", "waiting", "ticked", "dead", "joining", "flushed"}]
    BY TypesAre, ThreadsAre
  <2> QED BY <2>1, <2>2, <2>3, TypesAre, ThreadsAre DEF Flush!TypeOK
<1>2. Staged'
  BY TypesAre, ThreadsAre, StagesAre DEF Staged
<1>3. Locked'
  BY TypesAre, ThreadsAre, StagesAre DEF Locked, TracksOrShuts, Flushing, Staged
<1>4. FlushHolding'
  BY TypesAre, ThreadsAre, StagesAre DEF FlushHolding, TracksOrShuts, Staged, Locked, TracksOrShuts, Flushing
<1>5. OnePlace'
  BY TypesAre, ThreadsAre DEF OnePlace
<1>6. Counted'
  <2>1. \A w \in Flush!Workers : pc'[w] = pc[w]
    BY TypesAre, ThreadsAre
  <2>2. PICK k \in Nat : (\A w \in Flush!Workers : pc[w] # "none" <=> w <= k) /\ k <= Over + 1
    BY OverIs DEF Counted
  <2>3. built <= Over + 1
    BY OverIs, TypesAre, ThreadsAre DEF Counted
  <2>4. CASE t \in Resets
    <3>1. Over' = Over + 1
      BY <2>4, MoreOver, TypesAre, ThreadsAre
    <3> QED BY <2>1, <2>2, <2>3, <2>4, <3>1 DEF Counted
  <2>5. CASE t \notin Resets
    <3>1. Over' = Over
      BY <2>5, SameOver, TypesAre, ThreadsAre
    <3>2. requested
      BY DEF Stopping, TracksOrShuts
    <3> QED BY <2>1, <2>2, <2>5, <3>1, <3>2 DEF Counted
  <2> QED BY <2>4, <2>5
<1>7. Stopping'
  BY TypesAre, ThreadsAre, StagesAre DEF Stopping, TracksOrShuts, Staged, Locked, TracksOrShuts, Flushing
<1>8. FlushCovered'
  BY TypesAre, ThreadsAre DEF FlushCovered, LooksAgain, Putting
<1>9. Flush!NothingLeftBehind'
  BY TypesAre, ThreadsAre DEF Flush!NothingLeftBehind
<1>10. Emptied'
  BY TypesAre, ThreadsAre, StagesAre DEF Emptied, Staged, Locked, TracksOrShuts, Flushing
<1> QED BY <1>1, <1>2, <1>3, <1>4, <1>5, <1>6, <1>7, <1>8, <1>9, <1>10

LEMMA InitInv == ASSUME Flush!TelemetryAssumption, Flush!Init PROVE FlushIInv
<1> USE DEF Flush!Init
<1>1. /\ \A t \in Flush!Threads : /\ pc[t] = IF t \in Flush!Workers THEN "none" ELSE "start"
                            /\ held[t] = 0 /\ batch[t] = {}
      /\ \A c \in Flush!Clients : queue[c] = {}
  OBVIOUS
<1>2. Flush!TypeOK
  <2>1. pc \in [Flush!Threads -> {"start", "none"}] /\ stop \in [Flush!Workers -> BOOLEAN]
    OBVIOUS
  <2>2. initialized \in BOOLEAN /\ pending \in BOOLEAN /\ requested \in BOOLEAN /\ registered \in BOOLEAN
        /\ crossed \in BOOLEAN
    OBVIOUS
  <2>3. attempts \in [Events -> 0 .. 2] /\ 0 \in Flush!Clients \cup {0}
    OBVIOUS
  <2> QED BY <2>1, <2>2, <2>3 DEF Flush!TypeOK
<1>3. Staged
  BY <1>1, StagesAre, ThreadsAre DEF Staged
<1>4. Locked
  BY <1>1, ThreadsAre DEF Locked, TracksOrShuts, Flushing
<1>5. FlushHolding
  BY <1>1, ThreadsAre DEF FlushHolding, TracksOrShuts
<1>6. OnePlace
  BY <1>1, ThreadsAre DEF OnePlace
<1>7. Counted
  <2>1. Over \in Nat
    BY OverIs
  <2>2. \A w \in Flush!Workers : pc[w] # "none" <=> w <= 0
    BY <1>1, ThreadsAre
  <2>3. \E k \in Nat : (\A w \in Flush!Workers : pc[w] # "none" <=> w <= k) /\ k <= Over
    BY <2>1, <2>2
  <2> QED BY <2>1, <2>3 DEF Counted
<1>8. Stopping
  BY <1>1, ThreadsAre DEF Stopping, TracksOrShuts
<1>9. FlushCovered
  BY DEF FlushCovered
<1>10. Flush!NothingLeftBehind
  BY <1>1 DEF Flush!NothingLeftBehind
<1>11. Emptied
  BY <1>1, ThreadsAre DEF Emptied
<1> QED BY <1>2, <1>3, <1>4, <1>5, <1>6, <1>7, <1>8, <1>9, <1>10, <1>11 DEF FlushIInv

\* A step that changes nothing.
LEMMA StutterInv == ASSUME FlushIInv, UNCHANGED Flush!vars PROVE FlushIInv'
<1> USE DEF Flush!vars, Flush!locks, Flush!clients, Flush!items, Flush!control
<1>1. Flush!TypeOK'
  BY DEF FlushIInv, Flush!TypeOK
<1>2. Staged' /\ Locked' /\ FlushHolding' /\ OnePlace'
  BY DEF FlushIInv, Staged, Locked, FlushHolding, TracksOrShuts, Flushing, OnePlace
<1>3. Over' = Over
  BY SameOver
<1>4. Counted'
  BY <1>3 DEF FlushIInv, Counted
<1>5. Stopping' /\ FlushCovered' /\ Flush!NothingLeftBehind' /\ Emptied'
  BY DEF FlushIInv, Stopping, TracksOrShuts, FlushCovered, LooksAgain, Putting, Flush!NothingLeftBehind, Emptied
<1> QED BY <1>1, <1>2, <1>4, <1>5 DEF FlushIInv

LEMMA DrainInv ==
    ASSUME Flush!TelemetryAssumption, FlushIInv, NEW t \in Flush!Threads, Flush!Drain(t)
    PROVE  FlushIInv'
  BY TakeInv, SendInv, RequeueInv, DrainedInv, RaiseInv DEF Flush!Drain

LEMMA FlushInv ==
    ASSUME Flush!TelemetryAssumption, FlushIInv, NEW t \in Flush!Threads \ Events, Flush!Flush(t)
    PROVE  FlushIInv'
  BY EnterFlushInv, ClearPendingInv, DrainInv, LeaveFlushInv DEF Flush!Flush

LEMMA NextInv == ASSUME Flush!TelemetryAssumption, FlushIInv, [Flush!Next]_(Flush!vars) PROVE FlushIInv'
<1>1. CASE UNCHANGED Flush!vars
  BY <1>1, StutterInv
<1>2. ASSUME NEW e \in Events, Flush!Initialize(e) \/ Flush!EventStep(e) PROVE FlushIInv'
  BY <1>2, ThreadsAre, InitializeInv, DropInv, PutInv, SetPendingInv, RegisterInv, DrainInv DEF Flush!EventStep
<1>3. ASSUME NEW f \in Flushers, Flush!CallFlush(f) \/ Flush!FlusherStep(f) PROVE FlushIInv'
  BY <1>3, ThreadsAre, CallFlushInv, FlushInv DEF Flush!FlusherStep
<1>4. ASSUME NEW w \in Flush!Workers, Flush!WorkerStep(w) PROVE FlushIInv'
  BY <1>4, ThreadsAre, TimesOutInv, TickInv, StopsInv, FlushInv DEF Flush!WorkerStep
<1>5. ASSUME NEW s \in Flush!Shutdowns, Flush!Shutdown(s) \/ Flush!ShutdownStep(s) PROVE FlushIInv'
  BY <1>5, ThreadsAre, ShutdownInv, JoinInv, FlushInv, FinishInv DEF Flush!ShutdownStep
<1> QED BY <1>1, <1>2, <1>3, <1>4, <1>5 DEF Flush!Next

\* The invariant, of every reachable state.
THEOREM Invariant == Flush!TelemetryAssumption => (Flush!Spec => []FlushIInv)
<1> SUFFICES ASSUME Flush!TelemetryAssumption PROVE Flush!Spec => []FlushIInv
  OBVIOUS
<1>1. Flush!Init => FlushIInv
  BY InitInv
<1>2. FlushIInv /\ [Flush!Next]_(Flush!vars) => FlushIInv'
  BY NextInv
<1> QED BY <1>1, <1>2, PTL DEF Flush!Spec

\* When nobody tracks, flushes or shuts down, what is in the queue is marked
\* pending, and a shutdown leaves nothing behind (telemetry/_track.py, lines
\* 388-446).
THEOREM QueueAlwaysCovered == Flush!Spec => []QueueCovered
<1> USE TelemetryIsAssumed
<1>1. FlushIInv => QueueCovered
  <2> SUFFICES ASSUME FlushIInv PROVE Flush!PendingCovers
    BY DEF FlushIInv, QueueCovered, Flush!QueueCovered
  <2> SUFFICES ASSUME lifecycle = Nobody, flushLock = Nobody, client # 0, queue[client] # {}
               PROVE  pending \/ crossed
    BY DEF Flush!PendingCovers
  <2>1. \A t \in Flush!Threads : ~TracksOrShuts(t) /\ ~Flushing(t)
    BY ThreadsAre DEF FlushIInv, Locked
  <2>2. \A e \in Events : pc[e] \notin {"put", "draining"}
    BY <2>1, ThreadsAre DEF TracksOrShuts
  <2>3. ~LooksAgain /\ ~Putting
    BY <2>1, <2>2 DEF LooksAgain, Putting, Flushing
  <2> QED BY <2>2, <2>3 DEF FlushIInv, FlushCovered
<1> QED BY <1>1, Invariant, PTL

===============================================================================
