--------------------------- MODULE LiveTrackingProofs ---------------------------
(***************************************************************************)
(* Safety of LiveTracking for any set of spans, any number of jobs and any *)
(* size of pool.                                                           *)
(*                                                                         *)
(* The argument: at most one pool has work, that of the current job, and   *)
(* its queue is first in, first out; so the end of a span is taken up only *)
(* when its start has been, and a start that is in hand with the end gone  *)
(* ahead is of a span that was crossed.  What a thread has fetched was a   *)
(* child before the shutdown of its job was over (Calling); once the job   *)
(* is over, its pool is closed and takes nothing.                          *)
(***************************************************************************)
EXTENDS LiveTracking, TLAPS

InQueue(p, u) == \E i \in 1 .. Len(queue[p]) : queue[p][i] = u

\* The delegating processor holds the current job's, if any; a pool is closed
\* with its job, and the others have no work.
OneJob ==
    /\ children \subseteq {job}
    /\ phase = "run" <=> job \notin closed
    /\ phase = "over" => children = {}
    /\ \A p \in closed : p <= job
    /\ \A p \in Processors : p < job => p \in closed
    /\ \A p \in Processors : p # job => PoolDone(p)
    /\ phase \in {"closed", "over"} => PoolDone(job)

\* A thread has fetched a child before the shutdown of its job was over.
Calling ==
    \A s \in Spans : fetched[s] # 0 =>
        /\ s \in Tracked /\ state[s] # "new"
        /\ fetched[s] <= job /\ began[s] < fetched[s]

\* The end of a span that has not ended is nowhere.
EndsAreNew ==
    \A s \in Spans : state[s] # "ended" =>
        /\ \A p \in Processors : ~InQueue(p, <<s, "end">>) /\ ~InHand(p, <<s, "end">>)
        /\ <<s, "end">> \notin landed

\* In a queue the start of a span is before its end.
StartFirst ==
    \A p \in Processors : \A s \in Spans : \A i, k \in 1 .. Len(queue[p]) :
        queue[p][i] = <<s, "start">> /\ queue[p][k] = <<s, "end">> => i < k

\* While a start is queued its end has not been taken up.
QueuedStart ==
    \A p, q \in Processors : \A s \in Spans :
        InQueue(p, <<s, "start">>) => ~InHand(q, <<s, "end">>) /\ <<s, "end">> \notin landed

\* A start in hand whose end has been taken up is of a crossed span.
StartInHand ==
    \A p, q \in Processors : \A s \in Spans :
        InHand(p, <<s, "start">>) /\ (InHand(q, <<s, "end">>) \/ <<s, "end">> \in landed) => s \in crossed

StoredFinal ==
    \A s \in Spans : <<s, "end">> \in landed /\ s \notin crossed => stored[s] = outcome[s]

IInv == TypeOK /\ OneJob /\ Calling /\ Drained /\ EndsAreNew /\ StartFirst /\ QueuedStart /\ StartInHand /\ StoredFinal

-------------------------------------------------------------------------------
\* What Append and Tail do to the entries of a sequence.
LEMMA AppendEntry ==
    ASSUME NEW S, NEW t \in Seq(S), NEW e \in S
    PROVE  /\ Append(t, e) \in Seq(S) /\ Append(t, e) # <<>>
           /\ Len(Append(t, e)) = Len(t) + 1
           /\ \A k \in 1 .. Len(t) : Append(t, e)[k] = t[k]
           /\ Append(t, e)[Len(t) + 1] = e
  OBVIOUS

LEMMA TailEntry ==
    ASSUME NEW S, NEW t \in Seq(S), t # <<>>
    PROVE  /\ Tail(t) \in Seq(S) /\ Head(t) = t[1] /\ Head(t) \in S
           /\ Len(t) \in Nat \ {0} /\ Len(Tail(t)) = Len(t) - 1
           /\ \A k \in 1 .. Len(t) - 1 : Tail(t)[k] = t[k + 1]
  OBVIOUS

\* An upload is a span with a stage.
LEMMA UploadParts ==
    ASSUME NEW u \in Uploads
    PROVE  u[1] \in Spans /\ u[2] \in {"start", "end"} /\ u = <<u[1], u[2]>>
  BY DEF Uploads, Stages

\* What is fetched is the current job's child, before its shutdown is over.
LEMMA Fetched ==
    ASSUME IInv, NEW s \in Spans, NEW p \in 0 .. Jobs, Fetch(s, p)
    PROVE  /\ fetched' \in [Spans -> 0 .. Jobs] /\ began' \in [Spans -> 0 .. Jobs]
           /\ \A r \in Spans : r # s => fetched'[r] = fetched[r] /\ began'[r] = began[r]
           /\ fetched'[s] # 0 => s \in Tracked /\ fetched'[s] = job /\ began'[s] < fetched'[s]
<1>1. PICK c \in IF s \in Tracked THEN Reachable(p) ELSE {0} :
         /\ fetched' = [fetched EXCEPT ![s] = c]
         /\ began' = [began EXCEPT ![s] = IF c = 0 THEN 0 ELSE ShutDown]
  BY DEF Fetch
<1>2. c = 0 \/ (s \in Tracked /\ c \in children)
  BY DEF Reachable, Following
<1>3. job \in 1 .. Jobs /\ Jobs \in Nat \ {0}
  BY TrackingAssumption DEF IInv, TypeOK, Processors
<1>4. c # 0 => c = job /\ ShutDown = job - 1
  BY <1>2 DEF IInv, OneJob, ShutDown
<1> QED BY <1>1, <1>2, <1>3, <1>4 DEF IInv, TypeOK

\* A submission that is taken makes the current job's queue grow.
LEMMA SubmittedQueue ==
    ASSUME IInv, NEW s \in Spans, Submit(s)
    PROVE  /\ queue' \in [Processors -> Seq(Uploads)]
           /\ Stage(s) \in Stages /\ <<s, Stage(s)>> \in Uploads
           /\ Stage(s) = "start" => state[s] = "open"
           /\ Stage(s) = "end" => state[s] = "ended"
           /\ \A p \in Processors :
                 \/ queue'[p] = queue[p]
                 \/ /\ p = job /\ p \notin closed /\ phase = "run"
                    /\ queue'[p] = Append(queue[p], <<s, Stage(s)>>)
<1>1. fetched[s] \in Processors /\ fetched[s] \notin closed /\ fetched[s] <= job
  BY TrackingAssumption DEF Submit, IInv, Calling, TypeOK, Processors
<1>2. fetched[s] = job /\ phase = "run"
  BY <1>1, TrackingAssumption DEF IInv, OneJob, TypeOK, Processors
<1>3. Stage(s) \in Stages /\ <<s, Stage(s)>> \in Uploads
  BY DEF Stage, Stages, Uploads
<1>4. state[s] \in {"open", "ended"}
  BY DEF Submit, IInv, Calling, TypeOK
<1> DEFINE u == <<s, Stage(s)>>
<1>5. u \in Uploads /\ queue' = [queue EXCEPT ![fetched[s]] = Append(@, u)]
  BY <1>3 DEF Submit
<1> HIDE DEF u
<1>6. queue \in [Processors -> Seq(Uploads)]
  BY DEF IInv, TypeOK
<1>7. Append(queue[job], u) \in Seq(Uploads)
  BY <1>1, <1>2, <1>5, <1>6
<1>8. /\ queue' \in [Processors -> Seq(Uploads)]
      /\ \A p \in Processors : queue'[p] = IF p = job THEN Append(queue[p], u) ELSE queue[p]
  BY <1>1, <1>2, <1>5, <1>6, <1>7
<1> QED BY <1>1, <1>2, <1>3, <1>4, <1>8 DEF u, Stage

-------------------------------------------------------------------------------
LEMMA InitInv == Init => IInv
<1> SUFFICES ASSUME Init PROVE IInv
  OBVIOUS
<1> USE TrackingAssumption DEF Init
<1>1. TypeOK
  BY DEF TypeOK, Processors, Outcomes
<1>2. OneJob /\ Calling /\ Drained
  BY DEF OneJob, Calling, Drained, PoolDone, Processors
<1>3. EndsAreNew /\ StartFirst /\ QueuedStart /\ StartInHand /\ StoredFinal
  BY DEF EndsAreNew, StartFirst, QueuedStart, StartInHand, StoredFinal, InQueue, InHand
<1> QED BY <1>1, <1>2, <1>3 DEF IInv

\* A span starts or ends, and a child is fetched: no upload moves.
LEMMA StageInv ==
    ASSUME IInv, NEW s \in Spans, NEW after \in {"open", "ended"}, Fetch(s, 0),
           state' = [state EXCEPT ![s] = after],
           outcome' \in [Spans -> Outcomes], \A r \in Spans : r # s => outcome'[r] = outcome[r],
           state[s] # "ended",
           UNCHANGED <<manager, pools, service, crossed, raised>>
    PROVE  IInv'
<1> USE DEF manager, pools, service
<1>1. /\ fetched' \in [Spans -> 0 .. Jobs] /\ began' \in [Spans -> 0 .. Jobs]
      /\ \A r \in Spans : r # s => fetched'[r] = fetched[r] /\ began'[r] = began[r]
      /\ fetched'[s] # 0 => s \in Tracked /\ fetched'[s] = job /\ began'[s] < fetched'[s]
  BY Fetched, TrackingAssumption
<1>2. TypeOK'
  BY <1>1 DEF IInv, TypeOK
<1>3. OneJob' /\ Drained'
  BY DEF IInv, OneJob, Drained, PoolDone
<1>4. Calling'
  <2> SUFFICES ASSUME NEW r \in Spans, fetched'[r] # 0
               PROVE  r \in Tracked /\ state'[r] # "new" /\ fetched'[r] <= job /\ began'[r] < fetched'[r]
    BY DEF Calling
  <2>1. CASE r = s
    BY <1>1, <2>1, TrackingAssumption DEF IInv, TypeOK, Processors
  <2>2. CASE r # s
    BY <1>1, <2>2 DEF IInv, Calling, TypeOK
  <2> QED BY <2>1, <2>2
<1>5. EndsAreNew'
  <2> SUFFICES ASSUME NEW r \in Spans, state'[r] # "ended"
               PROVE  /\ \A p \in Processors : ~InQueue(p, <<r, "end">>)' /\ ~InHand(p, <<r, "end">>)'
                      /\ <<r, "end">> \notin landed'
    BY DEF EndsAreNew
  <2>1. state[r] # "ended"
    BY DEF IInv, TypeOK
  <2> QED BY <2>1 DEF IInv, EndsAreNew, InQueue, InHand
<1>6. StartFirst' /\ QueuedStart' /\ StartInHand'
  BY DEF IInv, StartFirst, QueuedStart, StartInHand, InQueue, InHand
<1>7. StoredFinal'
  <2> SUFFICES ASSUME NEW r \in Spans, <<r, "end">> \in landed', r \notin crossed'
               PROVE  stored'[r] = outcome'[r]
    BY DEF StoredFinal
  <2>1. r # s
    BY DEF IInv, EndsAreNew
  <2> QED BY <2>1 DEF IInv, StoredFinal
<1> QED BY <1>2, <1>3, <1>4, <1>5, <1>6, <1>7 DEF IInv

\* A child submits: one upload more at the end of a queue.
LEMMA SubmitInv == ASSUME IInv, NEW s \in Spans, Submit(s) PROVE IInv'
<1> DEFINE stage == Stage(s)
<1> USE DEF manager, spans, service
<1>0. UNCHANGED <<manager, spans, sending, closed, released, service, crossed, raised>>
  BY DEF Submit
<1>1. /\ queue' \in [Processors -> Seq(Uploads)]
      /\ \A p \in Processors :
            \/ queue'[p] = queue[p]
            \/ /\ p = job /\ p \notin closed /\ phase = "run"
               /\ queue'[p] = Append(queue[p], <<s, stage>>)
  BY SubmittedQueue
<1>2. /\ <<s, stage>> \in Uploads /\ stage \in {"start", "end"}
      /\ stage = "start" => state[s] = "open"
      /\ stage = "end" => state[s] = "ended"
  BY SubmittedQueue DEF Stages
<1> HIDE DEF stage
<1>3. \A p \in Processors : queue[p] \in Seq(Uploads)
  BY DEF IInv, TypeOK
<1>4. \A p \in Processors : \A v : InQueue(p, v)' => InQueue(p, v) \/ (v = <<s, stage>>)
  <2> SUFFICES ASSUME NEW p \in Processors, NEW v, NEW i \in 1 .. Len(queue'[p]), queue'[p][i] = v
               PROVE  InQueue(p, v) \/ v = <<s, stage>>
    BY DEF InQueue
  <2>1. CASE queue'[p] = queue[p]
    BY <2>1 DEF InQueue
  <2>2. CASE queue'[p] = Append(queue[p], <<s, stage>>)
    <3>1. Len(queue'[p]) = Len(queue[p]) + 1 /\ Len(queue[p]) \in Nat
      BY <1>2, <1>3, <2>2, AppendEntry
    <3>2. CASE i \in 1 .. Len(queue[p])
      BY <1>2, <1>3, <2>2, <3>2, AppendEntry DEF InQueue
    <3>3. CASE i = Len(queue[p]) + 1
      BY <1>2, <1>3, <2>2, <3>3, AppendEntry
    <3> QED BY <3>1, <3>2, <3>3
  <2> QED BY <1>1, <2>1, <2>2
<1>5. \A p \in Processors : \A v : InHand(p, v)' = InHand(p, v)
  BY <1>0 DEF InHand
<1>6. TypeOK' /\ Calling'
  <2>1. /\ fetched' \in [Spans -> 0 .. Jobs] /\ began' \in [Spans -> 0 .. Jobs]
        /\ \A r \in Spans : r # s => fetched'[r] = fetched[r] /\ began'[r] = began[r]
        /\ fetched'[s] # 0 => s \in Tracked /\ fetched'[s] = job /\ began'[s] < fetched'[s]
    <3>1. fetched[s] \in 0 .. Jobs /\ Fetch(s, fetched[s])
      BY DEF Submit, IInv, TypeOK
    <3> QED BY <3>1, Fetched
  <2>2. TypeOK'
    BY <1>0, <1>1, <2>1 DEF IInv, TypeOK
  <2>3. ASSUME NEW r \in Spans, fetched'[r] # 0
        PROVE  r \in Tracked /\ state'[r] # "new" /\ fetched'[r] <= job' /\ began'[r] < fetched'[r]
    <3>1. CASE r = s
      BY <1>0, <1>2, <2>1, <2>3, <3>1, TrackingAssumption DEF IInv, TypeOK, Processors
    <3>2. CASE r # s
      BY <1>0, <2>1, <2>3, <3>2 DEF IInv, Calling, TypeOK
    <3> QED BY <3>1, <3>2
  <2> QED BY <2>2, <2>3 DEF Calling
<1>7. OneJob' /\ Drained'
  BY <1>0, <1>1 DEF IInv, OneJob, Drained, PoolDone, TypeOK
<1>8. EndsAreNew'
  <2> SUFFICES ASSUME NEW r \in Spans, state'[r] # "ended"
               PROVE  /\ \A p \in Processors : ~InQueue(p, <<r, "end">>)' /\ ~InHand(p, <<r, "end">>)'
                      /\ <<r, "end">> \notin landed'
    BY DEF EndsAreNew
  <2>1. state[r] # "ended" /\ (r = s => stage = "start")
    BY <1>0, <1>2
  <2> QED BY <1>0, <1>4, <1>5, <2>1 DEF IInv, EndsAreNew
<1>9. StartFirst'
  <2> SUFFICES ASSUME NEW p \in Processors, NEW r \in Spans,
                      NEW i \in 1 .. Len(queue'[p]), NEW k \in 1 .. Len(queue'[p]),
                      queue'[p][i] = <<r, "start">>, queue'[p][k] = <<r, "end">>
               PROVE  i < k
    BY DEF StartFirst
  <2>1. CASE queue'[p] = queue[p]
    BY <2>1 DEF IInv, StartFirst
  <2>2. CASE queue'[p] = Append(queue[p], <<s, stage>>)
    <3>1. Len(queue'[p]) = Len(queue[p]) + 1 /\ Len(queue[p]) \in Nat
      BY <1>2, <1>3, <2>2, AppendEntry
    <3>2. CASE i \in 1 .. Len(queue[p]) /\ k \in 1 .. Len(queue[p])
      <4>1. queue[p][i] = <<r, "start">> /\ queue[p][k] = <<r, "end">>
        BY <1>2, <1>3, <2>2, <3>2, AppendEntry
      <4> QED BY <3>2, <4>1 DEF IInv, StartFirst
    <3>3. CASE i \in 1 .. Len(queue[p]) /\ k = Len(queue[p]) + 1
      BY <3>1, <3>3
    <3>4. CASE i = Len(queue[p]) + 1 /\ k \in 1 .. Len(queue[p])
      <4>1. <<r, "start">> = <<s, stage>>
        BY <1>2, <1>3, <2>2, <3>4, AppendEntry
      <4>2. queue[p][k] = <<s, "end">>
        BY <1>2, <1>3, <2>2, <3>4, <4>1, AppendEntry
      <4>3. InQueue(p, <<s, "end">>)
        BY <3>4, <4>2 DEF InQueue
      <4>4. state[s] # "ended"
        BY <1>2, <4>1
      <4> QED BY <4>3, <4>4 DEF IInv, EndsAreNew
    <3>5. CASE i = Len(queue[p]) + 1 /\ k = Len(queue[p]) + 1
      BY <3>5
    <3> QED BY <3>1, <3>2, <3>3, <3>4, <3>5
  <2> QED BY <1>1, <2>1, <2>2
<1>10. QueuedStart'
  <2> SUFFICES ASSUME NEW p \in Processors, NEW q \in Processors, NEW r \in Spans,
                      InQueue(p, <<r, "start">>)'
               PROVE  ~InHand(q, <<r, "end">>)' /\ <<r, "end">> \notin landed'
    BY DEF QueuedStart
  <2>1. CASE InQueue(p, <<r, "start">>)
    BY <1>0, <1>5, <2>1 DEF IInv, QueuedStart
  <2>2. CASE <<r, "start">> = <<s, stage>>
    BY <1>0, <1>2, <1>5, <2>2 DEF IInv, EndsAreNew
  <2> QED BY <1>4, <2>1, <2>2
<1>11. StartInHand'
  BY <1>0, <1>5 DEF IInv, StartInHand
<1>12. StoredFinal'
  BY <1>0 DEF IInv, StoredFinal
<1> QED BY <1>6, <1>7, <1>8, <1>9, <1>10, <1>11, <1>12 DEF IInv

\* A child's pool is closed: no upload moves.
LEMMA RaisesInv == ASSUME IInv, NEW s \in Spans, SubmitRaises(s) PROVE IInv'
<1> USE DEF manager, spans, pools, service, SubmitRaises
<1>1. fetched[s] \in closed /\ fetched[s] # 0
  BY DEF IInv, TypeOK, Processors
<1>2. s \in Tracked
  BY <1>1 DEF IInv, Calling
<1>3. TypeOK'
  BY <1>2, TrackingAssumption DEF IInv, TypeOK
<1>4. OneJob' /\ Drained'
  BY DEF IInv, OneJob, Drained, PoolDone
<1>5. Calling'
  BY DEF IInv, Calling, TypeOK
<1>6. EndsAreNew' /\ StartFirst' /\ QueuedStart' /\ StartInHand' /\ StoredFinal'
  BY DEF IInv, EndsAreNew, StartFirst, QueuedStart, StartInHand, StoredFinal, InQueue, InHand
<1> QED BY <1>3, <1>4, <1>5, <1>6 DEF IInv

\* A thread of the pool takes the oldest upload.
LEMMA TakeUpInv == ASSUME IInv, NEW p \in Processors, TakeUp(p) PROVE IInv'
<1> DEFINE u == Head(queue[p])
<1> USE DEF manager, spans, calls, service
<1>1. queue[p] \in Seq(Uploads) /\ queue[p] # <<>>
  BY DEF IInv, TypeOK, TakeUp
<1>2. /\ Tail(queue[p]) \in Seq(Uploads) /\ u = queue[p][1] /\ u \in Uploads
      /\ Len(queue[p]) \in Nat \ {0} /\ Len(Tail(queue[p])) = Len(queue[p]) - 1
      /\ \A k \in 1 .. Len(queue[p]) - 1 : Tail(queue[p])[k] = queue[p][k + 1]
  BY <1>1, TailEntry
<1>3. /\ queue' = [queue EXCEPT ![p] = Tail(@)]
      /\ sending' = [sending EXCEPT ![p] = @ \cup {[upload |-> u, failed |-> 0]}]
      /\ crossed' = IF u[2] = "end" /\ \E q \in Processors : InHand(q, <<u[1], "start">>)
                      THEN crossed \cup {u[1]} ELSE crossed
      /\ UNCHANGED <<manager, spans, calls, closed, released, service, raised>>
  BY DEF TakeUp
<1>4. InQueue(p, u)
  BY <1>2 DEF InQueue
<1> HIDE DEF u
<1>5. u[1] \in Spans /\ u[2] \in {"start", "end"} /\ u = <<u[1], u[2]>>
  BY <1>2, UploadParts
<1>6. \A q \in Processors : \A v : InQueue(q, v)' => InQueue(q, v)
  <2> SUFFICES ASSUME NEW q \in Processors, NEW v, NEW i \in 1 .. Len(queue'[q]), queue'[q][i] = v
               PROVE  InQueue(q, v)
    BY DEF InQueue
  <2>1. CASE q # p
    BY <1>3, <2>1 DEF InQueue
  <2>2. CASE q = p
    <3>1. queue'[p] = Tail(queue[p])
      BY <1>3 DEF IInv, TypeOK
    <3>2. i + 1 \in 1 .. Len(queue[p]) /\ i \in 1 .. Len(queue[p]) - 1
      BY <1>2, <2>2, <3>1
    <3> QED BY <1>2, <2>2, <3>1, <3>2 DEF InQueue
  <2> QED BY <2>1, <2>2
<1>7. \A q \in Processors : \A v : InHand(q, v)' <=> InHand(q, v) \/ (q = p /\ v = u)
  <2> SUFFICES ASSUME NEW q \in Processors, NEW v
               PROVE  InHand(q, v)' <=> InHand(q, v) \/ (q = p /\ v = u)
    OBVIOUS
  <2> DEFINE rec == [upload |-> u, failed |-> 0]
  <2>1. rec.upload = u
    OBVIOUS
  <2>2. sending'[q] = IF q = p THEN sending[q] \cup {rec} ELSE sending[q]
    BY <1>3 DEF IInv, TypeOK
  <2> HIDE DEF rec
  <2> QED BY <2>1, <2>2 DEF InHand
<1>8. p = job
  BY <1>1 DEF IInv, OneJob, PoolDone
<1>9. TypeOK'
  <2>1. [upload |-> u, failed |-> 0] \in [upload : Uploads, failed : 0 .. MaxRetries - 1]
    BY <1>2, TrackingAssumption
  <2>2. crossed' \subseteq Spans
    BY <1>3, <1>5 DEF IInv, TypeOK
  <2> QED BY <1>2, <1>3, <2>1, <2>2 DEF IInv, TypeOK
<1>10. OneJob' /\ Drained'
  BY <1>1, <1>3, <1>8 DEF IInv, OneJob, Drained, PoolDone, TypeOK
<1>16. Calling'
  BY <1>3 DEF IInv, Calling
<1>11. EndsAreNew'
  BY <1>3, <1>4, <1>6, <1>7 DEF IInv, EndsAreNew
<1>12. StartFirst'
  <2> SUFFICES ASSUME NEW q \in Processors, NEW r \in Spans,
                      NEW i \in 1 .. Len(queue'[q]), NEW k \in 1 .. Len(queue'[q]),
                      queue'[q][i] = <<r, "start">>, queue'[q][k] = <<r, "end">>
               PROVE  i < k
    BY DEF StartFirst
  <2>1. CASE q # p
    BY <1>3, <2>1 DEF IInv, StartFirst
  <2>2. CASE q = p
    <3>1. queue'[p] = Tail(queue[p])
      BY <1>3 DEF IInv, TypeOK
    <3>2. /\ i + 1 \in 1 .. Len(queue[p]) /\ i \in 1 .. Len(queue[p]) - 1
          /\ k + 1 \in 1 .. Len(queue[p]) /\ k \in 1 .. Len(queue[p]) - 1
      BY <1>2, <2>2, <3>1
    <3>3. queue[p][i + 1] = <<r, "start">> /\ queue[p][k + 1] = <<r, "end">>
      BY <1>2, <2>2, <3>1, <3>2
    <3>4. i + 1 < k + 1
      BY <3>2, <3>3 DEF IInv, StartFirst
    <3> QED BY <3>2, <3>4
  <2> QED BY <2>1, <2>2
<1>13. QueuedStart'
  <2> SUFFICES ASSUME NEW q \in Processors, NEW o \in Processors, NEW r \in Spans,
                      InQueue(q, <<r, "start">>)'
               PROVE  ~InHand(o, <<r, "end">>)' /\ <<r, "end">> \notin landed'
    BY DEF QueuedStart
  <2>1. InQueue(q, <<r, "start">>)
    BY <1>6
  <2>2. u # <<r, "end">>
    <3> SUFFICES ASSUME u = <<r, "end">> PROVE FALSE
      OBVIOUS
    <3>1. q = p
      BY <1>8, <2>1 DEF IInv, OneJob, PoolDone, InQueue
    <3>2. PICK i \in 1 .. Len(queue[p]) : queue[p][i] = <<r, "start">>
      BY <2>1, <3>1 DEF InQueue
    <3>3. i < 1
      BY <1>2, <3>2 DEF IInv, StartFirst
    <3> QED BY <3>2, <3>3
  <2> QED BY <1>3, <1>7, <2>1, <2>2 DEF IInv, QueuedStart
<1>14. StartInHand'
  <2> SUFFICES ASSUME NEW q \in Processors, NEW o \in Processors, NEW r \in Spans,
                      InHand(q, <<r, "start">>)', InHand(o, <<r, "end">>)' \/ <<r, "end">> \in landed'
               PROVE  r \in crossed'
    BY DEF StartInHand
  <2>1. CASE u = <<r, "start">>
    <3>1. InQueue(p, <<r, "start">>) /\ <<r, "start">> # <<r, "end">>
      BY <1>4, <2>1
    <3>2. ~InHand(o, <<r, "end">>) /\ <<r, "end">> \notin landed
      BY <3>1 DEF IInv, QueuedStart
    <3> QED BY <1>3, <1>7, <2>1, <3>1, <3>2
  <2>2. CASE u = <<r, "end">>
    <3>1. InHand(q, <<r, "start">>)
      BY <1>7, <2>2
    <3>2. u[1] = r /\ u[2] = "end"
      BY <2>2
    <3> QED BY <1>3, <3>1, <3>2
  <2>3. CASE u # <<r, "start">> /\ u # <<r, "end">>
    BY <1>3, <1>7, <2>3 DEF IInv, StartInHand
  <2> QED BY <2>1, <2>2, <2>3
<1>15. StoredFinal'
  BY <1>3 DEF IInv, StoredFinal
<1> QED BY <1>9, <1>10, <1>11, <1>12, <1>13, <1>14, <1>15, <1>16 DEF IInv

\* An attempt: the service may have stored the upload, and the thread keeps it or not.
LEMMA AttemptInv ==
    ASSUME IInv, NEW p \in Processors, NEW t \in sending[p],
           NEW after \in SUBSET [upload : Uploads, failed : 0 .. MaxRetries - 1],
           \A x \in after : \E y \in sending[p] : y.upload = x.upload,
           sending' = [sending EXCEPT ![p] = after],
           Land(t.upload) \/ UNCHANGED service,
           UNCHANGED <<manager, spans, calls, queue, closed, released, crossed, raised>>
    PROVE  IInv'
<1> USE DEF manager, spans, calls, service
<1> DEFINE u == t.upload
<1>1. InHand(p, u) /\ u \in Uploads
  BY DEF InHand, IInv, TypeOK
<1>2. Land(u) \/ UNCHANGED <<stored, landed>>
  OBVIOUS
<1> HIDE DEF u
<1>3. u[1] \in Spans /\ u[2] \in {"start", "end"} /\ u = <<u[1], u[2]>>
  BY <1>1, UploadParts
<1>4. \A q \in Processors : \A v : InHand(q, v)' => InHand(q, v)
  BY DEF InHand, IInv, TypeOK
<1>5. \A q \in Processors : \A v : InQueue(q, v)' <=> InQueue(q, v)
  BY DEF InQueue
<1>6. landed' \subseteq landed \cup {u}
  BY <1>2 DEF Land
<1>7. TypeOK'
  <2>1. Status(u) \in Outcomes
    BY <1>3 DEF Status, Outcomes, IInv, TypeOK
  <2>2. stored' \in [Spans -> Outcomes \cup {"none"}] /\ landed' \subseteq Uploads
    <3>1. stored \in [Spans -> Outcomes \cup {"none"}] /\ landed \subseteq Uploads
      BY DEF IInv, TypeOK
    <3> QED BY <1>1, <1>2, <2>1, <3>1 DEF Land
  <2>3. sending' \in [Processors -> SUBSET [upload : Uploads, failed : 0 .. MaxRetries - 1]]
    BY DEF IInv, TypeOK
  <2> QED BY <2>2, <2>3 DEF IInv, TypeOK
<1>8. p = job
  BY DEF IInv, OneJob, PoolDone
<1>9. OneJob' /\ Drained'
  BY <1>8 DEF IInv, OneJob, Drained, PoolDone, TypeOK
<1>15. Calling'
  BY DEF IInv, Calling
<1>10. EndsAreNew'
  BY <1>1, <1>4, <1>5, <1>6 DEF IInv, EndsAreNew
<1>11. StartFirst'
  BY DEF IInv, StartFirst
<1>12. QueuedStart'
  BY <1>1, <1>4, <1>5, <1>6 DEF IInv, QueuedStart
<1>13. StartInHand'
  <2> SUFFICES ASSUME NEW q \in Processors, NEW o \in Processors, NEW r \in Spans,
                      InHand(q, <<r, "start">>)', InHand(o, <<r, "end">>)' \/ <<r, "end">> \in landed'
               PROVE  r \in crossed
    BY DEF StartInHand
  <2>1. InHand(q, <<r, "start">>)
    BY <1>4
  <2>2. \E x \in Processors : InHand(x, <<r, "end">>) \/ <<r, "end">> \in landed
    BY <1>1, <1>4, <1>6
  <2> QED BY <2>1, <2>2 DEF IInv, StartInHand
<1>14. StoredFinal'
  <2> SUFFICES ASSUME NEW r \in Spans, <<r, "end">> \in landed', r \notin crossed
               PROVE  stored'[r] = outcome[r]
    BY DEF StoredFinal
  <2>1. CASE UNCHANGED <<stored, landed>>
    BY <2>1 DEF IInv, StoredFinal
  <2>2. CASE Land(u) /\ u[1] # r
    <3>1. <<r, "end">> \in landed /\ stored'[r] = stored[r]
      BY <1>3, <2>2 DEF Land
    <3> QED BY <3>1 DEF IInv, StoredFinal
  <2>3. CASE Land(u) /\ u[1] = r /\ u[2] = "end"
    BY <1>3, <2>3 DEF Land, Status, IInv, TypeOK
  <2>4. CASE Land(u) /\ u[1] = r /\ u[2] = "start"
    <3>1. u = <<r, "start">> /\ <<r, "end">> # u
      BY <1>3, <2>4
    <3>2. <<r, "end">> \in landed
      BY <1>6, <3>1
    <3> QED BY <1>1, <3>1, <3>2 DEF IInv, StartInHand
  <2> QED BY <1>2, <1>3, <2>1, <2>2, <2>3, <2>4
<1> QED BY <1>7, <1>9, <1>10, <1>11, <1>12, <1>13, <1>14, <1>15 DEF IInv

\* What is said of the uploads holds on when no upload moves.
LEMMA SameUploads ==
    ASSUME IInv, UNCHANGED <<spans, queue, sending, service, crossed>>
    PROVE  EndsAreNew' /\ StartFirst' /\ QueuedStart' /\ StartInHand' /\ StoredFinal'
  BY DEF spans, service, IInv, EndsAreNew, StartFirst, QueuedStart, StartInHand, StoredFinal,
         InQueue, InHand

LEMMA NextInv == IInv /\ [Next]_vars => IInv'
<1> SUFFICES ASSUME IInv, [Next]_vars PROVE IInv'
  OBVIOUS
<1>1. ASSUME NEW s \in Spans, OnStart(s) PROVE IInv'
  <2>1. outcome' \in [Spans -> Outcomes] /\ \A r \in Spans : r # s => outcome'[r] = outcome[r]
    BY <1>1 DEF OnStart, IInv, TypeOK
  <2>2. /\ Fetch(s, 0) /\ state' = [state EXCEPT ![s] = "open"] /\ state[s] # "ended"
        /\ UNCHANGED <<manager, pools, service, crossed, raised>>
    BY <1>1 DEF OnStart
  <2> QED BY <2>1, <2>2, StageInv
<1>2. ASSUME NEW s \in Spans, OnEnd(s) PROVE IInv'
  <2>1. outcome' \in [Spans -> Outcomes] /\ \A r \in Spans : r # s => outcome'[r] = outcome[r]
    BY <1>2 DEF OnEnd, IInv, TypeOK
  <2>2. /\ Fetch(s, 0) /\ state' = [state EXCEPT ![s] = "ended"] /\ state[s] # "ended"
        /\ UNCHANGED <<manager, pools, service, crossed, raised>>
    BY <1>2 DEF OnEnd
  <2> QED BY <2>1, <2>2, StageInv
<1>11. ASSUME NEW s \in Spans, Submit(s) PROVE IInv'
  BY <1>11, SubmitInv
<1>12. ASSUME NEW s \in Spans, SubmitRaises(s) PROVE IInv'
  BY <1>12, RaisesInv
<1>3. ASSUME NEW p \in Processors, TakeUp(p) PROVE IInv'
  BY <1>3, TakeUpInv
<1>4. ASSUME NEW p \in Processors, NEW t \in sending[p], Succeed(p, t) PROVE IInv'
  <2> DEFINE after == sending[p] \ {t}
  <2>1. after \in SUBSET [upload : Uploads, failed : 0 .. MaxRetries - 1]
    BY DEF IInv, TypeOK
  <2>2. \A x \in after : \E y \in sending[p] : y.upload = x.upload
    OBVIOUS
  <2>3. /\ sending' = [sending EXCEPT ![p] = after] /\ Land(t.upload)
        /\ UNCHANGED <<manager, spans, calls, queue, closed, released, crossed, raised>>
    BY <1>4 DEF Succeed
  <2> HIDE DEF after
  <2> QED BY <2>1, <2>2, <2>3, AttemptInv
<1>5. ASSUME NEW p \in Processors, NEW t \in sending[p], Fail(p, t) PROVE IInv'
  <2>1. /\ Land(t.upload) \/ UNCHANGED service
        /\ UNCHANGED <<manager, spans, calls, queue, closed, released, crossed, raised>>
    BY <1>5 DEF Fail, Retried
  <2>2. CASE Retried(p, t)
    <3> DEFINE again == [t EXCEPT !.failed = (@ + 1) % MaxRetries]
    <3> DEFINE after == (sending[p] \ {t}) \cup {again}
    <3>1. t \in [upload : Uploads, failed : 0 .. MaxRetries - 1]
      BY DEF IInv, TypeOK
    <3>2. (t.failed + 1) % MaxRetries \in 0 .. MaxRetries - 1
      BY <3>1, TrackingAssumption
    <3>3. again \in [upload : Uploads, failed : 0 .. MaxRetries - 1] /\ again.upload = t.upload
      BY <3>1, <3>2
    <3> HIDE DEF again
    <3>4. after \in SUBSET [upload : Uploads, failed : 0 .. MaxRetries - 1]
      BY <3>3 DEF IInv, TypeOK
    <3>5. \A x \in after : \E y \in sending[p] : y.upload = x.upload
      BY <3>3
    <3>6. sending' = [sending EXCEPT ![p] = after]
      BY <2>2 DEF Retried, again
    <3> HIDE DEF after
    <3> QED BY <2>1, <3>4, <3>5, <3>6, AttemptInv
  <2>3. CASE sending' = [sending EXCEPT ![p] = @ \ {t}]
    <3> DEFINE after == sending[p] \ {t}
    <3>1. after \in SUBSET [upload : Uploads, failed : 0 .. MaxRetries - 1]
      BY DEF IInv, TypeOK
    <3>2. \A x \in after : \E y \in sending[p] : y.upload = x.upload
      OBVIOUS
    <3>3. sending' = [sending EXCEPT ![p] = after]
      BY <2>3
    <3> HIDE DEF after
    <3> QED BY <2>1, <3>1, <3>2, <3>3, AttemptInv
  <2> QED BY <1>5, <2>2, <2>3 DEF Fail
<1>6. CASE CloseExecutor
  <2>1. TypeOK'
    BY <1>6, TrackingAssumption DEF CloseExecutor, spans, calls, pools, service, IInv, TypeOK, OneJob, Processors
  <2>2. OneJob'
    BY <1>6, TrackingAssumption DEF CloseExecutor, pools, IInv, TypeOK, OneJob, PoolDone, Processors
  <2>3. Drained'
    BY <1>6 DEF CloseExecutor, pools, IInv, TypeOK, Drained, PoolDone
  <2>4. UNCHANGED <<spans, queue, sending, service, crossed>>
    BY <1>6 DEF CloseExecutor, pools
  <2>5. Calling'
    BY <1>6, TrackingAssumption DEF CloseExecutor, manager, spans, calls, IInv, TypeOK, OneJob, Calling, Processors
  <2> QED BY <2>1, <2>2, <2>3, <2>4, <2>5, SameUploads DEF IInv
<1>7. CASE ReleaseExporter
  <2>1. TypeOK'
    BY <1>7, TrackingAssumption DEF ReleaseExporter, Joined, spans, calls, pools, service, IInv, TypeOK, OneJob, Processors
  <2>2. OneJob'
    BY <1>7, TrackingAssumption DEF ReleaseExporter, Joined, pools, IInv, TypeOK, OneJob, PoolDone, Processors
  <2>3. Drained'
    BY <1>7 DEF ReleaseExporter, Joined, pools, IInv, TypeOK, Drained, PoolDone
  <2>4. UNCHANGED <<spans, queue, sending, service, crossed>>
    BY <1>7 DEF ReleaseExporter, Joined, pools
  <2>5. Calling'
    BY <1>7, TrackingAssumption DEF ReleaseExporter, manager, spans, calls, IInv, TypeOK, OneJob, Calling, Processors
  <2> QED BY <2>1, <2>2, <2>3, <2>4, <2>5, SameUploads DEF IInv
<1>8. CASE ClearProcessors
  <2>1. TypeOK'
    BY <1>8, TrackingAssumption DEF ClearProcessors, Cleared, spans, calls, pools, service, IInv, TypeOK, OneJob, Processors
  <2>2. OneJob'
    BY <1>8, TrackingAssumption DEF ClearProcessors, Cleared, pools, IInv, TypeOK, OneJob, PoolDone, Processors
  <2>3. Drained'
    BY <1>8 DEF ClearProcessors, Cleared, pools, IInv, TypeOK, Drained, PoolDone
  <2>4. UNCHANGED <<spans, queue, sending, service, crossed>>
    BY <1>8 DEF ClearProcessors, Cleared, pools
  <2>5. Calling'
    BY <1>8, TrackingAssumption DEF ClearProcessors, manager, spans, calls, IInv, TypeOK, OneJob, Calling, Processors
  <2> QED BY <2>1, <2>2, <2>3, <2>4, <2>5, SameUploads DEF IInv
<1>9. CASE NextJob
  <2>1. TypeOK'
    BY <1>9, TrackingAssumption DEF NextJob, spans, calls, pools, service, IInv, TypeOK, OneJob, Processors
  <2>2. OneJob'
    BY <1>9, TrackingAssumption DEF NextJob, pools, IInv, TypeOK, OneJob, PoolDone, Processors
  <2>3. Drained'
    BY <1>9 DEF NextJob, pools, IInv, TypeOK, Drained, PoolDone
  <2>4. UNCHANGED <<spans, queue, sending, service, crossed>>
    BY <1>9 DEF NextJob, pools
  <2>5. Calling'
    BY <1>9, TrackingAssumption DEF NextJob, manager, spans, calls, IInv, TypeOK, OneJob, Calling, Processors
  <2> QED BY <2>1, <2>2, <2>3, <2>4, <2>5, SameUploads DEF IInv
<1>10. CASE UNCHANGED vars
  <2>1. TypeOK' /\ OneJob' /\ Calling' /\ Drained'
    BY <1>10 DEF vars, manager, spans, calls, pools, service, IInv, TypeOK, OneJob, Calling, Drained, PoolDone
  <2>2. UNCHANGED <<spans, queue, sending, service, crossed>>
    BY <1>10 DEF vars, pools
  <2> QED BY <2>1, <2>2, SameUploads DEF IInv
<1> QED
  BY <1>1, <1>2, <1>3, <1>4, <1>5, <1>6, <1>7, <1>8, <1>9, <1>10, <1>11, <1>12 DEF Next, Program, Pool, Shutdown

LEMMA Invariant == Spec => []IInv
  BY InitInv, NextInv, PTL DEF Spec

-------------------------------------------------------------------------------
\* Every part of the state keeps its type (_live_tracking_processor.py).
THEOREM TypeCorrect == Spec => []TypeOK
  BY Invariant, PTL DEF IInv

\* No exporter's client is closed under an upload (_live_tracking_processor.py:86-95).
THEOREM ReleasedPoolsAreDone == Spec => []Drained
  BY Invariant, PTL DEF IInv

\* The service ends up with the status a span ended with, for any pool of any
\* number of threads, unless its two uploads were in hand at once
\* (_live_tracking_processor.py:48-84).
THEOREM FinalStatusKept == Spec => []FinalUnlessCrossed
<1>1. IInv => FinalUnlessCrossed
  BY DEF IInv, StoredFinal, FinalUnlessCrossed
<1> QED BY <1>1, Invariant, PTL

\* What a pool was handed is sent before its release, and in the right order
\* (_live_tracking_processor.py:48-95).
THEOREM UploadsAreSettled == Spec => []UploadsSettle
  BY ReleasedPoolsAreDone, FinalStatusKept, PTL DEF UploadsSettle

\* Tracking raises only in a call of a child that was fetched before the
\* shutdown of its job was over (trace_manager.py:61-75, 173-192).
THEOREM LaterCallsAlwaysPass == Spec => LaterCallsPass
<1>1. IInv /\ [Next]_vars => [\A s \in raised' \ raised : began[s] < fetched[s]]_vars
  <2> SUFFICES ASSUME IInv, Next, NEW r \in raised' \ raised PROVE began[r] < fetched[r]
    OBVIOUS
  <2>1. ASSUME NEW s \in Spans, SubmitRaises(s) PROVE began[r] < fetched[r]
    <3>1. r = s /\ fetched[s] \in closed
      BY <2>1 DEF SubmitRaises
    <3>2. fetched[s] # 0
      BY <3>1 DEF IInv, TypeOK, Processors
    <3> QED BY <3>1, <3>2 DEF IInv, Calling
  <2>2. ASSUME NEW s \in Spans, OnStart(s) \/ OnEnd(s) \/ Submit(s) PROVE FALSE
    BY <2>2 DEF OnStart, OnEnd, Submit
  <2>3. ASSUME NEW p \in Processors, Pool(p) PROVE FALSE
    BY <2>3 DEF Pool, TakeUp, Succeed, Fail
  <2>4. CASE CloseExecutor \/ Shutdown \/ NextJob
    BY <2>4 DEF CloseExecutor, Shutdown, ReleaseExporter, ClearProcessors, NextJob
  <2> QED BY <2>1, <2>2, <2>3, <2>4 DEF Next, Program
<1> QED BY <1>1, Invariant, PTL DEF Spec, LaterCallsPass

===============================================================================
