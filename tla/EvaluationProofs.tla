-------------------------- MODULE EvaluationProofs ----------------------------
(***************************************************************************)
(* Safety of ParallelEval for every number of items and every pool.        *)
(*                                                                         *)
(* The argument: the queue is always a segment of the producer's fixed     *)
(* schedule Slot(1), Slot(2), ..., so the entries taken so far are its     *)
(* prefix of length Taken.  Every item of that prefix is in exactly one    *)
(* place: results_dict, or the hands of the worker that runs it or died    *)
(* of it.  A worker has left on a marker only when the prefix covers every *)
(* item; hence, when all have left, every item is in results_dict.         *)
(***************************************************************************)
EXTENDS ParallelEval, Reporting, FiniteSetTheorems, TLAPS

Taken == put - Len(queue)

Holding == {w \in Workers : pc[w] \in {"run", "raised"}}

QueueIsSegment ==
    /\ Len(queue) <= put
    /\ Len(queue) <= NWorkers
    /\ \A k \in 1 .. Len(queue) : queue[k] = Slot(Taken + k)

TakenIsPlaced ==
    /\ \A w \in Holding : job[w] \in Items
    /\ \A i \in Items :
          i <= Taken <=> \/ i \in DOMAIN results
                         \/ \E w \in Holding : job[w] = i

OnePlace ==
    /\ \A v, w \in Holding : job[v] = job[w] => v = w
    /\ \A w \in Holding : job[w] \notin DOMAIN results

ResultsRight == results = [i \in DOMAIN results |-> ResultOf(i)]

LeftMeansTaken == (\E w \in Workers : pc[w] = "exited") => Taken > NItems

ReturnMeansLeft ==
    caller = "returned" =>
        /\ \A w \in Workers : pc[w] = "exited"
        /\ output = [i \in Items |-> ResultOf(i)]

IInv ==
    /\ TypeOK
    /\ TaskDoneBalance
    /\ QueueIsSegment
    /\ TakenIsPlaced
    /\ OnePlace
    /\ ResultsRight
    /\ LeftMeansTaken
    /\ ReturnMeansLeft

-------------------------------------------------------------------------------
\* Append adds one entry at the end and moves no other.
LEMMA AppendEntry ==
    ASSUME NEW S, NEW s \in Seq(S), NEW e \in S
    PROVE  /\ Append(s, e) \in Seq(S)
           /\ Len(Append(s, e)) = Len(s) + 1
           /\ \A k \in 1 .. Len(s) : Append(s, e)[k] = s[k]
           /\ Append(s, e)[Len(s) + 1] = e
  OBVIOUS

\* Taking the head of a non-empty sequence moves every entry up by one.
LEMMA TailEntry ==
    ASSUME NEW S, NEW s \in Seq(S), s # <<>>
    PROVE  /\ Tail(s) \in Seq(S)
           /\ Len(s) > 0
           /\ Len(Tail(s)) = Len(s) - 1
           /\ Head(s) = s[1]
           /\ \A k \in 1 .. Len(s) - 1 : Tail(s)[k] = s[k + 1]
  OBVIOUS

LEMMA PoolSize == NWorkers \in Nat /\ NWorkers > 0
  <1>1. NWorkers \in Nat
    BY PoolAssumption, FS_CardinalityType DEF NWorkers
  <1>2. NWorkers # 0
    BY PoolAssumption, FS_EmptySet DEF NWorkers
  <1> QED BY <1>1, <1>2

LEMMA RunningFinite ==
    ASSUME NEW S \in SUBSET Workers
    PROVE  IsFiniteSet(S) /\ Cardinality(S) \in Nat
  BY PoolAssumption, FS_Subset, FS_CardinalityType

\* What the head of a segment is, and what remains behind it.
LEMMA SegmentHead ==
    ASSUME TypeOK, QueueIsSegment, queue # <<>>
    PROVE  /\ Len(queue) \in Nat /\ Len(queue) > 0
           /\ Taken \in Nat
           /\ Head(queue) = Slot(Taken + 1)
           /\ Tail(queue) \in Seq(Items \cup {None})
           /\ Len(Tail(queue)) = Len(queue) - 1
           /\ put - Len(Tail(queue)) = Taken + 1
           /\ \A k \in 1 .. Len(Tail(queue)) :
                 Tail(queue)[k] = Slot(Taken + 1 + k)
  <1> DEFINE S == Items \cup {None}
  <1>1. queue \in Seq(S) /\ put \in Nat
    BY PoolAssumption, PoolSize DEF TypeOK
  <1>2. /\ Tail(queue) \in Seq(S)
        /\ Len(queue) > 0
        /\ Len(Tail(queue)) = Len(queue) - 1
        /\ Head(queue) = queue[1]
        /\ \A k \in 1 .. Len(queue) - 1 : Tail(queue)[k] = queue[k + 1]
    BY <1>1, TailEntry
  <1>3. Len(queue) \in Nat
    BY <1>1
  <1>4. Taken \in Nat
    BY <1>1, <1>3 DEF QueueIsSegment, Taken
  <1>5. Head(queue) = Slot(Taken + 1)
    BY <1>2, <1>3 DEF QueueIsSegment
  <1>6. ASSUME NEW k \in 1 .. Len(Tail(queue))
        PROVE  Tail(queue)[k] = Slot(Taken + 1 + k)
    <2>1. k \in 1 .. Len(queue) - 1 /\ k + 1 \in 1 .. Len(queue)
      BY <1>2, <1>3
    <2>2. Tail(queue)[k] = queue[k + 1] /\ queue[k + 1] = Slot(Taken + (k + 1))
      BY <1>2, <2>1 DEF QueueIsSegment
    <2>3. Taken + (k + 1) = Taken + 1 + k
      BY <2>1, <1>4
    <2> QED BY <2>2, <2>3
  <1> QED BY <1>1, <1>2, <1>3, <1>4, <1>5, <1>6 DEF Taken

-------------------------------------------------------------------------------
LEMMA InitIInv == Init => IInv
  <1> SUFFICES ASSUME Init PROVE IInv
    OBVIOUS
  <1> USE PoolAssumption, PoolSize DEF Init
  <1>1. Running = {} /\ Holding = {}
    BY DEF Running, Holding
  <1>2. Len(queue) = 0 /\ Taken = 0 /\ DOMAIN results = {}
    <2>1. queue = <<>> /\ put = 0 /\ results = [i \in {} |-> ResultOf(i)]
      OBVIOUS
    <2>2. Len(queue) = 0
      BY ONLY <2>1
    <2>3. DOMAIN results = {}
      BY ONLY <2>1
    <2>4. Taken = 0
      <3>1. put = 0
        OBVIOUS
      <3>2. 0 - 0 = 0
        OBVIOUS
      <3> QED BY ONLY <2>2, <3>1, <3>2 DEF Taken
    <2> QED BY ONLY <2>2, <2>3, <2>4
  <1>3. TypeOK
    BY DEF TypeOK
  <1>4. TaskDoneBalance
    BY <1>1, <1>2, FS_EmptySet DEF TaskDoneBalance
  <1>5. QueueIsSegment /\ TakenIsPlaced /\ OnePlace
    BY <1>1, <1>2 DEF QueueIsSegment, TakenIsPlaced, OnePlace, Items
  <1>6. ResultsRight
    BY DEF ResultsRight
  <1>7. LeftMeansTaken /\ ReturnMeansLeft
    BY DEF LeftMeansTaken, ReturnMeansLeft
  <1> QED BY <1>3, <1>4, <1>5, <1>6, <1>7 DEF IInv

LEMMA PutIInv == IInv /\ Put => IInv'
  <1> SUFFICES ASSUME IInv, Put PROVE IInv'
    OBVIOUS
  <1> DEFINE S == Items \cup {None}
  <1> DEFINE e == Slot(put + 1)
  <1>1. put \in Nat /\ Len(queue) \in Nat /\ queue \in Seq(S)
    BY PoolAssumption, PoolSize DEF IInv, TypeOK
  <1>2. e \in S
    BY <1>1, PoolAssumption DEF Slot, Items
  <1>3. queue' = Append(queue, e) /\ put' = put + 1 /\ put < NItems + NWorkers
        /\ Len(queue) < NWorkers
    BY <1>1, PoolAssumption, PoolSize DEF Put, ProducerDone, QueueFull, IInv, TypeOK
  <1>4. /\ queue' \in Seq(S)
        /\ Len(queue') = Len(queue) + 1
        /\ \A k \in 1 .. Len(queue) : queue'[k] = queue[k]
        /\ queue'[Len(queue) + 1] = e
    <2> HIDE DEF e, S
    <2> QED BY <1>1, <1>2, <1>3, AppendEntry
  <1>5. Taken' = Taken /\ Taken \in Nat
    BY <1>1, <1>3, <1>4 DEF Taken, IInv, QueueIsSegment
  <1>6. UNCHANGED <<pc, job, results, caller, output>> /\ unfinished' = unfinished + 1
    BY DEF Put
  <1>7. Running' = Running /\ Holding' = Holding
    BY <1>6 DEF Running, Holding
  <1>8. TypeOK'
    BY <1>1, <1>3, <1>4, <1>6, PoolAssumption, PoolSize DEF IInv, TypeOK
  <1>9. TaskDoneBalance'
    <2>1. Cardinality(Running) \in Nat
      BY RunningFinite DEF Running
    <2> QED BY <1>1, <1>4, <1>6, <1>7, <2>1 DEF IInv, TaskDoneBalance
  <1>10. QueueIsSegment'
    <2>1. Len(queue') <= put' /\ Len(queue') <= NWorkers
      BY <1>1, <1>3, <1>4, PoolSize DEF IInv, QueueIsSegment
    <2>2. ASSUME NEW k \in 1 .. Len(queue')
          PROVE  queue'[k] = Slot(Taken' + k)
      <3>1. CASE k <= Len(queue)
        BY <3>1, <1>1, <1>4, <1>5 DEF IInv, QueueIsSegment
      <3>2. CASE k = Len(queue) + 1
        <4>1. Taken' + k = put + 1
          BY <3>2, <1>1, <1>5 DEF Taken
        <4> QED BY <3>2, <4>1, <1>4
      <3> QED BY <3>1, <3>2, <1>1, <1>4
    <2> QED BY <2>1, <2>2 DEF QueueIsSegment, NWorkers
  <1>11. TakenIsPlaced' /\ OnePlace' /\ ResultsRight'
    BY <1>5, <1>6, <1>7 DEF IInv, TakenIsPlaced, OnePlace, ResultsRight
  <1>12. LeftMeansTaken' /\ ReturnMeansLeft'
    BY <1>5, <1>6 DEF IInv, LeftMeansTaken, ReturnMeansLeft
  <1> QED BY <1>8, <1>9, <1>10, <1>11, <1>12 DEF IInv

\* A worker taking the head of the queue, item or marker: what both share.
LEMMA TakeHead ==
    ASSUME IInv, queue # <<>>, queue' = Tail(queue), put' = put
    PROVE  /\ Taken \in Nat
           /\ Taken' = Taken + 1
           /\ Head(queue) = Slot(Taken + 1)
           /\ Len(queue) \in Nat /\ Len(queue) > 0
           /\ Len(queue') = Len(queue) - 1
           /\ queue' \in Seq(Items \cup {None})
           /\ QueueIsSegment'
  <1>1. TypeOK /\ QueueIsSegment
    BY DEF IInv
  <1>2. put \in Nat
    BY <1>1, PoolAssumption, PoolSize DEF TypeOK
  <1>3. /\ Len(queue) \in Nat /\ Len(queue) > 0
        /\ Taken \in Nat
        /\ Head(queue) = Slot(Taken + 1)
        /\ queue' \in Seq(Items \cup {None})
        /\ Len(queue') = Len(queue) - 1
        /\ Taken' = Taken + 1
        /\ \A k \in 1 .. Len(queue') : queue'[k] = Slot(Taken + 1 + k)
    BY <1>1, SegmentHead DEF Taken
  <1>4. Len(queue') <= put' /\ Len(queue') <= NWorkers
    BY <1>1, <1>2, <1>3, PoolSize DEF QueueIsSegment
  <1>5. QueueIsSegment'
    BY <1>3, <1>4 DEF QueueIsSegment, NWorkers
  <1> QED BY <1>3, <1>5

LEMMA TakeItemIInv == ASSUME NEW w \in Workers PROVE IInv /\ TakeItem(w) => IInv'
  <1> SUFFICES ASSUME IInv, TakeItem(w) PROVE IInv'
    OBVIOUS
  <1> DEFINE i == Head(queue)
  <1>1. /\ pc[w] = "get" /\ queue # <<>> /\ i # None
        /\ queue' = Tail(queue) /\ put' = put
        /\ pc' = [pc EXCEPT ![w] = "run"]
        /\ job' = [job EXCEPT ![w] = i]
        /\ UNCHANGED <<results, unfinished, caller, output>>
    BY DEF TakeItem, AfterGet
  <1>2. /\ Taken \in Nat /\ Taken' = Taken + 1
        /\ i = Slot(Taken + 1)
        /\ Len(queue) \in Nat /\ Len(queue) > 0
        /\ Len(queue') = Len(queue) - 1
        /\ queue' \in Seq(Items \cup {None})
        /\ QueueIsSegment'
    BY <1>1, TakeHead
  <1>3. i = Taken + 1 /\ i \in Items
    BY <1>1, <1>2, PoolAssumption DEF Slot, Items
  <1> HIDE DEF i
  <1>4. /\ pc \in [Workers -> {"get", "run", "exited", "raised"}]
        /\ job \in [Workers -> Items \cup {None}]
    BY DEF IInv, TypeOK
  <1>5. /\ w \notin Holding /\ w \notin Running
        /\ Holding' = Holding \cup {w} /\ Running' = Running \cup {w}
        /\ job'[w] = i /\ \A v \in Workers \ {w} : job'[v] = job[v]
    BY <1>1, <1>4 DEF Holding, Running
  <1>6. TypeOK'
    BY <1>1, <1>2, <1>3, <1>4 DEF IInv, TypeOK
  <1>7. TaskDoneBalance'
    <2>1. IsFiniteSet(Running) /\ Cardinality(Running) \in Nat
      BY RunningFinite DEF Running
    <2>2. Cardinality(Running') = Cardinality(Running) + 1
      BY <1>5, <2>1, FS_AddElement
    <2> QED BY <1>1, <1>2, <2>1, <2>2 DEF IInv, TaskDoneBalance
  <1>8. i \notin DOMAIN results /\ \A v \in Holding : job[v] # i
    BY <1>2, <1>3 DEF IInv, TakenIsPlaced, Items
  <1>9. TakenIsPlaced'
    <2>1. \A v \in Holding' : job'[v] \in Items
      BY <1>3, <1>5 DEF IInv, TakenIsPlaced, Holding
    <2>2. ASSUME NEW k \in Items
          PROVE  k <= Taken' <=> \/ k \in DOMAIN results'
                                 \/ \E v \in Holding' : job'[v] = k
      <3>1. k <= Taken' <=> (k <= Taken \/ k = i)
        BY <1>2, <1>3 DEF Items
      <3>2. k <= Taken <=> \/ k \in DOMAIN results
                           \/ \E v \in Holding : job[v] = k
        BY DEF IInv, TakenIsPlaced
      <3>3. (\E v \in Holding' : job'[v] = k)
               <=> (k = i \/ \E v \in Holding : job[v] = k)
        BY <1>5 DEF Holding
      <3> QED BY <3>1, <3>2, <3>3, <1>1
    <2> QED BY <2>1, <2>2 DEF TakenIsPlaced
  <1>10. OnePlace'
    BY <1>1, <1>5, <1>8 DEF IInv, OnePlace, Holding
  <1>11. ResultsRight'
    BY <1>1 DEF IInv, ResultsRight
  <1>12. LeftMeansTaken'
    BY <1>1, <1>2, <1>4, PoolAssumption DEF IInv, LeftMeansTaken
  <1>13. ReturnMeansLeft'
    BY <1>1 DEF IInv, ReturnMeansLeft
  <1> QED BY <1>2, <1>6, <1>7, <1>9, <1>10, <1>11, <1>12, <1>13 DEF IInv

LEMMA TakeMarkerIInv == ASSUME NEW w \in Workers PROVE IInv /\ TakeMarker(w) => IInv'
  <1> SUFFICES ASSUME IInv, TakeMarker(w) PROVE IInv'
    OBVIOUS
  <1>1. /\ pc[w] = "get" /\ queue # <<>> /\ Head(queue) = None
        /\ queue' = Tail(queue) /\ put' = put
        /\ pc' = [pc EXCEPT ![w] = "exited"]
        /\ unfinished' = unfinished - 1
        /\ UNCHANGED <<job, results, caller, output>>
    BY DEF TakeMarker, AfterGet, TaskDone
  <1>2. /\ Taken \in Nat /\ Taken' = Taken + 1
        /\ Head(queue) = Slot(Taken + 1)
        /\ Len(queue) \in Nat /\ Len(queue) > 0
        /\ Len(queue') = Len(queue) - 1
        /\ queue' \in Seq(Items \cup {None})
        /\ QueueIsSegment'
    BY <1>1, TakeHead
  <1>3. Taken + 1 > NItems
    BY <1>1, <1>2, PoolAssumption DEF Slot, Items
  <1>4. pc \in [Workers -> {"get", "run", "exited", "raised"}]
    BY DEF IInv, TypeOK
  <1>5. Holding' = Holding /\ Running' = Running
    BY <1>1, <1>4 DEF Holding, Running
  <1>6. Cardinality(Running) \in Nat
    BY RunningFinite DEF Running
  <1>7. TypeOK' /\ TaskDoneBalance'
    <2>1. unfinished = Len(queue) + Cardinality(Running)
      BY DEF IInv, TaskDoneBalance
    <2>2. unfinished' \in Nat /\ unfinished' = Len(queue') + Cardinality(Running)
      BY <1>1, <1>2, <1>6, <2>1
    <2> QED BY <1>1, <1>2, <1>4, <1>5, <2>2 DEF IInv, TypeOK, TaskDoneBalance
  <1>8. TakenIsPlaced'
    <2>1. \A i \in Items : i <= Taken <=> i <= Taken'
      BY <1>2, <1>3, PoolAssumption DEF Items
    <2> QED BY <1>1, <1>5, <2>1 DEF IInv, TakenIsPlaced
  <1>9. OnePlace' /\ ResultsRight'
    BY <1>1, <1>5 DEF IInv, OnePlace, ResultsRight
  <1>10. LeftMeansTaken'
    BY <1>2, <1>3 DEF LeftMeansTaken
  <1>11. ReturnMeansLeft'
    BY <1>1, <1>4 DEF IInv, ReturnMeansLeft
  <1> QED BY <1>2, <1>7, <1>8, <1>9, <1>10, <1>11 DEF IInv

LEMMA FinishIInv == ASSUME NEW w \in Workers PROVE IInv /\ Finish(w) => IInv'
  <1> SUFFICES ASSUME IInv, Finish(w) PROVE IInv'
    OBVIOUS
  <1>1. /\ pc[w] = "run"
        /\ results' = Stored(job[w])
        /\ unfinished' = unfinished - 1
        /\ pc' = [pc EXCEPT ![w] = "get"]
        /\ UNCHANGED <<queue, put, job, caller, output>>
    BY DEF Finish, TaskDone
  <1>2. /\ pc \in [Workers -> {"get", "run", "exited", "raised"}]
        /\ job \in [Workers -> Items \cup {None}]
        /\ put \in Nat /\ Len(queue) \in Nat
    BY PoolAssumption, PoolSize DEF IInv, TypeOK
  <1>3. /\ w \in Holding /\ w \in Running
        /\ Holding' = Holding \ {w} /\ Running' = Running \ {w}
    BY <1>1, <1>2 DEF Holding, Running
  <1>4. job[w] \in Items
    BY <1>3 DEF IInv, TakenIsPlaced
  <1>5. /\ DOMAIN results' = DOMAIN results \cup {job[w]}
        /\ ResultsRight'
    BY <1>1 DEF IInv, ResultsRight, Stored
  <1>6. Taken' = Taken
    BY <1>1 DEF Taken
  <1>7. TypeOK' /\ TaskDoneBalance'
    <2>1. IsFiniteSet(Running) /\ Cardinality(Running) \in Nat
      BY RunningFinite DEF Running
    <2>2. Running' \in SUBSET Workers
      BY <1>3 DEF Running
    <2>3. Cardinality(Running') \in Nat
      BY <2>2, RunningFinite
    <2>4. Cardinality(Running') = Cardinality(Running) - 1
      BY <1>3, <2>1, FS_RemoveElement
    <2>5. unfinished = Len(queue) + Cardinality(Running)
      BY DEF IInv, TaskDoneBalance
    <2>6. unfinished' \in Nat /\ unfinished' = Len(queue') + Cardinality(Running')
      BY <1>1, <1>2, <2>1, <2>3, <2>4, <2>5
    <2>7. DOMAIN results' \subseteq Items
      BY <1>4, <1>5 DEF IInv, TypeOK
    <2> QED BY <1>1, <1>2, <2>6, <2>7 DEF IInv, TypeOK, TaskDoneBalance
  <1>8. QueueIsSegment'
    BY <1>1, <1>6 DEF IInv, QueueIsSegment
  <1>9. TakenIsPlaced'
    <2>1. \A v \in Holding' : job'[v] \in Items
      BY <1>1, <1>3 DEF IInv, TakenIsPlaced
    <2>2. ASSUME NEW i \in Items
          PROVE  i <= Taken' <=> \/ i \in DOMAIN results'
                                 \/ \E v \in Holding' : job'[v] = i
      <3>1. i <= Taken <=> \/ i \in DOMAIN results
                           \/ \E v \in Holding : job[v] = i
        BY DEF IInv, TakenIsPlaced
      <3> QED BY <3>1, <1>1, <1>3, <1>5, <1>6
    <2> QED BY <2>1, <2>2 DEF TakenIsPlaced
  <1>10. OnePlace'
    BY <1>1, <1>3, <1>5 DEF IInv, OnePlace
  <1>11. LeftMeansTaken' /\ ReturnMeansLeft'
    BY <1>1, <1>2, <1>6 DEF IInv, LeftMeansTaken, ReturnMeansLeft
  <1> QED BY <1>5, <1>7, <1>8, <1>9, <1>10, <1>11 DEF IInv

LEMMA RaiseIInv == ASSUME NEW w \in Workers PROVE IInv /\ Raise(w) => IInv'
  <1> SUFFICES ASSUME IInv, Raise(w) PROVE IInv'
    OBVIOUS
  <1>1. /\ pc[w] = "run"
        /\ unfinished' = unfinished - 1
        /\ pc' = [pc EXCEPT ![w] = "raised"]
        /\ UNCHANGED <<queue, put, job, results, caller, output>>
    BY DEF Raise, TaskDone
  <1>2. /\ pc \in [Workers -> {"get", "run", "exited", "raised"}]
        /\ Len(queue) \in Nat
    BY PoolAssumption, PoolSize DEF IInv, TypeOK
  <1>3. /\ w \in Running
        /\ Holding' = Holding /\ Running' = Running \ {w}
        /\ Taken' = Taken
    BY <1>1, <1>2 DEF Holding, Running, Taken
  <1>4. TypeOK' /\ TaskDoneBalance'
    <2>1. IsFiniteSet(Running) /\ Cardinality(Running) \in Nat
      BY RunningFinite DEF Running
    <2>2. Running' \in SUBSET Workers
      BY <1>3 DEF Running
    <2>3. Cardinality(Running') \in Nat
      BY <2>2, RunningFinite
    <2>4. Cardinality(Running') = Cardinality(Running) - 1
      BY <1>3, <2>1, FS_RemoveElement
    <2>5. unfinished = Len(queue) + Cardinality(Running)
      BY DEF IInv, TaskDoneBalance
    <2>6. unfinished' \in Nat /\ unfinished' = Len(queue') + Cardinality(Running')
      BY <1>1, <1>2, <2>1, <2>3, <2>4, <2>5
    <2> QED BY <1>1, <1>2, <2>6 DEF IInv, TypeOK, TaskDoneBalance
  <1>5. QueueIsSegment' /\ TakenIsPlaced' /\ OnePlace' /\ ResultsRight'
    BY <1>1, <1>3 DEF IInv, QueueIsSegment, TakenIsPlaced, OnePlace, ResultsRight
  <1>6. LeftMeansTaken' /\ ReturnMeansLeft'
    BY <1>1, <1>2, <1>3 DEF IInv, LeftMeansTaken, ReturnMeansLeft
  <1> QED BY <1>4, <1>5, <1>6 DEF IInv

\* When every worker has left on a marker, every item has its result.
LEMMA AllLeftAllStored ==
    ASSUME IInv, \A w \in Workers : pc[w] = "exited"
    PROVE  DOMAIN results = Items
  <1>1. PICK w \in Workers : pc[w] = "exited"
    BY PoolAssumption
  <1>2. Taken > NItems
    BY <1>1 DEF IInv, LeftMeansTaken
  <1>3. Holding = {}
    BY DEF Holding
  <1>4. put \in Nat /\ Len(queue) \in Nat /\ Taken \in Int
    BY PoolAssumption, PoolSize DEF IInv, TypeOK, Taken
  <1>5. ASSUME NEW i \in Items PROVE i \in DOMAIN results
    <2>1. i <= Taken
      BY <1>2, <1>4, PoolAssumption DEF Items
    <2> QED BY <2>1, <1>3 DEF IInv, TakenIsPlaced
  <1> QED BY <1>5 DEF IInv, TypeOK

LEMMA CallerIInv == IInv /\ CallerStep => IInv'
  <1> SUFFICES ASSUME IInv, CallerStep PROVE IInv'
    OBVIOUS
  <1>1. UNCHANGED <<queue, put, pc, job, results, unfinished>>
    BY DEF CallerStep, AwaitProducer, GatherReturn, GatherRaise
  <1>2. Taken' = Taken /\ Running' = Running /\ Holding' = Holding
    BY <1>1 DEF Taken, Running, Holding
  <1>3. TypeOK' /\ TaskDoneBalance'
    BY <1>1, <1>2 DEF IInv, TypeOK, TaskDoneBalance, CallerStep,
                      AwaitProducer, GatherReturn, GatherRaise
  <1>4. QueueIsSegment' /\ TakenIsPlaced' /\ OnePlace' /\ ResultsRight'
    BY <1>1, <1>2 DEF IInv, QueueIsSegment, TakenIsPlaced, OnePlace, ResultsRight
  <1>5. LeftMeansTaken'
    BY <1>1, <1>2 DEF IInv, LeftMeansTaken
  <1>6. ReturnMeansLeft'
    <2>1. CASE GatherReturn
      <3>1. \A w \in Workers : pc[w] = "exited"
        BY <2>1 DEF GatherReturn, PoolEnded
      <3>2. DOMAIN results = Items
        BY <3>1, AllLeftAllStored
      <3>3. Cardinality(Items) = NItems
        BY PoolAssumption, FS_Interval DEF Items
      <3>4. output' = [i \in Items |-> results[i]]
        BY <2>1, <3>2, <3>3 DEF GatherReturn, ResultList, Items
      <3>5. output' = [i \in Items |-> ResultOf(i)]
        BY <3>2, <3>4 DEF IInv, ResultsRight
      <3> QED BY <1>1, <3>1, <3>5 DEF ReturnMeansLeft
    <2>2. CASE AwaitProducer \/ GatherRaise
      BY <2>2 DEF AwaitProducer, GatherRaise, ReturnMeansLeft
    <2> QED BY <2>1, <2>2 DEF CallerStep
  <1> QED BY <1>3, <1>4, <1>5, <1>6 DEF IInv

LEMMA NextIInv == IInv /\ [Next]_vars => IInv'
  <1> SUFFICES ASSUME IInv, [Next]_vars PROVE IInv'
    OBVIOUS
  <1>1. CASE Put
    BY <1>1, PutIInv
  <1>2. ASSUME NEW w \in Workers, WorkerStep(w) PROVE IInv'
    BY <1>2, TakeItemIInv, TakeMarkerIInv, FinishIInv, RaiseIInv DEF WorkerStep
  <1>3. CASE CallerStep
    BY <1>3, CallerIInv
  <1>4. CASE UNCHANGED vars
    <2>1. Taken' = Taken /\ Running' = Running /\ Holding' = Holding
      BY <1>4 DEF vars, Taken, Running, Holding
    <2> QED BY <1>4, <2>1 DEF vars, IInv, TypeOK, TaskDoneBalance, QueueIsSegment,
               TakenIsPlaced, OnePlace, ResultsRight, LeftMeansTaken, ReturnMeansLeft
  <1> QED BY <1>1, <1>2, <1>3, <1>4 DEF Next

THEOREM Invariance == Spec => []IInv
  <1> QED BY InitIInv, NextIInv, PTL DEF Spec

-------------------------------------------------------------------------------
\* The variables keep their types (_parallelization.py 7-60).
THEOREM TypeCorrect == Spec => []TypeOK
  <1>1. IInv => TypeOK
    BY DEF IInv
  <1> QED BY <1>1, Invariance, PTL

\* execute_parallel's list has every item's result at the item's own place,
\* for any number of items and workers and any order of completion.
THEOREM OutputIsComplete == Spec => []OutputComplete
  <1>1. IInv => OutputComplete
    BY DEF IInv, ReturnMeansLeft, OutputComplete
  <1> QED BY <1>1, Invariance, PTL

\* task_done balances the entries taken, so the count cannot go negative.
THEOREM TaskDoneBalanced == Spec => []TaskDoneBalance
  <1>1. IInv => TaskDoneBalance
    BY DEF IInv
  <1> QED BY <1>1, Invariance, PTL

\* No evaluation is awaited twice.
THEOREM ItemsOnce == Spec => []EachItemOnce
  <1>1. ASSUME IInv PROVE EachItemOnce
    <2>1. Running \cup Raised = Holding
      BY DEF Running, Raised, Holding
    <2>2. ASSUME NEW k \in DOMAIN queue, queue[k] \in Items
          PROVE  /\ queue[k] \notin DOMAIN results
                 /\ \A w \in Holding : job[w] # queue[k]
      <3>1. queue \in Seq(Items \cup {None}) /\ put \in Nat
        BY <1>1, PoolAssumption, PoolSize DEF IInv, TypeOK
      <3>2. Len(queue) \in Nat /\ k \in 1 .. Len(queue) /\ Taken \in Nat
        BY <1>1, <3>1 DEF IInv, QueueIsSegment, Taken
      <3>3. queue[k] = Slot(Taken + k)
        BY <1>1, <3>2 DEF IInv, QueueIsSegment
      <3>4. queue[k] = Taken + k
        BY <3>2, <3>3, <2>2, PoolAssumption DEF Slot, Items
      <3>5. ~(queue[k] <= Taken)
        BY <3>2, <3>4
      <3> QED BY <1>1, <2>2, <3>5 DEF IInv, TakenIsPlaced
    <2> QED BY <1>1, <2>1, <2>2 DEF IInv, OnePlace, EachItemOnce
  <1> QED BY <1>1, Invariance, PTL

\* Each evaluation once, its result at its place.
THEOREM ResultsAreComplete == Spec => []ResultsComplete
  <1>1. EachItemOnce /\ OutputComplete => ResultsComplete
    BY DEF ResultsComplete
  <1> QED BY <1>1, ItemsOnce, OutputIsComplete, PTL

\* Markers only reach a worker behind every item, and the queue is bounded.
THEOREM MarkersAreLast == Spec => []MarkersLast
  <1>1. ASSUME IInv PROVE MarkersLast
    <2>1. queue \in Seq(Items \cup {None}) /\ put \in Nat
      BY <1>1, PoolAssumption, PoolSize DEF IInv, TypeOK
    <2>2. Len(queue) \in Nat /\ Len(queue) <= NWorkers /\ Taken \in Nat
          /\ put = Taken + Len(queue)
      BY <1>1, <2>1 DEF IInv, QueueIsSegment, Taken
    <2>3. ASSUME NEW w \in Workers, pc[w] = "exited"
          PROVE  put > NItems /\ \A k \in DOMAIN queue : queue[k] = None
      <3>1. Taken > NItems
        BY <1>1, <2>3 DEF IInv, LeftMeansTaken
      <3>2. ASSUME NEW k \in 1 .. Len(queue) PROVE queue[k] = None
        <4>1. queue[k] = Slot(Taken + k)
          BY <1>1 DEF IInv, QueueIsSegment
        <4>2. ~(Taken + k <= NItems)
          BY <2>2, <3>1, PoolAssumption
        <4> QED BY <4>1, <4>2 DEF Slot
      <3>3. DOMAIN queue = 1 .. Len(queue)
        BY <2>1
      <3> QED BY <2>2, <3>1, <3>2, <3>3, PoolAssumption
    <2> QED BY <2>2, <2>3 DEF MarkersLast
  <1> QED BY <1>1, Invariance, PTL

\* Once an evaluation raised, the call never returns a list.
THEOREM FailureIsNotLost == Spec => NoLostFailure
  <1>1. ASSUME IInv, IInv', [Next]_vars
        PROVE  [Raised # {} => caller' # "returned"]_vars
    <2>1. SUFFICES ASSUME Next, Raised # {} PROVE caller' # "returned"
      BY <1>1
    <2>2. PICK w \in Workers : pc[w] = "raised"
      BY <2>1 DEF Raised
    <2>3. pc \in [Workers -> {"get", "run", "exited", "raised"}]
      BY <1>1 DEF IInv, TypeOK
    <2>4. pc'[w] = "raised"
      BY <2>1, <2>2, <2>3 DEF Next, Put, WorkerStep, TakeItem, TakeMarker, Finish,
                Raise, CallerStep, AwaitProducer, GatherReturn, GatherRaise
    <2>5. caller' = "returned" => pc'[w] = "exited"
      BY <1>1 DEF IInv, ReturnMeansLeft
    <2> QED BY <2>4, <2>5
  <1> QED BY <1>1, Invariance, PTL DEF Spec, NoLostFailure

-------------------------------------------------------------------------------
(***************************************************************************)
(* The refinement.  The mapped todo set is the items behind the taken      *)
(* prefix, so a put does not change it and taking an item removes just     *)
(* that item.                                                              *)
(***************************************************************************)
Todo == {i \in Items : i > put \/ \E k \in DOMAIN queue : queue[k] = i}
InProgress == {job[w] : w \in Running}
Failed == {job[w] : w \in Raised}
Outcome == IF Settled THEN caller ELSE "pending"

LEMMA TodoIsBehindTaken == IInv => Todo = {i \in Items : i > Taken}
  <1> SUFFICES ASSUME IInv PROVE Todo = {i \in Items : i > Taken}
    OBVIOUS
  <1>1. put \in Nat /\ queue \in Seq(Items \cup {None})
    BY PoolAssumption, PoolSize DEF IInv, TypeOK
  <1>2. Len(queue) \in Nat /\ DOMAIN queue = 1 .. Len(queue)
        /\ Taken \in Nat /\ put = Taken + Len(queue)
    BY <1>1 DEF IInv, QueueIsSegment, Taken
  <1>3. ASSUME NEW i \in Items, i > Taken
        PROVE  i \in Todo
    <2>1. CASE i > put
      BY <2>1 DEF Todo
    <2>2. CASE i <= put
      <3> DEFINE k == i - Taken
      <3>1. k \in 1 .. Len(queue) /\ Taken + k = i
        BY <1>2, <1>3, <2>2 DEF Items
      <3>2. queue[k] = Slot(i)
        BY <3>1 DEF IInv, QueueIsSegment
      <3>3. Slot(i) = i
        BY PoolAssumption DEF Slot, Items
      <3> QED BY <1>2, <3>1, <3>2, <3>3 DEF Todo
    <2> QED BY <2>1, <2>2, <1>1, PoolAssumption DEF Items
  <1>4. ASSUME NEW i \in Items, i \in Todo
        PROVE  i > Taken
    <2>1. CASE i > put
      BY <2>1, <1>2 DEF Items
    <2>2. ASSUME NEW k \in DOMAIN queue, queue[k] = i
          PROVE  i > Taken
      <3>1. k \in 1 .. Len(queue) /\ i = Slot(Taken + k)
        BY <1>2, <2>2 DEF IInv, QueueIsSegment
      <3>2. i = Taken + k
        BY <3>1, PoolAssumption DEF Slot, Items
      <3> QED BY <1>2, <3>1, <3>2
    <2> QED BY <1>4, <2>1, <2>2 DEF Todo
  <1> QED BY <1>3, <1>4 DEF Todo

LEMMA TodoIsBehindTakenNext == IInv' => Todo' = {i \in Items : i > Taken'}
  <1>1. (IInv => Todo = {i \in Items : i > Taken})'
    BY TodoIsBehindTaken, PTL
  <1> QED BY <1>1 DEF Items

\* A worker that is about to start one leaves room below the bound.
LEMMA RoomToStart ==
    ASSUME NEW w \in Workers, pc[w] = "get"
    PROVE  Cardinality(InProgress) < NWorkers
  <1>1. Running \subseteq Workers \ {w} /\ IsFiniteSet(Running)
    BY RunningFinite DEF Running
  <1>2. IsFiniteSet(Workers \ {w}) /\ Cardinality(Workers \ {w}) = NWorkers - 1
    BY PoolAssumption, FS_RemoveElement DEF NWorkers
  <1>3. Cardinality(Running) <= NWorkers - 1
    BY <1>1, <1>2, FS_Subset
  <1>4. IsFiniteSet(InProgress) /\ Cardinality(InProgress) <= Cardinality(Running)
    <2> DEFINE f == [v \in Running |-> job[v]]
    <2>1. f \in Surjection(Running, InProgress)
      BY DEF Surjection, InProgress
    <2> QED BY <1>1, <2>1, FS_Surjection
  <1>5. Cardinality(InProgress) \in Nat /\ Cardinality(Running) \in Nat
    BY <1>1, <1>4, FS_CardinalityType
  <1> QED BY <1>3, <1>4, <1>5, PoolSize

LEMMA InitRefines == Init => Abs!Init
  <1> SUFFICES ASSUME Init PROVE Abs!Init
    OBVIOUS
  <1>1. IInv
    BY InitIInv
  <1>2. Todo = {i \in Items : i > Taken}
    BY <1>1, TodoIsBehindTaken
  <1>3. put \in Nat /\ Len(queue) \in Nat /\ put = 0
    BY <1>1, PoolAssumption, PoolSize DEF IInv, TypeOK, Init
  <1>4. Taken <= 0 /\ Taken \in Int
    BY <1>3 DEF Taken
  <1>5. Todo = Items
    BY <1>2, <1>4, PoolAssumption DEF Items
  <1>6. Running = {} /\ Raised = {}
    BY DEF Init, Running, Raised
  <1>7. DOMAIN results = {} /\ Outcome = "pending"
    BY DEF Init, Outcome, Settled
  <1> QED BY <1>5, <1>6, <1>7 DEF Abs!Init, Todo, InProgress, Failed, Outcome

LEMMA PutStutters == IInv /\ IInv' /\ Put => UNCHANGED Abs!vars
  <1> SUFFICES ASSUME IInv, IInv', Put PROVE UNCHANGED Abs!vars
    OBVIOUS
  <1>1. Taken' = Taken
    <2>1. queue \in Seq(Items \cup {None}) /\ put \in Nat
      BY PoolAssumption, PoolSize DEF IInv, TypeOK
    <2>2. queue' = Append(queue, Slot(put + 1)) /\ put' = put + 1
      BY DEF Put
    <2>3. Slot(put + 1) \in Items \cup {None}
      BY <2>1, PoolAssumption DEF Slot, Items
    <2>4. Len(queue') = Len(queue) + 1 /\ Len(queue) \in Nat
      BY <2>1, <2>2, <2>3, AppendEntry
    <2> QED BY <2>1, <2>2, <2>4 DEF Taken
  <1>2. Todo' = Todo
    BY <1>1, TodoIsBehindTaken, TodoIsBehindTakenNext
  <1>3. UNCHANGED <<pc, job, results, caller>>
    BY DEF Put
  <1> QED BY <1>2, <1>3 DEF Abs!vars, Todo, InProgress, Failed, Outcome, Running, Raised, Settled

LEMMA WorkerRefines ==
    ASSUME NEW w \in Workers, IInv, IInv', WorkerStep(w)
    PROVE  [Abs!Next]_(Abs!vars)
  <1> USE DEF InProgress, Failed, Outcome, Running, Raised, Settled
  <1>0. /\ pc \in [Workers -> {"get", "run", "exited", "raised"}]
        /\ job \in [Workers -> Items \cup {None}]
    BY DEF IInv, TypeOK
  <1>1. CASE TakeItem(w)
    <2> DEFINE i == Head(queue)
    <2>1. /\ pc[w] = "get" /\ queue # <<>> /\ i # None
          /\ queue' = Tail(queue) /\ put' = put
          /\ pc' = [pc EXCEPT ![w] = "run"]
          /\ job' = [job EXCEPT ![w] = i]
          /\ UNCHANGED <<results, caller>>
      BY <1>1 DEF TakeItem, AfterGet
    <2>2. Taken \in Nat /\ Taken' = Taken + 1 /\ i = Slot(Taken + 1)
      BY <2>1, TakeHead
    <2>3. i = Taken + 1 /\ i \in Items
      BY <2>1, <2>2, PoolAssumption DEF Slot, Items
    <2> HIDE DEF i
    <2>4. i \in Todo /\ Todo' = Todo \ {i}
      BY <2>2, <2>3, TodoIsBehindTaken, TodoIsBehindTakenNext DEF Items
    <2>5. InProgress' = InProgress \cup {i} /\ Failed' = Failed
      BY <1>0, <2>1
    <2>6. PICK k \in Items : k = i
      BY <2>3
    <2>7. Abs!Start(k)
      <3>1. Abs!Cardinality(InProgress) = Cardinality(InProgress)
        BY DEF Abs!Cardinality, Cardinality
      <3>2. Abs!Cardinality(InProgress) < NWorkers
        BY <2>1, <3>1, RoomToStart
      <3> QED BY <2>1, <2>4, <2>5, <2>6, <3>2 DEF Abs!Start, Todo
    <2> QED BY <2>7 DEF Abs!Next
  <1>2. CASE TakeMarker(w)
    <2>1. /\ pc[w] = "get" /\ queue # <<>> /\ Head(queue) = None
          /\ queue' = Tail(queue) /\ put' = put
          /\ pc' = [pc EXCEPT ![w] = "exited"]
          /\ UNCHANGED <<job, results, caller>>
      BY <1>2 DEF TakeMarker, AfterGet
    <2>2. Taken \in Nat /\ Taken' = Taken + 1 /\ Head(queue) = Slot(Taken + 1)
      BY <2>1, TakeHead
    <2>3. Taken + 1 > NItems
      BY <2>1, <2>2, PoolAssumption DEF Slot, Items
    <2>4. Todo' = Todo
      BY <2>2, <2>3, TodoIsBehindTaken, TodoIsBehindTakenNext, PoolAssumption DEF Items
    <2>5. InProgress' = InProgress /\ Failed' = Failed
      BY <1>0, <2>1
    <2> QED BY <2>1, <2>4, <2>5 DEF Abs!vars, Todo
  <1>3. CASE Finish(w)
    <2>1. /\ pc[w] = "run"
          /\ DOMAIN results' = DOMAIN results \cup {job[w]}
          /\ pc' = [pc EXCEPT ![w] = "get"]
          /\ UNCHANGED <<queue, put, job, caller>>
      BY <1>3 DEF Finish, Stored
    <2>2. job[w] \in Items
      BY <2>1 DEF IInv, TakenIsPlaced, Holding
    <2>3. \A v \in Running : v # w => job[v] # job[w]
      BY <2>1 DEF IInv, OnePlace, Holding
    <2>4. job[w] \in InProgress /\ InProgress' = InProgress \ {job[w]}
      BY <1>0, <2>1, <2>3
    <2>5. Todo' = Todo /\ Failed' = Failed
      BY <1>0, <2>1 DEF Todo
    <2>6. PICK i \in Items : i = job[w]
      BY <2>2
    <2>7. Abs!Succeed(i)
      BY <2>1, <2>4, <2>5, <2>6 DEF Abs!Succeed, Todo
    <2> QED BY <2>7 DEF Abs!Next
  <1>4. CASE Raise(w)
    <2>1. /\ pc[w] = "run"
          /\ pc' = [pc EXCEPT ![w] = "raised"]
          /\ UNCHANGED <<queue, put, job, results, caller>>
      BY <1>4 DEF Raise
    <2>2. job[w] \in Items
      BY <2>1 DEF IInv, TakenIsPlaced, Holding
    <2>3. \A v \in Running : v # w => job[v] # job[w]
      BY <2>1 DEF IInv, OnePlace, Holding
    <2>4. job[w] \in InProgress /\ InProgress' = InProgress \ {job[w]}
      BY <1>0, <2>1, <2>3
    <2>5. Todo' = Todo /\ Failed' = Failed \cup {job[w]}
      BY <1>0, <2>1 DEF Todo
    <2>6. PICK i \in Items : i = job[w]
      BY <2>2
    <2>7. Abs!Fail(i)
      BY <2>1, <2>4, <2>5, <2>6 DEF Abs!Fail, Todo
    <2> QED BY <2>7 DEF Abs!Next
  <1> QED BY <1>1, <1>2, <1>3, <1>4 DEF WorkerStep

LEMMA CallerRefines == IInv /\ IInv' /\ CallerStep => [Abs!Next]_(Abs!vars)
  <1> SUFFICES ASSUME IInv, IInv', CallerStep PROVE [Abs!Next]_(Abs!vars)
    OBVIOUS
  <1>1. UNCHANGED <<queue, put, pc, job, results>>
    BY DEF CallerStep, AwaitProducer, GatherReturn, GatherRaise
  <1>2. UNCHANGED <<Todo, InProgress, DOMAIN results, Failed>>
    BY <1>1 DEF Todo, InProgress, Failed, Running, Raised
  <1>3. CASE AwaitProducer
    <2>1. Outcome' = Outcome
      BY <1>3 DEF AwaitProducer, Outcome, Settled
    <2> QED BY <1>2, <2>1 DEF Abs!vars, Todo, InProgress, Failed, Outcome
  <1>4. CASE GatherReturn
    <2>1. DOMAIN results = Items
      BY <1>4, AllLeftAllStored DEF GatherReturn, PoolEnded
    <2>2. Outcome = "pending" /\ Outcome' = "returned"
      BY <1>4 DEF GatherReturn, Outcome, Settled
    <2>3. Abs!Return
      BY <1>2, <2>1, <2>2 DEF Abs!Return, Todo, InProgress, Failed, Outcome
    <2> QED BY <2>3 DEF Abs!Next
  <1>5. CASE GatherRaise
    <2>1. Failed # {}
      BY <1>5 DEF GatherRaise, Failed, Raised
    <2>2. Outcome = "pending" /\ Outcome' = "raised"
      BY <1>5 DEF GatherRaise, Outcome, Settled
    <2>3. Abs!Raise
      BY <1>2, <2>1, <2>2 DEF Abs!Raise, Todo, InProgress, Failed, Outcome
    <2> QED BY <2>3 DEF Abs!Next
  <1> QED BY <1>3, <1>4, <1>5 DEF CallerStep

\* execute_parallel implements the bounded map, for every number of items and
\* workers: each evaluation once, at most NWorkers at a time, and a return
\* only with every result.
THEOREM Refinement == Spec => Refines
  <1>1. Init => Abs!Init
    BY InitRefines
  <1>2. IInv /\ IInv' /\ [Next]_vars => [Abs!Next]_(Abs!vars)
    <2> SUFFICES ASSUME IInv, IInv', [Next]_vars PROVE [Abs!Next]_(Abs!vars)
      OBVIOUS
    <2>1. CASE Put
      BY <2>1, PutStutters
    <2>2. ASSUME NEW w \in Workers, WorkerStep(w) PROVE [Abs!Next]_(Abs!vars)
      BY <2>2, WorkerRefines
    <2>3. CASE CallerStep
      BY <2>3, CallerRefines
    <2>4. CASE UNCHANGED vars
      BY <2>4 DEF vars, Abs!vars, Todo, InProgress, Failed, Outcome,
                            Running, Raised, Settled
    <2> QED BY <2>1, <2>2, <2>3, <2>4 DEF Next
  <1> QED BY <1>1, <1>2, Invariance, PTL DEF Spec, Refines, Abs!Spec

-------------------------------------------------------------------------------
(***************************************************************************)
(* EvalReporting, for any finite set of items, any bounds on faults and    *)
(* resumed processes.                                                      *)
(*                                                                         *)
(* The argument: the stage of the process, of each item and of each bus    *)
(* task go together (Control, Items), and the ids the reporter holds lead  *)
(* to rows of the process's set run (Ids, First).  Only the first process  *)
(* makes runs, of each item one and one more per failure (Once, Few), and  *)
(* they all are in progress until the one update of one of them (Open,     *)
(* Single): hence no verdict is given twice or overwritten.                *)
(* While nothing failed every handler found what it looked for             *)
(* (Faultless): hence a run that returned has reported every verdict.      *)
(***************************************************************************)

\* Where the process stands, and what that says of the bus tasks.
Control ==
    /\ task[Eval!CreateSet] = "none" =>
          phase \in {"start", "failing", "ending", "raised"} /\ \A e \in Evals : evalPc[e] = "idle"
    /\ phase = "start" => task[Eval!CreateSet] = "none"
    /\ phase = "creatingSet" => \A e \in Evals : evalPc[e] = "idle"
    /\ Eval!Pending(Eval!CreateSet) => phase = "creatingSet"
    /\ task[Eval!UpdateSet] = "none" <=> phase \in {"start", "creatingSet", "evaluating", "failing"}
    /\ phase \in {"waiting", "returned"} => \A e \in evals : evalPc[e] = "done"
    /\ phase \in {"returned", "raised"} => \A k \in Eval!Events : ~Eval!Pending(k)
    /\ phase = "raised" => \A e \in Evals : evalPc[e] \notin {"creating", "running"}
    /\ \A e \in Evals : evalPc[e] = "cancelled" => phase = "raised"
    /\ \A e \in Evals \ evals : evalPc[e] = "idle"
    /\ \A k \in Eval!Events : task[k] = "cancelled" => phase = "raised" \/ (phase = "returned" /\ faults > 0)

\* Where an item's evaluation stands, and what that says of its two tasks.
EvalItems ==
    \A e \in Evals :
        /\ evalPc[e] \in {"idle", "escaped"} => task[Eval!Create(e)] = "none" /\ task[Eval!Update(e)] = "none"
        /\ evalPc[e] \in {"creating", "running"} => task[Eval!Update(e)] = "none"
        /\ evalPc[e] \in {"running", "done"} => ~Eval!Pending(Eval!Create(e))
        /\ evalPc[e] = "done" => (task[Eval!Update(e)] = "none" <=> outcome[e] = "suspended")
        /\ resume => task[Eval!Create(e)] = "none"
        /\ ~resume /\ evalPc[e] \in {"creating", "running"} => task[Eval!Create(e)] # "none"
        /\ ~resume /\ evalPc[e] = "done" => (task[Eval!Create(e)] = "none" <=> outcome[e] = "noInput")

\* The first process has not been told yet that it made the item's run.
Making(e) == ~resume /\ task[Eval!Create(e)] \in {"none"} \cup Eval!Unfinished

\* What the reporter holds leads to a run of the item in the process's set run.
Ids ==
    /\ given # Nothing => setRunId \in {Nothing, given}
    /\ task[Eval!CreateSet] \in {"none", "queued", "call"} => setRunId = Nothing
    /\ setRunId = Nothing \/ (resume /\ given = Nothing) => \A e \in Evals : runIds[e] = Nothing
    /\ task[Eval!UpdateSet] = "call" => setRunId # Nothing /\ given = Nothing
    /\ \A e \in Evals :
        /\ runIds[e] # Nothing => runs[runIds[e]].item = e /\ runs[runIds[e]].set = setRunId
        /\ task[Eval!Create(e)] \in {"fetch", "call"} => setRunId # Nothing
        /\ task[Eval!Update(e)] = "call" => runIds[e] # Nothing
        /\ Making(e) => runIds[e] = Nothing

\* While no call failed, the first process's set run is the backend's first.
First ==
    ~resume =>
        /\ given \in {Nothing, 1}
        /\ faults = 0 =>
              /\ setRunId \in {Nothing, 1}
              /\ given = Nothing /\ task[Eval!CreateSet] \in {"none", "queued", "call"} => sets = <<>>

\* The first process makes the runs: none before its call, and while no call
\* failed one of each item.
Once ==
    /\ \A e \in Evals :
          ~resume /\ task[Eval!Create(e)] \in {"none", "queued", "fetch"} => \A r \in DOMAIN runs : runs[r].item # e
    /\ faults = 0 =>
          /\ \A r, q \in DOMAIN runs : runs[r].item = runs[q].item => r = q
          /\ \A e \in Evals : Making(e) => \A r \in DOMAIN runs : runs[r].item # e

\* An item has a run for each failure, and one more once the create is over.
Few == \A e \in Evals : Cardinality(Eval!RowsOf(e)) <= faults + (IF Making(e) THEN 0 ELSE 1)

\* One run of an item has a verdict.
Single ==
    \A r, q \in DOMAIN runs :
        runs[r].item = runs[q].item /\ runs[r].status # "inProgress" /\ runs[q].status # "inProgress" => r = q

\* A resumed process evaluates one item, and one that was suspended.
Alone == resume /\ task[Eval!CreateSet] # "none" => \A x, y \in evals : x = y
Suspension ==
    phase \in {"waiting", "returned"} /\ status = "SUSPENDED" => \E e \in evals : outcome[e] = "suspended"

\* The run of an item is in progress until the process that ends it says so.
Open ==
    \A e \in Evals :
        (resume => evals = {e}) /\ task[Eval!Update(e)] \in {"none"} \cup Eval!Unfinished =>
            \A r \in DOMAIN runs : runs[r].item = e => runs[r].status = "inProgress"

\* What holds while no call failed: every handler found what it looked for.
Faultless ==
    faults = 0 =>
        /\ task[Eval!CreateSet] = "done" => setRunId # Nothing
        /\ resume => \A e \in Evals : evals = {e} => \E r \in DOMAIN runs : runs[r].item = e /\ runs[r].set = 1
        /\ resume /\ given = 1 /\ task[Eval!CreateSet] = "done" => \A e \in evals : runIds[e] # Nothing
        /\ \A e \in Evals :
              /\ task[Eval!Create(e)] = "done" => runIds[e] # Nothing
              /\ runIds[e] # Nothing /\ task[Eval!Update(e)] = "done" =>
                    runs[runIds[e]].status = Eval!Verdict(outcome[e] = "ok")
        /\ given = Nothing /\ setRunId # Nothing /\ task[Eval!UpdateSet] = "done" =>
              sets[setRunId] = Eval!Verdict(~anyFailed)

Stages == {"none", "done", "cancelled"} \cup Eval!Unfinished
SetStates == {"inProgress", "completed", "failed"}
Flags == resume \in BOOLEAN /\ anyFailed \in BOOLEAN
Rows == sets \in Seq(SetStates) /\ runs \in Seq(Eval!RunType)
Types == Eval!TypeOK /\ Flags /\ Rows /\ faults \in Nat

EvalIInv == Types /\ Control /\ EvalItems /\ Ids /\ First /\ Once /\ Few /\ Single /\ Alone /\ Suspension /\ Open /\ Faultless

-------------------------------------------------------------------------------
LEMMA EventsAre ==
    /\ Eval!CreateSet \in Eval!Events /\ Eval!UpdateSet \in Eval!Events /\ Eval!CreateSet # Eval!UpdateSet
    /\ \A e \in Evals :
          /\ Eval!Create(e) \in Eval!Events /\ Eval!Update(e) \in Eval!Events
          /\ Eval!Create(e) \notin {Eval!CreateSet, Eval!UpdateSet}
             /\ Eval!Update(e) \notin {Eval!CreateSet, Eval!UpdateSet}
    /\ \A e, f \in Evals : /\ Eval!Create(e) # Eval!Update(f)
                           /\ Eval!Create(e) = Eval!Create(f) => e = f
                           /\ Eval!Update(e) = Eval!Update(f) => e = f
    /\ \A k \in Eval!Events :
          k \in {Eval!CreateSet, Eval!UpdateSet} \/ \E e \in Evals : k \in {Eval!Create(e), Eval!Update(e)}
<1>1. \A k \in {"create", "update"} \X Evals : \E e \in Evals : k \in {Eval!Create(e), Eval!Update(e)}
  BY DEF Eval!Create, Eval!Update
<1> QED BY <1>1 DEF Eval!Events, Eval!CreateSet, Eval!UpdateSet, Eval!Create, Eval!Update

LEMMA BecomeTask ==
    ASSUME task \in [Eval!Events -> Stages], NEW k \in Eval!Events, NEW stage \in Stages, Eval!Become(k, stage)
    PROVE  /\ task' \in [Eval!Events -> Stages] /\ task'[k] = stage
           /\ \A j \in Eval!Events : j # k => task'[j] = task[j]
  BY DEF Eval!Become

LEMMA PublishTask ==
    ASSUME task \in [Eval!Events -> Stages], NEW ks, Eval!Publish(ks)
    PROVE  /\ task' \in [Eval!Events -> Stages]
           /\ \A j \in Eval!Events : task'[j] = IF j \in ks THEN "queued" ELSE task[j]
  BY DEF Eval!Publish, Stages, Eval!Unfinished

LEMMA TypesAre ==
    ASSUME Types
    PROVE  /\ task \in [Eval!Events -> Stages]
           /\ evalPc \in [Evals -> {"idle", "creating", "running", "done", "escaped", "cancelled"}]
           /\ outcome \in [Evals -> Eval!Outcomes \cup {Nothing}]
           /\ runIds \in [Evals -> DOMAIN runs \cup {Nothing}]
           /\ evals \subseteq Evals /\ faults \in Nat
           /\ Len(sets) \in Nat /\ DOMAIN sets = 1 .. Len(sets)
           /\ Len(runs) \in Nat /\ DOMAIN runs = 1 .. Len(runs)
           /\ \A r \in DOMAIN runs : runs[r] \in Eval!RunType
  BY DEF Types, Eval!TypeOK, Rows, Stages

LEMMA CardinalityIs ==
    ASSUME NEW S
    PROVE  Eval!Cardinality(S) = Cardinality(S) /\ (Eval!IsFiniteSet(S) <=> IsFiniteSet(S))
  BY DEF Eval!Cardinality, Cardinality, Eval!IsFiniteSet, IsFiniteSet

LEMMA FewItems ==
    ASSUME Eval!ReportingAssumption, evals \subseteq Evals, ~(Eval!Cardinality(evals) > 1)
    PROVE  \A x, y \in evals : x = y
<1>1. IsFiniteSet(evals) /\ Cardinality(evals) \in Nat /\ ~(Cardinality(evals) > 1)
  BY CardinalityIs, FS_Subset, FS_CardinalityType DEF Eval!ReportingAssumption
<1>2. ASSUME NEW x \in evals, NEW y \in evals, x # y PROVE FALSE
  <2>1. IsFiniteSet({x, y}) /\ Cardinality({x, y}) = 2
    <3>1. IsFiniteSet({x}) /\ Cardinality({x}) = 1
      BY FS_Singleton
    <3>2. IsFiniteSet({x} \cup {y}) /\ Cardinality({x} \cup {y}) = Cardinality({x}) + 1
      BY <1>2, <3>1, FS_AddElement
    <3>3. {x, y} = {x} \cup {y}
      OBVIOUS
    <3> QED BY <3>1, <3>2, <3>3
  <2> QED BY <1>1, <2>1, FS_Subset
<1> QED BY <1>2

LEMMA ItemRows ==
    ASSUME Types, NEW e
    PROVE  IsFiniteSet(Eval!RowsOf(e)) /\ Cardinality(Eval!RowsOf(e)) \in Nat
<1>1. IsFiniteSet(1 .. Len(runs))
  BY TypesAre, FS_Interval
<1> QED BY <1>1, TypesAre, FS_Subset, FS_CardinalityType DEF Eval!RowsOf

\* What keeps the number of runs within its bound while no run is made.
LEMMA FewStays ==
    ASSUME Few, Types, UNCHANGED runs, faults' \in Nat, faults' >= faults,
           \A e \in Evals : Making(e)' => Making(e)
    PROVE  Few'
<1>1. ASSUME NEW e \in Evals PROVE Cardinality(Eval!RowsOf(e))' <= faults' + (IF Making(e)' THEN 0 ELSE 1)
  <2>1. Eval!RowsOf(e)' = Eval!RowsOf(e)
    BY DEF Eval!RowsOf
  <2>2. Cardinality(Eval!RowsOf(e)) \in Nat /\ faults \in Nat
    BY ItemRows, TypesAre
  <2>3. Cardinality(Eval!RowsOf(e)) <= faults + (IF Making(e) THEN 0 ELSE 1)
    BY DEF Few
  <2> QED BY <2>1, <2>2, <2>3
<1> QED BY <1>1 DEF Few

LEMMA AppendRow ==
    ASSUME NEW S, NEW t \in Seq(S), NEW x \in S
    PROVE  /\ Append(t, x) \in Seq(S) /\ Len(t) \in Nat /\ Len(Append(t, x)) = Len(t) + 1
           /\ DOMAIN t = 1 .. Len(t) /\ DOMAIN Append(t, x) = DOMAIN t \cup {Len(t) + 1}
           /\ \A i \in DOMAIN t : Append(t, x)[i] = t[i]
           /\ Append(t, x)[Len(t) + 1] = x
  OBVIOUS

LEMMA SubtypeRows ==
    ASSUME NEW S, NEW T, NEW t \in Seq(S), S \subseteq T
    PROVE  t \in Seq(T)
  OBVIOUS

LEMMA MarkedRow ==
    ASSUME runs \in Seq(Eval!RunType), NEW i \in DOMAIN runs, NEW v \in {"inProgress", "completed", "failed"},
           NEW t, t = [runs EXCEPT ![i].status = v]
    PROVE  /\ t \in Seq(Eval!RunType) /\ DOMAIN t = DOMAIN runs
           /\ \A r \in DOMAIN runs :
                 /\ t[r].item = runs[r].item /\ t[r].set = runs[r].set
                 /\ t[r].status = IF r = i THEN v ELSE runs[r].status
<1>1. \A r \in DOMAIN runs : runs[r] \in Eval!RunType
  OBVIOUS
<1>2. [runs[i] EXCEPT !.status = v] \in Eval!RunType
  BY <1>1 DEF Eval!RunType
<1>3. \A r \in DOMAIN runs : t[r] = IF r = i THEN [runs[i] EXCEPT !.status = v] ELSE runs[r]
  OBVIOUS
<1>4. t \in Seq(Eval!RunType) /\ DOMAIN t = DOMAIN runs
  BY <1>2
<1> QED BY <1>1, <1>3, <1>4 DEF Eval!RunType

LEMMA RowRange == ASSUME NEW S, NEW t \in Seq(S) PROVE Eval!Range(t) \subseteq S
  BY DEF Eval!Range

LEMMA InitInv == ASSUME Eval!ReportingAssumption, Eval!Init PROVE EvalIInv
<1> USE DEF Eval!Init
<1>1. Types
  <2>1. Rows
    <3>1. CASE given = Nothing
      BY <3>1 DEF Rows
    <3>2. CASE given # Nothing
      BY <3>2 DEF Rows, SetStates
    <3> QED BY <3>1, <3>2
  <2>2. given \in DOMAIN sets \cup {Nothing} /\ runIds \in [Evals -> DOMAIN runs \cup {Nothing}]
    OBVIOUS
  <2>3. task \in [Eval!Events -> {"none", "done", "cancelled"} \cup Eval!Unfinished]
        /\ evalPc \in [Evals -> {"idle", "creating", "running", "done", "escaped", "cancelled"}]
        /\ outcome \in [Evals -> Eval!Outcomes \cup {Nothing}]
    OBVIOUS
  <2>4. Flags
    BY DEF Flags
  <2> QED BY <2>1, <2>2, <2>3, <2>4, RowRange DEF Types, Eval!TypeOK, Rows, SetStates
<1>2. Control /\ EvalItems
  BY EventsAre DEF Control, EvalItems, Eval!Pending, Eval!Unfinished
<1>3. Ids /\ First
  BY EventsAre DEF Ids, First, Eval!ReportingAssumption
<1>4. Once /\ Single /\ Alone /\ Suspension /\ Open
  BY EventsAre DEF Once, Single, Alone, Suspension, Open
<1>6. Few
  <2>1. \A e \in Evals : Eval!RowsOf(e) = {} /\ Making(e)
    BY EventsAre DEF Eval!RowsOf, Making, Eval!Unfinished
  <2>2. Cardinality({}) = 0
    BY FS_EmptySet
  <2> QED BY <2>1, <2>2 DEF Few
<1>5. Faultless
  BY EventsAre DEF Faultless
<1> QED BY <1>1, <1>2, <1>3, <1>4, <1>5, <1>6 DEF EvalIInv

LEMMA InitiateInv == ASSUME Eval!ReportingAssumption, EvalIInv, Eval!Initiate PROVE EvalIInv'
<1> USE DEF EvalIInv, Eval!Initiate, Eval!proc, Eval!reporter, Eval!backend, Eval!bounds, Eval!Pending,
       Eval!Unfinished
<1>1. Types'
  <2>1. Flags'
    BY DEF Types, Flags
  <2>2. Rows'
    BY TypesAre DEF Types, Rows, Eval!NewSet, Eval!NewRun, Eval!Updated, Eval!Closed, Eval!Verdict,
       Eval!RunType, SetStates
  <2>3. Eval!TypeOK'
    BY <2>2, TypesAre, RowRange, PublishTask DEF Rows, Types, Eval!TypeOK, Stages, Eval!RunType
  <2> QED BY <2>1, <2>2, <2>3 DEF Types
<1>2. Control'
  BY EventsAre, TypesAre DEF Control, Eval!Publish
<1>3. EvalItems'
  BY EventsAre, TypesAre DEF EvalItems, Eval!Publish
<1>4. Ids'
  BY EventsAre, TypesAre DEF Ids, Eval!Publish, Control, Making
<1>5. First'
  BY EventsAre, TypesAre DEF First, Eval!Publish, Control
<1>6. Once'
  BY EventsAre, TypesAre DEF Once, Eval!Publish, Making
<1>7. Few'
  BY EventsAre, TypesAre, FewStays DEF Making, Eval!Publish
<1>8. Single'
  BY DEF Single
<1>9. Alone'
  BY EventsAre, TypesAre, FewItems DEF Alone, Eval!Publish, Types, Eval!TypeOK
<1>10. Suspension'
  BY DEF Suspension
<1>11. Open'
  BY EventsAre, TypesAre DEF Open, Eval!Publish
<1>12. Faultless'
  BY EventsAre, TypesAre DEF Faultless, Eval!Publish
<1> QED BY <1>1, <1>2, <1>3, <1>4, <1>5, <1>6, <1>9, <1>10, <1>11, <1>12, <1>7, <1>8

LEMMA SetRunCreatedInv == ASSUME Eval!ReportingAssumption, EvalIInv, Eval!SetRunCreated PROVE EvalIInv'
<1> USE DEF EvalIInv, Eval!SetRunCreated, Eval!proc, Eval!reporter, Eval!backend, Eval!bounds, Eval!Pending,
       Eval!Unfinished
<1>1. Types'
  <2>1. Flags'
    BY DEF Types, Flags
  <2>2. Rows'
    BY TypesAre DEF Types, Rows, Eval!NewSet, Eval!NewRun, Eval!Updated, Eval!Closed, Eval!Verdict,
       Eval!RunType, SetStates
  <2>3. Eval!TypeOK'
    BY <2>2, RowRange DEF Rows, Types, Eval!TypeOK, Eval!RunType
  <2> QED BY <2>1, <2>2, <2>3 DEF Types
<1>2. Control'
  BY DEF Control
<1>3. EvalItems'
  BY DEF EvalItems
<1>4. Ids'
  BY DEF Ids, Making
<1>5. First'
  BY TypesAre DEF First
<1>6. Once'
  BY DEF Once, Making
<1>7. Few'
  BY FewStays, TypesAre DEF Making
<1>8. Single'
  BY DEF Single
<1>9. Alone'
  BY DEF Alone
<1>10. Suspension'
  BY DEF Suspension
<1>11. Open'
  BY DEF Open
<1>12. Faultless'
  BY DEF Faultless
<1> QED BY <1>1, <1>2, <1>3, <1>4, <1>5, <1>6, <1>9, <1>10, <1>11, <1>12, <1>7, <1>8

LEMMA StartEvalInv ==
    ASSUME Eval!ReportingAssumption, EvalIInv, NEW e \in Evals, Eval!StartEval(e)
    PROVE  EvalIInv'
<1> USE DEF EvalIInv, Eval!StartEval, Eval!proc, Eval!reporter, Eval!backend, Eval!bounds, Eval!Pending,
       Eval!Unfinished, Eval!Idle
<1>a. \A k \in Eval!Events : task'[k] = IF ~resume /\ k = Eval!Create(e) THEN "queued" ELSE task[k]
  BY PublishTask, TypesAre DEF Eval!CreateEvent
<1>1. Types'
  <2>1. Flags'
    BY DEF Types, Flags
  <2>2. Rows'
    BY TypesAre DEF Types, Rows, Eval!NewSet, Eval!NewRun, Eval!Updated, Eval!Closed, Eval!Verdict,
       Eval!RunType, SetStates
  <2>3. Eval!TypeOK'
    BY <2>2, TypesAre, RowRange, PublishTask DEF Rows, Types, Eval!TypeOK, Stages, Eval!RunType
  <2> QED BY <2>1, <2>2, <2>3 DEF Types
<1>2. Control'
  BY EventsAre, TypesAre DEF Control, Eval!Publish, Eval!CreateEvent, EvalItems
<1>3. EvalItems'
  BY EventsAre, TypesAre DEF EvalItems, Eval!Publish, Eval!CreateEvent, Control
<1>4. Ids'
  BY <1>a, EventsAre, TypesAre DEF Ids, Making, EvalItems
<1>5. First'
  BY EventsAre, TypesAre DEF First, Eval!Publish, Eval!CreateEvent
<1>6. Once'
  BY <1>a, EventsAre, TypesAre DEF Once, EvalItems, Making
<1>7. Few'
  BY <1>a, EventsAre, TypesAre, FewStays DEF Making, EvalItems
<1>8. Single'
  BY DEF Single
<1>9. Alone'
  BY EventsAre DEF Alone, Eval!Publish, Eval!CreateEvent
<1>10. Suspension'
  BY DEF Suspension
<1>11. Open'
  BY EventsAre DEF Open, Eval!Publish, Eval!CreateEvent
<1>12. Faultless'
  BY EventsAre DEF Faultless, Eval!Publish, Eval!CreateEvent
<1> QED BY <1>1, <1>2, <1>3, <1>4, <1>5, <1>6, <1>9, <1>10, <1>11, <1>12, <1>7, <1>8

LEMMA EvalEscapesInv ==
    ASSUME Eval!ReportingAssumption, EvalIInv, NEW e \in Evals, Eval!EvalEscapes(e)
    PROVE  EvalIInv'
<1> USE DEF EvalIInv, Eval!EvalEscapes, Eval!proc, Eval!reporter, Eval!backend, Eval!bounds, Eval!Pending,
       Eval!Unfinished, Eval!Fault, Eval!Idle
<1>1. Types'
  <2>1. Flags'
    BY DEF Types, Flags
  <2>2. Rows'
    BY TypesAre DEF Types, Rows, Eval!NewSet, Eval!NewRun, Eval!Updated, Eval!Closed, Eval!Verdict,
       Eval!RunType, SetStates
  <2>3. Eval!TypeOK'
    BY <2>2, RowRange DEF Rows, Types, Eval!TypeOK, Eval!RunType
  <2> QED BY <2>1, <2>2, <2>3 DEF Types
<1>2. Control'
  BY EventsAre, TypesAre DEF Control, EvalItems
<1>3. EvalItems'
  BY EventsAre, TypesAre DEF EvalItems, Control
<1>4. Ids'
  BY DEF Ids, Making
<1>5. First'
  BY TypesAre DEF First
<1>6. Once'
  BY TypesAre DEF Once, Making
<1>7. Few'
  BY FewStays, TypesAre DEF Making
<1>8. Single'
  BY DEF Single
<1>9. Alone'
  BY DEF Alone
<1>10. Suspension'
  BY DEF Suspension
<1>11. Open'
  BY DEF Open
<1>12. Faultless'
  BY EventsAre, TypesAre DEF Faultless, Control
<1> QED BY <1>1, <1>2, <1>3, <1>4, <1>5, <1>6, <1>9, <1>10, <1>11, <1>12, <1>7, <1>8

LEMMA RunAgentInv ==
    ASSUME Eval!ReportingAssumption, EvalIInv, NEW e \in Evals, Eval!RunAgent(e)
    PROVE  EvalIInv'
<1> USE DEF EvalIInv, Eval!RunAgent, Eval!proc, Eval!reporter, Eval!backend, Eval!bounds, Eval!Pending,
       Eval!Unfinished, Eval!CreateHandled
<1>1. Types'
  <2>1. Flags'
    BY DEF Types, Flags
  <2>2. Rows'
    BY TypesAre DEF Types, Rows, Eval!NewSet, Eval!NewRun, Eval!Updated, Eval!Closed, Eval!Verdict,
       Eval!RunType, SetStates
  <2>3. Eval!TypeOK'
    BY <2>2, RowRange DEF Rows, Types, Eval!TypeOK, Eval!RunType
  <2> QED BY <2>1, <2>2, <2>3 DEF Types
<1>2. Control'
  BY DEF Control
<1>3. EvalItems'
  BY EventsAre, TypesAre DEF EvalItems, Control
<1>4. Ids'
  BY DEF Ids, Making
<1>5. First'
  BY TypesAre DEF First
<1>6. Once'
  BY DEF Once, Making
<1>7. Few'
  BY FewStays, TypesAre DEF Making
<1>8. Single'
  BY DEF Single
<1>9. Alone'
  BY DEF Alone
<1>10. Suspension'
  BY DEF Suspension
<1>11. Open'
  BY DEF Open
<1>12. Faultless'
  BY DEF Faultless
<1> QED BY <1>1, <1>2, <1>3, <1>4, <1>5, <1>6, <1>9, <1>10, <1>11, <1>12, <1>7, <1>8

LEMMA InputFailsInv ==
    ASSUME Eval!ReportingAssumption, EvalIInv, NEW e \in Evals, Eval!InputFails(e)
    PROVE  EvalIInv'
<1> USE DEF EvalIInv, Eval!InputFails, Eval!proc, Eval!reporter, Eval!backend, Eval!bounds, Eval!Pending,
       Eval!Unfinished, Eval!Idle
<1>a. \A k \in Eval!Events : task'[k] = IF k = Eval!Update(e) THEN "queued" ELSE task[k]
  BY PublishTask, TypesAre
<1>b. task[Eval!Update(e)] = "none" /\ task[Eval!Create(e)] = "none" /\ e \in evals /\ \A f \in Evals : f # e => outcome'[f] = outcome[f]
  BY TypesAre DEF EvalItems
<1>1. Types'
  <2>1. Flags'
    BY DEF Types, Flags
  <2>2. Rows'
    BY TypesAre DEF Types, Rows, Eval!NewSet, Eval!NewRun, Eval!Updated, Eval!Closed, Eval!Verdict,
       Eval!RunType, SetStates
  <2>3. Eval!TypeOK'
    BY <2>2, TypesAre, RowRange, PublishTask DEF Rows, Types, Eval!TypeOK, Stages, Eval!RunType,
       Eval!Outcomes, Eval!Ended
  <2> QED BY <2>1, <2>2, <2>3 DEF Types
<1>2. Control'
  BY EventsAre DEF Control, Eval!Publish
<1>3. EvalItems'
  BY EventsAre, TypesAre DEF EvalItems, Eval!Publish
<1>4. Ids'
  BY EventsAre DEF Ids, Eval!Publish, Making
<1>5. First'
  BY EventsAre, TypesAre DEF First, Eval!Publish
<1>6. Once'
  BY EventsAre DEF Once, Eval!Publish, Making
<1>7. Few'
  BY EventsAre, FewStays, TypesAre DEF Making, Eval!Publish
<1>8. Single'
  BY DEF Single
<1>9. Alone'
  BY EventsAre DEF Alone, Eval!Publish
<1>10. Suspension'
  BY EventsAre, TypesAre DEF Suspension, Eval!Publish, Control
<1>11. Open'
  BY <1>a, <1>b, EventsAre DEF Open
<1>12. Faultless'
  BY <1>a, <1>b, EventsAre DEF Faultless
<1> QED BY <1>1, <1>2, <1>3, <1>4, <1>5, <1>6, <1>9, <1>10, <1>11, <1>12, <1>7, <1>8

LEMMA EndEvalInv ==
    ASSUME Eval!ReportingAssumption, EvalIInv, NEW e \in Evals, NEW o \in Eval!Ended, Eval!EndEval(e, o)
    PROVE  EvalIInv'
<1> USE DEF EvalIInv, Eval!EndEval, Eval!proc, Eval!reporter, Eval!backend, Eval!bounds, Eval!Pending,
       Eval!Unfinished
<1>a. \A k \in Eval!Events : task'[k] = IF o # "suspended" /\ k = Eval!Update(e) THEN "queued" ELSE task[k]
  BY PublishTask, TypesAre DEF Eval!UpdateEvent
<1>b. task[Eval!Update(e)] = "none" /\ \A f \in Evals : f # e => outcome'[f] = outcome[f]
  BY TypesAre DEF EvalItems
<1>1. Types'
  <2>1. Flags'
    BY DEF Types, Flags
  <2>2. Rows'
    BY TypesAre DEF Types, Rows, Eval!NewSet, Eval!NewRun, Eval!Updated, Eval!Closed, Eval!Verdict,
       Eval!RunType, SetStates
  <2>3. Eval!TypeOK'
    BY <2>2, TypesAre, RowRange, PublishTask DEF Rows, Types, Eval!TypeOK, Stages, Eval!RunType,
       Eval!Outcomes, Eval!Ended
  <2> QED BY <2>1, <2>2, <2>3 DEF Types
<1>2. Control'
  BY EventsAre DEF Control, Eval!Publish, Eval!UpdateEvent
<1>3. EvalItems'
  BY <1>a, <1>b, EventsAre, TypesAre DEF EvalItems, Eval!Ended
<1>4. Ids'
  BY EventsAre DEF Ids, Eval!Publish, Eval!UpdateEvent, Making
<1>5. First'
  BY EventsAre, TypesAre DEF First, Eval!Publish, Eval!UpdateEvent
<1>6. Once'
  BY EventsAre DEF Once, Eval!Publish, Eval!UpdateEvent, Making
<1>7. Few'
  BY EventsAre, FewStays, TypesAre DEF Making, Eval!Publish, Eval!UpdateEvent
<1>8. Single'
  BY DEF Single
<1>9. Alone'
  BY EventsAre DEF Alone, Eval!Publish, Eval!UpdateEvent
<1>10. Suspension'
  BY EventsAre, TypesAre DEF Suspension, Eval!Publish, Eval!UpdateEvent, Control
<1>11. Open'
  BY <1>a, <1>b, EventsAre DEF Open
<1>12. Faultless'
  BY <1>a, <1>b, EventsAre DEF Faultless
<1> QED BY <1>1, <1>2, <1>3, <1>4, <1>5, <1>6, <1>9, <1>10, <1>11, <1>12, <1>7, <1>8

LEMMA ExecuteReturnsInv == ASSUME Eval!ReportingAssumption, EvalIInv, Eval!ExecuteReturns PROVE EvalIInv'
<1> USE DEF EvalIInv, Eval!ExecuteReturns, Eval!proc, Eval!reporter, Eval!backend, Eval!bounds, Eval!Pending,
       Eval!Unfinished
<1>1. Types'
  <2>1. Flags'
    BY DEF Types, Flags
  <2>2. Rows'
    BY TypesAre DEF Types, Rows, Eval!NewSet, Eval!NewRun, Eval!Updated, Eval!Closed, Eval!Verdict,
       Eval!RunType, SetStates
  <2>3. Eval!TypeOK'
    <3>1. Eval!OverallStatus \in {"SUSPENDED", "FAULTED", "SUCCESSFUL"}
      BY DEF Eval!OverallStatus
    <3> QED BY <2>2, <3>1, TypesAre, RowRange, PublishTask DEF Rows, Types, Eval!TypeOK, Stages, Eval!RunType
  <2> QED BY <2>1, <2>2, <2>3 DEF Types
<1>2. Control'
  BY EventsAre DEF Control, Eval!Publish
<1>3. EvalItems'
  BY EventsAre DEF EvalItems, Eval!Publish
<1>4. Ids'
  BY EventsAre DEF Ids, Eval!Publish, Making
<1>5. First'
  BY EventsAre, TypesAre DEF First, Eval!Publish
<1>6. Once'
  BY EventsAre DEF Once, Eval!Publish, Making
<1>7. Few'
  BY EventsAre, FewStays, TypesAre DEF Making, Eval!Publish
<1>8. Single'
  BY DEF Single
<1>9. Alone'
  BY EventsAre DEF Alone, Eval!Publish
<1>10. Suspension'
  BY DEF Suspension, Eval!OverallStatus, Eval!Statuses, Eval!InnerStatus
<1>11. Open'
  BY EventsAre DEF Open, Eval!Publish
<1>12. Faultless'
  BY EventsAre DEF Faultless, Eval!Publish
<1> QED BY <1>1, <1>2, <1>3, <1>4, <1>5, <1>6, <1>9, <1>10, <1>11, <1>12, <1>7, <1>8

LEMMA ExecuteFailsInv == ASSUME Eval!ReportingAssumption, EvalIInv, Eval!ExecuteFails PROVE EvalIInv'
<1> USE DEF EvalIInv, Eval!ExecuteFails, Eval!proc, Eval!reporter, Eval!backend, Eval!bounds, Eval!Pending,
       Eval!Unfinished
<1>1. Types'
  <2>1. Flags'
    BY DEF Types, Flags
  <2>2. Rows'
    BY TypesAre DEF Types, Rows, Eval!NewSet, Eval!NewRun, Eval!Updated, Eval!Closed, Eval!Verdict,
       Eval!RunType, SetStates
  <2>3. Eval!TypeOK'
    BY <2>2, RowRange DEF Rows, Types, Eval!TypeOK, Eval!RunType
  <2> QED BY <2>1, <2>2, <2>3 DEF Types
<1>2. Control'
  BY DEF Control
<1>3. EvalItems'
  BY DEF EvalItems
<1>4. Ids'
  BY DEF Ids, Making
<1>5. First'
  BY TypesAre DEF First
<1>6. Once'
  BY DEF Once, Making
<1>7. Few'
  BY FewStays, TypesAre DEF Making
<1>8. Single'
  BY DEF Single
<1>9. Alone'
  BY DEF Alone
<1>10. Suspension'
  BY DEF Suspension
<1>11. Open'
  BY DEF Open
<1>12. Faultless'
  BY DEF Faultless
<1> QED BY <1>1, <1>2, <1>3, <1>4, <1>5, <1>6, <1>9, <1>10, <1>11, <1>12, <1>7, <1>8

LEMMA ExecuteRaisesInv == ASSUME Eval!ReportingAssumption, EvalIInv, Eval!ExecuteRaises PROVE EvalIInv'
<1> USE DEF EvalIInv, Eval!ExecuteRaises, Eval!proc, Eval!reporter, Eval!backend, Eval!bounds, Eval!Pending,
       Eval!Unfinished
<1>1. Types'
  <2>1. Flags'
    BY DEF Types, Flags
  <2>2. Rows'
    BY TypesAre DEF Types, Rows, Eval!NewSet, Eval!NewRun, Eval!Updated, Eval!Closed, Eval!Verdict,
       Eval!RunType, SetStates
  <2>3. Eval!TypeOK'
    BY <2>2, TypesAre, RowRange, PublishTask DEF Rows, Types, Eval!TypeOK, Stages, Eval!RunType
  <2> QED BY <2>1, <2>2, <2>3 DEF Types
<1>2. Control'
  BY EventsAre DEF Control, Eval!Publish
<1>3. EvalItems'
  BY EventsAre DEF EvalItems, Eval!Publish
<1>4. Ids'
  BY EventsAre DEF Ids, Eval!Publish, Making
<1>5. First'
  BY EventsAre, TypesAre DEF First, Eval!Publish
<1>6. Once'
  BY EventsAre DEF Once, Eval!Publish, Making
<1>7. Few'
  BY EventsAre, FewStays, TypesAre DEF Making, Eval!Publish
<1>8. Single'
  BY DEF Single
<1>9. Alone'
  BY EventsAre DEF Alone, Eval!Publish
<1>10. Suspension'
  BY DEF Suspension
<1>11. Open'
  BY EventsAre DEF Open, Eval!Publish
<1>12. Faultless'
  BY EventsAre DEF Faultless, Eval!Publish
<1> QED BY <1>1, <1>2, <1>3, <1>4, <1>5, <1>6, <1>9, <1>10, <1>11, <1>12, <1>7, <1>8

LEMMA WaitForAllInv == ASSUME Eval!ReportingAssumption, EvalIInv, Eval!WaitForAll PROVE EvalIInv'
<1> USE DEF EvalIInv, Eval!WaitForAll, Eval!proc, Eval!reporter, Eval!backend, Eval!bounds, Eval!Pending,
       Eval!Unfinished, Eval!Awaited
<1>1. Types'
  <2>1. Flags'
    BY DEF Types, Flags
  <2>2. Rows'
    BY TypesAre DEF Types, Rows, Eval!NewSet, Eval!NewRun, Eval!Updated, Eval!Closed, Eval!Verdict,
       Eval!RunType, SetStates
  <2>3. Eval!TypeOK'
    BY <2>2, RowRange DEF Rows, Types, Eval!TypeOK, Eval!RunType
  <2> QED BY <2>1, <2>2, <2>3 DEF Types
<1>2. Control'
  BY EventsAre, TypesAre DEF Control, EvalItems
<1>3. EvalItems'
  BY DEF EvalItems
<1>4. Ids'
  BY DEF Ids, Making
<1>5. First'
  BY TypesAre DEF First
<1>6. Once'
  BY DEF Once, Making
<1>7. Few'
  BY FewStays, TypesAre DEF Making
<1>8. Single'
  BY DEF Single
<1>9. Alone'
  BY DEF Alone
<1>10. Suspension'
  BY DEF Suspension
<1>11. Open'
  BY DEF Open
<1>12. Faultless'
  BY DEF Faultless
<1> QED BY <1>1, <1>2, <1>3, <1>4, <1>5, <1>6, <1>9, <1>10, <1>11, <1>12, <1>7, <1>8

LEMMA WaitTimesOutInv == ASSUME Eval!ReportingAssumption, EvalIInv, Eval!WaitTimesOut PROVE EvalIInv'
<1> USE DEF EvalIInv, Eval!WaitTimesOut, Eval!proc, Eval!reporter, Eval!backend, Eval!bounds, Eval!Pending,
       Eval!Unfinished, Eval!Fault
<1>1. Types'
  <2>1. Flags'
    BY DEF Types, Flags
  <2>2. Rows'
    BY TypesAre DEF Types, Rows, Eval!NewSet, Eval!NewRun, Eval!Updated, Eval!Closed, Eval!Verdict,
       Eval!RunType, SetStates
  <2>3. Eval!TypeOK'
    BY <2>2, RowRange DEF Rows, Types, Eval!TypeOK, Eval!RunType
  <2> QED BY <2>1, <2>2, <2>3 DEF Types
<1>2. Control'
  BY EventsAre, TypesAre DEF Control, EvalItems
<1>3. EvalItems'
  BY EventsAre DEF EvalItems
<1>4. Ids'
  BY EventsAre DEF Ids, Making
<1>5. First'
  BY EventsAre, TypesAre DEF First
<1>6. Once'
  BY EventsAre, TypesAre DEF Once, Making
<1>7. Few'
  BY EventsAre, FewStays, TypesAre DEF Making
<1>8. Single'
  BY DEF Single
<1>9. Alone'
  BY EventsAre DEF Alone
<1>10. Suspension'
  BY DEF Suspension
<1>11. Open'
  BY EventsAre DEF Open
<1>12. Faultless'
  BY EventsAre, TypesAre DEF Faultless, Control
<1> QED BY <1>1, <1>2, <1>3, <1>4, <1>5, <1>6, <1>9, <1>10, <1>11, <1>12, <1>7, <1>8

LEMMA LoopEndsInv == ASSUME Eval!ReportingAssumption, EvalIInv, Eval!LoopEnds PROVE EvalIInv'
<1> USE DEF EvalIInv, Eval!LoopEnds, Eval!proc, Eval!reporter, Eval!backend, Eval!bounds, Eval!Pending,
       Eval!Unfinished
<1>1. Types'
  <2>1. Flags'
    BY DEF Types, Flags
  <2>2. Rows'
    BY TypesAre DEF Types, Rows, Eval!NewSet, Eval!NewRun, Eval!Updated, Eval!Closed, Eval!Verdict,
       Eval!RunType, SetStates
  <2>3. Eval!TypeOK'
    BY <2>2, RowRange DEF Rows, Types, Eval!TypeOK, Eval!RunType
  <2> QED BY <2>1, <2>2, <2>3 DEF Types
<1>2. Control'
  BY EventsAre DEF Control
<1>3. EvalItems'
  BY EventsAre DEF EvalItems
<1>4. Ids'
  BY EventsAre DEF Ids, Making
<1>5. First'
  BY EventsAre, TypesAre DEF First
<1>6. Once'
  BY EventsAre DEF Once, Making
<1>7. Few'
  BY EventsAre, FewStays, TypesAre DEF Making
<1>8. Single'
  BY DEF Single
<1>9. Alone'
  BY EventsAre DEF Alone
<1>10. Suspension'
  BY DEF Suspension
<1>11. Open'
  BY EventsAre DEF Open
<1>12. Faultless'
  BY EventsAre DEF Faultless
<1> QED BY <1>1, <1>2, <1>3, <1>4, <1>5, <1>6, <1>9, <1>10, <1>11, <1>12, <1>7, <1>8

LEMMA CreateSetStartsInv == ASSUME Eval!ReportingAssumption, EvalIInv, Eval!CreateSetStarts PROVE EvalIInv'
<1> USE DEF EvalIInv, Eval!CreateSetStarts, Eval!proc, Eval!reporter, Eval!backend, Eval!bounds, Eval!Pending,
       Eval!Unfinished
<1>1. Types'
  <2>1. Flags'
    BY DEF Types, Flags
  <2>2. Rows'
    BY TypesAre DEF Types, Rows, Eval!NewSet, Eval!NewRun, Eval!Updated, Eval!Closed, Eval!Verdict,
       Eval!RunType, SetStates
  <2>3. Eval!TypeOK'
    BY <2>2, TypesAre, RowRange, BecomeTask, EventsAre DEF Rows, Types, Eval!TypeOK, Stages, Eval!RunType
  <2> QED BY <2>1, <2>2, <2>3 DEF Types
<1>2. Control'
  BY EventsAre DEF Control, Eval!Become
<1>3. EvalItems'
  BY EventsAre DEF EvalItems, Eval!Become
<1>4. Ids'
  BY EventsAre DEF Ids, Eval!Become, Making
<1>5. First'
  BY TypesAre DEF First
<1>6. Once'
  BY EventsAre DEF Once, Eval!Become, Making
<1>7. Few'
  BY EventsAre, FewStays, TypesAre DEF Making, Eval!Become
<1>8. Single'
  BY DEF Single
<1>9. Alone'
  BY DEF Alone
<1>10. Suspension'
  BY DEF Suspension
<1>11. Open'
  BY EventsAre DEF Open, Eval!Become
<1>12. Faultless'
  BY EventsAre DEF Faultless, Eval!Become
<1> QED BY <1>1, <1>2, <1>3, <1>4, <1>5, <1>6, <1>9, <1>10, <1>11, <1>12, <1>7, <1>8

LEMMA CreateSetFetchesInv == ASSUME Eval!ReportingAssumption, EvalIInv, Eval!CreateSetFetches PROVE EvalIInv'
<1> USE DEF EvalIInv, Eval!CreateSetFetches, Eval!proc, Eval!reporter, Eval!backend, Eval!bounds, Eval!Pending,
       Eval!Unfinished, Eval!Fault
<1>a. /\ given # Nothing /\ given \in DOMAIN sets /\ task[Eval!CreateSet] = "call" /\ phase = "creatingSet"
      /\ setRunId' = given /\ setRunId = Nothing /\ \A e \in Evals : runIds[e] = Nothing /\ evalPc[e] = "idle"
  BY EventsAre DEF Ids, Control, Types, Eval!TypeOK
<1>b. /\ task' \in [Eval!Events -> Stages] /\ task'[Eval!CreateSet] = "done"
      /\ \A k \in Eval!Events : k # Eval!CreateSet => task'[k] = task[k]
  BY EventsAre, TypesAre, BecomeTask DEF Stages
<1>c. ASSUME NEW e \in Evals
      PROVE  /\ runIds'[e] \in DOMAIN runs \cup {Nothing}
             /\ runIds'[e] # Nothing => runs[runIds'[e]].item = e /\ runs[runIds'[e]].set = given
             /\ faults' = 0 /\ Eval!RunsOf(e, given) # {} => runIds'[e] \in Eval!RunsOf(e, given)
  <2>1. CASE faults' # faults
    BY <1>a, <2>1, TypesAre
  <2>2. CASE faults' = faults
    <3>1. runIds' \in [Evals -> DOMAIN runs \cup {Nothing}] /\ Eval!Cached(runIds')
      BY <2>2, TypesAre
    <3> QED BY <3>1 DEF Eval!Cached, Eval!RunsOf, Eval!RowsOf
  <2> QED BY <2>1, <2>2
<1>d. runIds' \in [Evals -> DOMAIN runs \cup {Nothing}]
  BY <1>c, TypesAre
<1>1. Types'
  <2>1. Flags'
    BY DEF Types, Flags
  <2>2. Rows'
    BY TypesAre DEF Types, Rows, Eval!NewSet, Eval!NewRun, Eval!Updated, Eval!Closed, Eval!Verdict,
       Eval!RunType, SetStates
  <2>3. Eval!TypeOK'
    BY <2>2, <1>a, <1>b, <1>d, TypesAre, RowRange DEF Rows, Types, Eval!TypeOK, Stages, Eval!RunType
  <2> QED BY <2>1, <2>2, <2>3 DEF Types
<1>2. Control'
  BY EventsAre DEF Control, Eval!Become
<1>3. EvalItems'
  BY EventsAre DEF EvalItems, Eval!Become
<1>4. Ids'
  <2>1. ASSUME NEW e \in Evals, Making(e)' PROVE runIds'[e] = Nothing
    <3>1. task[Eval!Create(e)] = "none" /\ ~resume
      BY <1>a, <2>1 DEF EvalItems, Making
    <3>2. \A r \in DOMAIN runs : runs[r].item # e
      BY <3>1 DEF Once
    <3> QED BY <1>c, <3>2
  <2> QED BY <1>a, <1>b, <1>c, <2>1, EventsAre DEF Ids, EvalItems, Control
<1>5. First'
  BY <1>a, <1>b DEF First, Ids
<1>6. Once'
  BY EventsAre, TypesAre DEF Once, Eval!Become, Making
<1>7. Few'
  BY EventsAre, FewStays, TypesAre DEF Making, Eval!Become
<1>8. Single'
  BY DEF Single
<1>9. Alone'
  BY DEF Alone
<1>10. Suspension'
  BY DEF Suspension
<1>11. Open'
  BY EventsAre DEF Open, Eval!Become
<1>12. Faultless'
  <2> SUFFICES ASSUME faults' = 0 PROVE Faultless!2'
    BY DEF Faultless
  <2>1. faults = 0
    BY TypesAre
  <2>2. \A e \in Evals : task[Eval!Create(e)] = "none" /\ task[Eval!Update(e)] = "none"
    BY <1>a DEF EvalItems
  <2>3. ASSUME resume, given = 1, NEW e \in evals PROVE runIds'[e] # Nothing
    <3>1. e \in Evals /\ evals = {e}
      BY <1>a, <2>3, TypesAre DEF Alone
    <3>2. Eval!RunsOf(e, given) # {}
      BY <2>1, <2>3, <3>1, TypesAre DEF Faultless, Eval!RunsOf, Eval!RowsOf
    <3> QED BY <1>c, <3>1, <3>2, TypesAre DEF Eval!ReportingAssumption, Eval!RunsOf, Eval!RowsOf
  <2> QED BY <1>a, <1>b, <2>1, <2>2, <2>3, EventsAre, TypesAre DEF Faultless
<1> QED BY <1>1, <1>2, <1>3, <1>4, <1>5, <1>6, <1>9, <1>10, <1>11, <1>12, <1>7, <1>8

LEMMA CreateSetCallsInv == ASSUME Eval!ReportingAssumption, EvalIInv, Eval!CreateSetCalls PROVE EvalIInv'
<1> USE DEF EvalIInv, Eval!CreateSetCalls, Eval!proc, Eval!reporter, Eval!backend, Eval!bounds, Eval!Pending,
       Eval!Unfinished, Eval!Fault, Eval!NewSet
<1>a. /\ sets' \in Seq(SetStates) /\ DOMAIN sets \subseteq DOMAIN sets'
      /\ \A i \in DOMAIN sets : sets'[i] = sets[i]
  <2>1. "inProgress" \in SetStates /\ sets \in Seq(SetStates)
    BY DEF Types, Rows, SetStates
  <2>2. /\ Eval!NewSet \in Seq(SetStates) /\ DOMAIN sets \subseteq DOMAIN Eval!NewSet
        /\ \A i \in DOMAIN sets : Eval!NewSet[i] = sets[i]
    BY <2>1, AppendRow
  <2> QED BY <2>1, <2>2
<1>b. /\ given = Nothing /\ setRunId = Nothing /\ task[Eval!CreateSet] = "call" /\ phase = "creatingSet"
      /\ \A e \in Evals : runIds[e] = Nothing /\ evalPc[e] = "idle"
      /\ \A e \in Evals : task[Eval!Create(e)] = "none" /\ task[Eval!Update(e)] = "none"
  BY EventsAre DEF Ids, Control, EvalItems
<1>c. /\ task' \in [Eval!Events -> Stages] /\ task'[Eval!CreateSet] \in {"call", "done"}
      /\ \A k \in Eval!Events : k # Eval!CreateSet => task'[k] = task[k]
  BY EventsAre, TypesAre, BecomeTask DEF Stages
<1>d. \/ /\ faults' = faults /\ sets' = Eval!NewSet /\ setRunId' = Len(sets) + 1 /\ Len(sets) + 1 \in DOMAIN sets'
         /\ task'[Eval!CreateSet] = "done"
      \/ faults' = faults + 1 /\ setRunId' = Nothing
  <2>1. Len(Eval!NewSet) = Len(sets) + 1 /\ Len(sets) + 1 \in DOMAIN Eval!NewSet
    BY AppendRow DEF Types, Rows, SetStates
  <2> QED BY <1>b, <2>1, EventsAre, TypesAre, BecomeTask DEF Stages
<1>1. Types'
  <2>1. Flags'
    BY DEF Types, Flags
  <2>2. Rows'
    <3>1. Eval!RunType \subseteq Eval!RunType'
      BY <1>a DEF Eval!RunType
    <3> QED BY <1>a, <3>1, SubtypeRows DEF Types, Rows
  <2>3. Eval!TypeOK'
    BY <1>a, <1>b, <1>c, <1>d, <2>2, TypesAre, RowRange
       DEF Rows, Types, Eval!TypeOK, Stages, Eval!RunType, SetStates
  <2> QED BY <2>1, <2>2, <2>3 DEF Types
<1>2. Control'
  BY <1>b, <1>c, EventsAre, TypesAre DEF Control
<1>3. EvalItems'
  BY <1>b, <1>c, EventsAre, TypesAre DEF EvalItems
<1>4. Ids'
  <2>1. \A e \in Evals : runIds'[e] = Nothing /\ task'[Eval!Create(e)] = "none" /\ task'[Eval!Update(e)] = "none"
    BY <1>b, <1>c, EventsAre
  <2>2. task'[Eval!UpdateSet] = task[Eval!UpdateSet] /\ task[Eval!UpdateSet] = "none"
    BY <1>b, <1>c, EventsAre DEF Control
  <2> QED BY <1>b, <1>c, <1>d, <2>1, <2>2 DEF Ids
<1>5. First'
  <2>1. ASSUME faults' = 0, ~resume PROVE setRunId' = 1 /\ task'[Eval!CreateSet] = "done"
    <3>1. faults = 0 /\ sets = <<>>
      BY <1>b, <1>d, <2>1, TypesAre DEF First
    <3> QED BY <1>d, <2>1, <3>1, TypesAre
  <2> QED BY <1>b, <2>1 DEF First
<1>6. Once'
  BY <1>b, <1>c, EventsAre, TypesAre DEF Once, Making
<1>7. Few'
  BY <1>b, <1>c, EventsAre, FewStays, TypesAre DEF Making
<1>8. Single'
  BY DEF Single
<1>9. Alone'
  BY DEF Alone
<1>10. Suspension'
  BY DEF Suspension
<1>11. Open'
  BY <1>b, <1>c, EventsAre, TypesAre DEF Open
<1>12. Faultless'
  BY <1>b, <1>c, <1>d, EventsAre, TypesAre DEF Faultless, Control, Eval!ReportingAssumption
<1> QED BY <1>1, <1>2, <1>3, <1>4, <1>5, <1>6, <1>9, <1>10, <1>11, <1>12, <1>7, <1>8

LEMMA CreateRunStartsInv ==
    ASSUME Eval!ReportingAssumption, EvalIInv, NEW e \in Evals, Eval!CreateRunStarts(e)
    PROVE  EvalIInv'
<1> USE DEF EvalIInv, Eval!CreateRunStarts, Eval!proc, Eval!reporter, Eval!backend, Eval!bounds, Eval!Pending,
       Eval!Unfinished
<1>a. setRunId # Nothing \/ faults # 0
  <2>1. Eval!Create(e) \in Eval!Events /\ task[Eval!Create(e)] = "queued"
          /\ evalPc[e] \notin {"idle", "escaped"}
    BY EventsAre DEF EvalItems
  <2>2. task[Eval!CreateSet] \notin {"none", "cancelled"} \cup Eval!Unfinished
    BY <2>1, EventsAre DEF Control
  <2> QED BY <2>2, EventsAre, TypesAre DEF Faultless, Stages
<1>1. Types'
  <2>1. Flags'
    BY DEF Types, Flags
  <2>2. Rows'
    BY TypesAre DEF Types, Rows, Eval!NewSet, Eval!NewRun, Eval!Updated, Eval!Closed, Eval!Verdict,
       Eval!RunType, SetStates
  <2>3. Eval!TypeOK'
    BY <2>2, TypesAre, RowRange, BecomeTask, EventsAre DEF Rows, Types, Eval!TypeOK, Stages, Eval!RunType
  <2> QED BY <2>1, <2>2, <2>3 DEF Types
<1>2. Control'
  BY EventsAre DEF Control, Eval!Become
<1>3. EvalItems'
  BY EventsAre DEF EvalItems, Eval!Become
<1>4. Ids'
  BY EventsAre DEF Ids, Eval!Become, Making
<1>5. First'
  BY EventsAre, TypesAre DEF First, Eval!Become
<1>6. Once'
  BY EventsAre DEF Once, Eval!Become, Making
<1>7. Few'
  BY EventsAre, FewStays, TypesAre DEF Making, Eval!Become
<1>8. Single'
  BY DEF Single
<1>9. Alone'
  BY EventsAre DEF Alone, Eval!Become
<1>10. Suspension'
  BY DEF Suspension
<1>11. Open'
  BY EventsAre DEF Open, Eval!Become
<1>12. Faultless'
  BY <1>a, EventsAre, TypesAre DEF Faultless, Eval!Become
<1> QED BY <1>1, <1>2, <1>3, <1>4, <1>5, <1>6, <1>9, <1>10, <1>11, <1>12, <1>7, <1>8

LEMMA CreateRunFetchesInv ==
    ASSUME Eval!ReportingAssumption, EvalIInv, NEW e \in Evals, Eval!CreateRunFetches(e)
    PROVE  EvalIInv'
<1> USE DEF EvalIInv, Eval!CreateRunFetches, Eval!proc, Eval!reporter, Eval!backend, Eval!bounds, Eval!Pending,
       Eval!Unfinished, Eval!Fault, Eval!RunsOf, Eval!RowsOf
<1>a. setRunId # Nothing /\ ~resume /\ \A r \in DOMAIN runs : runs[r].item # e
  BY EventsAre DEF Ids, EvalItems, Once
<1>b. /\ runIds' = runIds /\ task' = [task EXCEPT ![Eval!Create(e)] = "call"]
      /\ faults' \in {faults, faults + 1}
  BY <1>a DEF Eval!RunsOf, Eval!Become
<1>1. Types'
  <2>1. Flags'
    BY DEF Types, Flags
  <2>2. Rows'
    BY TypesAre DEF Types, Rows, Eval!NewSet, Eval!NewRun, Eval!Updated, Eval!Closed, Eval!Verdict,
       Eval!RunType, SetStates
  <2>3. Eval!TypeOK'
    BY <1>b, <2>2, TypesAre, RowRange, EventsAre DEF Rows, Types, Eval!TypeOK, Stages, Eval!RunType
  <2> QED BY <2>1, <2>2, <2>3 DEF Types
<1>2. Control'
  BY EventsAre, TypesAre DEF Control, Eval!Become
<1>3. EvalItems'
  BY EventsAre, TypesAre DEF EvalItems, Eval!Become
<1>4. Ids'
  BY <1>a, <1>b, EventsAre, TypesAre DEF Ids, Making
<1>5. First'
  BY EventsAre, TypesAre DEF First, Eval!Become
<1>6. Once'
  BY EventsAre, TypesAre DEF Once, Eval!Become, Making
<1>7. Few'
  BY EventsAre, TypesAre, FewStays DEF Making, Eval!Become
<1>8. Single'
  BY DEF Single
<1>9. Alone'
  BY EventsAre, TypesAre DEF Alone, Eval!Become
<1>10. Suspension'
  BY DEF Suspension
<1>11. Open'
  BY EventsAre, TypesAre DEF Open, Eval!Become
<1>12. Faultless'
  BY <1>b, EventsAre, TypesAre DEF Faultless
<1> QED BY <1>1, <1>2, <1>3, <1>4, <1>5, <1>6, <1>9, <1>10, <1>11, <1>12, <1>7, <1>8

LEMMA CreateRunCallsInv ==
    ASSUME Eval!ReportingAssumption, EvalIInv, NEW e \in Evals, Eval!CreateRunCalls(e)
    PROVE  EvalIInv'
<1> USE DEF EvalIInv, Eval!CreateRunCalls, Eval!proc, Eval!reporter, Eval!backend, Eval!bounds, Eval!Pending,
       Eval!Unfinished, Eval!Fault
<1>a. /\ setRunId \in DOMAIN sets /\ ~resume /\ runIds[e] = Nothing /\ Making(e)
      /\ faults = 0 => \A r \in DOMAIN runs : runs[r].item # e
  BY EventsAre, TypesAre DEF Ids, EvalItems, Once, Making, Types, Eval!TypeOK
<1>b. \/ runs' \in {runs, Eval!NewRun(e, setRunId)} /\ runIds' = runIds /\ faults' = faults + 1
      \/ runs' = Eval!NewRun(e, setRunId) /\ runIds' = [runIds EXCEPT ![e] = Len(runs')] /\ faults' = faults
  OBVIOUS
<1> DEFINE row == [item |-> e, set |-> setRunId, status |-> "inProgress"]
<1>c. row \in Eval!RunType /\ row.item = e /\ row.set = setRunId /\ row.status = "inProgress"
  BY <1>a DEF Eval!RunType
<1>d. /\ Eval!NewRun(e, setRunId) \in Seq(Eval!RunType)
      /\ DOMAIN Eval!NewRun(e, setRunId) = DOMAIN runs \cup {Len(runs) + 1}
         /\ Len(Eval!NewRun(e, setRunId)) = Len(runs) + 1
      /\ \A r \in DOMAIN runs : Eval!NewRun(e, setRunId)[r] = runs[r]
      /\ Eval!NewRun(e, setRunId)[Len(runs) + 1] = row /\ Len(runs) + 1 \notin DOMAIN runs
  BY <1>c, AppendRow, TypesAre DEF Eval!NewRun, Types, Rows
<1>e. /\ task' \in [Eval!Events -> Stages] /\ task'[Eval!Create(e)] \in {"call", "done"}
      /\ faults' = faults => task'[Eval!Create(e)] = "done"
      /\ \A k \in Eval!Events : k # Eval!Create(e) => task'[k] = task[k]
  BY <1>b, EventsAre, TypesAre, BecomeTask DEF Stages
<1>f. /\ runIds'[e] \in {Nothing, Len(runs) + 1} /\ \A f \in Evals : f # e => runIds'[f] = runIds[f]
      /\ runIds'[e] # Nothing => runs' = Eval!NewRun(e, setRunId) /\ faults' = faults
      /\ runs' \in {runs, Eval!NewRun(e, setRunId)}
         /\ (runIds'[e] = Nothing => faults' = faults + 1 \/ Len(runs) + 1 = Nothing)
  BY <1>a, <1>b, <1>d, TypesAre
<1>g. Len(runs) + 1 # Nothing
  BY TypesAre DEF Eval!ReportingAssumption
<1> HIDE DEF row
<1>h. \A r \in DOMAIN runs' : \/ r \in DOMAIN runs /\ runs'[r] = runs[r]
                              \/ r = Len(runs) + 1 /\ runs'[r] = row
  <2>1. CASE runs' = runs
    BY <2>1
  <2>2. CASE runs' = Eval!NewRun(e, setRunId)
    BY <1>d, <2>2
  <2> QED BY <1>f, <2>1, <2>2
<1>1. Types'
  <2>1. Flags'
    BY DEF Types, Flags
  <2>2. Rows'
    BY <1>d, <1>f DEF Types, Rows, Eval!RunType
  <2>3. Eval!TypeOK'
    <3>1. runIds' \in [Evals -> DOMAIN runs' \cup {Nothing}]
      BY <1>b, <1>d, TypesAre
    <3> QED BY <3>1, <1>e, <2>2, TypesAre, RowRange DEF Rows, Types, Eval!TypeOK, Stages, Eval!RunType
  <2> QED BY <2>1, <2>2, <2>3 DEF Types
<1>2. Control'
  BY <1>e, EventsAre, TypesAre DEF Control
<1>3. EvalItems'
  BY <1>e, EventsAre, TypesAre DEF EvalItems
<1>4. Ids'
  <2>1. \A f \in Evals : runIds[f] # Nothing => runIds[f] \in DOMAIN runs
    BY TypesAre
  <2>2. Making(e)' => runIds'[e] = Nothing
    BY <1>a, <1>b, <1>e, TypesAre DEF Making
  <2>3. \A f \in Evals : f # e => (Making(f)' => Making(f))
    BY <1>e, EventsAre DEF Making
  <2> QED BY <1>a, <1>c, <1>d, <1>e, <1>f, <2>1, <2>2, <2>3, EventsAre DEF Ids
<1>5. First'
  BY <1>e, EventsAre, TypesAre DEF First
<1>6. Once'
  <2>1. ASSUME NEW f \in Evals, ~resume, task'[Eval!Create(f)] \in {"none", "queued", "fetch"}
        PROVE  \A r \in DOMAIN runs' : runs'[r].item # f
    <3>1. f # e /\ task'[Eval!Create(f)] = task[Eval!Create(f)]
      BY <1>e, <2>1, EventsAre
    <3> QED BY <1>c, <1>h, <2>1, <3>1 DEF Once
  <2>2. ASSUME faults' = 0 PROVE \A r, q \in DOMAIN runs' : runs'[r].item = runs'[q].item => r = q
    BY <1>a, <1>b, <1>c, <1>h, <2>2, TypesAre DEF Once
  <2>3. ASSUME faults' = 0, NEW f \in Evals, Making(f)' PROVE \A r \in DOMAIN runs' : runs'[r].item # f
    <3>1. faults = 0 /\ f # e /\ Making(f)
      BY <1>b, <1>e, <2>3, EventsAre, TypesAre DEF Making
    <3> QED BY <1>c, <1>h, <3>1 DEF Once
  <2> QED BY <2>1, <2>2, <2>3 DEF Once
<1>7. Few'
  <2>1. ASSUME NEW f \in Evals, f # e
        PROVE  Cardinality(Eval!RowsOf(f))' <= faults' + (IF Making(f)' THEN 0 ELSE 1)
    <3>1. Eval!RowsOf(f)' = Eval!RowsOf(f)
      BY <1>c, <1>d, <1>f, <1>h, <2>1 DEF Eval!RowsOf
    <3>2. Making(f)' => Making(f)
      BY <1>e, <2>1, EventsAre DEF Making
    <3>3. Cardinality(Eval!RowsOf(f)) \in Nat
      BY ItemRows
    <3> QED BY <1>b, <3>1, <3>2, <3>3, TypesAre DEF Few
  <2>2. Cardinality(Eval!RowsOf(e))' <= faults' + (IF Making(e)' THEN 0 ELSE 1)
    <3>1. IsFiniteSet(Eval!RowsOf(e)) /\ Cardinality(Eval!RowsOf(e)) \in Nat
      BY ItemRows
    <3>2. Eval!RowsOf(e)' \subseteq Eval!RowsOf(e) \cup {Len(runs) + 1}
      BY <1>h DEF Eval!RowsOf
    <3>3. /\ IsFiniteSet(Eval!RowsOf(e) \cup {Len(runs) + 1})
          /\ Cardinality(Eval!RowsOf(e) \cup {Len(runs) + 1}) <= Cardinality(Eval!RowsOf(e)) + 1
          /\ Cardinality(Eval!RowsOf(e) \cup {Len(runs) + 1}) \in Nat
      <4>1. /\ IsFiniteSet(Eval!RowsOf(e) \cup {Len(runs) + 1})
            /\ Cardinality(Eval!RowsOf(e) \cup {Len(runs) + 1}) \in
                 {Cardinality(Eval!RowsOf(e)), Cardinality(Eval!RowsOf(e)) + 1}
        BY <3>1, FS_AddElement
      <4> QED BY <3>1, <4>1
    <3>4. /\ Cardinality(Eval!RowsOf(e)') <= Cardinality(Eval!RowsOf(e) \cup {Len(runs) + 1})
          /\ Cardinality(Eval!RowsOf(e)') \in Nat
      BY <3>2, <3>3, FS_Subset, FS_CardinalityType
    <3>5. Cardinality(Eval!RowsOf(e)) <= faults
      BY <1>a, TypesAre DEF Few
    <3>6. faults' = faults => ~Making(e)'
      BY <1>e DEF Making
    <3> QED BY <1>b, <3>1, <3>3, <3>4, <3>5, <3>6, TypesAre
  <2> QED BY <2>1, <2>2 DEF Few
<1>8. Single'
  BY <1>c, <1>h DEF Single
<1>9. Alone'
  BY <1>e, EventsAre, TypesAre DEF Alone
<1>10. Suspension'
  BY DEF Suspension
<1>11. Open'
  BY <1>a, <1>c, <1>d, <1>e, <1>f, EventsAre DEF Open
<1>12. Faultless'
  <2>1. \A f \in Evals : runIds[f] # Nothing => runIds[f] \in DOMAIN runs
    BY TypesAre
  <2>2. task[Eval!Update(e)] = "none" /\ \A f \in Evals : task'[Eval!Update(f)] = task[Eval!Update(f)]
    <3>1. evalPc[e] = "creating"
      BY EventsAre, TypesAre DEF EvalItems, Control
    <3> QED BY <3>1, <1>e, EventsAre DEF EvalItems
  <2> QED BY <1>a, <1>d, <1>e, <1>f, <1>g, <2>1, <2>2, EventsAre, TypesAre DEF Faultless
<1> QED BY <1>1, <1>2, <1>3, <1>4, <1>5, <1>6, <1>7, <1>8, <1>9, <1>10, <1>11, <1>12

LEMMA UpdateRunStartsInv ==
    ASSUME Eval!ReportingAssumption, EvalIInv, NEW e \in Evals, Eval!UpdateRunStarts(e)
    PROVE  EvalIInv'
<1> USE DEF EvalIInv, Eval!UpdateRunStarts, Eval!proc, Eval!reporter, Eval!backend, Eval!bounds, Eval!Pending,
       Eval!Unfinished
<1>1. Types'
  <2>1. Flags'
    BY DEF Types, Flags
  <2>2. Rows'
    BY TypesAre DEF Types, Rows, Eval!NewSet, Eval!NewRun, Eval!Updated, Eval!Closed, Eval!Verdict,
       Eval!RunType, SetStates
  <2>3. Eval!TypeOK'
    BY <2>2, TypesAre, RowRange, BecomeTask, EventsAre DEF Rows, Types, Eval!TypeOK, Stages, Eval!RunType
  <2> QED BY <2>1, <2>2, <2>3 DEF Types
<1>2. Control'
  BY EventsAre DEF Control, Eval!Become
<1>3. EvalItems'
  BY EventsAre DEF EvalItems, Eval!Become
<1>4. Ids'
  BY EventsAre DEF Ids, Eval!Become, Making
<1>5. First'
  BY EventsAre, TypesAre DEF First, Eval!Become
<1>6. Once'
  BY EventsAre DEF Once, Eval!Become, Making
<1>7. Few'
  BY EventsAre, FewStays, TypesAre DEF Making, Eval!Become
<1>8. Single'
  BY DEF Single
<1>9. Alone'
  BY EventsAre DEF Alone, Eval!Become
<1>10. Suspension'
  BY DEF Suspension
<1>11. Open'
  BY EventsAre DEF Open, Eval!Become
<1>12. Faultless'
  BY EventsAre DEF Faultless, Eval!Become
<1> QED BY <1>1, <1>2, <1>3, <1>4, <1>5, <1>6, <1>9, <1>10, <1>11, <1>12, <1>7, <1>8

LEMMA UpdateRunCallsInv ==
    ASSUME Eval!ReportingAssumption, EvalIInv, NEW e \in Evals, Eval!UpdateRunCalls(e)
    PROVE  EvalIInv'
<1> USE DEF EvalIInv, Eval!UpdateRunCalls, Eval!proc, Eval!reporter, Eval!backend, Eval!bounds, Eval!Pending,
       Eval!Unfinished, Eval!Fault
<1>a. /\ runIds[e] \in DOMAIN runs /\ runs[runIds[e]].item = e /\ task[Eval!Update(e)] = "call"
      /\ runIds[e] # Nothing
  BY TypesAre DEF Ids
<1>b. /\ Eval!Updated(e) \in Seq(Eval!RunType) /\ DOMAIN Eval!Updated(e) = DOMAIN runs
      /\ \A r \in DOMAIN runs :
            /\ Eval!Updated(e)[r].item = runs[r].item /\ Eval!Updated(e)[r].set = runs[r].set
            /\ Eval!Updated(e)[r].status =
                 IF r = runIds[e] THEN Eval!Verdict(outcome[e] = "ok") ELSE runs[r].status
  <2>1. Eval!Verdict(outcome[e] = "ok") \in {"inProgress", "completed", "failed"} /\ runs \in Seq(Eval!RunType)
    BY DEF Eval!Verdict, Types, Rows
  <2>2. Eval!Updated(e) = [runs EXCEPT ![runIds[e]].status = Eval!Verdict(outcome[e] = "ok")]
    BY DEF Eval!Updated
  <2> HIDE DEF Eval!Updated
  <2> QED BY <1>a, <2>1, <2>2, MarkedRow
<1>c. /\ task' \in [Eval!Events -> Stages] /\ task'[Eval!Update(e)] = "done"
      /\ \A k \in Eval!Events : k # Eval!Update(e) => task'[k] = task[k]
  BY EventsAre, TypesAre, BecomeTask DEF Stages
<1>d. runs' \in {runs, Eval!Updated(e)} /\ (faults' = faults => runs' = Eval!Updated(e))
        /\ faults' \in {faults, faults + 1}
  BY TypesAre
<1>1. Types'
  <2>1. Flags'
    BY DEF Types, Flags
  <2>2. Rows'
    BY <1>b, <1>d DEF Types, Rows, Eval!RunType
  <2>3. Eval!TypeOK'
    BY <1>b, <1>c, <1>d, <2>2, TypesAre, RowRange DEF Rows, Types, Eval!TypeOK, Stages, Eval!RunType
  <2> QED BY <2>1, <2>2, <2>3 DEF Types
<1>2. Control'
  BY EventsAre DEF Control, Eval!Become
<1>3. EvalItems'
  BY EventsAre DEF EvalItems, Eval!Become
<1>4. Ids'
  <2>1. \A r \in DOMAIN runs : runs'[r].item = runs[r].item /\ runs'[r].set = runs[r].set
    BY <1>b, <1>d
  <2>2. \A f \in Evals : runIds[f] # Nothing => runIds[f] \in DOMAIN runs
    BY TypesAre
  <2>3. /\ task'[Eval!CreateSet] = task[Eval!CreateSet] /\ task'[Eval!UpdateSet] = task[Eval!UpdateSet]
        /\ \A f \in Evals : /\ task'[Eval!Create(f)] = task[Eval!Create(f)]
                            /\ task'[Eval!Update(f)] = "call" => task[Eval!Update(f)] = "call"
    BY <1>c, EventsAre
  <2>4. \A f \in Evals : Making(f)' => Making(f)
    BY <2>3 DEF Making
  <2> QED BY <2>1, <2>2, <2>3, <2>4 DEF Ids
<1>5. First'
  BY EventsAre, TypesAre DEF First, Eval!Become
<1>6. Once'
  <2>1. /\ DOMAIN runs' = DOMAIN runs /\ \A r \in DOMAIN runs : runs'[r].item = runs[r].item
        /\ faults' = 0 => faults = 0
    BY <1>b, <1>d, TypesAre
  <2>2. \A f \in Evals : task'[Eval!Create(f)] = task[Eval!Create(f)]
    BY <1>c, EventsAre
  <2> QED BY <2>1, <2>2 DEF Once, Making
<1>7. Few'
  <2>1. \A f \in Evals : Eval!RowsOf(f)' = Eval!RowsOf(f) /\ (Making(f)' => Making(f))
    BY <1>b, <1>c, <1>d, EventsAre DEF Eval!RowsOf, Making
  <2>2. \A f \in Evals : Cardinality(Eval!RowsOf(f)) \in Nat
    BY ItemRows
  <2> QED BY <1>d, <2>1, <2>2, TypesAre DEF Few
<1>8. Single'
  <2>1. \A r \in DOMAIN runs : runs[r].item = e => runs[r].status = "inProgress"
    <3>1. e \in evals /\ task[Eval!CreateSet] # "none"
      BY <1>a, EventsAre, TypesAre DEF EvalItems, Control
    <3> QED BY <1>a, <3>1, TypesAre DEF Open, Alone
  <2> QED BY <1>a, <1>b, <1>d, <2>1 DEF Single
<1>9. Alone'
  BY EventsAre DEF Alone, Eval!Become
<1>10. Suspension'
  BY DEF Suspension
<1>11. Open'
  BY <1>a, <1>b, <1>c, <1>d, EventsAre DEF Open
<1>12. Faultless'
  <2>1. ASSUME NEW f \in Evals, f # e, runIds[f] # Nothing PROVE runs'[runIds[f]].status = runs[runIds[f]].status
    <3>1. runIds[f] \in DOMAIN runs /\ runIds[f] # runIds[e]
      BY <1>a, <2>1, TypesAre DEF Ids
    <3> QED BY <1>b, <1>d, <3>1
  <2>2. faults' = 0 => runs' = Eval!Updated(e) /\ faults = 0
          /\ runs'[runIds[e]].status = Eval!Verdict(outcome[e] = "ok")
    BY <1>a, <1>b, <1>d, TypesAre
  <2>3. DOMAIN runs' = DOMAIN runs /\ \A r \in DOMAIN runs : runs'[r].item = runs[r].item
          /\ runs'[r].set = runs[r].set
    BY <1>b, <1>d
  <2> QED BY <1>c, <2>1, <2>2, <2>3, EventsAre DEF Faultless
<1> QED BY <1>1, <1>2, <1>3, <1>4, <1>5, <1>6, <1>7, <1>8, <1>9, <1>10, <1>11, <1>12

LEMMA UpdateSetStartsInv == ASSUME Eval!ReportingAssumption, EvalIInv, Eval!UpdateSetStarts PROVE EvalIInv'
<1> USE DEF EvalIInv, Eval!UpdateSetStarts, Eval!proc, Eval!reporter, Eval!backend, Eval!bounds, Eval!Pending,
       Eval!Unfinished, Eval!OwnSetRun
<1>1. Types'
  <2>1. Flags'
    BY DEF Types, Flags
  <2>2. Rows'
    BY TypesAre DEF Types, Rows, Eval!NewSet, Eval!NewRun, Eval!Updated, Eval!Closed, Eval!Verdict,
       Eval!RunType, SetStates
  <2>3. Eval!TypeOK'
    BY <2>2, TypesAre, RowRange, BecomeTask, EventsAre DEF Rows, Types, Eval!TypeOK, Stages, Eval!RunType
  <2> QED BY <2>1, <2>2, <2>3 DEF Types
<1>2. Control'
  BY EventsAre DEF Control, Eval!Become
<1>3. EvalItems'
  BY EventsAre DEF EvalItems, Eval!Become
<1>4. Ids'
  BY EventsAre, TypesAre DEF Ids, Eval!Become, Control, Making
<1>5. First'
  BY EventsAre, TypesAre DEF First, Eval!Become
<1>6. Once'
  BY EventsAre DEF Once, Eval!Become, Making
<1>7. Few'
  BY EventsAre, FewStays, TypesAre DEF Making, Eval!Become
<1>8. Single'
  BY DEF Single
<1>9. Alone'
  BY EventsAre DEF Alone, Eval!Become
<1>10. Suspension'
  BY DEF Suspension
<1>11. Open'
  BY EventsAre DEF Open, Eval!Become
<1>12. Faultless'
  BY EventsAre, TypesAre DEF Faultless, Eval!Become, Control
<1> QED BY <1>1, <1>2, <1>3, <1>4, <1>5, <1>6, <1>9, <1>10, <1>11, <1>12, <1>7, <1>8

LEMMA UpdateSetCallsInv == ASSUME Eval!ReportingAssumption, EvalIInv, Eval!UpdateSetCalls PROVE EvalIInv'
<1> USE DEF EvalIInv, Eval!UpdateSetCalls, Eval!proc, Eval!reporter, Eval!backend, Eval!bounds, Eval!Pending,
       Eval!Unfinished, Eval!Fault, Eval!Closed
<1>a. setRunId \in DOMAIN sets /\ given = Nothing
  BY DEF Ids, Types, Eval!TypeOK
<1>b. /\ Eval!Closed \in Seq(SetStates) /\ DOMAIN Eval!Closed = DOMAIN sets
         /\ Eval!Closed[setRunId] = Eval!Verdict(~anyFailed)
  BY <1>a DEF Types, Rows, SetStates, Eval!Verdict
<1>c. /\ task' \in [Eval!Events -> Stages] /\ task'[Eval!UpdateSet] = "done"
      /\ \A k \in Eval!Events : k # Eval!UpdateSet => task'[k] = task[k]
  BY EventsAre, TypesAre, BecomeTask DEF Stages
<1>d. sets' \in {sets, Eval!Closed} /\ (faults' = faults => sets' = Eval!Closed)
        /\ faults' \in {faults, faults + 1}
      /\ DOMAIN sets' = DOMAIN sets
  BY <1>b, TypesAre
<1>1. Types'
  <2>1. Flags'
    BY DEF Types, Flags
  <2>2. Rows'
    BY <1>b, <1>d DEF Types, Rows, Eval!RunType
  <2>3. Eval!TypeOK'
    BY <1>c, <1>d, <2>2, TypesAre, RowRange DEF Rows, Types, Eval!TypeOK, Stages, Eval!RunType, SetStates
  <2> QED BY <2>1, <2>2, <2>3 DEF Types
<1>2. Control'
  BY EventsAre DEF Control, Eval!Become
<1>3. EvalItems'
  BY EventsAre DEF EvalItems, Eval!Become
<1>4. Ids'
  BY EventsAre DEF Ids, Eval!Become, Making
<1>5. First'
  BY EventsAre, TypesAre DEF First, Eval!Become, Control
<1>6. Once'
  BY EventsAre, TypesAre DEF Once, Eval!Become, Making
<1>7. Few'
  BY EventsAre, FewStays, TypesAre DEF Making, Eval!Become
<1>8. Single'
  BY DEF Single
<1>9. Alone'
  BY EventsAre DEF Alone, Eval!Become
<1>10. Suspension'
  BY DEF Suspension
<1>11. Open'
  BY EventsAre DEF Open, Eval!Become
<1>12. Faultless'
  BY <1>a, <1>b, <1>c, <1>d, EventsAre, TypesAre DEF Faultless
<1> QED BY <1>1, <1>2, <1>3, <1>4, <1>5, <1>6, <1>9, <1>10, <1>11, <1>12, <1>7, <1>8

LEMMA ResumeInv ==
    ASSUME Eval!ReportingAssumption, EvalIInv,
           NEW es \in {evals} \cup {{e} : e \in Eval!Suspended}, NEW id \in DOMAIN sets \cup {Nothing},
           Eval!Resume(es, id)
    PROVE  EvalIInv'
<1> USE DEF EvalIInv, Eval!Resume, Eval!proc, Eval!reporter, Eval!backend, Eval!bounds, Eval!Pending,
       Eval!Unfinished
<1>a. /\ phase = "returned" /\ phase' = "start" /\ resume' = TRUE /\ given' = id /\ evals' = es
      /\ evals' \subseteq evals
      /\ \A k \in Eval!Events : task'[k] = "none"
      /\ \A e \in Evals : evalPc'[e] = "idle" /\ runIds'[e] = Nothing
      /\ UNCHANGED <<outcome, sets, runs, faults>> /\ setRunId' = Nothing
  BY TypesAre DEF Eval!Suspended
<1>b. /\ task[Eval!CreateSet] # "none" /\ ~Eval!Pending(Eval!CreateSet) /\ \A e \in evals : evalPc[e] = "done"
      /\ \A k \in Eval!Events : ~Eval!Pending(k)
  BY EventsAre DEF Control
<1>c. ASSUME NEW e \in Evals, evals' = {e}
      PROVE  e \in evals /\ outcome[e] = "suspended"
  <2>1. CASE es = evals
    <3>1. \E f \in evals : outcome[f] = "suspended"
      BY DEF Suspension
    <3> QED BY <1>a, <1>c, <2>1, <3>1
  <2>2. CASE \E f \in Eval!Suspended : es = {f}
    BY <1>a, <1>c, <2>2 DEF Eval!Suspended
  <2> QED BY <2>1, <2>2
<1>1. Types'
  <2>1. Flags'
    BY DEF Types, Flags
  <2>2. Rows'
    BY DEF Types, Rows, Eval!RunType
  <2>3. Eval!TypeOK'
    BY <1>a, <2>2, TypesAre, RowRange DEF Types, Eval!TypeOK, Rows, Eval!RunType
  <2> QED BY <2>1, <2>2, <2>3 DEF Types
<1>2. Control' /\ EvalItems' /\ Ids' /\ First' /\ Alone' /\ Suspension'
  BY <1>a, EventsAre, TypesAre DEF Control, EvalItems, Ids, First, Alone, Suspension
<1>3. Once' /\ Few' /\ Single'
  BY <1>a, FewStays, TypesAre DEF Once, Making, Single
<1>4. Open'
  <2> SUFFICES ASSUME NEW e \in Evals, evals' = {e}, NEW r \in DOMAIN runs, runs[r].item = e
               PROVE  runs[r].status = "inProgress"
    BY <1>a DEF Open
  <2>1. e \in evals /\ task[Eval!Update(e)] = "none"
    BY <1>b, <1>c DEF EvalItems
  <2>2. resume => evals = {e}
    BY <1>b, <2>1, EventsAre, TypesAre DEF Alone
  <2> QED BY <2>1, <2>2 DEF Open
<1>5. Faultless'
  <2> SUFFICES ASSUME faults = 0, NEW e \in Evals, evals' = {e}
        PROVE \E r \in DOMAIN runs : runs[r].item = e /\ runs[r].set = 1
    BY <1>a, EventsAre DEF Faultless, Eval!ReportingAssumption
  <2>1. e \in evals /\ outcome[e] = "suspended"
    BY <1>c
  <2>2. CASE resume
    BY <1>b, <2>1, <2>2, TypesAre DEF Faultless, Alone
  <2>3. CASE ~resume
    <3>1. task[Eval!Create(e)] = "done"
      BY <1>b, <2>1, <2>3, EventsAre, TypesAre DEF EvalItems, Control, Stages
    <3>2. runIds[e] # Nothing /\ setRunId # Nothing
      BY <3>1, TypesAre DEF Faultless, Ids
    <3> QED BY <2>3, <3>2, TypesAre DEF Ids, First
  <2> QED BY <2>2, <2>3
<1> QED BY <1>1, <1>2, <1>3, <1>4, <1>5

LEMMA StutterInv == ASSUME EvalIInv, UNCHANGED Eval!vars PROVE EvalIInv'
<1> USE DEF EvalIInv, Eval!vars, Eval!proc, Eval!reporter, Eval!backend, Eval!bounds
<1>1. Types'
  BY DEF Types, Eval!TypeOK, Flags, Rows, Eval!RunType
<1>2. Control' /\ EvalItems' /\ Ids'
  BY DEF Control, EvalItems, Ids, Making, Eval!Pending
<1>3. First' /\ Once' /\ Alone' /\ Suspension' /\ Open' /\ Faultless'
  BY DEF First, Once, Making, Alone, Suspension, Open, Faultless
<1>4. Few' /\ Single'
  BY FewStays, TypesAre DEF Making, Single
<1> QED BY <1>1, <1>2, <1>3, <1>4

LEMMA HandlerInv == ASSUME Eval!ReportingAssumption, EvalIInv, Eval!HandlerStep PROVE EvalIInv'
<1>1. ASSUME NEW e \in Evals,
             Eval!CreateRunStarts(e) \/ Eval!CreateRunFetches(e) \/ Eval!CreateRunCalls(e)
             \/ Eval!UpdateRunStarts(e) \/ Eval!UpdateRunCalls(e)
      PROVE  EvalIInv'
  BY <1>1, CreateRunStartsInv, CreateRunFetchesInv, CreateRunCallsInv, UpdateRunStartsInv, UpdateRunCallsInv
<1> QED BY <1>1, CreateSetStartsInv, CreateSetFetchesInv, CreateSetCallsInv, UpdateSetStartsInv,
           UpdateSetCallsInv DEF Eval!HandlerStep

LEMMA RuntimeInv == ASSUME Eval!ReportingAssumption, EvalIInv, Eval!RuntimeStep PROVE EvalIInv'
<1>1. ASSUME NEW e \in Evals, Eval!StartEval(e) \/ Eval!InputFails(e) \/ Eval!RunAgent(e) \/ \E o \in Eval!Ended : Eval!EndEval(e, o)
      PROVE EvalIInv'
  BY <1>1, StartEvalInv, InputFailsInv, RunAgentInv, EndEvalInv
<1> QED BY <1>1, InitiateInv, SetRunCreatedInv, ExecuteReturnsInv, ExecuteFailsInv, ExecuteRaisesInv,
           WaitForAllInv, LoopEndsInv DEF Eval!RuntimeStep

LEMMA NextInv == ASSUME Eval!ReportingAssumption, EvalIInv, [Eval!Next]_(Eval!vars) PROVE EvalIInv'
<1>1. ASSUME NEW es \in {evals} \cup {{e} : e \in Eval!Suspended}, NEW id \in DOMAIN sets \cup {Nothing},
             Eval!Resume(es, id)
      PROVE  EvalIInv'
  BY <1>1, ResumeInv
<1> QED BY <1>1, HandlerInv, RuntimeInv, WaitTimesOutInv, EvalEscapesInv, StutterInv DEF Eval!Next

\* The invariant, for any items, workers, faults and resumed processes.
THEOREM Invariant == Eval!ReportingAssumption => (Eval!Spec => []EvalIInv)
<1> SUFFICES ASSUME Eval!ReportingAssumption PROVE Eval!Spec => []EvalIInv
  OBVIOUS
<1>1. Eval!Init => EvalIInv
  BY InitInv
<1>2. EvalIInv /\ [Eval!Next]_(Eval!vars) => EvalIInv'
  BY NextInv
<1> QED BY <1>1, <1>2, PTL DEF Eval!Spec

LEMMA InvReported == ASSUME Eval!ReportingAssumption, EvalIInv PROVE Eval!ReportedAtReturn
<1> SUFFICES ASSUME phase = "returned", faults = 0, resume => given = 1, NEW e \in evals
             PROVE  IF outcome[e] = "noInput" /\ ~resume THEN Eval!RowsOf(e) = {}
                    ELSE \E r \in Eval!RunsOf(e, setRunId) :
                           /\ Eval!RowsOf(e) = {r}
                           /\ runs[r].status =
                                IF outcome[e] = "suspended" THEN "inProgress" ELSE Eval!Verdict(outcome[e] = "ok")
  BY DEF Eval!ReportedAtReturn
<1> USE DEF EvalIInv
<1>1. /\ e \in Evals /\ evalPc[e] = "done"
      /\ \A k \in Eval!Events : task[k] \in {"none", "done"}
      /\ task[Eval!CreateSet] = "done"
  BY EventsAre, TypesAre DEF Control, Eval!Pending, Stages
<1>0. CASE outcome[e] = "noInput" /\ ~resume
  BY <1>0, <1>1 DEF EvalItems, Once, Eval!RowsOf
<1> SUFFICES ASSUME ~(outcome[e] = "noInput" /\ ~resume)
             PROVE  \E r \in Eval!RunsOf(e, setRunId) :
                      /\ Eval!RowsOf(e) = {r}
                      /\ runs[r].status =
                           IF outcome[e] = "suspended" THEN "inProgress" ELSE Eval!Verdict(outcome[e] = "ok")
  BY <1>0
<1>2. runIds[e] # Nothing
  <2>1. CASE resume
    BY <1>1, <2>1, TypesAre DEF Faultless, Ids, Eval!ReportingAssumption
  <2>2. CASE ~resume
    BY <1>1, <2>2, EventsAre DEF EvalItems, Faultless
  <2> QED BY <2>1, <2>2
<1>3. runIds[e] \in DOMAIN runs /\ runs[runIds[e]].item = e /\ runs[runIds[e]].set = setRunId
  BY <1>1, <1>2, TypesAre DEF Ids
<1>4. runIds[e] \in Eval!RunsOf(e, setRunId) /\ Eval!RowsOf(e) = {runIds[e]}
  BY <1>3 DEF Eval!RunsOf, Eval!RowsOf, Once
<1>5. CASE outcome[e] = "suspended"
  <2>1. resume => evals = {e}
    BY <1>1, TypesAre DEF Alone
  <2>2. task[Eval!Update(e)] = "none"
    BY <1>1, <1>5 DEF EvalItems
  <2> QED BY <1>1, <1>3, <1>4, <1>5, <2>1, <2>2 DEF Open
<1>6. CASE outcome[e] # "suspended"
  <2>1. task[Eval!Update(e)] = "done"
    BY <1>1, <1>6, EventsAre DEF EvalItems
  <2> QED BY <1>1, <1>2, <1>4, <1>6, <2>1 DEF Faultless
<1> QED BY <1>5, <1>6

LEMMA InvClosed == ASSUME Eval!ReportingAssumption, EvalIInv PROVE Eval!OwnSetRunClosed
<1> SUFFICES ASSUME phase = "returned", faults = 0, given = Nothing PROVE sets[setRunId] = Eval!Verdict(~anyFailed)
  BY DEF Eval!OwnSetRunClosed
<1>1. task[Eval!CreateSet] = "done" /\ task[Eval!UpdateSet] = "done"
  BY EventsAre, TypesAre DEF EvalIInv, Control, Eval!Pending, Eval!Unfinished, Stages
<1> QED BY <1>1 DEF EvalIInv, Faultless

LEMMA InvOneRun == ASSUME EvalIInv PROVE Eval!OneRunPerItem
<1>1. ASSUME NEW e \in Evals PROVE Eval!Cardinality(Eval!RowsOf(e)) <= 1 + faults
  <2>1. Cardinality(Eval!RowsOf(e)) \in Nat /\ faults \in Nat
    BY ItemRows, TypesAre DEF EvalIInv
  <2>2. Cardinality(Eval!RowsOf(e)) <= faults + (IF Making(e) THEN 0 ELSE 1)
    BY DEF EvalIInv, Few
  <2> QED BY <2>1, <2>2, CardinalityIs
<1> QED BY <1>1 DEF EvalIInv, Single, Eval!RowsOf, Eval!OneRunPerItem

\* Whatever fails and however processes follow each other, the backend's rows
\* are well formed, an item has at most one run more than there were failures
\* and one verdict, and when nothing failed a run that returned has reported how
\* every item ended that the agent could be started for, and closed the set run
\* it opened (_progress_reporter.py, runtime.py 572-655).
THEOREM RunsAlwaysAddUp == Eval!Spec => []RunsAddUp
<1>1. EvalIInv => RunsAddUp
  BY ReportingIsAssumed, InvReported, InvClosed, InvOneRun DEF RunsAddUp, Eval!RunsAddUp, EvalIInv, Types
<1> QED BY <1>1, ReportingIsAssumed, Invariant, PTL

LEMMA FinalStep ==
    ASSUME Eval!ReportingAssumption, EvalIInv, [Eval!Next]_(Eval!vars),
           NEW r \in DOMAIN runs, runs[r].status # "inProgress"
    PROVE  runs'[r].status = runs[r].status
<1> USE DEF Eval!proc, Eval!reporter, Eval!backend, Eval!bounds
<1>1. CASE UNCHANGED runs
  BY <1>1
<1>2. ASSUME NEW e \in Evals, Eval!CreateRunCalls(e) PROVE runs'[r].status = runs[r].status
  BY <1>2, TypesAre DEF Eval!CreateRunCalls, Eval!NewRun, EvalIInv, Types, Rows
<1>3. ASSUME NEW e \in Evals, Eval!UpdateRunCalls(e) PROVE runs'[r].status = runs[r].status
  <2>1. runIds[e] \in DOMAIN runs /\ runs[runIds[e]].item = e
    BY <1>3, TypesAre DEF EvalIInv, Ids, Eval!UpdateRunCalls
  <2>2. resume => evals = {e}
    <3>1. e \in evals /\ task[Eval!CreateSet] # "none"
      BY <1>3, EventsAre, TypesAre DEF EvalIInv, Eval!UpdateRunCalls, EvalItems, Control
    <3> QED BY <3>1, TypesAre DEF EvalIInv, Alone
  <2>3. runs[runIds[e]].status = "inProgress"
    BY <1>3, <2>1, <2>2 DEF EvalIInv, Open, Eval!UpdateRunCalls, Eval!Unfinished
  <2>4. r # runIds[e]
    BY <2>3
  <2>5. Eval!Updated(e)[r] = runs[r]
    BY <2>1, <2>4, TypesAre DEF Eval!Updated, EvalIInv, Types, Rows
  <2> QED BY <1>3, <2>5 DEF Eval!UpdateRunCalls
<1>4. ASSUME Eval!RuntimeStep PROVE UNCHANGED runs
  BY <1>4 DEF Eval!RuntimeStep, Eval!Initiate, Eval!SetRunCreated, Eval!ExecuteReturns, Eval!ExecuteFails,
     Eval!ExecuteRaises, Eval!WaitForAll,
     Eval!LoopEnds, Eval!StartEval, Eval!InputFails, Eval!RunAgent, Eval!EndEval
<1>5. ASSUME Eval!HandlerStep, ~UNCHANGED runs
      PROVE \E e \in Evals : Eval!CreateRunCalls(e) \/ Eval!UpdateRunCalls(e)
  BY <1>5 DEF Eval!HandlerStep, Eval!CreateSetStarts, Eval!CreateSetFetches, Eval!CreateSetCalls,
     Eval!UpdateSetStarts, Eval!UpdateSetCalls,
     Eval!CreateRunStarts, Eval!CreateRunFetches, Eval!UpdateRunStarts
<1>6. ASSUME NEW es, NEW id, Eval!Resume(es, id) PROVE UNCHANGED runs
  BY <1>6 DEF Eval!Resume
<1>7. CASE Eval!WaitTimesOut \/ (\E e \in Evals : Eval!EvalEscapes(e)) \/ UNCHANGED Eval!vars
  BY <1>7 DEF Eval!WaitTimesOut, Eval!EvalEscapes, Eval!vars
<1> QED BY <1>1, <1>2, <1>3, <1>4, <1>5, <1>6, <1>7 DEF Eval!Next

\* The verdict of a run is given once: whatever comes later, calls that failed
\* after they took effect and resumed processes included, it stays as it is
\* (runtime.py 760-763, _progress_reporter.py handle_update_eval_run).
THEOREM FinalVerdictAlwaysKept == Eval!Spec => FinalVerdictKept
<1>1. EvalIInv /\ [Eval!Next]_(Eval!vars) =>
        [\A r \in DOMAIN runs :
            runs[r].status # "inProgress" => runs'[r].status = runs[r].status]_(Eval!vars)
  BY ReportingIsAssumed, FinalStep
<1> QED BY <1>1, ReportingIsAssumed, Invariant, PTL DEF Eval!Spec, FinalVerdictKept, Eval!FinalVerdictKept

===============================================================================
